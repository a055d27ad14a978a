-------------------------- MODULE MacCapsLockRemap --------------------------
(***************************************************************************)
(* Capture of the Caps Lock input-source key by the macOS plugin: while a  *)
(* viewer is focused, Caps Lock is mapped to F20 in UserKeyMapping, which  *)
(* is global to the user and outlives the process.  A lease (flock) tells  *)
(* a live owner from a crashed one and a journal in the preferences holds  *)
(* what to restore.  Each process runs on its main thread; the steps here  *)
(* are its writes to the mapping and the journal, between which it may     *)
(* crash, another process may run, and the user may change the mapping.    *)
(* Reads and writes of the mapping may fail.                               *)
(***************************************************************************)
EXTENDS Naturals

CONSTANTS
  Procs,
  UserMaps,       \* mappings that the user may have: sets of Entries
  MaxFaults,      \* bound on failed reads and writes of the mapping
  MaxCrashes,     \* bound on crashes
  MaxRemaps       \* bound on the user's changes

\* Caps Lock to F20, Caps Lock to another key, another key to F20, another mapping.
Entries == {"caps_f20", "caps_other", "other_f20", "plain"}

ASSUME RemapAssumption ==
  /\ "none" \notin Procs /\ UserMaps \subseteq SUBSET Entries
  /\ {MaxFaults, MaxCrashes, MaxRemaps} \subseteq Nat

VARIABLES
  mapping,        \* UserKeyMapping
  journal,        \* the preference: None, Bad (of an earlier build) or a record
  lease,          \* the process that holds the lease, or "none"
  inst,           \* the plugin object of each process, a record
  user,           \* the mapping the user wants
  raced,          \* the user's change met a write, or looked like the remap
  damaged,        \* a write had a part of its effect
  faults, crashes, remaps

remapVars == <<mapping, journal, lease, inst, user, raced, damaged, faults, crashes, remaps>>

None == [original |-> {"none"}, expected |-> {"none"}]
Bad  == [original |-> {"bad"}, expected |-> {"bad"}]
Readable(j) == j \notin {None, Bad}

\* monitor: the probe is on; owns: of the remap; pc: what the process does next.
NoInstance == [pc |-> "none", monitor |-> FALSE, owns |-> FALSE, stopRequested |-> FALSE,
               retry |-> FALSE, wrote |-> FALSE, leaving |-> "no"]
Fresh      == [NoInstance EXCEPT !.pc = "idle"]

RemapInit ==
  /\ mapping \in UserMaps /\ user = mapping /\ journal \in {None, Bad} /\ lease = "none"
  /\ inst = [p \in Procs |-> NoInstance]
  /\ raced = FALSE /\ damaged = FALSE /\ faults = 0 /\ crashes = 0 /\ remaps = 0

Becomes(p, i) == inst' = [inst EXCEPT ![p] = i]
Idle(p) == inst[p].pc = "idle" /\ inst[p].leaving = "no"

\* The lease of an object that is gone, in a process that goes on.
Leaked(p) == lease = p /\ inst[p].pc = "none"

Fault   == faults < MaxFaults /\ faults' = faults + 1
Fine    == UNCHANGED faults
Unread  == Fault /\ UNCHANGED <<mapping, damaged>>
Read    == Fine /\ UNCHANGED <<mapping, damaged>>
Left    == UNCHANGED <<user, raced, crashes, remaps>>

\* setMacOSUserKeyMapping: it works and says so, or not quite.
setMacOSUserKeyMapping(p, m, i) ==
  /\ \/ Fine /\ mapping' = m /\ Becomes(p, [i EXCEPT !.wrote = TRUE])
     \/ Fault /\ \E wrote \in BOOLEAN :
          /\ mapping' \in (SUBSET m) \cup {mapping}
          /\ Becomes(p, [i EXCEPT !.wrote = wrote])
  /\ damaged' = ((damaged \/ mapping' \notin {m, mapping}) /\ mapping' # user)

----------------------------------------------------------------------------
(* recoverMacOSGlobeKeyProbeCapsLockRemapWhileLeaseHeld: nothing to do; the *)
(* user's state wins; refused; or a write, checked by a readback.           *)

\* Mutant: whatever the mapping is, the journal is cleared.
ClearedAlways == None
Cleared == IF journal = Bad \/ mapping = journal.original THEN None ELSE journal

NothingToRecover ==
  /\ \/ journal = None
     \/ journal = Bad /\ mapping = {}
     \/ Readable(journal) /\ mapping # journal.expected
  /\ journal' = Cleared /\ Read

RecoveryRefused ==
  /\ \/ journal # None /\ Unread
     \/ journal = Bad /\ mapping # {} /\ Read
  /\ UNCHANGED journal

Recovers(p, i) ==
  /\ Readable(journal) /\ mapping = journal.expected
  /\ setMacOSUserKeyMapping(p, journal.original, i) /\ UNCHANGED journal

\* The readback: only then is the journal cleared.
Restored(p) == inst[p].wrote /\ mapping = journal.original /\ Read /\ journal' = None
NotRestored(p) ==
  /\ \/ (~inst[p].wrote \/ mapping # journal.original) /\ Read
     \/ Unread
  /\ UNCHANGED journal

\* Mutant: a process that wants to recover does not ask for the lease.
LeaseIgnored(p) == TRUE
LeaseFree(p)    == lease = "none"

\* withMacOSCapsLockRemapRecoveryLease, from the state i of the object.
RecoverWithLease(p, i) ==
  \/ LeaseFree(p) /\ (NothingToRecover \/ RecoveryRefused) /\ Becomes(p, i) /\ UNCHANGED lease
  \/ LeaseFree(p) /\ Recovers(p, [i EXCEPT !.pc = "recovering"]) /\ lease' = p
  \/ ~LeaseFree(p) /\ Read /\ Becomes(p, i) /\ UNCHANGED <<journal, lease>>

RecoveryEnds(p) ==
  /\ inst[p].pc = "recovering" /\ (Restored(p) \/ NotRestored(p))
  /\ lease' = "none" /\ Becomes(p, [inst[p] EXCEPT !.pc = "idle"]) /\ Left

\* register(with:): a new object, in a new process or not.
Register(p) == inst[p].pc = "none" /\ RecoverWithLease(p, Fresh) /\ Left

----------------------------------------------------------------------------
(* startMacOSGlobeKeyProbe and enableMacOSGlobeKeyProbeCapsLockRemap.       *)

\* Without Caps Lock the probe is on only if the event tap of the other keys is.
WithoutCaps(p) == \E tap \in BOOLEAN : Becomes(p, [inst[p] EXCEPT !.pc = "idle", !.monitor = tap])
WithCaps(p, o) == Becomes(p, [inst[p] EXCEPT !.pc = "idle", !.monitor = TRUE, !.owns = o])

\* Caps Lock may not be an input-source key, or the lease be another's.
StartProbe(p) ==
  /\ Idle(p) /\ ~inst[p].stopRequested /\ ~inst[p].monitor
  /\ \/ Read /\ WithoutCaps(p) /\ UNCHANGED <<journal, lease>>
     \/ LeaseFree(p) /\ NothingToRecover /\ Becomes(p, [inst[p] EXCEPT !.pc = "enabling"]) /\ lease' = p
     \/ LeaseFree(p) /\ RecoveryRefused /\ WithoutCaps(p) /\ UNCHANGED lease
     \/ LeaseFree(p) /\ Recovers(p, [inst[p] EXCEPT !.pc = "enableRecovers"]) /\ lease' = p
  /\ Left

EnableRecovered(p) ==
  /\ inst[p].pc = "enableRecovers"
  /\ \/ Restored(p) /\ Becomes(p, [inst[p] EXCEPT !.pc = "enabling"]) /\ UNCHANGED lease
     \/ NotRestored(p) /\ WithoutCaps(p) /\ lease' = "none"
  /\ Left

\* Mutant: the mapping is written before the journal.
JournalLate == UNCHANGED journal
persist     == journal' = [original |-> mapping, expected |-> mapping \cup {"caps_f20"}]

Conflict == mapping \cap {"other_f20", "caps_other"} # {}
Reusable == ~Conflict /\ "caps_f20" \in mapping

\* A conflict or a failure gives up; the user's own mapping to F20 is used as it is,
\* with the lease kept; else the journal is written, and read back.
EnableRemap(p) ==
  /\ inst[p].pc = "enabling"
  /\ \/ Conflict /\ Read /\ WithoutCaps(p) /\ lease' = "none" /\ UNCHANGED journal
     \/ Unread /\ WithoutCaps(p) /\ lease' = "none" /\ UNCHANGED journal
     \/ Reusable /\ Read /\ WithCaps(p, FALSE) /\ UNCHANGED <<lease, journal>>
     \/ /\ ~Conflict /\ ~Reusable
        /\ \/ persist /\ Read /\ Becomes(p, [inst[p] EXCEPT !.pc = "journalled"]) /\ UNCHANGED lease
           \/ journal' = None /\ Unread /\ WithoutCaps(p) /\ lease' = "none"
  /\ Left

Apply(p) ==
  /\ inst[p].pc = "journalled"
  /\ setMacOSUserKeyMapping(p, journal.expected, [inst[p] EXCEPT !.pc = "applied"])
  /\ UNCHANGED <<journal, lease>> /\ Left

GiveUp(p) == WithoutCaps(p) /\ lease' = "none"

\* The readback after Apply: owner, or roll back what is a part of the remap.
Applied(p) ==
  LET whole == inst[p].wrote /\ mapping = journal.expected
      part  == inst[p].wrote /\ mapping \subseteq journal.expected
  IN  /\ inst[p].pc = "applied"
      /\ \/ whole /\ Read /\ WithCaps(p, TRUE) /\ UNCHANGED <<journal, lease>>
         \/ /\ ~whole /\ part
            /\ setMacOSUserKeyMapping(p, journal.original, [inst[p] EXCEPT !.pc = "rolledBack"])
            /\ UNCHANGED <<journal, lease>>
         \/ ~part /\ Read /\ journal' = Cleared /\ GiveUp(p)
         \/ Unread /\ journal' \in {journal, Cleared} /\ GiveUp(p)
      /\ Left

RolledBack(p) ==
  /\ inst[p].pc = "rolledBack"
  /\ \/ Read /\ journal' = Cleared /\ GiveUp(p)
     \/ Unread /\ UNCHANGED journal /\ GiveUp(p)
  /\ Left

----------------------------------------------------------------------------
(* stopMacOSGlobeKeyProbe and its retry every 100 ms.                       *)

\* releaseMacOSGlobeKeyProbeCapsLockRemapLease: the owner is a weak reference, which
\* is nil in deinit, so that nothing is released there.
Released(p) == IF lease = p /\ inst[p].leaving # "deinit" THEN "none" ELSE lease

Finished(p, i) ==
  /\ Becomes(p, [i EXCEPT !.pc = "idle", !.owns = FALSE, !.stopRequested = FALSE, !.retry = FALSE])
  /\ lease' = Released(p)

\* Mutant: a restoration that failed is not tried again.
NoRetry(p, i) == Becomes(p, [i EXCEPT !.pc = "idle"]) /\ UNCHANGED lease
RetryLater(p, i) ==
  Becomes(p, [i EXCEPT !.pc = "idle", !.retry = i.leaving = "no"]) /\ UNCHANGED lease

\* restoreMacOSGlobeKeyProbeCapsLockRemap.
Restore(p, i) ==
  \/ ~i.owns /\ Read /\ Finished(p, i) /\ UNCHANGED journal
  \/ i.owns /\ ~Readable(journal) /\ Read /\ RetryLater(p, i) /\ UNCHANGED journal
  \/ i.owns /\ Readable(journal) /\ Unread /\ RetryLater(p, i) /\ UNCHANGED journal
  \/ i.owns /\ Readable(journal) /\ mapping # journal.expected /\ Read /\ journal' = Cleared /\ Finished(p, i)
  \/ /\ i.owns /\ Readable(journal) /\ mapping = journal.expected
     /\ setMacOSUserKeyMapping(p, journal.original, [i EXCEPT !.pc = "restoring"])
     /\ UNCHANGED <<journal, lease>>

Stopping(i) == [i EXCEPT !.monitor = FALSE, !.stopRequested = TRUE]

\* From Dart, a lost focus or a disabled tap; Dart may repeat it.
StopProbe(p) == Idle(p) /\ Restore(p, Stopping(inst[p])) /\ Left

RestoreEnds(p) ==
  /\ inst[p].pc = "restoring"
  /\ \/ Restored(p) /\ Finished(p, inst[p])
     \/ NotRestored(p) /\ RetryLater(p, inst[p])
  /\ Left

Retry(p) == Idle(p) /\ inst[p].retry /\ Restore(p, [inst[p] EXCEPT !.retry = FALSE]) /\ Left

\* checkInputSourceSafety, without a capture: what a crash left is recovered.
SafetyCheck(p) ==
  /\ Idle(p) /\ ~inst[p].stopRequested /\ ~inst[p].monitor /\ ~inst[p].owns /\ journal # None
  /\ RecoverWithLease(p, inst[p]) /\ Left

\* willTerminate and deinit: one attempt.
Leave(p, how) ==
  /\ Idle(p)
  /\ Restore(p, [Stopping(inst[p]) EXCEPT !.retry = FALSE, !.leaving = how]) /\ Left

\* The process exits, and with it the lease; after deinit it goes on.
Gone(p) ==
  /\ inst[p].pc = "idle" /\ inst[p].leaving # "no" /\ Becomes(p, NoInstance)
  /\ lease' = IF lease = p /\ inst[p].leaving = "quit" THEN "none" ELSE lease
  /\ Read /\ UNCHANGED journal /\ Left

Crash(p) ==
  /\ inst[p].pc # "none" \/ Leaked(p)
  /\ crashes < MaxCrashes /\ crashes' = crashes + 1
  /\ Becomes(p, NoInstance) /\ lease' = IF lease = p THEN "none" ELSE lease
  /\ Read /\ UNCHANGED <<journal, user, raced, remaps>>

\* The user changes the mapping (hidutil, System Settings).
UserRemaps(m) ==
  /\ remaps < MaxRemaps /\ remaps' = remaps + 1
  /\ mapping' = m /\ user' = m /\ damaged' = FALSE
  /\ raced' = \/ raced \/ m = journal.expected
              \/ \E p \in Procs : \/ inst[p].pc = "journalled"
                                  \/ inst[p].pc = "applied" /\ m \subseteq journal.expected
  /\ UNCHANGED <<journal, lease, inst, faults, crashes>>

RemapCalls ==
  \E p \in Procs :
    \/ Register(p) \/ StartProbe(p) \/ StopProbe(p) \/ SafetyCheck(p)
    \/ \E how \in {"quit", "deinit"} : Leave(p, how)

Goes(p) ==
  \/ RecoveryEnds(p) \/ EnableRecovered(p) \/ EnableRemap(p) \/ Apply(p) \/ Applied(p) \/ RolledBack(p)
  \/ RestoreEnds(p) \/ Retry(p) \/ Gone(p)

RemapEvents ==
  \/ \E p \in Procs : Goes(p) \/ Crash(p)
  \/ \E m \in UserMaps : UserRemaps(m)

\* A main thread goes on, and the retry timer fires.
RemapFairness == \A p \in Procs : WF_remapVars(Goes(p))

----------------------------------------------------------------------------
RemapTypeOK ==
  /\ mapping \subseteq Entries /\ user \in UserMaps /\ lease \in Procs \cup {"none"}
  /\ \A p \in Procs : inst[p].pc \in {"none", "idle", "recovering", "enabling", "enableRecovers",
                                      "journalled", "applied", "rolledBack", "restoring"}
  /\ {raced, damaged} \subseteq BOOLEAN

\* Whenever the user's mapping is not in force, whatever crashed or failed, the journal
\* says how to get from the mapping that is back to the user's.  (Not if the user
\* changed it in the middle of a write, or a write had a part of its effect that could
\* not be undone.)
Restorable ==
  mapping # user /\ ~raced /\ ~damaged =>
    Readable(journal) /\ journal.original = user /\ journal.expected = mapping

\* A remap has one live owner, who holds the lease and can restore; neither another
\* process nor a recovery takes its mapping away while it uses it.
OneOwner ==
  \A p \in Procs : inst[p].owns =>
    /\ lease = p /\ Readable(journal)
    /\ Idle(p) /\ ~inst[p].stopRequested => mapping = journal.expected \/ mapping = user \/ damaged

\* "A normal quit never leaves the user's Caps Lock mapping behind."
QuitsClean ==
  (\A p \in Procs : inst[p].pc = "none") /\ crashes = 0 /\ faults = 0 /\ ~raced => mapping = user

\* The remap can be undone at any time, has one live owner, and is gone after a quit.
RemapSound == Restorable /\ OneOwner /\ QuitsClean
=============================================================================
