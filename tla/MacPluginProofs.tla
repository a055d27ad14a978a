--------------------------- MODULE MacPluginProofs ---------------------------
(***************************************************************************)
(* Proofs about MacPlugin and its two captures for every value of the      *)
(* constants: any processes, mappings, keys, owners and numbers of calls,  *)
(* faults, crashes and heartbeats.                                         *)
(***************************************************************************)
EXTENDS MacPlugin, SequenceTheorems, TLAPS

----------------------------------------------------------------------------
(* The Caps Lock remap: the inductive invariant.                           *)

Pcs  == {"none", "idle", "recovering", "enabling", "enableRecovers", "journalled", "applied",
         "rolledBack", "restoring"}
Busy == Pcs \ {"none", "idle"}

Insts == [pc : Pcs, monitor : BOOLEAN, owns : BOOLEAN, stopRequested : BOOLEAN, retry : BOOLEAN,
          wrote : BOOLEAN, leaving : {"no", "quit", "deinit"}]

RemapForm ==
  /\ mapping \subseteq Entries /\ user \in UserMaps /\ lease \in Procs \cup {"none"}
  /\ raced \in BOOLEAN /\ damaged \in BOOLEAN /\ faults \in Nat /\ crashes \in Nat
  /\ damaged => mapping # user

\* A journal is of a mapping without Caps Lock to F20, and of what it becomes with it.
JournalForm ==
  Readable(journal) =>
    /\ journal.original \subseteq Entries \ {"caps_f20"}
    /\ journal.expected = journal.original \cup {"caps_f20"}

\* What a write in part left is a part of the user's mapping, and so is every later
\* journal; and the user never wants what the journal takes for the remap.
DamageForm ==
  ~raced =>
    /\ damaged => /\ "caps_f20" \notin user /\ mapping \ {"caps_f20"} \subseteq user
                  /\ Readable(journal) => journal.original \subseteq user
    /\ Readable(journal) => user # journal.expected

RemapWorld == RemapForm /\ JournalForm /\ DamageForm /\ Restorable

\* What a process knows of the shared state at the point where it is.
Knows(i) ==
  /\ i.pc = "enabling" => mapping = user \/ damaged
  /\ i.pc = "journalled" =>
       /\ "caps_f20" \notin user /\ journal.original \subseteq user
       /\ mapping = journal.original
       /\ ~damaged => mapping = user
  /\ i.pc = "applied" /\ mapping \subseteq journal.expected =>
       /\ "caps_f20" \notin user /\ journal.original \subseteq user
       /\ ~damaged => journal.original = user

\* A process p whose object is i, apart from the others.
At(i, p) ==
  /\ i.pc \in Busy => lease = p /\ (i.pc # "restoring" => i.leaving = "no")
  /\ i.pc \in Busy \ {"enabling"} => Readable(journal)
  /\ i.owns => lease = p /\ i.pc \in {"idle", "restoring"} /\ Readable(journal)
  /\ i.pc = "restoring" => i.owns /\ i.stopRequested
  /\ i.retry => i.stopRequested
  /\ ~raced => Knows(i)
  /\ i.owns /\ i.pc = "idle" /\ i.leaving = "no" /\ ~i.stopRequested =>
       mapping = journal.expected \/ mapping = user \/ damaged

\* Someone who is going to restore the user's mapping.
Holder(i) ==
  \/ i.pc = "applied" /\ i.wrote
  \/ i.owns /\ i.pc = "idle" /\ i.leaving = "no"

Calm == crashes = 0 /\ faults = 0 /\ ~raced

QuitForm == Calm => ~damaged /\ (mapping # user => \E p \in Procs : Holder(inst[p]))

ProcForm == inst \in [Procs -> Insts] /\ \A p \in Procs : At(inst[p], p)

RemapIInv == RemapWorld /\ ProcForm /\ QuitForm

----------------------------------------------------------------------------
(* The Caps Lock remap: one process at a time.                             *)

\* What a step of p may do to the others: nothing without the lease.
Exclusive(p) ==
  UNCHANGED <<mapping, journal, damaged, lease>> \/ lease = p \/ lease = "none"

\* A process without the lease is not disturbed by one that has it.
LEMMA OthersKeep ==
  ASSUME NEW p \in Procs, NEW q \in Procs, q # p, NEW i, At(i, q), UNCHANGED <<user, raced>>,
         Exclusive(p)
  PROVE  At(i, q)'
<1>1. CASE UNCHANGED <<mapping, journal, damaged, lease>>
  BY <1>1 DEF At, Knows
<1>2. CASE lease = p \/ lease = "none"
  <2>1. lease # q
    BY <1>2, RemapAssumption
  <2>2. i.pc \notin Busy /\ ~i.owns /\ (i.retry => i.stopRequested)
    BY <2>1, Zenon DEF At
  <2> QED
    BY <2>2, Zenon DEF At, Knows, Busy, Pcs
<1> QED BY <1>1, <1>2 DEF Exclusive

\* What a step of p has to show.
StepOf(p, i) ==
  /\ Becomes(p, i) /\ UNCHANGED <<user, raced>> /\ Exclusive(p)
  /\ (Calm' => Calm /\ ~damaged' /\ (mapping' # user' => Holder(i) \/ (mapping' = mapping /\ ~Holder(inst[p]))))

LEMMA StepKeeps ==
  ASSUME RemapIInv, NEW p \in Procs, NEW i \in Insts, StepOf(p, i), RemapWorld', At(i, p)'
  PROVE  RemapIInv'
<1>1. /\ inst' \in [Procs -> Insts] /\ inst'[p] = i
      /\ \A q \in Procs : q # p => inst'[q] = inst[q]
  BY DEF StepOf, Becomes, RemapIInv, ProcForm
<1>2. ProcForm'
  <2>1. ASSUME NEW q \in Procs PROVE At(inst[q], q)'
    <3>1. CASE q = p
      BY <1>1, <3>1, Zenon
    <3>2. CASE q # p
      <4>1. PICK j : j = inst[q]
        BY Zenon
      <4>2. At(j, q)
        BY <4>1, Zenon DEF RemapIInv, ProcForm
      <4>3. At(j, q)'
        BY <3>2, <4>2, OthersKeep, Zenon DEF StepOf
      <4> QED BY <1>1, <3>2, <4>1, <4>3, Zenon
    <3> QED BY <3>1, <3>2
  <2> QED BY <1>1, <2>1, Zenon DEF ProcForm
<1>3. QuitForm'
  <2>1. SUFFICES ASSUME Calm' PROVE ~damaged' /\ (mapping' # user' => \E q \in Procs : Holder(inst'[q]))
    BY Zenon DEF QuitForm, Holder
  <2>2. Calm /\ ~damaged' /\ (mapping' # user' => Holder(i) \/ (mapping' = mapping /\ ~Holder(inst[p])))
    BY <2>1, Zenon DEF StepOf
  <2>3. ASSUME mapping' # user', mapping' = mapping, ~Holder(inst[p]) PROVE \E q \in Procs : Holder(inst'[q])
    <3>1. mapping # user
      BY <2>3 DEF StepOf
    <3>2. PICK q \in Procs : Holder(inst[q])
      BY <2>2, <3>1, Zenon DEF RemapIInv, QuitForm
    <3> QED BY <1>1, <2>3, <3>2, Zenon
  <2> QED BY <1>1, <2>2, <2>3, Zenon
<1> QED BY <1>2, <1>3 DEF RemapIInv

----------------------------------------------------------------------------
(* The Caps Lock remap: what the steps of a process do to what is shared.  *)

CountersOK == lease' \in Procs \cup {"none"} /\ faults' \in Nat /\ crashes' \in Nat

\* Nothing readable looks like no journal.
LEMMA RecordIsReadable ==
  ASSUME NEW o \in SUBSET Entries, NEW e
  PROVE  Readable([original |-> o, expected |-> e])
<1>1. "none" \notin o /\ "bad" \notin o
  BY DEF Entries
<1>2. o # {"none"} /\ o # {"bad"}
  BY <1>1
<1> QED
  BY <1>2 DEF Readable, None, Bad

LEMMA ReadKeeps ==
  ASSUME RemapWorld, CountersOK, UNCHANGED <<mapping, damaged, user, raced, journal>>
  PROVE  RemapWorld'
  BY DEF RemapWorld, CountersOK, RemapForm, JournalForm, DamageForm, Restorable

\* A journal is dropped where it is of no use: the user's mapping is in force, or
\* what is in force is damaged.
LEMMA DropKeeps ==
  ASSUME RemapWorld, CountersOK, UNCHANGED <<mapping, damaged, user, raced>>, journal' = None,
         ~raced /\ ~damaged => mapping = user
  PROVE  RemapWorld'
<1>1. ~Readable(None)
  BY DEF Readable
<1> QED
  BY <1>1 DEF RemapWorld, CountersOK, RemapForm, JournalForm, DamageForm, Restorable

\* Unless it is the journal of the mapping in force, it is of no use.
LEMMA NoUse ==
  ASSUME RemapWorld, mapping # journal.expected \/ ~Readable(journal)
  PROVE  ~raced /\ ~damaged => mapping = user
  BY DEF RemapWorld, Restorable

LEMMA OriginalNoUse ==
  ASSUME RemapWorld, mapping = journal.original
  PROVE  ~raced /\ ~damaged => mapping = user
<1>1. Readable(journal) => journal.original # journal.expected
  BY DEF RemapWorld, JournalForm
<1> QED
  BY <1>1, NoUse

LEMMA ClearedKeeps ==
  ASSUME RemapWorld, CountersOK, UNCHANGED <<mapping, damaged, user, raced>>, journal' = Cleared
  PROVE  RemapWorld'
<1>1. CASE journal' = journal
  BY <1>1, ReadKeeps
<1>2. CASE journal = Bad /\ journal' = None
  <2>1. ~Readable(journal)
    BY <1>2 DEF Readable
  <2> QED BY <1>2, <2>1, NoUse, DropKeeps
<1>3. CASE mapping = journal.original /\ journal' = None
  BY <1>3, OriginalNoUse, DropKeeps
<1> QED
  BY <1>1, <1>2, <1>3, Zenon DEF Cleared

\* What the journal says can be written without harm.
Trusted ==
  ~raced => /\ "caps_f20" \notin user /\ journal.original \subseteq user
            /\ ~damaged => journal.original = user

\* A write of m, and whether it said that it worked.
Written(m, w) ==
  /\ \/ faults' = faults /\ mapping' = m /\ w = TRUE
     \/ faults' = faults + 1 /\ mapping' \in (SUBSET m) \cup {mapping}
  /\ damaged' = ((damaged \/ mapping' \notin {m, mapping}) /\ mapping' # user)

LEMMA WriteCases ==
  ASSUME NEW p \in Procs, NEW i \in Insts, NEW m, setMacOSUserKeyMapping(p, m, i)
  PROVE  \E w \in BOOLEAN : Written(m, w) /\ Becomes(p, [i EXCEPT !.wrote = w])
  BY Zenon DEF setMacOSUserKeyMapping, Written, Fault, Fine

LEMMA WriteKeeps ==
  ASSUME RemapWorld, CountersOK, UNCHANGED <<journal, user, raced>>, Readable(journal), Trusted,
         NEW m \in {journal.original, journal.expected}, NEW w, Written(m, w)
  PROVE  RemapWorld' /\ Trusted' /\ damaged' \in BOOLEAN
<1>1. /\ journal.original \subseteq Entries \ {"caps_f20"}
      /\ journal.expected = journal.original \cup {"caps_f20"}
      /\ "caps_f20" \in Entries
  BY DEF RemapWorld, JournalForm, Entries
<1>2. mapping' \subseteq m \/ mapping' = mapping
  <2>1. mapping' = m \/ mapping' \in (SUBSET m) \cup {mapping}
    BY Zenon DEF Written
  <2> QED BY <2>1
<1>3. mapping' \subseteq Entries
  BY <1>1, <1>2 DEF RemapWorld, RemapForm
<1>4. damaged' \in BOOLEAN /\ (damaged' <=> (damaged \/ (mapping' # m /\ mapping' # mapping)) /\ mapping' # user)
  BY DEF Written
<1>5. RemapForm'
  BY <1>3, <1>4 DEF RemapWorld, RemapForm, CountersOK
<1>6. JournalForm'
  BY DEF RemapWorld, JournalForm
<1>7. ASSUME ~raced
      PROVE  /\ "caps_f20" \notin user /\ journal.original \subseteq user
             /\ ~damaged' => journal.original = user
             /\ mapping' \ {"caps_f20"} \subseteq user
             /\ user # journal.expected
  <2>1. "caps_f20" \notin user /\ journal.original \subseteq user /\ (~damaged => journal.original = user)
    BY <1>7 DEF Trusted
  <2>2. mapping \ {"caps_f20"} \subseteq user
    <3>1. CASE damaged
      BY <1>7, <3>1 DEF RemapWorld, DamageForm
    <3>2. CASE ~damaged
      BY <1>1, <1>7, <2>1, <3>2 DEF RemapWorld, Restorable
    <3> QED BY <3>1, <3>2
  <2>3. mapping' \ {"caps_f20"} \subseteq user
    BY <1>1, <1>2, <2>1, <2>2
  <2>4. ASSUME ~damaged', damaged PROVE journal.original = user
    <3>1. mapping' = user /\ mapping # user
      BY <1>4, <2>4 DEF RemapWorld, RemapForm
    <3>2. user \subseteq m
      BY <1>2, <3>1
    <3> QED BY <1>1, <2>1, <3>2
  <2> QED BY <1>1, <2>1, <2>3, <2>4
<1>8. DamageForm'
  BY <1>7 DEF DamageForm
<1>9. Restorable'
  <2>1. SUFFICES ASSUME mapping' # user, ~raced, ~damaged'
                 PROVE  journal.original = user /\ journal.expected = mapping'
    BY DEF Restorable
  <2>2. journal.original = user /\ ~damaged
    BY <1>4, <1>7, <2>1
  <2>3. mapping' = m \/ mapping' = mapping
    BY <1>4, <2>1
  <2>4. CASE mapping' = m
    BY <2>1, <2>2, <2>4
  <2>5. CASE mapping' = mapping
    BY <2>1, <2>2, <2>5 DEF RemapWorld, Restorable
  <2> QED BY <2>2, <2>3, <2>4, <2>5
<1> QED
  BY <1>4, <1>5, <1>6, <1>7, <1>8, <1>9 DEF RemapWorld, Trusted

\* A mapping that is what the journal expects is the remap, not the user's.
LEMMA ExpectedTrusted ==
  ASSUME RemapWorld, Readable(journal), mapping = journal.expected
  PROVE  Trusted
<1>1. SUFFICES ASSUME ~raced PROVE "caps_f20" \notin user /\ journal.original \subseteq user /\ (~damaged => journal.original = user)
  BY DEF Trusted
<1>2. mapping # user
  BY <1>1 DEF RemapWorld, DamageForm
<1>3. CASE damaged
  BY <1>1, <1>3 DEF RemapWorld, DamageForm
<1>4. CASE ~damaged
  BY <1>1, <1>2, <1>4 DEF RemapWorld, Restorable, JournalForm
<1> QED BY <1>3, <1>4

----------------------------------------------------------------------------
(* The Caps Lock remap: the actions of a process.                          *)

\* The fields of an object of which some were set.
LEMMA InstFields ==
  ASSUME NEW i \in Insts
  PROVE  /\ i.pc \in Pcs /\ i.leaving \in {"no", "quit", "deinit"}
         /\ i.owns \in BOOLEAN /\ i.stopRequested \in BOOLEAN /\ i.retry \in BOOLEAN
         /\ i.wrote \in BOOLEAN /\ i.monitor \in BOOLEAN
  BY DEF Insts

LEMMA SetPc ==
  ASSUME NEW i \in Insts, NEW c \in Pcs
  PROVE  \E j \in Insts :
           /\ j = [i EXCEPT !.pc = c]
           /\ j.pc = c
           /\ j.owns = i.owns
           /\ j.stopRequested = i.stopRequested /\ j.retry = i.retry
           /\ j.wrote = i.wrote
           /\ j.leaving = i.leaving
<1> DEFINE k == [i EXCEPT !.pc = c]
<1>1. k \in Insts
  BY DEF Insts
<1>2. k.pc = c
  BY DEF Insts
<1>3. k.owns = i.owns
  BY DEF Insts
<1>4. k.stopRequested = i.stopRequested /\ k.retry = i.retry
  BY DEF Insts
<1>5. k.wrote = i.wrote
  BY DEF Insts
<1>6. k.leaving = i.leaving
  BY DEF Insts
<1> QED BY <1>1, <1>2, <1>3, <1>4, <1>5, <1>6, Zenon

LEMMA SetWrote ==
  ASSUME NEW i \in Insts, NEW w \in BOOLEAN
  PROVE  \E j \in Insts :
           /\ j = [i EXCEPT !.wrote = w]
           /\ j.pc = i.pc
           /\ j.owns = i.owns
           /\ j.stopRequested = i.stopRequested /\ j.retry = i.retry
           /\ j.wrote = w
           /\ j.leaving = i.leaving
<1> DEFINE k == [i EXCEPT !.wrote = w]
<1>1. k \in Insts
  BY DEF Insts
<1>2. k.pc = i.pc
  BY DEF Insts
<1>3. k.owns = i.owns
  BY DEF Insts
<1>4. k.stopRequested = i.stopRequested /\ k.retry = i.retry
  BY DEF Insts
<1>5. k.wrote = w
  BY DEF Insts
<1>6. k.leaving = i.leaving
  BY DEF Insts
<1> QED BY <1>1, <1>2, <1>3, <1>4, <1>5, <1>6, Zenon

LEMMA SetMonitor ==
  ASSUME NEW i \in Insts, NEW w \in BOOLEAN
  PROVE  \E j \in Insts :
           /\ j = [i EXCEPT !.pc = "idle", !.monitor = w]
           /\ j.pc = "idle"
           /\ j.owns = i.owns
           /\ j.stopRequested = i.stopRequested /\ j.retry = i.retry
           /\ j.leaving = i.leaving
<1> DEFINE k == [i EXCEPT !.pc = "idle", !.monitor = w]
<1>1. k \in Insts
  BY DEF Insts, Pcs
<1>2. k.pc = "idle"
  BY DEF Insts, Pcs
<1>3. k.owns = i.owns
  BY DEF Insts, Pcs
<1>4. k.stopRequested = i.stopRequested /\ k.retry = i.retry
  BY DEF Insts, Pcs
<1>5. k.leaving = i.leaving
  BY DEF Insts, Pcs
<1> QED BY <1>1, <1>2, <1>3, <1>4, <1>5, Zenon

LEMMA SetOwns ==
  ASSUME NEW i \in Insts, NEW o \in BOOLEAN
  PROVE  \E j \in Insts :
           /\ j = [i EXCEPT !.pc = "idle", !.monitor = TRUE, !.owns = o]
           /\ j.pc = "idle"
           /\ j.owns = o
           /\ j.stopRequested = i.stopRequested /\ j.retry = i.retry
           /\ j.leaving = i.leaving
<1> DEFINE k == [i EXCEPT !.pc = "idle", !.monitor = TRUE, !.owns = o]
<1>1. k \in Insts
  BY DEF Insts, Pcs
<1>2. k.pc = "idle"
  BY DEF Insts, Pcs
<1>3. k.owns = o
  BY DEF Insts, Pcs
<1>4. k.stopRequested = i.stopRequested /\ k.retry = i.retry
  BY DEF Insts, Pcs
<1>5. k.leaving = i.leaving
  BY DEF Insts, Pcs
<1> QED BY <1>1, <1>2, <1>3, <1>4, <1>5, Zenon

LEMMA SetFinished ==
  ASSUME NEW i \in Insts
  PROVE  \E j \in Insts :
           /\ j = [i EXCEPT !.pc = "idle", !.owns = FALSE, !.stopRequested = FALSE, !.retry = FALSE]
           /\ j.pc = "idle"
           /\ j.owns = FALSE
           /\ j.retry = FALSE
<1> DEFINE k == [i EXCEPT !.pc = "idle", !.owns = FALSE, !.stopRequested = FALSE, !.retry = FALSE]
<1>1. k \in Insts
  BY DEF Insts, Pcs
<1>2. k.pc = "idle"
  BY DEF Insts, Pcs
<1>3. k.owns = FALSE
  BY DEF Insts, Pcs
<1>4. k.retry = FALSE
  BY DEF Insts, Pcs
<1> QED BY <1>1, <1>2, <1>3, <1>4, Zenon

LEMMA SetRetry ==
  ASSUME NEW i \in Insts, NEW r \in BOOLEAN
  PROVE  \E j \in Insts :
           /\ j = [i EXCEPT !.pc = "idle", !.retry = r]
           /\ j.pc = "idle"
           /\ j.owns = i.owns
           /\ j.stopRequested = i.stopRequested
           /\ j.leaving = i.leaving
<1> DEFINE k == [i EXCEPT !.pc = "idle", !.retry = r]
<1>1. k \in Insts
  BY DEF Insts, Pcs
<1>2. k.pc = "idle"
  BY DEF Insts, Pcs
<1>3. k.owns = i.owns
  BY DEF Insts, Pcs
<1>4. k.stopRequested = i.stopRequested
  BY DEF Insts, Pcs
<1>5. k.leaving = i.leaving
  BY DEF Insts, Pcs
<1> QED BY <1>1, <1>2, <1>3, <1>4, <1>5, Zenon

LEMMA SetStopping ==
  ASSUME NEW i \in Insts
  PROVE  \E j \in Insts :
           /\ j = Stopping(i)
           /\ j.pc = i.pc
           /\ j.owns = i.owns
           /\ j.stopRequested = TRUE
<1> DEFINE k == Stopping(i)
<1>1. k \in Insts
  BY DEF Insts, Stopping
<1>2. k.pc = i.pc
  BY DEF Insts, Stopping
<1>3. k.owns = i.owns
  BY DEF Insts, Stopping
<1>4. k.stopRequested = TRUE
  BY DEF Insts, Stopping
<1> QED BY <1>1, <1>2, <1>3, <1>4, Zenon

LEMMA SetLeaving ==
  ASSUME NEW i \in Insts, NEW how \in {"quit", "deinit"}
  PROVE  \E j \in Insts :
           /\ j = [Stopping(i) EXCEPT !.retry = FALSE, !.leaving = how]
           /\ j.pc = i.pc
           /\ j.owns = i.owns
           /\ j.stopRequested = TRUE
<1> DEFINE k == [Stopping(i) EXCEPT !.retry = FALSE, !.leaving = how]
<1>1. k \in Insts
  BY DEF Insts, Stopping
<1>2. k.pc = i.pc
  BY DEF Insts, Stopping
<1>3. k.owns = i.owns
  BY DEF Insts, Stopping
<1>4. k.stopRequested = TRUE
  BY DEF Insts, Stopping
<1> QED BY <1>1, <1>2, <1>3, <1>4, Zenon

LEMMA SetNoRetry ==
  ASSUME NEW i \in Insts
  PROVE  \E j \in Insts :
           /\ j = [i EXCEPT !.retry = FALSE]
           /\ j.pc = i.pc
           /\ j.owns = i.owns
           /\ j.stopRequested = i.stopRequested
<1> DEFINE k == [i EXCEPT !.retry = FALSE]
<1>1. k \in Insts
  BY DEF Insts
<1>2. k.pc = i.pc
  BY DEF Insts
<1>3. k.owns = i.owns
  BY DEF Insts
<1>4. k.stopRequested = i.stopRequested
  BY DEF Insts
<1> QED BY <1>1, <1>2, <1>3, <1>4, Zenon

\* Objects of a process at rest.
LEMMA RestingInsts ==
  /\ NoInstance \in Insts /\ Fresh \in Insts
  /\ NoInstance.pc = "none" /\ NoInstance.owns = FALSE /\ NoInstance.retry = FALSE
  /\ Fresh.pc = "idle" /\ Fresh.owns = FALSE /\ Fresh.retry = FALSE /\ Fresh.leaving = "no"
  BY DEF NoInstance, Fresh, Insts, Pcs

\* An object at rest that owns nothing knows nothing.
LEMMA RestingAt ==
  ASSUME NEW i \in Insts, i.pc \in {"none", "idle"}, i.owns = FALSE, i.retry => i.stopRequested, NEW p
  PROVE  At(i, p)' /\ At(i, p)
  BY DEF At, Knows, Busy, Pcs

\* A step that leaves the mapping alone.
LEMMA ReadStep ==
  ASSUME RemapIInv, NEW p \in Procs, NEW i \in Insts, Becomes(p, i), UNCHANGED <<mapping, damaged>>, Left,
         faults' = faults \/ faults' = faults + 1, Exclusive(p), RemapWorld', At(i, p)',
         Holder(inst[p]) /\ faults' = faults => Holder(i) \/ ~Calm \/ mapping = user
  PROVE  RemapIInv'
<1>1. faults \in Nat /\ (Calm => ~damaged)
  BY Zenon DEF RemapIInv, RemapWorld, RemapForm, QuitForm
<1>2. Calm' => Calm /\ faults' = faults
  BY <1>1 DEF Calm, Left
<1>3. StepOf(p, i)
  BY <1>1, <1>2 DEF StepOf, Left
<1> QED BY <1>3, StepKeeps

\* A step that writes the mapping.
LEMMA WriteStep ==
  ASSUME RemapIInv, NEW p \in Procs, NEW i \in Insts, Becomes(p, i), Left, UNCHANGED journal,
         NEW m, NEW w, Written(m, w), i.wrote = w, Readable(journal), Trusted,
         m = journal.original \/ (m = journal.expected /\ i.pc = "applied"),
         lease' \in Procs \cup {"none"}, lease = p \/ lease = "none", At(i, p)'
  PROVE  RemapIInv'
<1>1. /\ faults \in Nat /\ crashes \in Nat /\ damaged \in BOOLEAN /\ (Calm => ~damaged)
      /\ RemapWorld
  BY Zenon DEF RemapIInv, RemapWorld, RemapForm, QuitForm
<1>2. faults' = faults \/ faults' = faults + 1
  BY Zenon DEF Written
<1>3. CountersOK /\ UNCHANGED <<journal, user, raced>>
  BY <1>1, <1>2 DEF CountersOK, Left
<1>4. RemapWorld'
  BY <1>1, <1>3, WriteKeeps
<1>5. ASSUME Calm' PROVE Calm /\ ~damaged' /\ (mapping' # user' => Holder(i))
  <2>1. Calm /\ faults' = faults /\ ~damaged /\ faults' # faults + 1
    BY <1>1, <1>2, <1>5 DEF Calm, Left
  <2>2. mapping' = m /\ w = TRUE
    BY <2>1, Zenon DEF Written
  <2>3. ~damaged'
    BY <2>1, <2>2 DEF Written
  <2>4. journal.original = user
    BY <2>1 DEF Calm, Trusted
  <2>5. mapping' # user' => m # journal.original
    BY <2>2, <2>4 DEF Left
  <2>6. i.wrote
    BY <2>2
  <2> QED BY <2>1, <2>3, <2>5, <2>6, Zenon DEF Holder
<1>6. StepOf(p, i)
  BY <1>3, <1>5, Zenon DEF StepOf, Exclusive
<1> QED BY <1>4, <1>6, StepKeeps

\* What holds of a process before its step.
LEMMA Before ==
  ASSUME RemapIInv, NEW p \in Procs
  PROVE  /\ RemapWorld /\ inst[p] \in Insts /\ At(inst[p], p) /\ p # "none"
         /\ lease \in Procs \cup {"none"} /\ faults \in Nat /\ crashes \in Nat
  BY RemapAssumption DEF RemapIInv, RemapWorld, RemapForm, ProcForm

\* Reads that may fail.
LEMMA ReadCases ==
  ASSUME RemapIInv, NEW p \in Procs, Read \/ Unread, Left, lease' \in Procs \cup {"none"}
  PROVE  /\ UNCHANGED <<mapping, damaged, user, raced>> /\ CountersOK
         /\ faults' = faults \/ faults' = faults + 1
<1>1. UNCHANGED <<mapping, damaged, user, raced>> /\ crashes' = crashes
  BY Zenon DEF Read, Unread, Left
<1>2. faults' = faults \/ faults' = faults + 1
  BY Zenon DEF Read, Unread, Fine, Fault
<1>3. CountersOK
  BY <1>1, <1>2, Before DEF CountersOK
<1> QED BY <1>1, <1>2, <1>3

\* Recovery before a write: what is in force is the user's, or the journal is left alone.
LEMMA RecoveryKeeps ==
  ASSUME RemapIInv, NEW p \in Procs, NothingToRecover \/ RecoveryRefused, Left,
         lease' \in Procs \cup {"none"}
  PROVE  /\ UNCHANGED <<mapping, damaged, user, raced>> /\ (faults' = faults \/ faults' = faults + 1)
         /\ RemapWorld'
         /\ NothingToRecover => (~raced /\ ~damaged => mapping = user)
<1>1. Read \/ Unread
  BY Zenon DEF NothingToRecover, RecoveryRefused
<1>2. journal' = journal \/ journal' = Cleared
  BY Zenon DEF NothingToRecover, RecoveryRefused
<1>3. RemapWorld
  BY Before
<1>4. RemapWorld'
  BY <1>1, <1>2, <1>3, ReadCases, ReadKeeps, ClearedKeeps
<1>5. ASSUME NothingToRecover PROVE ~raced /\ ~damaged => mapping = user
  <2>1. ~Readable(journal) \/ mapping # journal.expected
    BY <1>5, Zenon DEF NothingToRecover, Readable
  <2> QED BY <1>3, <2>1, NoUse
<1> QED BY <1>1, <1>4, <1>5, ReadCases

\* A recovery that begins to write.
LEMMA RecoverWrites ==
  ASSUME RemapIInv, NEW p \in Procs, NEW i \in Insts, i.pc \in {"recovering", "enableRecovers"}, i.owns = FALSE,
         i.leaving = "no", i.retry => i.stopRequested, lease = "none", Recovers(p, i), lease' = p, Left
  PROVE  RemapIInv'
<1>1. Readable(journal) /\ mapping = journal.expected /\ UNCHANGED journal /\ Trusted
  <2>1. Readable(journal) /\ mapping = journal.expected /\ UNCHANGED journal
    BY Zenon DEF Recovers
  <2> QED BY <2>1, Before, ExpectedTrusted
<1>2. PICK w \in BOOLEAN : Written(journal.original, w) /\ Becomes(p, [i EXCEPT !.wrote = w])
  BY WriteCases, Zenon DEF Recovers
<1>3. PICK j \in Insts :
        /\ j = [i EXCEPT !.wrote = w]
        /\ j.pc = i.pc
        /\ j.owns = i.owns
        /\ j.stopRequested = i.stopRequested /\ j.retry = i.retry
        /\ j.wrote = w
        /\ j.leaving = i.leaving
  BY SetWrote, Zenon
<1>4. Readable(journal)'
  BY <1>1
<1>5. At(j, p)'
  BY <1>3, <1>4 DEF At, Knows, Busy
<1>6. Becomes(p, j)
  BY <1>2, <1>3, Zenon
<1> QED
  BY <1>1, <1>2, <1>3, <1>5, <1>6, WriteStep

\* withMacOSCapsLockRemapRecoveryLease.
LEMMA RecoverKeeps ==
  ASSUME RemapIInv, NEW p \in Procs, NEW i \in Insts, i.pc = "idle", i.owns = FALSE, i.leaving = "no",
         i.retry => i.stopRequested, ~Holder(inst[p]), RecoverWithLease(p, i), Left
  PROVE  RemapIInv'
<1>1. CASE LeaseFree(p) /\ (NothingToRecover \/ RecoveryRefused) /\ Becomes(p, i) /\ UNCHANGED lease
  <2>1. lease = "none" /\ lease' \in Procs \cup {"none"}
    BY <1>1, Before DEF LeaseFree
  <2> QED
    BY <1>1, <2>1, RecoveryKeeps, RestingAt, ReadStep DEF Exclusive
<1>2. CASE LeaseFree(p) /\ Recovers(p, [i EXCEPT !.pc = "recovering"]) /\ lease' = p
  <2>1. PICK j \in Insts :
          /\ j = [i EXCEPT !.pc = "recovering"]
          /\ j.pc = "recovering"
          /\ j.owns = i.owns
          /\ j.stopRequested = i.stopRequested /\ j.retry = i.retry
          /\ j.wrote = i.wrote
          /\ j.leaving = i.leaving
    <3>1. "recovering" \in Pcs
      BY DEF Pcs
    <3> QED BY <3>1, SetPc, Zenon
  <2>2. Recovers(p, j)
    BY <1>2, <2>1, Zenon
  <2> QED
    BY <1>2, <2>1, <2>2, RecoverWrites DEF LeaseFree
<1>3. CASE Read /\ Becomes(p, i) /\ UNCHANGED <<journal, lease>>
  <2>1. lease' \in Procs \cup {"none"} /\ RemapWorld
    BY <1>3, Before
  <2>2. UNCHANGED <<mapping, damaged, user, raced, journal>> /\ CountersOK /\ (faults' = faults \/ faults' = faults + 1)
    BY <1>3, <2>1, ReadCases
  <2>3. RemapWorld'
    BY <2>1, <2>2, ReadKeeps
  <2> QED
    BY <1>3, <2>2, <2>3, RestingAt, ReadStep DEF Exclusive
<1> QED
  BY <1>1, <1>2, <1>3, Zenon DEF RecoverWithLease

\* A process that gives up, or goes on without Caps Lock.
LEMMA WithoutKeeps ==
  ASSUME RemapIInv, NEW p \in Procs, inst[p].pc \in Busy, WithoutCaps(p), ~inst[p].owns, ~Holder(inst[p]) \/ ~Calm \/ mapping = user \/ faults' # faults,
         UNCHANGED <<mapping, damaged>>, Left, faults' = faults \/ faults' = faults + 1, RemapWorld'
  PROVE  RemapIInv'
<1>1. inst[p] \in Insts /\ At(inst[p], p)
  BY Before
<1>2. PICK w \in BOOLEAN : Becomes(p, [inst[p] EXCEPT !.pc = "idle", !.monitor = w])
  BY Zenon DEF WithoutCaps
<1>3. PICK j \in Insts :
        /\ j = [inst[p] EXCEPT !.pc = "idle", !.monitor = w]
        /\ j.pc = "idle"
        /\ j.owns = inst[p].owns
        /\ j.stopRequested = inst[p].stopRequested /\ j.retry = inst[p].retry
        /\ j.leaving = inst[p].leaving
  BY <1>1, SetMonitor, Zenon
<1>4. Becomes(p, j)
  BY <1>2, <1>3, Zenon
<1>5. j.owns = FALSE /\ (j.retry => j.stopRequested) /\ lease = p
  <2>1. inst[p].owns \in BOOLEAN
    BY <1>1, InstFields
  <2> QED BY <1>1, <1>3, <2>1, Zenon DEF At
<1>6. At(j, p)'
  BY <1>3, <1>5, RestingAt
<1> QED
  BY <1>4, <1>5, <1>6, ReadStep DEF Exclusive

\* A process with a journal that it did not make, or made and wrote.
LEMMA BusyFacts ==
  ASSUME RemapIInv, NEW p \in Procs, inst[p].pc \in Busy
  PROVE  /\ lease = p /\ (inst[p].pc # "restoring" => inst[p].leaving = "no" /\ ~inst[p].owns)
         /\ (inst[p].pc # "enabling" => Readable(journal))
         /\ (inst[p].retry => inst[p].stopRequested)
         /\ (inst[p].pc # "applied" => ~Holder(inst[p]))
         /\ (~raced => Knows(inst[p]))
<1>1. At(inst[p], p)
  BY Before
<1>2. inst[p].pc # "idle"
  BY DEF Busy
<1> QED BY <1>1, <1>2 DEF At, Holder

LEMMA RestoredKeeps ==
  ASSUME RemapIInv, NEW p \in Procs, Restored(p) \/ NotRestored(p), Left, lease' \in Procs \cup {"none"}
  PROVE  /\ UNCHANGED <<mapping, damaged, user, raced>> /\ (faults' = faults \/ faults' = faults + 1)
         /\ RemapWorld'
         /\ Restored(p) => (~raced /\ ~damaged => mapping = user)
<1>1. RemapWorld
  BY Before
<1>2. Read \/ Unread
  BY Zenon DEF Restored, NotRestored
<1>3. UNCHANGED <<mapping, damaged, user, raced>> /\ CountersOK /\ (faults' = faults \/ faults' = faults + 1)
  BY <1>2, ReadCases
<1>4. ASSUME Restored(p) PROVE mapping = journal.original /\ journal' = None
  BY <1>4, Zenon DEF Restored
<1>5. ASSUME Restored(p) PROVE ~raced /\ ~damaged => mapping = user
  BY <1>1, <1>4, <1>5, OriginalNoUse
<1>6. RemapWorld'
  <2>1. CASE Restored(p)
    BY <1>1, <1>3, <1>4, <1>5, <2>1, DropKeeps
  <2>2. CASE NotRestored(p)
    <3>1. UNCHANGED journal
      BY <2>2, Zenon DEF NotRestored
    <3> QED BY <1>1, <1>3, <3>1, ReadKeeps
  <2> QED BY <2>1, <2>2
<1> QED BY <1>3, <1>5, <1>6

LEMMA RecoveryEndsKeeps ==
  ASSUME RemapIInv, NEW p \in Procs, RecoveryEnds(p)
  PROVE  RemapIInv'
<1>1. inst[p].pc = "recovering" /\ (Restored(p) \/ NotRestored(p)) /\ lease' = "none"
      /\ Becomes(p, [inst[p] EXCEPT !.pc = "idle"]) /\ Left
  BY Zenon DEF RecoveryEnds
<1>2. inst[p] \in Insts /\ inst[p].pc \in Busy /\ "idle" \in Pcs
  BY <1>1, Before DEF Busy, Pcs
<1>3. /\ lease = p /\ inst[p].leaving = "no" /\ ~inst[p].owns /\ (inst[p].retry => inst[p].stopRequested)
      /\ ~Holder(inst[p])
  BY <1>1, <1>2, BusyFacts
<1>4. PICK j \in Insts :
        /\ j = [inst[p] EXCEPT !.pc = "idle"]
        /\ j.pc = "idle"
        /\ j.owns = inst[p].owns
        /\ j.stopRequested = inst[p].stopRequested /\ j.retry = inst[p].retry
        /\ j.wrote = inst[p].wrote
        /\ j.leaving = inst[p].leaving
  BY <1>2, SetPc, Zenon
<1>5. j.owns = FALSE /\ Becomes(p, j) /\ (j.retry => j.stopRequested)
  <2>1. inst[p].owns \in BOOLEAN
    BY <1>2, InstFields
  <2> QED BY <1>1, <1>3, <1>4, <2>1, Zenon
<1>6. At(j, p)'
  BY <1>4, <1>5, RestingAt
<1> QED
  BY <1>1, <1>3, <1>5, <1>6, RestoredKeeps, ReadStep DEF Exclusive

LEMMA RegisterKeeps ==
  ASSUME RemapIInv, NEW p \in Procs, Register(p)
  PROVE  RemapIInv'
<1>1. inst[p].pc = "none" /\ RecoverWithLease(p, Fresh) /\ Left
  BY Zenon DEF Register
<1>2. ~Holder(inst[p])
  BY <1>1, Before DEF At, Holder
<1>3. PICK i \in Insts : i = Fresh /\ i.pc = "idle" /\ i.owns = FALSE /\ i.retry = FALSE /\ i.leaving = "no"
  BY RestingInsts
<1>4. RecoverWithLease(p, i) /\ (i.retry => i.stopRequested)
  BY <1>1, <1>3, Zenon
<1> QED
  BY <1>1, <1>2, <1>3, <1>4, RecoverKeeps

LEMMA SafetyCheckKeeps ==
  ASSUME RemapIInv, NEW p \in Procs, SafetyCheck(p)
  PROVE  RemapIInv'
<1>1. /\ inst[p].pc = "idle" /\ inst[p].leaving = "no" /\ ~inst[p].owns
      /\ RecoverWithLease(p, inst[p]) /\ Left
  BY Zenon DEF SafetyCheck, Idle
<1>2. inst[p] \in Insts /\ (inst[p].retry => inst[p].stopRequested)
  BY Before, Zenon DEF At
<1>3. ~Holder(inst[p])
  BY <1>1 DEF Holder
<1>4. PICK i \in Insts : i = inst[p]
  BY <1>2
<1>5. i.owns = FALSE
  BY <1>1, <1>4, InstFields
<1>6. RecoverWithLease(p, i) /\ i.pc = "idle" /\ i.leaving = "no" /\ (i.retry => i.stopRequested)
  BY <1>1, <1>2, <1>4, Zenon
<1> QED
  BY <1>1, <1>3, <1>5, <1>6, RecoverKeeps

\* The lease holder moves on to the state c, having read.
LEMMA MovesTo ==
  ASSUME RemapIInv, NEW p \in Procs, NEW c \in Busy, c # "restoring", Becomes(p, [inst[p] EXCEPT !.pc = c]),
         lease \in {p, "none"}, lease' = p, inst[p].leaving = "no", ~inst[p].owns, ~Holder(inst[p]),
         UNCHANGED <<mapping, damaged>>, Left, faults' = faults \/ faults' = faults + 1, RemapWorld',
         c # "enabling" => Readable(journal)',
         \A j : ~raced /\ j.pc = c => Knows(j)'
  PROVE  RemapIInv'
<1>1. inst[p] \in Insts /\ c \in Pcs /\ (inst[p].retry => inst[p].stopRequested)
  BY Before DEF Busy, At
<1>2. PICK j \in Insts :
        /\ j = [inst[p] EXCEPT !.pc = c]
        /\ j.pc = c
        /\ j.owns = inst[p].owns
        /\ j.stopRequested = inst[p].stopRequested /\ j.retry = inst[p].retry
        /\ j.wrote = inst[p].wrote
        /\ j.leaving = inst[p].leaving
  BY <1>1, SetPc, Zenon
<1>3. Becomes(p, j) /\ ~j.owns /\ j.leaving = "no" /\ (j.retry => j.stopRequested)
  BY <1>1, <1>2, Zenon
<1>4. ~raced' => Knows(j)'
  BY <1>2, Zenon DEF Left
<1>5. At(j, p)'
  BY <1>2, <1>3, <1>4 DEF At
<1> QED
  BY <1>3, <1>5, ReadStep DEF Exclusive

LEMMA StartProbeKeeps ==
  ASSUME RemapIInv, NEW p \in Procs, StartProbe(p)
  PROVE  RemapIInv'
<1>1. inst[p].pc = "idle" /\ inst[p].leaving = "no" /\ Left
  BY Zenon DEF StartProbe, Idle
<1>2. /\ RemapWorld /\ inst[p] \in Insts /\ At(inst[p], p) /\ p # "none"
      /\ lease \in Procs \cup {"none"} /\ faults \in Nat /\ crashes \in Nat
  BY Before
<1>3. ASSUME LeaseFree(p) PROVE lease = "none" /\ ~inst[p].owns /\ ~Holder(inst[p]) /\ (inst[p].retry => inst[p].stopRequested)
  BY <1>1, <1>2, <1>3 DEF LeaseFree, At, Holder
<1>4. CASE Read /\ WithoutCaps(p) /\ UNCHANGED <<journal, lease>>
  <2>1. UNCHANGED <<mapping, damaged, user, raced>> /\ CountersOK /\ (faults' = faults \/ faults' = faults + 1)
    BY <1>1, <1>2, <1>4, ReadCases
  <2>2. RemapWorld'
    BY <1>2, <1>4, <2>1, ReadKeeps
  <2>3. PICK w \in BOOLEAN : Becomes(p, [inst[p] EXCEPT !.pc = "idle", !.monitor = w])
    BY <1>4, Zenon DEF WithoutCaps
  <2>4. PICK j \in Insts :
          /\ j = [inst[p] EXCEPT !.pc = "idle", !.monitor = w]
          /\ j.pc = "idle"
          /\ j.owns = inst[p].owns
          /\ j.stopRequested = inst[p].stopRequested /\ j.retry = inst[p].retry
          /\ j.leaving = inst[p].leaving
    BY <1>2, SetMonitor, Zenon
  <2>5. Becomes(p, j)
    BY <2>3, <2>4, Zenon
  <2>6. At(j, p) /\ (Holder(inst[p]) => Holder(j))
    BY <1>1, <1>2, <2>4 DEF At, Knows, Holder
  <2>7. At(j, p)'
    BY <1>4, <2>1, <2>6 DEF At, Knows
  <2> QED
    BY <1>1, <1>4, <2>1, <2>2, <2>5, <2>6, <2>7, ReadStep DEF Exclusive
<1>5. CASE LeaseFree(p) /\ NothingToRecover /\ Becomes(p, [inst[p] EXCEPT !.pc = "enabling"]) /\ lease' = p
  <2>1. lease = "none" /\ ~inst[p].owns /\ ~Holder(inst[p])
    BY <1>3, <1>5
  <2>2. /\ UNCHANGED <<mapping, damaged, user, raced>> /\ (faults' = faults \/ faults' = faults + 1) /\ RemapWorld'
        /\ ~raced /\ ~damaged => mapping = user
    BY <1>1, <1>5, RecoveryKeeps
  <2>3. \A j : ~raced /\ j.pc = "enabling" => Knows(j)'
    BY <2>2 DEF Knows
  <2>4. "enabling" \in Busy
    BY DEF Busy, Pcs
  <2> QED
    BY <1>1, <1>5, <2>1, <2>2, <2>3, <2>4, MovesTo
<1>6. CASE LeaseFree(p) /\ RecoveryRefused /\ WithoutCaps(p) /\ UNCHANGED lease
  <2>1. lease = "none" /\ ~inst[p].owns /\ ~Holder(inst[p]) /\ (inst[p].retry => inst[p].stopRequested)
    BY <1>3, <1>6
  <2>2. UNCHANGED <<mapping, damaged, user, raced>> /\ (faults' = faults \/ faults' = faults + 1) /\ RemapWorld'
    BY <1>1, <1>2, <1>6, RecoveryKeeps
  <2>3. PICK w \in BOOLEAN : Becomes(p, [inst[p] EXCEPT !.pc = "idle", !.monitor = w])
    BY <1>6, Zenon DEF WithoutCaps
  <2>4. PICK j \in Insts :
          /\ j = [inst[p] EXCEPT !.pc = "idle", !.monitor = w]
          /\ j.pc = "idle"
          /\ j.owns = inst[p].owns
          /\ j.stopRequested = inst[p].stopRequested /\ j.retry = inst[p].retry
          /\ j.leaving = inst[p].leaving
    BY <1>2, SetMonitor, Zenon
  <2>5. Becomes(p, j) /\ j.owns = FALSE /\ (j.retry => j.stopRequested)
    <3>1. inst[p].owns \in BOOLEAN
      BY <1>2, InstFields
    <3> QED BY <2>1, <2>3, <2>4, <3>1, Zenon
  <2>6. At(j, p)'
    BY <2>4, <2>5, RestingAt
  <2> QED
    BY <1>1, <2>1, <2>2, <2>5, <2>6, ReadStep DEF Exclusive
<1>7. CASE LeaseFree(p) /\ Recovers(p, [inst[p] EXCEPT !.pc = "enableRecovers"]) /\ lease' = p
  <2>1. lease = "none" /\ ~inst[p].owns /\ (inst[p].retry => inst[p].stopRequested) /\ inst[p].owns \in BOOLEAN
    BY <1>2, <1>3, <1>7, InstFields
  <2>2. PICK j \in Insts :
          /\ j = [inst[p] EXCEPT !.pc = "enableRecovers"]
          /\ j.pc = "enableRecovers"
          /\ j.owns = inst[p].owns
          /\ j.stopRequested = inst[p].stopRequested /\ j.retry = inst[p].retry
          /\ j.wrote = inst[p].wrote
          /\ j.leaving = inst[p].leaving
    <3>1. "enableRecovers" \in Pcs
      BY DEF Pcs
    <3> QED BY <1>2, <3>1, SetPc, Zenon
  <2>3. Recovers(p, j) /\ j.owns = FALSE /\ (j.retry => j.stopRequested) /\ j.leaving = "no"
    BY <1>1, <1>7, <2>1, <2>2, Zenon
  <2> QED
    BY <1>1, <1>7, <2>1, <2>2, <2>3, RecoverWrites
<1> QED
  BY <1>4, <1>5, <1>6, <1>7, Zenon DEF StartProbe

LEMMA EnableRecoveredKeeps ==
  ASSUME RemapIInv, NEW p \in Procs, EnableRecovered(p)
  PROVE  RemapIInv'
<1>1. inst[p].pc = "enableRecovers" /\ Left
  BY Zenon DEF EnableRecovered
<1>2. inst[p].pc \in Busy /\ "enabling" \in Busy
  BY <1>1 DEF Busy, Pcs
<1>3. lease = p /\ inst[p].leaving = "no" /\ ~inst[p].owns /\ ~Holder(inst[p])
  BY <1>1, <1>2, BusyFacts
<1>4. CASE Restored(p) /\ Becomes(p, [inst[p] EXCEPT !.pc = "enabling"]) /\ UNCHANGED lease
  <2>1. lease' = p /\ lease' \in Procs \cup {"none"}
    BY <1>3, <1>4
  <2>2. /\ UNCHANGED <<mapping, damaged, user, raced>> /\ (faults' = faults \/ faults' = faults + 1) /\ RemapWorld'
        /\ ~raced /\ ~damaged => mapping = user
    BY <1>1, <1>4, <2>1, RestoredKeeps
  <2>3. \A j : ~raced /\ j.pc = "enabling" => Knows(j)'
    BY <2>2 DEF Knows
  <2> QED
    BY <1>1, <1>2, <1>3, <1>4, <2>1, <2>2, <2>3, MovesTo
<1>5. CASE NotRestored(p) /\ WithoutCaps(p) /\ lease' = "none"
  BY <1>1, <1>2, <1>3, <1>5, RestoredKeeps, WithoutKeeps
<1> QED
  BY <1>4, <1>5, Zenon DEF EnableRecovered

\* The journal is written where the mapping in force is the user's, or damaged.
LEMMA PersistKeeps ==
  ASSUME RemapWorld, CountersOK, UNCHANGED <<mapping, damaged, user, raced>>, persist,
         "caps_f20" \notin mapping, ~raced => mapping = user \/ damaged
  PROVE  /\ RemapWorld' /\ Readable(journal)'
         /\ journal'.original = mapping
         /\ ~raced => /\ "caps_f20" \notin user /\ mapping \subseteq user
                      /\ ~damaged => mapping = user
<1>1. journal' = [original |-> mapping, expected |-> mapping \cup {"caps_f20"}]
  BY DEF persist
<1>2. journal'.original = mapping /\ journal'.expected = mapping \cup {"caps_f20"}
  BY <1>1
<1>3. mapping \in SUBSET Entries
  BY DEF RemapWorld, RemapForm
<1>4. Readable(journal')
  BY <1>1, <1>3, RecordIsReadable, Zenon
<1>5. ~raced => /\ "caps_f20" \notin user /\ mapping \subseteq user
                /\ ~damaged => mapping = user
  BY DEF RemapWorld, DamageForm
<1>6. RemapForm' /\ JournalForm'
  BY <1>2, <1>3 DEF RemapWorld, RemapForm, JournalForm, CountersOK
<1>7. DamageForm' /\ Restorable'
  BY <1>2, <1>5 DEF DamageForm, Restorable
<1> QED
  BY <1>2, <1>4, <1>5, <1>6, <1>7 DEF RemapWorld

LEMMA EnableRemapKeeps ==
  ASSUME RemapIInv, NEW p \in Procs, EnableRemap(p)
  PROVE  RemapIInv'
<1>1. inst[p].pc = "enabling" /\ Left
  BY Zenon DEF EnableRemap
<1>2. inst[p].pc \in Busy /\ "journalled" \in Busy
  BY <1>1 DEF Busy, Pcs
<1>3. /\ lease = p /\ inst[p].leaving = "no" /\ ~inst[p].owns /\ ~Holder(inst[p])
      /\ (inst[p].retry => inst[p].stopRequested)
      /\ ~raced => mapping = user \/ damaged
  BY <1>1, <1>2, BusyFacts DEF Knows
<1>4. RemapWorld /\ inst[p] \in Insts
  BY Before
<1>5. CASE (Read \/ Unread) /\ WithoutCaps(p) /\ lease' = "none" /\ UNCHANGED journal
  BY <1>1, <1>2, <1>3, <1>4, <1>5, ReadCases, ReadKeeps, WithoutKeeps
<1>6. CASE Read /\ WithCaps(p, FALSE) /\ UNCHANGED <<lease, journal>>
  <2>1. PICK j \in Insts :
          /\ j = [inst[p] EXCEPT !.pc = "idle", !.monitor = TRUE, !.owns = FALSE]
          /\ j.pc = "idle"
          /\ j.owns = FALSE
          /\ j.stopRequested = inst[p].stopRequested /\ j.retry = inst[p].retry
          /\ j.leaving = inst[p].leaving
    BY <1>4, SetOwns, Zenon
  <2>2. Becomes(p, j) /\ (j.retry => j.stopRequested)
    BY <1>3, <1>6, <2>1, Zenon DEF WithCaps
  <2>3. At(j, p)'
    BY <2>1, <2>2, RestingAt
  <2>4. lease' \in Procs \cup {"none"}
    BY <1>3, <1>6
  <2>5. UNCHANGED <<mapping, damaged, user, raced>> /\ CountersOK /\ (faults' = faults \/ faults' = faults + 1)
    BY <1>1, <1>6, <2>4, ReadCases
  <2>6. RemapWorld'
    BY <1>4, <1>6, <2>5, ReadKeeps
  <2> QED
    BY <1>1, <1>3, <2>2, <2>3, <2>5, <2>6, ReadStep DEF Exclusive
<1>7. CASE ~Conflict /\ ~Reusable /\ persist /\ Read /\ Becomes(p, [inst[p] EXCEPT !.pc = "journalled"]) /\ UNCHANGED lease
  <2>1. lease' = p /\ lease' \in Procs \cup {"none"} /\ "caps_f20" \notin mapping
    BY <1>3, <1>7 DEF Reusable
  <2>2. UNCHANGED <<mapping, damaged, user, raced>> /\ CountersOK /\ (faults' = faults \/ faults' = faults + 1)
    BY <1>1, <1>7, <2>1, ReadCases
  <2>3. /\ RemapWorld' /\ Readable(journal)'
        /\ journal'.original = mapping
        /\ ~raced => /\ "caps_f20" \notin user /\ mapping \subseteq user
                     /\ ~damaged => mapping = user
    BY <1>3, <1>4, <1>7, <2>1, <2>2, PersistKeeps
  <2>4. \A j : ~raced /\ j.pc = "journalled" => Knows(j)'
    BY <2>2, <2>3 DEF Knows
  <2> QED
    BY <1>1, <1>2, <1>3, <1>7, <2>1, <2>2, <2>3, <2>4, MovesTo
<1>8. CASE journal' = None /\ Unread /\ WithoutCaps(p) /\ lease' = "none"
  BY <1>1, <1>2, <1>3, <1>4, <1>8, ReadCases, DropKeeps, WithoutKeeps
<1> QED
  BY <1>5, <1>6, <1>7, <1>8, Zenon DEF EnableRemap

\* A write of the lease holder, who goes on to state c.
LEMMA WritesTo ==
  ASSUME RemapIInv, NEW p \in Procs, NEW c \in {"applied", "rolledBack"}, inst[p].pc \in Busy, inst[p].pc # "restoring",
         NEW m, setMacOSUserKeyMapping(p, m, [inst[p] EXCEPT !.pc = c]), UNCHANGED <<journal, lease>>, Left,
         Readable(journal), Trusted, m = journal.original \/ (m = journal.expected /\ c = "applied")
  PROVE  RemapIInv'
<1>1. RemapWorld /\ inst[p] \in Insts /\ c \in Pcs /\ faults \in Nat /\ crashes \in Nat
  BY Before DEF Pcs
<1>2. lease = p /\ inst[p].leaving = "no" /\ ~inst[p].owns /\ (inst[p].retry => inst[p].stopRequested)
  BY BusyFacts
<1>3. PICK i \in Insts :
        /\ i = [inst[p] EXCEPT !.pc = c]
        /\ i.pc = c
        /\ i.owns = inst[p].owns
        /\ i.stopRequested = inst[p].stopRequested /\ i.retry = inst[p].retry
        /\ i.wrote = inst[p].wrote
        /\ i.leaving = inst[p].leaving
  BY <1>1, SetPc, Zenon
<1>4. setMacOSUserKeyMapping(p, m, i)
  BY <1>3, Zenon
<1>5. PICK w \in BOOLEAN : Written(m, w) /\ Becomes(p, [i EXCEPT !.wrote = w])
  BY <1>4, WriteCases, Zenon
<1>6. PICK j \in Insts :
        /\ j = [i EXCEPT !.wrote = w]
        /\ j.pc = i.pc
        /\ j.owns = i.owns
        /\ j.stopRequested = i.stopRequested /\ j.retry = i.retry
        /\ j.wrote = w
        /\ j.leaving = i.leaving
  BY SetWrote, Zenon
<1>7. Becomes(p, j) /\ j.pc = c /\ ~j.owns /\ (j.retry => j.stopRequested) /\ j.leaving = "no"
  BY <1>2, <1>3, <1>5, <1>6, Zenon
<1>8. faults' = faults \/ faults' = faults + 1
  BY <1>5, Zenon DEF Written
<1>9. CountersOK /\ UNCHANGED <<journal, user, raced>> /\ m \in {journal.original, journal.expected}
  BY <1>1, <1>2, <1>8 DEF CountersOK, Left
<1>10. Trusted'
  BY <1>1, <1>5, <1>9, WriteKeeps
<1>11. ~raced' => Knows(j)'
  <2>1. c # "enabling" /\ c # "journalled"
    OBVIOUS
  <2> QED
    BY <1>7, <1>10, <2>1 DEF Knows, Trusted
<1>12. Readable(journal)' /\ lease' = p
  BY <1>2
<1>13. At(j, p)'
  BY <1>7, <1>11, <1>12 DEF At, Busy
<1>14. m = journal.original \/ (m = journal.expected /\ j.pc = "applied")
  BY <1>7
<1>15. lease' \in Procs \cup {"none"}
  BY <1>12
<1> QED
  BY <1>2, <1>5, <1>6, <1>7, <1>13, <1>14, <1>15, WriteStep

LEMMA ApplyKeeps ==
  ASSUME RemapIInv, NEW p \in Procs, Apply(p)
  PROVE  RemapIInv'
<1>1. inst[p].pc = "journalled" /\ Left /\ UNCHANGED <<journal, lease>>
      /\ setMacOSUserKeyMapping(p, journal.expected, [inst[p] EXCEPT !.pc = "applied"])
  BY Zenon DEF Apply
<1>2. inst[p].pc \in Busy
  BY <1>1 DEF Busy, Pcs
<1>3. Readable(journal) /\ (~raced => Knows(inst[p]))
  BY <1>1, <1>2, BusyFacts
<1>4. Trusted
  BY <1>1, <1>3 DEF Knows, Trusted
<1> QED
  BY <1>1, <1>2, <1>3, <1>4, WritesTo

LEMMA AppliedKeeps ==
  ASSUME RemapIInv, NEW p \in Procs, Applied(p)
  PROVE  RemapIInv'
<1>1. inst[p].pc = "applied" /\ Left
  BY Zenon DEF Applied
<1>2. inst[p].pc \in Busy
  BY <1>1 DEF Busy, Pcs
<1>3. /\ lease = p /\ inst[p].leaving = "no" /\ ~inst[p].owns /\ (inst[p].retry => inst[p].stopRequested)
      /\ Readable(journal) /\ (~raced => Knows(inst[p]))
  BY <1>1, <1>2, BusyFacts
<1>4. RemapWorld /\ inst[p] \in Insts
  BY Before
<1>5. CASE mapping = journal.expected /\ Read /\ WithCaps(p, TRUE) /\ UNCHANGED <<journal, lease>>
  <2>1. PICK j \in Insts :
          /\ j = [inst[p] EXCEPT !.pc = "idle", !.monitor = TRUE, !.owns = TRUE]
          /\ j.pc = "idle"
          /\ j.owns = TRUE
          /\ j.stopRequested = inst[p].stopRequested /\ j.retry = inst[p].retry
          /\ j.leaving = inst[p].leaving
    BY <1>4, SetOwns, Zenon
  <2>2. Becomes(p, j) /\ (j.retry => j.stopRequested) /\ j.leaving = "no"
    BY <1>3, <1>5, <2>1, Zenon DEF WithCaps
  <2>3. lease' \in Procs \cup {"none"} /\ lease' = p
    BY <1>3, <1>5
  <2>4. UNCHANGED <<mapping, damaged, user, raced>> /\ CountersOK /\ (faults' = faults \/ faults' = faults + 1)
    BY <1>1, <1>5, <2>3, ReadCases
  <2>5. RemapWorld'
    BY <1>4, <1>5, <2>4, ReadKeeps
  <2>6. Readable(journal)' /\ (mapping = journal.expected)'
    BY <1>3, <1>5, <2>4
  <2>7. At(j, p)'
    BY <2>1, <2>2, <2>3, <2>6 DEF At, Knows, Busy
  <2>8. Holder(j)
    BY <2>1, <2>2 DEF Holder
  <2> QED
    BY <1>1, <1>3, <2>2, <2>4, <2>5, <2>7, <2>8, ReadStep DEF Exclusive
<1>6. CASE /\ mapping \subseteq journal.expected
           /\ setMacOSUserKeyMapping(p, journal.original, [inst[p] EXCEPT !.pc = "rolledBack"])
           /\ UNCHANGED <<journal, lease>>
  <2>1. Trusted
    BY <1>1, <1>3, <1>6 DEF Trusted, Knows
  <2> QED
    BY <1>1, <1>2, <1>3, <1>6, <2>1, WritesTo
<1>7. CASE ~(inst[p].wrote /\ mapping \subseteq journal.expected) /\ Read /\ journal' = Cleared /\ GiveUp(p)
  <2>1. WithoutCaps(p) /\ lease' = "none"
    BY <1>7, Zenon DEF GiveUp
  <2>2. ~Holder(inst[p]) \/ ~Calm \/ mapping = user
    <3>1. SUFFICES ASSUME Holder(inst[p]), Calm PROVE mapping = user
      OBVIOUS
    <3>2. mapping # journal.expected
      BY <1>1, <1>7, <3>1 DEF Holder
    <3>3. ~raced /\ ~damaged
      BY <3>1 DEF Calm, RemapIInv, QuitForm
    <3> QED BY <1>4, <3>2, <3>3, NoUse
  <2> QED
    BY <1>1, <1>2, <1>3, <1>4, <1>7, <2>1, <2>2, ReadCases, ClearedKeeps, WithoutKeeps
<1>8. CASE Unread /\ journal' \in {journal, Cleared} /\ GiveUp(p)
  <2>1. WithoutCaps(p) /\ lease' = "none"
    BY <1>8, Zenon DEF GiveUp
  <2>2. faults' # faults
    BY <1>8, Before DEF Unread, Fault
  <2> QED
    BY <1>1, <1>2, <1>3, <1>4, <1>8, <2>1, <2>2, ReadCases, ReadKeeps, ClearedKeeps, WithoutKeeps
<1> QED
  BY <1>5, <1>6, <1>7, <1>8, Zenon DEF Applied

LEMMA RolledBackKeeps ==
  ASSUME RemapIInv, NEW p \in Procs, RolledBack(p)
  PROVE  RemapIInv'
<1>1. /\ inst[p].pc = "rolledBack" /\ Left /\ WithoutCaps(p) /\ lease' = "none"
      /\ (Read \/ Unread) /\ (journal' = journal \/ journal' = Cleared)
  BY Zenon DEF RolledBack, GiveUp
<1>2. inst[p].pc \in Busy
  BY <1>1 DEF Busy, Pcs
<1>3. ~inst[p].owns /\ ~Holder(inst[p]) /\ RemapWorld
  BY <1>1, <1>2, BusyFacts, Before
<1> QED
  BY <1>1, <1>2, <1>3, ReadCases, ReadKeeps, ClearedKeeps, WithoutKeeps

\* A stop of p that has come to its end, with the journal kept or cleared.
LEMMA FinishKeeps ==
  ASSUME RemapIInv, NEW p \in Procs, NEW i \in Insts, Finished(p, i), Read, Left,
         journal' = journal \/ (lease = p /\ RemapWorld'),
         Holder(inst[p]) => ~Calm \/ mapping = user
  PROVE  RemapIInv'
<1>1. RemapWorld /\ lease \in Procs \cup {"none"}
  BY Before
<1>2. lease' = lease \/ (lease = p /\ lease' = "none")
  BY Zenon DEF Finished, Released
<1>3. lease' \in Procs \cup {"none"}
  BY <1>1, <1>2
<1>4. UNCHANGED <<mapping, damaged, user, raced>> /\ CountersOK /\ (faults' = faults \/ faults' = faults + 1)
  BY <1>3, ReadCases
<1>5. RemapWorld'
  BY <1>1, <1>4, ReadKeeps
<1>6. PICK j \in Insts :
        /\ j = [i EXCEPT !.pc = "idle", !.owns = FALSE, !.stopRequested = FALSE, !.retry = FALSE]
        /\ j.pc = "idle"
        /\ j.owns = FALSE
        /\ j.retry = FALSE
  BY SetFinished, Zenon
<1>7. Becomes(p, j) /\ ~j.retry
  BY <1>6, Zenon DEF Finished
<1>8. At(j, p)'
  BY <1>6, <1>7, RestingAt
<1>9. Exclusive(p)
  BY <1>2, <1>4 DEF Exclusive
<1> QED
  BY <1>4, <1>5, <1>7, <1>8, <1>9, ReadStep

\* A restoration that is to be tried again.
LEMMA LaterKeeps ==
  ASSUME RemapIInv, NEW p \in Procs, NEW i \in Insts, RetryLater(p, i), Read \/ Unread, Left, UNCHANGED journal,
         i.owns, lease = p, Readable(journal), i.stopRequested,
         Holder(inst[p]) => faults' # faults
  PROVE  RemapIInv'
<1>1. RemapWorld
  BY Before
<1>2. lease' = lease
  BY Zenon DEF RetryLater
<1>3. lease' \in Procs \cup {"none"}
  BY <1>2
<1>4. UNCHANGED <<mapping, damaged, user, raced>> /\ CountersOK /\ (faults' = faults \/ faults' = faults + 1)
  BY <1>3, ReadCases
<1>5. RemapWorld'
  BY <1>1, <1>4, ReadKeeps
<1>6. PICK r \in BOOLEAN : Becomes(p, [i EXCEPT !.pc = "idle", !.retry = r])
  <2>1. (i.leaving = "no") \in BOOLEAN
    OBVIOUS
  <2> QED BY <2>1, Zenon DEF RetryLater
<1>7. PICK j \in Insts :
        /\ j = [i EXCEPT !.pc = "idle", !.retry = r]
        /\ j.pc = "idle"
        /\ j.owns = i.owns
        /\ j.stopRequested = i.stopRequested
        /\ j.leaving = i.leaving
  BY SetRetry, Zenon
<1>8. Becomes(p, j) /\ j.stopRequested /\ j.owns
  BY <1>6, <1>7, Zenon
<1>9. Readable(journal)'
  BY Zenon
<1>10. At(j, p)'
  BY <1>2, <1>7, <1>8, <1>9 DEF At, Knows, Busy
<1> QED
  BY <1>4, <1>5, <1>8, <1>10, ReadStep DEF Exclusive

\* restoreMacOSGlobeKeyProbeCapsLockRemap, from an object that is to stop.
LEMMA RestoreKeeps ==
  ASSUME RemapIInv, NEW p \in Procs, NEW i \in Insts, inst[p].pc = "idle", i.pc = "idle",
         i.owns = inst[p].owns, i.stopRequested, Restore(p, i), Left
  PROVE  RemapIInv'
<1>1. RemapWorld /\ At(inst[p], p) /\ lease \in Procs \cup {"none"} /\ faults \in Nat /\ crashes \in Nat
  BY Before
<1>2. i.owns => lease = p /\ Readable(journal)
  BY <1>1, Zenon DEF At
<1>3. Holder(inst[p]) => i.owns
  BY DEF Holder
<1>4. CASE ~i.owns /\ Read /\ Finished(p, i) /\ UNCHANGED journal
  BY <1>3, <1>4, FinishKeeps
<1>5. CASE i.owns /\ ~Readable(journal)
  BY <1>2, <1>5
<1>6. CASE i.owns /\ Readable(journal) /\ Unread /\ RetryLater(p, i) /\ UNCHANGED journal
  <2>1. faults' # faults
    BY <1>1, <1>6 DEF Unread, Fault
  <2> QED
    BY <1>2, <1>6, <2>1, LaterKeeps
<1>7. CASE i.owns /\ Readable(journal) /\ mapping # journal.expected /\ Read /\ journal' = Cleared /\ Finished(p, i)
  <2>1. lease = p
    BY <1>2, <1>7
  <2>2. lease' \in Procs \cup {"none"}
    BY <1>1, <1>7, Zenon DEF Finished, Released
  <2>3. UNCHANGED <<mapping, damaged, user, raced>> /\ CountersOK
    BY <1>7, <2>2, ReadCases
  <2>4. RemapWorld'
    BY <1>1, <1>7, <2>3, ClearedKeeps
  <2>5. ~Calm \/ mapping = user
    <3>1. Calm => ~raced /\ ~damaged
      BY Zenon DEF Calm, RemapIInv, QuitForm
    <3> QED BY <1>1, <1>7, <3>1, NoUse
  <2> QED
    BY <1>7, <2>1, <2>4, <2>5, FinishKeeps
<1>8. CASE /\ i.owns /\ Readable(journal) /\ mapping = journal.expected
           /\ setMacOSUserKeyMapping(p, journal.original, [i EXCEPT !.pc = "restoring"])
           /\ UNCHANGED <<journal, lease>>
  <2>1. Trusted /\ lease = p
    BY <1>1, <1>2, <1>8, ExpectedTrusted
  <2>2. PICK k \in Insts :
          /\ k = [i EXCEPT !.pc = "restoring"]
          /\ k.pc = "restoring"
          /\ k.owns = i.owns
          /\ k.stopRequested = i.stopRequested /\ k.retry = i.retry
          /\ k.wrote = i.wrote
          /\ k.leaving = i.leaving
    <3>1. "restoring" \in Pcs
      BY DEF Pcs
    <3> QED BY <3>1, SetPc, Zenon
  <2>3. setMacOSUserKeyMapping(p, journal.original, k)
    BY <1>8, <2>2, Zenon
  <2>4. PICK w \in BOOLEAN : Written(journal.original, w) /\ Becomes(p, [k EXCEPT !.wrote = w])
    BY <2>3, WriteCases, Zenon
  <2>5. PICK j \in Insts :
          /\ j = [k EXCEPT !.wrote = w]
          /\ j.pc = k.pc
          /\ j.owns = k.owns
          /\ j.stopRequested = k.stopRequested /\ j.retry = k.retry
          /\ j.wrote = w
          /\ j.leaving = k.leaving
    BY SetWrote, Zenon
  <2>6. Becomes(p, j) /\ j.pc = "restoring" /\ j.owns /\ j.stopRequested
    BY <1>8, <2>2, <2>4, <2>5, Zenon
  <2>7. Readable(journal)' /\ lease' = p
    BY <1>8, <2>1
  <2>8. At(j, p)'
    BY <2>6, <2>7 DEF At, Knows
  <2>9. lease' \in Procs \cup {"none"}
    BY <2>7
  <2> QED
    BY <1>8, <2>1, <2>4, <2>5, <2>6, <2>8, <2>9, WriteStep
<1> QED
  BY <1>4, <1>5, <1>6, <1>7, <1>8, Zenon DEF Restore

LEMMA StopProbeKeeps ==
  ASSUME RemapIInv, NEW p \in Procs, StopProbe(p)
  PROVE  RemapIInv'
<1>1. inst[p].pc = "idle" /\ Restore(p, Stopping(inst[p])) /\ Left
  BY Zenon DEF StopProbe, Idle
<1>2. PICK j \in Insts :
        /\ j = Stopping(inst[p])
        /\ j.pc = inst[p].pc
        /\ j.owns = inst[p].owns
        /\ j.stopRequested = TRUE
  BY Before, SetStopping, Zenon
<1>3. Restore(p, j) /\ j.stopRequested /\ j.pc = "idle"
  BY <1>1, <1>2, Zenon
<1> QED
  BY <1>1, <1>2, <1>3, RestoreKeeps

LEMMA LeaveKeeps ==
  ASSUME RemapIInv, NEW p \in Procs, NEW how \in {"quit", "deinit"}, Leave(p, how)
  PROVE  RemapIInv'
<1>1. inst[p].pc = "idle" /\ Restore(p, [Stopping(inst[p]) EXCEPT !.retry = FALSE, !.leaving = how]) /\ Left
  BY Zenon DEF Leave, Idle
<1>2. PICK j \in Insts :
        /\ j = [Stopping(inst[p]) EXCEPT !.retry = FALSE, !.leaving = how]
        /\ j.pc = inst[p].pc
        /\ j.owns = inst[p].owns
        /\ j.stopRequested = TRUE
  BY Before, SetLeaving, Zenon
<1>3. Restore(p, j) /\ j.stopRequested /\ j.pc = "idle"
  BY <1>1, <1>2, Zenon
<1> QED
  BY <1>1, <1>2, <1>3, RestoreKeeps

LEMMA RetryKeeps ==
  ASSUME RemapIInv, NEW p \in Procs, Retry(p)
  PROVE  RemapIInv'
<1>1. inst[p].pc = "idle" /\ inst[p].retry /\ Restore(p, [inst[p] EXCEPT !.retry = FALSE]) /\ Left
  BY Zenon DEF Retry, Idle
<1>2. PICK j \in Insts :
        /\ j = [inst[p] EXCEPT !.retry = FALSE]
        /\ j.pc = inst[p].pc
        /\ j.owns = inst[p].owns
        /\ j.stopRequested = inst[p].stopRequested
  BY Before, SetNoRetry, Zenon
<1>3. inst[p].stopRequested
  BY <1>1, Before, Zenon DEF At
<1>4. Restore(p, j) /\ j.stopRequested /\ j.pc = "idle"
  BY <1>1, <1>2, <1>3, Zenon
<1> QED
  BY <1>1, <1>2, <1>4, RestoreKeeps

LEMMA RestoreEndsKeeps ==
  ASSUME RemapIInv, NEW p \in Procs, RestoreEnds(p)
  PROVE  RemapIInv'
<1>1. inst[p].pc = "restoring" /\ Left
  BY Zenon DEF RestoreEnds
<1>2. inst[p].pc \in Busy
  BY <1>1 DEF Busy, Pcs
<1>3. /\ inst[p] \in Insts /\ lease = p /\ Readable(journal) /\ inst[p].owns /\ inst[p].stopRequested
      /\ ~Holder(inst[p]) /\ lease \in Procs \cup {"none"}
  BY <1>1, <1>2, Before, BusyFacts DEF At
<1>4. PICK i \in Insts : i = inst[p]
  BY <1>3
<1>5. CASE Restored(p) /\ Finished(p, inst[p])
  <2>1. lease' \in Procs \cup {"none"}
    BY <1>3, <1>5, Zenon DEF Finished, Released
  <2>2. RemapWorld' /\ Read /\ Finished(p, i)
    BY <1>1, <1>4, <1>5, <2>1, RestoredKeeps DEF Restored
  <2> QED
    BY <1>1, <1>3, <2>2, FinishKeeps
<1>6. CASE NotRestored(p) /\ RetryLater(p, inst[p])
  <2>1. (Read \/ Unread) /\ UNCHANGED journal
    BY <1>6, Zenon DEF NotRestored
  <2>2. RetryLater(p, i) /\ i.owns /\ i.stopRequested
    BY <1>3, <1>4, <1>6, Zenon
  <2> QED
    BY <1>1, <1>3, <2>1, <2>2, LaterKeeps
<1> QED
  BY <1>5, <1>6, Zenon DEF RestoreEnds

LEMMA GoneKeeps ==
  ASSUME RemapIInv, NEW p \in Procs, Gone(p)
  PROVE  RemapIInv'
<1>1. /\ inst[p].pc = "idle" /\ inst[p].leaving # "no" /\ Becomes(p, NoInstance) /\ Read /\ UNCHANGED journal /\ Left
      /\ lease' = lease \/ (lease = p /\ lease' = "none")
  BY Zenon DEF Gone
<1>2. ~Holder(inst[p]) /\ RemapWorld
  BY <1>1, Before DEF Holder
<1>3. lease' \in Procs \cup {"none"}
  BY <1>1, Before
<1>4. UNCHANGED <<mapping, damaged, user, raced>> /\ CountersOK /\ (faults' = faults \/ faults' = faults + 1)
  BY <1>1, <1>3, ReadCases
<1>5. RemapWorld'
  BY <1>1, <1>2, <1>4, ReadKeeps
<1>6. PICK j \in Insts : j = NoInstance /\ j.pc = "none" /\ j.owns = FALSE /\ j.retry = FALSE
  BY RestingInsts
<1>7. Becomes(p, j) /\ ~j.retry
  BY <1>1, <1>6, Zenon
<1>8. At(j, p)'
  BY <1>6, <1>7, RestingAt
<1>9. Exclusive(p)
  BY <1>1, <1>4 DEF Exclusive
<1> QED
  BY <1>1, <1>2, <1>4, <1>5, <1>7, <1>8, <1>9, ReadStep

LEMMA CrashKeeps ==
  ASSUME RemapIInv, NEW p \in Procs, Crash(p)
  PROVE  RemapIInv'
<1>1. /\ Becomes(p, NoInstance) /\ Read /\ UNCHANGED <<journal, user, raced>> /\ crashes' = crashes + 1
      /\ lease' = lease \/ (lease = p /\ lease' = "none")
  BY Zenon DEF Crash
<1>2. RemapWorld /\ lease \in Procs \cup {"none"} /\ faults \in Nat /\ crashes \in Nat
  BY Before
<1>3. UNCHANGED <<mapping, damaged>> /\ faults' = faults
  BY <1>1, Zenon DEF Read, Fine
<1>4. CountersOK /\ UNCHANGED <<mapping, damaged, user, raced, journal>>
  BY <1>1, <1>2, <1>3 DEF CountersOK
<1>5. RemapWorld'
  BY <1>2, <1>4, ReadKeeps
<1>6. PICK j \in Insts : j = NoInstance /\ j.pc = "none" /\ j.owns = FALSE /\ j.retry = FALSE
  BY RestingInsts
<1>7. Becomes(p, j) /\ ~j.retry
  BY <1>1, <1>6, Zenon
<1>8. At(j, p)'
  BY <1>6, <1>7, RestingAt
<1>9. ~Calm'
  BY <1>1, <1>2 DEF Calm
<1>10. StepOf(p, j)
  BY <1>1, <1>4, <1>7, <1>9 DEF StepOf, Exclusive
<1> QED
  BY <1>5, <1>8, <1>10, StepKeeps

\* The user's change is what the user wants, and is a race where it looks like the remap.
LEMMA UserRemapsKeeps ==
  ASSUME RemapIInv, NEW m \in UserMaps, UserRemaps(m)
  PROVE  RemapIInv'
<1>1. /\ mapping' = m /\ user' = m /\ damaged' = FALSE /\ UNCHANGED <<journal, lease, inst, faults, crashes>>
      /\ raced' = \/ raced \/ m = journal.expected
                  \/ \E p \in Procs : \/ inst[p].pc = "journalled"
                                      \/ inst[p].pc = "applied" /\ m \subseteq journal.expected
  BY Zenon DEF UserRemaps
<1>2. /\ raced' \in BOOLEAN
      /\ ~raced' => /\ ~raced /\ m # journal.expected
                    /\ \A p \in Procs : /\ inst[p].pc # "journalled"
                                        /\ ~(inst[p].pc = "applied" /\ m \subseteq journal.expected)
  BY <1>1, Zenon
<1>3. RemapWorld /\ m \subseteq Entries
  BY RemapAssumption, Zenon DEF RemapIInv
<1>4. RemapWorld'
  BY <1>1, <1>2, <1>3 DEF RemapWorld, RemapForm, JournalForm, DamageForm, Restorable
<1>5. ASSUME NEW p \in Procs PROVE At(inst[p], p)'
  <2>1. At(inst[p], p)
    BY Zenon DEF RemapIInv, ProcForm
  <2>2. ~raced' => Knows(inst[p])'
    BY <1>1, <1>2 DEF Knows
  <2> QED
    BY <1>1, <2>1, <2>2 DEF At
<1>6. ProcForm'
  BY <1>1, <1>5, Zenon DEF RemapIInv, ProcForm
<1>7. QuitForm'
  BY <1>1 DEF QuitForm
<1> QED
  BY <1>4, <1>6, <1>7 DEF RemapIInv

LEMMA RemapUnchanged ==
  ASSUME RemapIInv, UNCHANGED remapVars
  PROVE  RemapIInv'
<1>1. UNCHANGED <<mapping, journal, lease, inst, user, raced, damaged, faults, crashes>>
  BY Zenon DEF remapVars
<1>2. RemapWorld' /\ QuitForm'
  BY <1>1 DEF RemapIInv, RemapWorld, RemapForm, JournalForm, DamageForm, Restorable, QuitForm, Calm
<1>3. \A p \in Procs : At(inst[p], p)'
  BY <1>1 DEF RemapIInv, ProcForm, At, Knows
<1> QED
  BY <1>1, <1>2, <1>3, Zenon DEF RemapIInv, ProcForm

LEMMA RemapStart ==
  ASSUME RemapInit
  PROVE  RemapIInv
<1>1. /\ mapping \in UserMaps /\ user = mapping /\ journal \in {None, Bad} /\ lease = "none"
      /\ inst = [p \in Procs |-> NoInstance]
      /\ raced = FALSE /\ damaged = FALSE /\ faults = 0 /\ crashes = 0
  BY Zenon DEF RemapInit
<1>2. ~Readable(journal)
  BY <1>1 DEF Readable
<1>3. RemapWorld /\ QuitForm
  BY <1>1, <1>2, RemapAssumption DEF RemapWorld, RemapForm, JournalForm, DamageForm, Restorable, QuitForm
<1>4. PICK j \in Insts : j = NoInstance /\ j.pc = "none" /\ j.owns = FALSE /\ j.retry = FALSE
  BY RestingInsts
<1>5. \A p \in Procs : At(j, p)
  BY <1>4, RestingAt
<1>6. inst \in [Procs -> Insts] /\ \A p \in Procs : inst[p] = j
  BY <1>1, <1>4
<1>7. ProcForm
  BY <1>5, <1>6, Zenon DEF ProcForm
<1> QED
  BY <1>3, <1>7 DEF RemapIInv

LEMMA RemapSteps ==
  ASSUME RemapIInv, RemapCalls \/ RemapEvents \/ UNCHANGED remapVars
  PROVE  RemapIInv'
<1>1. ASSUME NEW p \in Procs, Goes(p) PROVE RemapIInv'
  BY <1>1, RecoveryEndsKeeps, EnableRecoveredKeeps, EnableRemapKeeps, ApplyKeeps, AppliedKeeps, RolledBackKeeps,
     RestoreEndsKeeps, RetryKeeps, GoneKeeps, Zenon DEF Goes
<1> QED
  BY <1>1, RegisterKeeps, StartProbeKeeps, StopProbeKeeps, SafetyCheckKeeps, LeaveKeeps, CrashKeeps, UserRemapsKeeps,
     RemapUnchanged, Zenon DEF RemapCalls, RemapEvents

\* The invariant says what RemapSound says.
LEMMA RemapIsSound ==
  ASSUME RemapIInv
  PROVE  RemapTypeOK /\ RemapSound
<1>1. RemapWorld /\ ProcForm /\ QuitForm
  BY Zenon DEF RemapIInv
<1>2. \A p \in Procs : inst[p] \in Insts /\ At(inst[p], p)
  BY <1>1 DEF ProcForm
<1>3. RemapTypeOK
  <2>1. \A p \in Procs : inst[p].pc \in Pcs
    BY <1>2, InstFields
  <2>2. {raced, damaged} \subseteq BOOLEAN
    <3>1. raced \in BOOLEAN /\ damaged \in BOOLEAN
      BY <1>1, Zenon DEF RemapWorld, RemapForm
    <3>2. \A x, y, S : x \in S /\ y \in S => {x, y} \subseteq S
      OBVIOUS
    <3> QED BY <3>1, <3>2, Zenon
  <2> QED
    BY <1>1, <2>1, <2>2, Zenon DEF RemapTypeOK, RemapWorld, RemapForm, Pcs
<1>4. OneOwner
  BY <1>2, Zenon DEF OneOwner, At, Idle
<1>5. QuitsClean
  <2>1. SUFFICES ASSUME \A p \in Procs : inst[p].pc = "none", Calm PROVE mapping = user
    BY Zenon DEF QuitsClean, Calm
  <2>2. \A p \in Procs : ~Holder(inst[p])
    BY <1>2, <2>1 DEF Holder, At
  <2> QED BY <1>1, <2>1, <2>2, Zenon DEF QuitForm
<1>6. Restorable
  BY <1>1, Zenon DEF RemapWorld
<1> QED BY <1>3, <1>4, <1>5, <1>6 DEF RemapSound

----------------------------------------------------------------------------
(* The system shortcuts: the inductive invariant, stated of a capture      *)
(* object s on its way through a handler, with the events s.out that it    *)
(* has still to hand to Dart.                                              *)

OwnersOrNone == Owners \cup {"none"}

Heartbeats == [kind : {"heartbeat"}, owner : OwnersOrNone, challenge : Nat, session : Nat]
Stops      == [kind : {"stopped"}, owner : OwnersOrNone]
KeyEvents  == [kind : {"key"}, owner : OwnersOrNone, key : Keys, down : BOOLEAN]
Events     == Heartbeats \cup Stops \cup KeyEvents

Caps == [armed : BOOLEAN, pressed : SUBSET Keys, tails : SUBSET Keys, owner : OwnersOrNone,
         tap : {"none", "on", "off"}, timer : BOOLEAN, overdue : BOOLEAN,
         tailDeadline : {"none", "set", "due"}, pending : Nat, challenge : Nat,
         out : Seq(Events), dropped : SUBSET Keys, session : Nat]

\* The tap is under its timer, keys are pressed only while armed, and a heartbeat that
\* waits for its answer is one that was sent.
CapOK(s) ==
  /\ s \in Caps /\ s.challenge <= MaxChallenge /\ s.pending <= s.challenge
  /\ ~s.armed => s.pressed = {}
  /\ (s.tap # "none" <=> s.timer) /\ (s.armed => s.timer)

\* KeysPaired, and a key that is pending is not down for this Mac.
LocalOK(s) ==
  \A k \in Keys \ missed :
    /\ k \in localDown => k \in held
    /\ k \in taken => k \in held /\ (k \in Pending(s) \/ k \in s.dropped)
    /\ k \in Pending(s) => k \notin localDown

\* What an event does to a key of an owner at the remote host.
Lifts(e, o, k) == e.owner = o /\ (e.kind = "stopped" \/ (e.kind = "key" /\ e.key = k /\ ~e.down))
Lowers(e, o, k) == e.owner = o /\ e.kind = "key" /\ e.key = k /\ e.down

\* The key will be down there once Dart has heard the events of q.
WillBeDown(q, o, k) ==
  \/ <<o, k>> \in remote /\ \A n \in 1 .. Len(q) : ~Lifts(q[n], o, k)
  \/ \E n \in 1 .. Len(q) : Lowers(q[n], o, k) /\ \A l \in n + 1 .. Len(q) : ~Lifts(q[l], o, k)

\* What will be down there is pressed for the present owner.
RemoteOK(s) ==
  \A o \in OwnersOrNone, k \in Keys :
    WillBeDown(toDart \o s.out, o, k) => o = s.owner /\ k \in s.pressed

\* Heartbeats are numbered, and only one of this arming has the number that is awaited.
FreshBeat(s, e) ==
  e.challenge \in 1 .. s.challenge /\ (e.challenge = s.pending => e.session = s.session)

AckOK(s) ==
  /\ \A e \in acks : FreshBeat(s, e)
  /\ \A n \in 1 .. Len(toDart \o s.out) :
       (toDart \o s.out)[n].kind = "heartbeat" => FreshBeat(s, (toDart \o s.out)[n])

Good(s) == CapOK(s) /\ LocalOK(s) /\ RemoteOK(s) /\ AckOK(s)

UserForm == mods \in Modifiers /\ focused \in BOOLEAN /\ permitted \in BOOLEAN /\ consumer \in BOOLEAN

ShortcutForm ==
  /\ toDart \in Seq(Events) /\ acks \subseteq Heartbeats
  /\ remote \subseteq OwnersOrNone \X Keys
  /\ held \subseteq Keys /\ localDown \subseteq Keys /\ missed \subseteq Keys /\ UserForm

ShortcutIInv == ShortcutForm /\ Good(cap) /\ cap.out = <<>> /\ ~staleAck

----------------------------------------------------------------------------
(* The system shortcuts: the fields of a capture object of which some were set. *)

LEMMA SetPending ==
  ASSUME NEW s \in Caps
  PROVE  \E t \in Caps :
           /\ t = [RouterStop(s) EXCEPT !.pending = 0]
           /\ t.armed = FALSE /\ t.pressed = {} /\ t.tails = s.tails \cup s.pressed
           /\ t.owner = s.owner /\ t.tap = s.tap /\ t.timer = s.timer
           /\ t.overdue = s.overdue /\ t.tailDeadline = s.tailDeadline /\ t.pending = 0
           /\ t.challenge = s.challenge /\ t.out = s.out /\ t.dropped = s.dropped
           /\ t.session = s.session
<1> DEFINE k == [RouterStop(s) EXCEPT !.pending = 0]
<1>1. k \in Caps
  BY DEF Caps, RouterStop
<1>2. k.armed = FALSE /\ k.pressed = {} /\ k.tails = s.tails \cup s.pressed
  BY DEF Caps, RouterStop
<1>3. k.owner = s.owner /\ k.tap = s.tap /\ k.timer = s.timer
  BY DEF Caps, RouterStop
<1>4. k.overdue = s.overdue /\ k.tailDeadline = s.tailDeadline /\ k.pending = 0
  BY DEF Caps, RouterStop
<1>5. k.challenge = s.challenge /\ k.out = s.out /\ k.dropped = s.dropped
  BY DEF Caps, RouterStop
<1>6. k.session = s.session
  BY DEF Caps, RouterStop
<1> QED BY <1>1, <1>2, <1>3, <1>4, <1>5, <1>6, Zenon

LEMMA SetReset ==
  ASSUME NEW s \in Caps
  PROVE  \E t \in Caps :
           /\ t = RouterReset(s)
           /\ t.armed = FALSE /\ t.pressed = {} /\ t.tails = {}
           /\ t.owner = s.owner /\ t.tap = s.tap /\ t.timer = s.timer
           /\ t.overdue = s.overdue /\ t.tailDeadline = s.tailDeadline /\ t.pending = s.pending
           /\ t.challenge = s.challenge /\ t.out = s.out /\ t.dropped = s.dropped \cup Pending(s)
           /\ t.session = s.session
<1> DEFINE k == RouterReset(s)
<1>1. k \in Caps
  BY DEF Caps, RouterReset, Pending
<1>2. k.armed = FALSE /\ k.pressed = {} /\ k.tails = {}
  BY DEF Caps, RouterReset, Pending
<1>3. k.owner = s.owner /\ k.tap = s.tap /\ k.timer = s.timer
  BY DEF Caps, RouterReset, Pending
<1>4. k.overdue = s.overdue /\ k.tailDeadline = s.tailDeadline /\ k.pending = s.pending
  BY DEF Caps, RouterReset, Pending
<1>5. k.challenge = s.challenge /\ k.out = s.out /\ k.dropped = s.dropped \cup Pending(s)
  BY DEF Caps, RouterReset, Pending
<1>6. k.session = s.session
  BY DEF Caps, RouterReset, Pending
<1> QED BY <1>1, <1>2, <1>3, <1>4, <1>5, <1>6, Zenon

LEMMA SetClosed ==
  ASSUME NEW s \in Caps
  PROVE  \E t \in Caps :
           /\ t = closeTap(s)
           /\ t.armed = s.armed /\ t.pressed = s.pressed /\ t.tails = s.tails
           /\ t.owner = s.owner /\ t.tap = "none" /\ t.timer = FALSE
           /\ t.overdue = s.overdue /\ t.tailDeadline = "none" /\ t.pending = 0
           /\ t.challenge = s.challenge /\ t.out = s.out /\ t.dropped = s.dropped
           /\ t.session = s.session
<1> DEFINE k == closeTap(s)
<1>1. k \in Caps
  BY DEF Caps, closeTap
<1>2. k.armed = s.armed /\ k.pressed = s.pressed /\ k.tails = s.tails
  BY DEF Caps, closeTap
<1>3. k.owner = s.owner /\ k.tap = "none" /\ k.timer = FALSE
  BY DEF Caps, closeTap
<1>4. k.overdue = s.overdue /\ k.tailDeadline = "none" /\ k.pending = 0
  BY DEF Caps, closeTap
<1>5. k.challenge = s.challenge /\ k.out = s.out /\ k.dropped = s.dropped
  BY DEF Caps, closeTap
<1>6. k.session = s.session
  BY DEF Caps, closeTap
<1> QED BY <1>1, <1>2, <1>3, <1>4, <1>5, <1>6, Zenon

LEMMA SetDeadline ==
  ASSUME NEW s \in Caps, NEW d \in {"none", "set", "due"}
  PROVE  \E t \in Caps :
           /\ t = [s EXCEPT !.tailDeadline = d]
           /\ t.armed = s.armed /\ t.pressed = s.pressed /\ t.tails = s.tails
           /\ t.owner = s.owner /\ t.tap = s.tap /\ t.timer = s.timer
           /\ t.overdue = s.overdue /\ t.tailDeadline = d /\ t.pending = s.pending
           /\ t.challenge = s.challenge /\ t.out = s.out /\ t.dropped = s.dropped
           /\ t.session = s.session
<1> DEFINE k == [s EXCEPT !.tailDeadline = d]
<1>1. k \in Caps
  BY DEF Caps
<1>2. k.armed = s.armed /\ k.pressed = s.pressed /\ k.tails = s.tails
  BY DEF Caps
<1>3. k.owner = s.owner /\ k.tap = s.tap /\ k.timer = s.timer
  BY DEF Caps
<1>4. k.overdue = s.overdue /\ k.tailDeadline = d /\ k.pending = s.pending
  BY DEF Caps
<1>5. k.challenge = s.challenge /\ k.out = s.out /\ k.dropped = s.dropped
  BY DEF Caps
<1>6. k.session = s.session
  BY DEF Caps
<1> QED BY <1>1, <1>2, <1>3, <1>4, <1>5, <1>6, Zenon

LEMMA SetOut ==
  ASSUME NEW s \in Caps, NEW q \in Seq(Events)
  PROVE  \E t \in Caps :
           /\ t = [s EXCEPT !.out = q]
           /\ t.armed = s.armed /\ t.pressed = s.pressed /\ t.tails = s.tails
           /\ t.owner = s.owner /\ t.tap = s.tap /\ t.timer = s.timer
           /\ t.overdue = s.overdue /\ t.tailDeadline = s.tailDeadline /\ t.pending = s.pending
           /\ t.challenge = s.challenge /\ t.out = q /\ t.dropped = s.dropped
           /\ t.session = s.session
<1> DEFINE k == [s EXCEPT !.out = q]
<1>1. k \in Caps
  BY DEF Caps
<1>2. k.armed = s.armed /\ k.pressed = s.pressed /\ k.tails = s.tails
  BY DEF Caps
<1>3. k.owner = s.owner /\ k.tap = s.tap /\ k.timer = s.timer
  BY DEF Caps
<1>4. k.overdue = s.overdue /\ k.tailDeadline = s.tailDeadline /\ k.pending = s.pending
  BY DEF Caps
<1>5. k.challenge = s.challenge /\ k.out = q /\ k.dropped = s.dropped
  BY DEF Caps
<1>6. k.session = s.session
  BY DEF Caps
<1> QED BY <1>1, <1>2, <1>3, <1>4, <1>5, <1>6, Zenon

----------------------------------------------------------------------------
(* The system shortcuts: queues of events.                                 *)

LEMMA Adding ==
  ASSUME toDart \in Seq(Events), NEW q \in Seq(Events), NEW e \in Events
  PROVE  /\ toDart \o q \in Seq(Events) /\ toDart \o Append(q, e) = Append(toDart \o q, e)
         /\ Append(q, e) \in Seq(Events)
<1>1. toDart \o q \in Seq(Events) /\ Append(q, e) \in Seq(Events)
  OBVIOUS
<1>2. toDart \o Append(q, e) = Append(toDart \o q, e)
  OBVIOUS
<1> QED BY <1>1, <1>2

LEMMA Appended ==
  ASSUME NEW q \in Seq(Events), NEW e \in Events
  PROVE  /\ Len(Append(q, e)) = Len(q) + 1 /\ Append(q, e)[Len(q) + 1] = e
         /\ \A n \in 1 .. Len(q) : Append(q, e)[n] = q[n]
  BY AppendProperties

\* One more event decides over the keys it is about, and no others.
LEMMA OneMoreEvent ==
  ASSUME NEW q \in Seq(Events), NEW e \in Events, NEW o, NEW k, WillBeDown(Append(q, e), o, k)
  PROVE  Lowers(e, o, k) \/ (WillBeDown(q, o, k) /\ ~Lifts(e, o, k))
<1> DEFINE r == Append(q, e)
           L == Len(q)
<1>1. /\ L \in Nat /\ Len(r) = L + 1 /\ r[L + 1] = e
      /\ \A n \in 1 .. L : r[n] = q[n]
  BY Appended
<1> HIDE DEF r, L
<1>2. CASE <<o, k>> \in remote /\ \A n \in 1 .. Len(r) : ~Lifts(r[n], o, k)
  <2>1. ~Lifts(e, o, k)
    <3>1. L + 1 \in 1 .. Len(r)
      BY <1>1
    <3> QED BY <1>1, <1>2, <3>1, Zenon
  <2>2. \A n \in 1 .. L : ~Lifts(q[n], o, k)
    <3>1. \A n \in 1 .. L : n \in 1 .. Len(r)
      BY <1>1
    <3> QED BY <1>1, <1>2, <3>1, Zenon
  <2> QED BY <1>2, <2>1, <2>2, Zenon DEF WillBeDown, L
<1>3. ASSUME NEW n \in 1 .. Len(r), Lowers(r[n], o, k), \A l \in n + 1 .. Len(r) : ~Lifts(r[l], o, k)
      PROVE  Lowers(e, o, k) \/ (WillBeDown(q, o, k) /\ ~Lifts(e, o, k))
  <2>1. CASE n = L + 1
    BY <1>1, <1>3, <2>1, Zenon
  <2>2. CASE n # L + 1
    <3>1. n \in 1 .. L /\ L + 1 \in n + 1 .. Len(r)
      BY <1>1, <1>3, <2>2
    <3>2. Lowers(q[n], o, k) /\ ~Lifts(e, o, k)
      BY <1>1, <1>3, <3>1, Zenon
    <3>3. \A l \in n + 1 .. L : l \in n + 1 .. Len(r) /\ l \in 1 .. L
      BY <1>1, <3>1
    <3>4. \A l \in n + 1 .. L : ~Lifts(q[l], o, k)
      BY <1>1, <1>3, <3>3, Zenon
    <3> QED BY <3>1, <3>2, <3>4, Zenon DEF WillBeDown, L
  <2> QED BY <2>1, <2>2
<1> QED BY <1>2, <1>3, Zenon DEF WillBeDown, r

\* Nothing is down at the remote host where nothing is pressed.
LEMMA Silent ==
  ASSUME NEW s, NEW t, RemoteOK(s), t.out = s.out, s.pressed = {} \/ (t.pressed = s.pressed /\ t.owner = s.owner)
  PROVE  RemoteOK(t)
<1>1. CASE s.pressed = {}
  BY <1>1 DEF RemoteOK
<1>2. CASE t.pressed = s.pressed /\ t.owner = s.owner
  BY <1>2, Zenon DEF RemoteOK
<1> QED BY <1>1, <1>2

\* The end of an owner's use lifts all its keys.
LEMMA StoppedEvent ==
  ASSUME toDart \in Seq(Events), NEW s \in Caps, NEW t, RemoteOK(s),
         t.out = Append(s.out, [kind |-> "stopped", owner |-> s.owner])
  PROVE  RemoteOK(t)
<1> DEFINE e == [kind |-> "stopped", owner |-> s.owner]
<1>1. e \in Events /\ s.out \in Seq(Events) /\ e.owner = s.owner /\ e.kind = "stopped"
  BY DEF Events, Stops, Caps
<1>2. t.out = Append(s.out, e)
  OBVIOUS
<1> HIDE DEF e
<1>3. toDart \o t.out = Append(toDart \o s.out, e) /\ toDart \o s.out \in Seq(Events)
  BY <1>1, <1>2, Adding
<1>4. ASSUME NEW o \in OwnersOrNone, NEW k \in Keys, WillBeDown(toDart \o t.out, o, k) PROVE FALSE
  <2>1. WillBeDown(Append(toDart \o s.out, e), o, k)
    BY <1>3, <1>4, Zenon
  <2>2. Lowers(e, o, k) \/ (WillBeDown(toDart \o s.out, o, k) /\ ~Lifts(e, o, k))
    BY <1>1, <1>3, <2>1, OneMoreEvent
  <2>3. ~Lowers(e, o, k)
    BY <1>1 DEF Lowers
  <2>4. o = s.owner
    BY <2>2, <2>3, Zenon DEF RemoteOK
  <2> QED BY <1>1, <2>2, <2>3, <2>4, Zenon DEF Lifts
<1> QED BY <1>4, Zenon DEF RemoteOK

LEMMA BeatEvent ==
  ASSUME toDart \in Seq(Events), NEW s \in Caps, NEW t, RemoteOK(s), NEW e \in Heartbeats,
         t.out = Append(s.out, e), t.pressed = s.pressed, t.owner = s.owner
  PROVE  RemoteOK(t)
<1>1. e \in Events /\ s.out \in Seq(Events) /\ e.kind = "heartbeat"
  BY DEF Events, Heartbeats, Caps
<1>2. toDart \o t.out = Append(toDart \o s.out, e) /\ toDart \o s.out \in Seq(Events)
  BY <1>1, Adding
<1>3. ASSUME NEW o \in OwnersOrNone, NEW k \in Keys, WillBeDown(toDart \o t.out, o, k)
      PROVE  o = t.owner /\ k \in t.pressed
  <2>1. WillBeDown(Append(toDart \o s.out, e), o, k)
    BY <1>2, <1>3, Zenon
  <2>2. Lowers(e, o, k) \/ (WillBeDown(toDart \o s.out, o, k) /\ ~Lifts(e, o, k))
    BY <1>1, <1>2, <2>1, OneMoreEvent
  <2>3. ~Lowers(e, o, k)
    BY <1>1 DEF Lowers
  <2> QED BY <2>2, <2>3, Zenon DEF RemoteOK
<1> QED BY <1>3, Zenon DEF RemoteOK

LEMMA KeyEvent ==
  ASSUME toDart \in Seq(Events), NEW s \in Caps, NEW t, RemoteOK(s), NEW x \in Keys, NEW down \in BOOLEAN,
         t.out = Append(s.out, [kind |-> "key", owner |-> s.owner, key |-> x, down |-> down]), t.owner = s.owner,
         t.pressed = IF down THEN s.pressed \cup {x} ELSE s.pressed \ {x}
  PROVE  RemoteOK(t)
<1> DEFINE e == [kind |-> "key", owner |-> s.owner, key |-> x, down |-> down]
<1>1. e \in Events /\ s.out \in Seq(Events)
  BY DEF Events, KeyEvents, Caps
<1>2. e.owner = s.owner /\ e.kind = "key" /\ e.key = x
  OBVIOUS
<1>3. e.down = down
  OBVIOUS
<1>4. t.out = Append(s.out, e)
  OBVIOUS
<1> HIDE DEF e
<1>5. toDart \o t.out = Append(toDart \o s.out, e) /\ toDart \o s.out \in Seq(Events)
  BY <1>1, <1>4, Adding
<1>6. ASSUME NEW o \in OwnersOrNone, NEW k \in Keys, WillBeDown(toDart \o t.out, o, k)
      PROVE  o = t.owner /\ k \in t.pressed
  <2>1. WillBeDown(Append(toDart \o s.out, e), o, k)
    BY <1>5, <1>6, Zenon
  <2>2. Lowers(e, o, k) \/ (WillBeDown(toDart \o s.out, o, k) /\ ~Lifts(e, o, k))
    BY <1>1, <1>5, <2>1, OneMoreEvent
  <2>3. CASE Lowers(e, o, k)
    <3>1. o = s.owner /\ k = x /\ down
      BY <1>2, <1>3, <2>3, Zenon DEF Lowers
    <3> QED BY <3>1
  <2>4. CASE WillBeDown(toDart \o s.out, o, k) /\ ~Lifts(e, o, k)
    <3>1. o = s.owner /\ k \in s.pressed
      BY <2>4, Zenon DEF RemoteOK
    <3>2. k # x \/ down
      BY <1>2, <1>3, <2>4, <3>1, Zenon DEF Lifts
    <3> QED BY <3>1, <3>2
  <2> QED BY <2>2, <2>3, <2>4
<1> QED BY <1>6, Zenon DEF RemoteOK

\* The numbers of heartbeats: nothing is forgotten but the number that is awaited.
LEMMA BeatsKeep ==
  ASSUME NEW s \in Caps, NEW t \in Caps, AckOK(s), t.challenge = s.challenge, t.out = s.out,
         t.pending = 0 \/ (t.pending = s.pending /\ t.session = s.session)
  PROVE  AckOK(t)
<1>1. ASSUME NEW e, FreshBeat(s, e) PROVE FreshBeat(t, e)
  BY <1>1 DEF FreshBeat
<1> QED
  BY <1>1, Zenon DEF AckOK

LEMMA BeatsKeepEvent ==
  ASSUME toDart \in Seq(Events), NEW s \in Caps, NEW t \in Caps, NEW e \in Events, AckOK(s), t.out = Append(s.out, e),
         s.challenge <= t.challenge,
         t.pending \in {0, s.challenge + 1} \/ (t.pending = s.pending /\ t.session = s.session),
         e.kind = "heartbeat" => FreshBeat(t, e)
  PROVE  AckOK(t)
<1> DEFINE q == toDart \o s.out
<1>1. /\ toDart \o t.out = Append(q, e) /\ q \in Seq(Events) /\ s.challenge \in Nat /\ t.challenge \in Nat
      /\ s.out \in Seq(Events)
  <2>1. s.out \in Seq(Events) /\ s.challenge \in Nat /\ t.challenge \in Nat
    BY DEF Caps
  <2> QED BY <2>1, Adding
<1>2. ASSUME NEW x, FreshBeat(s, x) PROVE FreshBeat(t, x)
  BY <1>1, <1>2 DEF FreshBeat
<1>3. /\ Len(Append(q, e)) = Len(q) + 1 /\ Append(q, e)[Len(q) + 1] = e
      /\ \A n \in 1 .. Len(q) : Append(q, e)[n] = q[n]
  BY <1>1, Appended
<1>4. ASSUME NEW n \in 1 .. Len(Append(q, e)), Append(q, e)[n].kind = "heartbeat" PROVE FreshBeat(t, Append(q, e)[n])
  <2>1. CASE n = Len(q) + 1
    BY <1>3, <1>4, <2>1, Zenon
  <2>2. CASE n \in 1 .. Len(q)
    BY <1>2, <1>3, <1>4, <2>2, Zenon DEF AckOK
  <2>3. Len(q) \in Nat
    BY <1>1
  <2> HIDE DEF q
  <2> QED BY <1>3, <2>1, <2>2, <2>3
<1> QED
  BY <1>1, <1>2, <1>4, Zenon DEF AckOK

----------------------------------------------------------------------------
(* The system shortcuts: what the parts of the handlers do to a capture.   *)

Stopped(o) == [kind |-> "stopped", owner |-> o]

\* What becomes of a capture s that is stopped.
StopOf(s, discard, t) ==
  /\ t \in Caps /\ ~t.armed /\ t.pressed = {} /\ t.owner = s.owner /\ t.pending = 0
  /\ t.challenge = s.challenge /\ t.session = s.session /\ t.overdue = s.overdue
  /\ discard => t.tails = {} /\ t.dropped = s.dropped \cup Pending(s)
  /\ ~discard => t.tails = Pending(s) /\ t.dropped = s.dropped
  /\ t.tails = {} => t.tap = "none" /\ ~t.timer
  /\ t.tails # {} => t.tap = s.tap /\ t.timer = s.timer
  /\ s.armed => t.out = Append(s.out, Stopped(s.owner))
  /\ ~s.armed => t.out = s.out

LEMMA StopFields ==
  ASSUME NEW s \in Caps, NEW discard \in BOOLEAN
  PROVE  StopOf(s, discard, stop(s, discard))
<1>1. PICK r \in Caps :
        /\ r = [RouterStop(s) EXCEPT !.pending = 0]
        /\ r.armed = FALSE /\ r.pressed = {} /\ r.tails = s.tails \cup s.pressed
        /\ r.owner = s.owner /\ r.tap = s.tap /\ r.timer = s.timer
        /\ r.overdue = s.overdue /\ r.tailDeadline = s.tailDeadline /\ r.pending = 0
        /\ r.challenge = s.challenge /\ r.out = s.out /\ r.dropped = s.dropped
        /\ r.session = s.session
  BY SetPending, Zenon
<1>2. PICK d \in Caps :
        /\ d = IF discard THEN RouterReset(r) ELSE r
        /\ ~d.armed /\ d.pressed = {} /\ d.owner = s.owner /\ d.pending = 0
        /\ d.challenge = s.challenge /\ d.session = s.session /\ d.overdue = s.overdue
        /\ d.tap = s.tap /\ d.timer = s.timer /\ d.out = s.out
        /\ discard => d.tails = {} /\ d.dropped = s.dropped \cup Pending(s)
        /\ ~discard => d.tails = Pending(s) /\ d.dropped = s.dropped
  <2>1. Pending(r) = Pending(s) /\ r.tails = Pending(s)
    BY <1>1 DEF Pending
  <2>2. CASE discard
    <3>1. PICK d \in Caps :
            /\ d = RouterReset(r)
            /\ d.armed = FALSE /\ d.pressed = {} /\ d.tails = {}
            /\ d.owner = r.owner /\ d.tap = r.tap /\ d.timer = r.timer
            /\ d.overdue = r.overdue /\ d.tailDeadline = r.tailDeadline /\ d.pending = r.pending
            /\ d.challenge = r.challenge /\ d.out = r.out /\ d.dropped = r.dropped \cup Pending(r)
            /\ d.session = r.session
      BY SetReset, Zenon
    <3>2. d = IF discard THEN RouterReset(r) ELSE r
      BY <2>2, <3>1, Zenon
    <3> QED BY <1>1, <2>1, <2>2, <3>1, <3>2, Zenon
  <2>3. CASE ~discard
    <3>1. r = IF discard THEN RouterReset(r) ELSE r
      BY <2>3, Zenon
    <3> QED BY <1>1, <2>1, <2>3, <3>1, Zenon
  <2> QED BY <2>2, <2>3
<1>3. PICK c \in Caps :
        /\ c = IF Pending(d) = {} THEN closeTap(d) ELSE TailLimited(d)
        /\ ~c.armed /\ c.pressed = {} /\ c.owner = d.owner /\ c.pending = 0
        /\ c.challenge = d.challenge /\ c.session = d.session /\ c.overdue = d.overdue
        /\ c.tails = d.tails /\ c.dropped = d.dropped /\ c.out = d.out
        /\ d.tails = {} => c.tap = "none" /\ ~c.timer
        /\ d.tails # {} => c.tap = d.tap /\ c.timer = d.timer
  <2>1. Pending(d) = d.tails
    BY <1>2 DEF Pending
  <2>2. CASE d.tails = {}
    <3>1. PICK c \in Caps :
            /\ c = closeTap(d)
            /\ c.armed = d.armed /\ c.pressed = d.pressed /\ c.tails = d.tails
            /\ c.owner = d.owner /\ c.tap = "none" /\ c.timer = FALSE
            /\ c.overdue = d.overdue /\ c.tailDeadline = "none" /\ c.pending = 0
            /\ c.challenge = d.challenge /\ c.out = d.out /\ c.dropped = d.dropped
            /\ c.session = d.session
      BY SetClosed, Zenon
    <3>2. c = IF Pending(d) = {} THEN closeTap(d) ELSE TailLimited(d)
      BY <2>1, <2>2, <3>1, Zenon
    <3> QED BY <1>2, <2>2, <3>1, <3>2, Zenon
  <2>3. CASE d.tails # {} /\ d.tailDeadline # "none"
    <3>1. d = IF Pending(d) = {} THEN closeTap(d) ELSE TailLimited(d)
      BY <2>1, <2>3, Zenon DEF TailLimited
    <3> QED BY <1>2, <2>3, <3>1, Zenon
  <2>4. CASE d.tails # {} /\ d.tailDeadline = "none"
    <3>1. PICK c \in Caps :
            /\ c = [d EXCEPT !.tailDeadline = "set"]
            /\ c.armed = d.armed /\ c.pressed = d.pressed /\ c.tails = d.tails
            /\ c.owner = d.owner /\ c.tap = d.tap /\ c.timer = d.timer
            /\ c.overdue = d.overdue /\ c.tailDeadline = "set" /\ c.pending = d.pending
            /\ c.challenge = d.challenge /\ c.out = d.out /\ c.dropped = d.dropped
            /\ c.session = d.session
      <4>1. "set" \in {"none", "set", "due"}
        OBVIOUS
      <4> QED BY <4>1, SetDeadline, Zenon
    <3>2. c = IF Pending(d) = {} THEN closeTap(d) ELSE TailLimited(d)
      BY <2>1, <2>4, <3>1, Zenon DEF TailLimited
    <3> QED BY <1>2, <2>4, <3>1, <3>2, Zenon
  <2> QED BY <2>2, <2>3, <2>4
<1>4. stop(s, discard) = IF s.armed THEN Emit(c, Stopped(s.owner)) ELSE c
  BY <1>1, <1>2, <1>3, Zenon DEF stop, Stopped
<1>5. CASE ~s.armed
  <2>1. stop(s, discard) = c
    BY <1>4, <1>5, Zenon
  <2> QED BY <1>1, <1>2, <1>3, <1>5, <2>1, Zenon DEF StopOf
<1>6. CASE s.armed
  <2>1. Append(c.out, Stopped(s.owner)) \in Seq(Events)
    <3>1. Stopped(s.owner) \in Events /\ c.out \in Seq(Events)
      BY DEF Stopped, Events, Stops, Caps
    <3> QED BY <3>1
  <2>2. PICK t \in Caps :
          /\ t = [c EXCEPT !.out = Append(c.out, Stopped(s.owner))]
          /\ t.armed = c.armed /\ t.pressed = c.pressed /\ t.tails = c.tails
          /\ t.owner = c.owner /\ t.tap = c.tap /\ t.timer = c.timer
          /\ t.overdue = c.overdue /\ t.tailDeadline = c.tailDeadline /\ t.pending = c.pending
          /\ t.challenge = c.challenge /\ t.out = Append(c.out, Stopped(s.owner)) /\ t.dropped = c.dropped
          /\ t.session = c.session
    BY <2>1, SetOut, Zenon
  <2>3. stop(s, discard) = t
    BY <1>4, <1>6, <2>2, Zenon DEF Emit
  <2>4. t.out = Append(s.out, Stopped(s.owner))
    <3>1. c.out = s.out
      BY <1>2, <1>3, Zenon
    <3> QED BY <2>2, <3>1, Zenon
  <2>5. StopOf(s, discard, t)
    <3>1. /\ ~t.armed /\ t.pressed = {} /\ t.owner = s.owner /\ t.pending = 0
          /\ t.challenge = s.challenge /\ t.session = s.session /\ t.overdue = s.overdue
      BY <1>2, <1>3, <2>2, Zenon
    <3>2. t.tails = d.tails /\ t.dropped = d.dropped /\ t.tap = c.tap /\ t.timer = c.timer
      BY <1>3, <2>2, Zenon
    <3>3. /\ discard => t.tails = {} /\ t.dropped = s.dropped \cup Pending(s)
          /\ ~discard => t.tails = Pending(s) /\ t.dropped = s.dropped
      BY <1>2, <3>2, Zenon
    <3>4. /\ t.tails = {} => t.tap = "none" /\ ~t.timer
          /\ t.tails # {} => t.tap = s.tap /\ t.timer = s.timer
      BY <1>2, <1>3, <3>2, Zenon
    <3> QED BY <1>6, <2>4, <3>1, <3>3, <3>4, Zenon DEF StopOf
  <2> QED BY <2>3, <2>5, Zenon
<1> QED BY <1>5, <1>6

\* A stop, with or without its tail, leaves everything in order.
LEMMA StopKeeps ==
  ASSUME toDart \in Seq(Events), NEW s, Good(s), NEW discard \in BOOLEAN
  PROVE  Good(stop(s, discard)) /\ StopOf(s, discard, stop(s, discard))
<1> DEFINE t == stop(s, discard)
<1>1. s \in Caps /\ StopOf(s, discard, t)
  BY StopFields DEF Good, CapOK
<1> HIDE DEF t
<1>2. CapOK(t)
  <2>1. s.challenge \in Nat /\ s.challenge <= MaxChallenge /\ (s.tap # "none" <=> s.timer)
    BY DEF Good, CapOK, Caps
  <2>2. t.challenge <= MaxChallenge /\ t.pending <= t.challenge
    BY <1>1, <2>1 DEF StopOf
  <2>3. t.tap # "none" <=> t.timer
    <3>1. CASE t.tails = {}
      BY <1>1, <3>1 DEF StopOf
    <3>2. CASE t.tails # {}
      BY <1>1, <2>1, <3>2, Zenon DEF StopOf
    <3> QED BY <3>1, <3>2
  <2> QED
    BY <1>1, <2>2, <2>3, Zenon DEF CapOK, StopOf
<1>3. LocalOK(t)
  <2>1. Pending(t) = t.tails
    BY <1>1 DEF StopOf, Pending
  <2>2. CASE discard
    BY <1>1, <2>1, <2>2 DEF StopOf, Good, LocalOK
  <2>3. CASE ~discard
    BY <1>1, <2>1, <2>3 DEF StopOf, Good, LocalOK
  <2> QED BY <2>2, <2>3
<1>4. RemoteOK(t)
  <2>1. CASE s.armed
    BY <1>1, <2>1, StoppedEvent DEF StopOf, Good, Stopped
  <2>2. CASE ~s.armed
    BY <1>1, <2>2, Silent DEF StopOf, Good, CapOK
  <2> QED BY <2>1, <2>2
<1>5. AckOK(t)
  <2>1. t \in Caps /\ t.challenge = s.challenge /\ t.pending = 0 /\ s.challenge \in Nat
    BY <1>1 DEF StopOf, Caps
  <2>2. CASE s.armed
    <3>1. Stopped(s.owner) \in Events /\ Stopped(s.owner).kind = "stopped"
      BY <1>1 DEF Stopped, Events, Stops, Caps
    <3>2. t.out = Append(s.out, Stopped(s.owner)) /\ AckOK(s)
      BY <1>1, <2>2, Zenon DEF StopOf, Good
    <3>3. s.challenge <= t.challenge
      BY <2>1
    <3> QED BY <1>1, <2>1, <3>1, <3>2, <3>3, BeatsKeepEvent
  <2>3. CASE ~s.armed
    BY <1>1, <2>1, <2>3, BeatsKeep DEF StopOf, Good
  <2> QED BY <2>2, <2>3
<1> QED BY <1>1, <1>2, <1>3, <1>4, <1>5 DEF Good, t

LEMMA ExpireKeeps ==
  ASSUME toDart \in Seq(Events), NEW s, Good(s)
  PROVE  /\ Good(expireIfNeeded(s))
         /\ expireIfNeeded(s) = s \/ StopOf(s, TRUE, expireIfNeeded(s))
  BY StopKeeps, Zenon DEF expireIfNeeded

\* A handler hands over its events: the same of the capture as it is left.
LEMMA EndsParts ==
  ASSUME toDart \in Seq(Events), NEW s, CapOK(s), RemoteOK(s), AckOK(s), UNCHANGED remote, acks' \subseteq acks, Ends(s)
  PROVE  /\ CapOK(cap)' /\ RemoteOK(cap)' /\ AckOK(cap)' /\ cap'.out = <<>> /\ toDart' \in Seq(Events)
         /\ cap'.pressed = s.pressed /\ cap'.tails = s.tails /\ cap'.dropped = s.dropped
<1>1. s \in Caps /\ s.out \in Seq(Events) /\ <<>> \in Seq(Events)
  BY DEF CapOK, Caps
<1>2. PICK c \in Caps :
        /\ c = [s EXCEPT !.out = <<>>]
        /\ c.armed = s.armed /\ c.pressed = s.pressed /\ c.tails = s.tails
        /\ c.owner = s.owner /\ c.tap = s.tap /\ c.timer = s.timer
        /\ c.overdue = s.overdue /\ c.tailDeadline = s.tailDeadline /\ c.pending = s.pending
        /\ c.challenge = s.challenge /\ c.out = <<>> /\ c.dropped = s.dropped
        /\ c.session = s.session
  BY <1>1, SetOut, Zenon
<1>3. cap' = c /\ toDart' = toDart \o s.out
  BY <1>2, Zenon DEF Ends
<1>4. PICK q : q = toDart \o s.out
  BY Zenon
<1>5. toDart' = q /\ q \in Seq(Events)
  BY <1>1, <1>3, <1>4
<1>6. toDart' \o cap'.out = q
  <2>1. cap'.out = <<>>
    BY <1>2, <1>3, Zenon
  <2> QED BY <1>5, <2>1
<1>7. CapOK(c)
  BY <1>2, Zenon DEF CapOK
<1>8. CapOK(cap)'
  BY <1>3, <1>7, Zenon DEF CapOK
<1>9. RemoteOK(cap)'
  <2>1. ASSUME NEW o \in OwnersOrNone, NEW k \in Keys, WillBeDown(q, o, k)' PROVE o = cap'.owner /\ k \in cap'.pressed
    <3>1. WillBeDown(q, o, k)
      BY <2>1 DEF WillBeDown
    <3>2. o = s.owner /\ k \in s.pressed
      BY <1>4, <3>1, Zenon DEF RemoteOK
    <3> QED BY <1>2, <1>3, <3>2, Zenon
  <2> QED BY <1>6, <2>1, Zenon DEF RemoteOK
<1>10. AckOK(cap)'
  <2>1. ASSUME NEW e, FreshBeat(s, e) PROVE FreshBeat(c, e)
    BY <1>2, <2>1, Zenon DEF FreshBeat
  <2>2. ASSUME NEW e, FreshBeat(c, e) PROVE FreshBeat(cap, e)'
    BY <1>3, <2>2, Zenon DEF FreshBeat
  <2>3. \A e \in acks : FreshBeat(s, e)
    BY Zenon DEF AckOK
  <2>4. \A n \in 1 .. Len(q) : q[n].kind = "heartbeat" => FreshBeat(s, q[n])
    BY <1>4, Zenon DEF AckOK
  <2> QED BY <1>6, <2>1, <2>2, <2>3, <2>4, Zenon DEF AckOK
<1> QED BY <1>2, <1>3, <1>5, <1>8, <1>9, <1>10, Zenon

LEMMA EndsKeeps ==
  ASSUME ShortcutIInv, NEW s, Good(s), Ends(s), UNCHANGED <<held, remote, keyVars>>, acks' \subseteq acks, UserForm',
         ~staleAck'
  PROVE  ShortcutIInv'
<1>1. toDart \in Seq(Events) /\ CapOK(s) /\ LocalOK(s) /\ RemoteOK(s) /\ AckOK(s)
  BY Zenon DEF ShortcutIInv, ShortcutForm, Good
<1>2. UNCHANGED <<held, remote, localDown, taken, missed>>
  BY Zenon DEF keyVars
<1>3. /\ CapOK(cap)' /\ RemoteOK(cap)' /\ AckOK(cap)' /\ cap'.out = <<>> /\ toDart' \in Seq(Events)
      /\ cap'.pressed = s.pressed /\ cap'.tails = s.tails /\ cap'.dropped = s.dropped
  BY <1>1, <1>2, EndsParts
<1>4. Pending(cap') = Pending(s)
  BY <1>3 DEF Pending
<1>5. LocalOK(cap)'
  <2>1. Pending(cap)' = Pending(s)
    BY <1>4 DEF Pending
  <2> QED BY <1>1, <1>2, <1>3, <2>1 DEF LocalOK
<1>6. ShortcutForm'
  BY <1>2, <1>3 DEF ShortcutIInv, ShortcutForm
<1> QED BY <1>3, <1>5, <1>6 DEF ShortcutIInv, Good

\* A capture of which only the timing is changed.
LEMMA TimingKeeps ==
  ASSUME NEW s, Good(s), NEW t \in Caps, t.armed = s.armed, t.pressed = s.pressed, t.tails = s.tails, t.owner = s.owner,
         t.challenge = s.challenge, t.session = s.session, t.dropped = s.dropped, t.out = s.out,
         t.pending = s.pending \/ t.pending = 0, t.tap # "none" <=> s.tap # "none", t.timer = s.timer
  PROVE  Good(t)
<1>1. s \in Caps /\ s.pending \in Nat /\ s.challenge \in Nat
  BY DEF Good, CapOK, Caps
<1>2. CapOK(t)
  <2>1. t.challenge <= MaxChallenge /\ t.pending <= t.challenge
    BY <1>1 DEF Good, CapOK
  <2> QED BY <2>1, Zenon DEF Good, CapOK
<1>3. LocalOK(t)
  <2>1. Pending(t) = Pending(s)
    BY DEF Pending
  <2> QED BY <2>1, Zenon DEF LocalOK, Good
<1>4. RemoteOK(t)
  BY Silent, Zenon DEF Good
<1>5. AckOK(t)
  BY <1>1, BeatsKeep, Zenon DEF Good
<1> QED BY <1>2, <1>3, <1>4, <1>5 DEF Good

LEMMA SetAcked ==
  ASSUME NEW s \in Caps
  PROVE  \E t \in Caps :
           /\ t = [s EXCEPT !.pending = 0, !.overdue = FALSE]
           /\ t.armed = s.armed /\ t.pressed = s.pressed /\ t.tails = s.tails
           /\ t.owner = s.owner /\ t.tap = s.tap /\ t.timer = s.timer
           /\ t.overdue = FALSE /\ t.tailDeadline = s.tailDeadline /\ t.pending = 0
           /\ t.challenge = s.challenge /\ t.out = s.out /\ t.dropped = s.dropped
           /\ t.session = s.session
<1> DEFINE k == [s EXCEPT !.pending = 0, !.overdue = FALSE]
<1>1. k \in Caps
  BY DEF Caps
<1>2. k.armed = s.armed /\ k.pressed = s.pressed /\ k.tails = s.tails
  BY DEF Caps
<1>3. k.owner = s.owner /\ k.tap = s.tap /\ k.timer = s.timer
  BY DEF Caps
<1>4. k.overdue = FALSE /\ k.tailDeadline = s.tailDeadline /\ k.pending = 0
  BY DEF Caps
<1>5. k.challenge = s.challenge /\ k.out = s.out /\ k.dropped = s.dropped
  BY DEF Caps
<1>6. k.session = s.session
  BY DEF Caps
<1> QED BY <1>1, <1>2, <1>3, <1>4, <1>5, <1>6, Zenon

LEMMA SetOverdue ==
  ASSUME NEW s \in Caps
  PROVE  \E t \in Caps :
           /\ t = [s EXCEPT !.overdue = TRUE]
           /\ t.armed = s.armed /\ t.pressed = s.pressed /\ t.tails = s.tails
           /\ t.owner = s.owner /\ t.tap = s.tap /\ t.timer = s.timer
           /\ t.overdue = TRUE /\ t.tailDeadline = s.tailDeadline /\ t.pending = s.pending
           /\ t.challenge = s.challenge /\ t.out = s.out /\ t.dropped = s.dropped
           /\ t.session = s.session
<1> DEFINE k == [s EXCEPT !.overdue = TRUE]
<1>1. k \in Caps
  BY DEF Caps
<1>2. k.armed = s.armed /\ k.pressed = s.pressed /\ k.tails = s.tails
  BY DEF Caps
<1>3. k.owner = s.owner /\ k.tap = s.tap /\ k.timer = s.timer
  BY DEF Caps
<1>4. k.overdue = TRUE /\ k.tailDeadline = s.tailDeadline /\ k.pending = s.pending
  BY DEF Caps
<1>5. k.challenge = s.challenge /\ k.out = s.out /\ k.dropped = s.dropped
  BY DEF Caps
<1>6. k.session = s.session
  BY DEF Caps
<1> QED BY <1>1, <1>2, <1>3, <1>4, <1>5, <1>6, Zenon

LEMMA SetTap ==
  ASSUME NEW s \in Caps, NEW x \in {"none", "on", "off"}
  PROVE  \E t \in Caps :
           /\ t = [s EXCEPT !.tap = x]
           /\ t.armed = s.armed /\ t.pressed = s.pressed /\ t.tails = s.tails
           /\ t.owner = s.owner /\ t.tap = x /\ t.timer = s.timer
           /\ t.overdue = s.overdue /\ t.tailDeadline = s.tailDeadline /\ t.pending = s.pending
           /\ t.challenge = s.challenge /\ t.out = s.out /\ t.dropped = s.dropped
           /\ t.session = s.session
<1> DEFINE k == [s EXCEPT !.tap = x]
<1>1. k \in Caps
  BY DEF Caps
<1>2. k.armed = s.armed /\ k.pressed = s.pressed /\ k.tails = s.tails
  BY DEF Caps
<1>3. k.owner = s.owner /\ k.tap = x /\ k.timer = s.timer
  BY DEF Caps
<1>4. k.overdue = s.overdue /\ k.tailDeadline = s.tailDeadline /\ k.pending = s.pending
  BY DEF Caps
<1>5. k.challenge = s.challenge /\ k.out = s.out /\ k.dropped = s.dropped
  BY DEF Caps
<1>6. k.session = s.session
  BY DEF Caps
<1> QED BY <1>1, <1>2, <1>3, <1>4, <1>5, <1>6, Zenon

\* The parts of handlers that may stop a capture.
LEMMA ScreenedKeeps ==
  ASSUME toDart \in Seq(Events), NEW s, Good(s)
  PROVE  Good(Screened(s))
<1>1. PICK e : e = expireIfNeeded(s)
  BY Zenon
<1>2. Good(e)
  BY <1>1, ExpireKeeps, Zenon
<1> QED
  BY <1>1, <1>2, StopKeeps, Zenon DEF Screened

LEMMA CheckedKeeps ==
  ASSUME toDart \in Seq(Events), NEW s, Good(s)
  PROVE  Good(Checked(s))
<1>1. PICK e : e = expireIfNeeded(s)
  BY Zenon
<1>2. Good(e)
  BY <1>1, ExpireKeeps, Zenon
<1>3. PICK t : t = IF e.tailDeadline = "due" THEN stop(e, TRUE) ELSE e
  BY Zenon
<1>4. Good(t)
  BY <1>2, <1>3, StopKeeps, Zenon
<1> QED
  BY <1>1, <1>3, <1>4, StopKeeps, Zenon DEF Checked

LEMMA TailEndsKeeps ==
  ASSUME toDart \in Seq(Events), NEW s, Good(s)
  PROVE  Good(TailEnds(s))
<1>1. s \in Caps
  BY DEF Good, CapOK
<1>2. CASE ~s.armed /\ TailEnds(s) = closeTap(s)
  <2>1. PICK t \in Caps :
          /\ t = closeTap(s)
          /\ t.armed = s.armed /\ t.pressed = s.pressed /\ t.tails = s.tails
          /\ t.owner = s.owner /\ t.tap = "none" /\ t.timer = FALSE
          /\ t.overdue = s.overdue /\ t.tailDeadline = "none" /\ t.pending = 0
          /\ t.challenge = s.challenge /\ t.out = s.out /\ t.dropped = s.dropped
          /\ t.session = s.session
    BY <1>1, SetClosed, Zenon
  <2>2. CapOK(t)
    <3>1. s.challenge \in Nat /\ s.challenge <= MaxChallenge
      BY <1>1 DEF Good, CapOK, Caps
    <3>2. t.challenge <= MaxChallenge /\ t.pending <= t.challenge
      BY <2>1, <3>1
    <3> QED BY <1>2, <2>1, <3>2, Zenon DEF Good, CapOK
  <2>3. LocalOK(t)
    <3>1. Pending(t) = Pending(s)
      BY <2>1 DEF Pending
    <3> QED BY <2>1, <3>1, Zenon DEF LocalOK, Good
  <2>4. RemoteOK(t)
    BY <2>1, Silent, Zenon DEF Good
  <2>5. AckOK(t)
    BY <1>1, <2>1, BeatsKeep, Zenon DEF Good
  <2> QED BY <1>2, <2>1, <2>2, <2>3, <2>4, <2>5, Zenon DEF Good
<1>3. CASE TailEnds(s) = s
  BY <1>3, Zenon
<1> QED
  BY <1>2, <1>3, Zenon DEF TailEnds

\* Steps that leave the events alone.
LEMMA CapKeeps ==
  ASSUME ShortcutIInv, NEW t, Good(t), t.out = <<>>, cap' = t, UNCHANGED <<toDart, held, remote, acks, keyVars>>,
         UserForm', ~staleAck'
  PROVE  ShortcutIInv'
<1>1. UNCHANGED <<localDown, taken, missed>>
  BY Zenon DEF keyVars
<1>2. CapOK(cap)'
  BY Zenon DEF Good, CapOK
<1>3. LocalOK(cap)'
  <2>1. Pending(cap)' = Pending(t)
    BY Zenon DEF Pending
  <2> QED BY <1>1, <2>1, Zenon DEF LocalOK, Good
<1>4. RemoteOK(cap)'
  BY Zenon DEF Good, RemoteOK, WillBeDown
<1>5. AckOK(cap)'
  BY Zenon DEF Good, AckOK, FreshBeat
<1>6. ShortcutForm'
  BY <1>1, Zenon DEF ShortcutIInv, ShortcutForm
<1> QED BY <1>2, <1>3, <1>4, <1>5, <1>6, Zenon DEF ShortcutIInv, Good

LEMMA Users ==
  ASSUME ShortcutIInv
  PROVE  /\ toDart \in Seq(Events) /\ Good(cap) /\ cap \in Caps /\ cap.out = <<>> /\ UserForm /\ ~staleAck
         /\ UNCHANGED <<mods, focused, permitted, consumer>> => UserForm'
  BY Zenon DEF ShortcutIInv, ShortcutForm, UserForm, Good, CapOK

LEMMA SetTails ==
  ASSUME NEW s \in Caps, NEW S \in SUBSET Keys
  PROVE  \E t \in Caps :
           /\ t = [s EXCEPT !.tails = S]
           /\ t.armed = s.armed /\ t.pressed = s.pressed /\ t.tails = S
           /\ t.owner = s.owner /\ t.tap = s.tap /\ t.timer = s.timer
           /\ t.overdue = s.overdue /\ t.tailDeadline = s.tailDeadline /\ t.pending = s.pending
           /\ t.challenge = s.challenge /\ t.out = s.out /\ t.dropped = s.dropped
           /\ t.session = s.session
<1> DEFINE k == [s EXCEPT !.tails = S]
<1>1. k \in Caps
  BY DEF Caps
<1>2. k.armed = s.armed /\ k.pressed = s.pressed /\ k.tails = S
  BY DEF Caps
<1>3. k.owner = s.owner /\ k.tap = s.tap /\ k.timer = s.timer
  BY DEF Caps
<1>4. k.overdue = s.overdue /\ k.tailDeadline = s.tailDeadline /\ k.pending = s.pending
  BY DEF Caps
<1>5. k.challenge = s.challenge /\ k.out = s.out /\ k.dropped = s.dropped
  BY DEF Caps
<1>6. k.session = s.session
  BY DEF Caps
<1> QED BY <1>1, <1>2, <1>3, <1>4, <1>5, <1>6, Zenon

LEMMA SetPressed ==
  ASSUME NEW s \in Caps, NEW S \in SUBSET Keys
  PROVE  \E t \in Caps :
           /\ t = [s EXCEPT !.pressed = S]
           /\ t.armed = s.armed /\ t.pressed = S /\ t.tails = s.tails
           /\ t.owner = s.owner /\ t.tap = s.tap /\ t.timer = s.timer
           /\ t.overdue = s.overdue /\ t.tailDeadline = s.tailDeadline /\ t.pending = s.pending
           /\ t.challenge = s.challenge /\ t.out = s.out /\ t.dropped = s.dropped
           /\ t.session = s.session
<1> DEFINE k == [s EXCEPT !.pressed = S]
<1>1. k \in Caps
  BY DEF Caps
<1>2. k.armed = s.armed /\ k.pressed = S /\ k.tails = s.tails
  BY DEF Caps
<1>3. k.owner = s.owner /\ k.tap = s.tap /\ k.timer = s.timer
  BY DEF Caps
<1>4. k.overdue = s.overdue /\ k.tailDeadline = s.tailDeadline /\ k.pending = s.pending
  BY DEF Caps
<1>5. k.challenge = s.challenge /\ k.out = s.out /\ k.dropped = s.dropped
  BY DEF Caps
<1>6. k.session = s.session
  BY DEF Caps
<1> QED BY <1>1, <1>2, <1>3, <1>4, <1>5, <1>6, Zenon

LEMMA SetDropped ==
  ASSUME NEW s \in Caps, NEW S \in SUBSET Keys
  PROVE  \E t \in Caps :
           /\ t = [s EXCEPT !.dropped = S]
           /\ t.armed = s.armed /\ t.pressed = s.pressed /\ t.tails = s.tails
           /\ t.owner = s.owner /\ t.tap = s.tap /\ t.timer = s.timer
           /\ t.overdue = s.overdue /\ t.tailDeadline = s.tailDeadline /\ t.pending = s.pending
           /\ t.challenge = s.challenge /\ t.out = s.out /\ t.dropped = S
           /\ t.session = s.session
<1> DEFINE k == [s EXCEPT !.dropped = S]
<1>1. k \in Caps
  BY DEF Caps
<1>2. k.armed = s.armed /\ k.pressed = s.pressed /\ k.tails = s.tails
  BY DEF Caps
<1>3. k.owner = s.owner /\ k.tap = s.tap /\ k.timer = s.timer
  BY DEF Caps
<1>4. k.overdue = s.overdue /\ k.tailDeadline = s.tailDeadline /\ k.pending = s.pending
  BY DEF Caps
<1>5. k.challenge = s.challenge /\ k.out = s.out /\ k.dropped = S
  BY DEF Caps
<1>6. k.session = s.session
  BY DEF Caps
<1> QED BY <1>1, <1>2, <1>3, <1>4, <1>5, <1>6, Zenon

LEMMA SetOwner ==
  ASSUME NEW s \in Caps, NEW x \in Owners
  PROVE  \E t \in Caps :
           /\ t = [s EXCEPT !.owner = x]
           /\ t.armed = s.armed /\ t.pressed = s.pressed /\ t.tails = s.tails
           /\ t.owner = x /\ t.tap = s.tap /\ t.timer = s.timer
           /\ t.overdue = s.overdue /\ t.tailDeadline = s.tailDeadline /\ t.pending = s.pending
           /\ t.challenge = s.challenge /\ t.out = s.out /\ t.dropped = s.dropped
           /\ t.session = s.session
<1> DEFINE k == [s EXCEPT !.owner = x]
<1>1. k \in Caps
  BY DEF Caps, OwnersOrNone
<1>2. k.armed = s.armed /\ k.pressed = s.pressed /\ k.tails = s.tails
  BY DEF Caps
<1>3. k.owner = x /\ k.tap = s.tap /\ k.timer = s.timer
  BY DEF Caps
<1>4. k.overdue = s.overdue /\ k.tailDeadline = s.tailDeadline /\ k.pending = s.pending
  BY DEF Caps
<1>5. k.challenge = s.challenge /\ k.out = s.out /\ k.dropped = s.dropped
  BY DEF Caps
<1>6. k.session = s.session
  BY DEF Caps
<1> QED BY <1>1, <1>2, <1>3, <1>4, <1>5, <1>6, Zenon

LEMMA SetArmed ==
  ASSUME NEW s \in Caps, NEW x \in Owners
  PROVE  \E t \in Caps :
           /\ t = Arm(s, x)
           /\ t.armed = TRUE /\ t.pressed = s.pressed /\ t.tails = s.tails
           /\ t.owner = x /\ t.tap = "on" /\ t.timer = TRUE
           /\ t.overdue = FALSE /\ t.tailDeadline = "none" /\ t.pending = 0
           /\ t.challenge = s.challenge /\ t.out = s.out /\ t.dropped = s.dropped
           /\ t.session = s.session + 1
<1> DEFINE k == Arm(s, x)
<1>1. k \in Caps
  <2>1. x \in OwnersOrNone /\ s.session + 1 \in Nat /\ 0 \in Nat
    BY DEF Caps, OwnersOrNone
  <2>2. PICK n : n = s.session + 1
    OBVIOUS
  <2>3. k = [s EXCEPT !.owner = x, !.tap = "on", !.armed = TRUE, !.session = n, !.tailDeadline = "none",
                      !.overdue = FALSE, !.pending = 0, !.timer = TRUE]
    BY <2>2 DEF Arm, startHealthCheck, Caps
  <2> HIDE DEF k
  <2> QED BY <2>1, <2>2, <2>3 DEF Caps
<1>2. k.armed = TRUE /\ k.pressed = s.pressed /\ k.tails = s.tails
  BY DEF Caps, Arm, startHealthCheck
<1>3. k.owner = x /\ k.tap = "on" /\ k.timer = TRUE
  BY DEF Caps, Arm, startHealthCheck
<1>4. k.overdue = FALSE /\ k.tailDeadline = "none" /\ k.pending = 0
  BY DEF Caps, Arm, startHealthCheck
<1>5. k.challenge = s.challenge /\ k.out = s.out /\ k.dropped = s.dropped
  BY DEF Caps, Arm, startHealthCheck
<1>6. k.session = s.session + 1
  BY DEF Caps, Arm, startHealthCheck
<1> QED BY <1>1, <1>2, <1>3, <1>4, <1>5, <1>6, Zenon

LEMMA SetBeat ==
  ASSUME NEW s \in Caps
  PROVE  \E t \in Caps :
           /\ t = [s EXCEPT !.challenge = @ + 1, !.pending = s.challenge + 1]
           /\ t.armed = s.armed /\ t.pressed = s.pressed /\ t.tails = s.tails
           /\ t.owner = s.owner /\ t.tap = s.tap /\ t.timer = s.timer
           /\ t.overdue = s.overdue /\ t.tailDeadline = s.tailDeadline /\ t.pending = s.challenge + 1
           /\ t.challenge = s.challenge + 1 /\ t.out = s.out /\ t.dropped = s.dropped
           /\ t.session = s.session
<1> DEFINE k == [s EXCEPT !.challenge = @ + 1, !.pending = s.challenge + 1]
<1>1. k \in Caps
  <2>1. s.challenge + 1 \in Nat
    BY DEF Caps
  <2>2. PICK n \in Nat : n = s.challenge + 1
    BY <2>1
  <2>3. k = [s EXCEPT !.challenge = n, !.pending = n]
    BY <2>2
  <2> HIDE DEF k
  <2> QED BY <2>3 DEF Caps
<1>2. k.armed = s.armed /\ k.pressed = s.pressed /\ k.tails = s.tails
  BY DEF Caps
<1>3. k.owner = s.owner /\ k.tap = s.tap /\ k.timer = s.timer
  BY DEF Caps
<1>4. k.overdue = s.overdue /\ k.tailDeadline = s.tailDeadline /\ k.pending = s.challenge + 1
  BY DEF Caps
<1>5. k.challenge = s.challenge + 1 /\ k.out = s.out /\ k.dropped = s.dropped
  BY DEF Caps
<1>6. k.session = s.session
  BY DEF Caps
<1> QED BY <1>1, <1>2, <1>3, <1>4, <1>5, <1>6, Zenon

\* The tails of keys that are held no more are forgotten.
LEMMA ReconciledKeeps ==
  ASSUME toDart \in Seq(Events), NEW s, Good(s), NEW x
  PROVE  Good(Reconciled(s, x))
<1>1. PICK t : t = IF s.owner # x THEN stop(s, FALSE) ELSE s
  BY Zenon
<1>2. Good(t) /\ t \in Caps
  BY <1>1, StopKeeps, Zenon DEF Good, CapOK
<1>3. t.tails \cap held \in SUBSET Keys
  BY <1>2 DEF Caps
<1>4. PICK r \in Caps :
        /\ r = [t EXCEPT !.tails = t.tails \cap held]
        /\ r.armed = t.armed /\ r.pressed = t.pressed /\ r.tails = t.tails \cap held
        /\ r.owner = t.owner /\ r.tap = t.tap /\ r.timer = t.timer
        /\ r.overdue = t.overdue /\ r.tailDeadline = t.tailDeadline /\ r.pending = t.pending
        /\ r.challenge = t.challenge /\ r.out = t.out /\ r.dropped = t.dropped
        /\ r.session = t.session
  BY <1>2, <1>3, SetTails, Zenon
<1>5. Reconciled(s, x) = r
  BY <1>1, <1>4, Zenon DEF Reconciled
<1>6. CapOK(r)
  BY <1>2, <1>4, Zenon DEF Good, CapOK
<1>7. LocalOK(r)
  <2>1. Pending(r) = t.pressed \cup (t.tails \cap held) /\ Pending(t) = t.pressed \cup t.tails /\ r.dropped = t.dropped
    BY <1>4 DEF Pending
  <2> QED BY <1>2, <2>1 DEF Good, LocalOK
<1>8. RemoteOK(r)
  BY <1>2, <1>4, Silent, Zenon DEF Good
<1>9. AckOK(r)
  BY <1>2, <1>4, BeatsKeep, Zenon DEF Good
<1> QED BY <1>5, <1>6, <1>7, <1>8, <1>9, Zenon DEF Good

LEMMA ArmKeeps ==
  ASSUME NEW s, Good(s), NEW x \in Owners, Pending(s) = {}
  PROVE  Good(Arm(s, x))
<1>1. s \in Caps /\ s.pressed = {} /\ s.challenge \in Nat
  BY DEF Good, CapOK, Caps, Pending
<1>2. PICK t \in Caps :
        /\ t = Arm(s, x)
        /\ t.armed = TRUE /\ t.pressed = s.pressed /\ t.tails = s.tails
        /\ t.owner = x /\ t.tap = "on" /\ t.timer = TRUE
        /\ t.overdue = FALSE /\ t.tailDeadline = "none" /\ t.pending = 0
        /\ t.challenge = s.challenge /\ t.out = s.out /\ t.dropped = s.dropped
        /\ t.session = s.session + 1
  BY <1>1, SetArmed, ZenonT(60)
<1>3. CapOK(t)
  <2>1. t.challenge <= MaxChallenge /\ t.pending <= t.challenge
    BY <1>1, <1>2 DEF Good, CapOK
  <2>2. t.tap # "none"
    BY <1>2
  <2> QED BY <1>2, <2>1, <2>2, Zenon DEF CapOK
<1>4. LocalOK(t)
  <2>1. Pending(t) = Pending(s)
    BY <1>2 DEF Pending
  <2> QED BY <1>2, <2>1, Zenon DEF Good, LocalOK
<1>5. RemoteOK(t)
  BY <1>1, <1>2, Silent, Zenon DEF Good
<1>6. AckOK(t)
  BY <1>1, <1>2, BeatsKeep, Zenon DEF Good
<1> QED BY <1>2, <1>3, <1>4, <1>5, <1>6, Zenon DEF Good

LEMMA OwnerKeeps ==
  ASSUME NEW s, Good(s), NEW x \in Owners, Pending(s) = {}
  PROVE  Good([s EXCEPT !.owner = x])
<1>1. s \in Caps /\ s.pressed = {}
  BY DEF Good, CapOK, Pending
<1>2. PICK t \in Caps :
        /\ t = [s EXCEPT !.owner = x]
        /\ t.armed = s.armed /\ t.pressed = s.pressed /\ t.tails = s.tails
        /\ t.owner = x /\ t.tap = s.tap /\ t.timer = s.timer
        /\ t.overdue = s.overdue /\ t.tailDeadline = s.tailDeadline /\ t.pending = s.pending
        /\ t.challenge = s.challenge /\ t.out = s.out /\ t.dropped = s.dropped
        /\ t.session = s.session
  BY <1>1, SetOwner, Zenon
<1>3. CapOK(t)
  BY <1>2, Zenon DEF Good, CapOK
<1>4. LocalOK(t)
  <2>1. Pending(t) = Pending(s)
    BY <1>2 DEF Pending
  <2> QED BY <1>2, <2>1, Zenon DEF Good, LocalOK
<1>5. RemoteOK(t)
  BY <1>1, <1>2, Silent, Zenon DEF Good
<1>6. AckOK(t)
  BY <1>1, <1>2, BeatsKeep, Zenon DEF Good
<1> QED BY <1>2, <1>3, <1>4, <1>5, <1>6, Zenon DEF Good

\* setMacOSSystemShortcutCapture.
LEMMA CallsKeep ==
  ASSUME ShortcutIInv, ShortcutCalls
  PROVE  ShortcutIInv'
<1>1. PICK x \in Owners : Enable(x) \/ Disable(x)
  BY Zenon DEF ShortcutCalls
<1>2. /\ UNCHANGED <<held, remote, keyVars>> /\ acks' = acks /\ staleAck' = staleAck
      /\ UNCHANGED <<mods, focused, permitted, consumer>>
  BY Zenon DEF ShortcutCalls, userVars, consumerVars
<1>3. /\ toDart \in Seq(Events) /\ Good(cap) /\ UserForm' /\ ~staleAck' /\ UNCHANGED <<held, remote, keyVars>>
      /\ acks' \subseteq acks
  BY <1>2, Users
<1>4. ASSUME NEW t, Good(t), Ends(t) PROVE ShortcutIInv'
  BY <1>3, <1>4, EndsKeeps
<1>5. PICK s : s = expireIfNeeded(cap)
  BY Zenon
<1>6. Good(s)
  BY <1>3, <1>5, ExpireKeeps, Zenon
<1>7. CASE Disable(x)
  BY <1>3, <1>4, <1>5, <1>6, <1>7, StopKeeps, Zenon DEF Disable
<1>8. CASE Enable(x)
  <2>1. PICK r : r = Reconciled(s, x)
    BY Zenon
  <2>2. Good(r)
    BY <1>3, <1>6, <2>1, ReconciledKeeps, Zenon
  <2>3. \/ Ends(s) \/ Ends(stop(r, TRUE)) \/ (Gate(r) /\ Ends(Arm(r, x)))
        \/ (Gate(r) /\ Ends(stop([r EXCEPT !.owner = x], TRUE)))
    BY <1>5, <1>8, <2>1, Zenon DEF Enable
  <2>4. CASE Ends(s)
    BY <1>4, <1>6, <2>4, Zenon
  <2>5. CASE Ends(stop(r, TRUE))
    BY <1>3, <1>4, <2>2, <2>5, StopKeeps, Zenon
  <2>6. CASE Gate(r) /\ Ends(Arm(r, x))
    BY <1>4, <2>2, <2>6, ArmKeeps, Zenon DEF Gate
  <2>7. CASE Gate(r) /\ Ends(stop([r EXCEPT !.owner = x], TRUE))
    <3>1. Good([r EXCEPT !.owner = x])
      BY <2>2, <2>7, OwnerKeeps, Zenon DEF Gate
    <3> QED BY <1>3, <1>4, <2>7, <3>1, StopKeeps, Zenon
  <2> QED BY <2>3, <2>4, <2>5, <2>6, <2>7
<1> QED BY <1>1, <1>7, <1>8

----------------------------------------------------------------------------
(* The system shortcuts: the timer, time, and notices.                     *)

LEMMA BeatKeeps ==
  ASSUME toDart \in Seq(Events), NEW s, Good(s), s.armed, s.challenge < MaxChallenge
  PROVE  Good(Emit([s EXCEPT !.challenge = @ + 1, !.pending = s.challenge + 1],
                   [kind |-> "heartbeat", owner |-> s.owner, challenge |-> s.challenge + 1, session |-> s.session]))
<1>1. s \in Caps /\ s.challenge \in Nat /\ s.session \in Nat /\ s.owner \in OwnersOrNone /\ s.out \in Seq(Events)
  BY DEF Good, CapOK, Caps
<1>2. PICK e : e = [kind |-> "heartbeat", owner |-> s.owner, challenge |-> s.challenge + 1, session |-> s.session]
  BY Zenon
<1>3. e \in Heartbeats /\ e \in Events /\ e.challenge = s.challenge + 1 /\ e.session = s.session
  BY <1>1, <1>2 DEF Heartbeats, Events
<1>4. PICK b \in Caps :
        /\ b = [s EXCEPT !.challenge = @ + 1, !.pending = s.challenge + 1]
        /\ b.armed = s.armed /\ b.pressed = s.pressed /\ b.tails = s.tails
        /\ b.owner = s.owner /\ b.tap = s.tap /\ b.timer = s.timer
        /\ b.overdue = s.overdue /\ b.tailDeadline = s.tailDeadline /\ b.pending = s.challenge + 1
        /\ b.challenge = s.challenge + 1 /\ b.out = s.out /\ b.dropped = s.dropped
        /\ b.session = s.session
  BY <1>1, SetBeat, Zenon
<1>5. Append(s.out, e) \in Seq(Events)
  BY <1>1, <1>3, Adding
<1>6. PICK t \in Caps :
        /\ t = [b EXCEPT !.out = Append(s.out, e)]
        /\ t.armed = b.armed /\ t.pressed = b.pressed /\ t.tails = b.tails
        /\ t.owner = b.owner /\ t.tap = b.tap /\ t.timer = b.timer
        /\ t.overdue = b.overdue /\ t.tailDeadline = b.tailDeadline /\ t.pending = b.pending
        /\ t.challenge = b.challenge /\ t.out = Append(s.out, e) /\ t.dropped = b.dropped
        /\ t.session = b.session
  BY <1>5, SetOut, Zenon
<1>7. t = Emit(b, e)
  BY <1>4, <1>6, Zenon DEF Emit
<1>8. CapOK(t)
  <2>1. t.challenge <= MaxChallenge /\ t.pending <= t.challenge
    <3>1. s.challenge + 1 <= MaxChallenge /\ s.challenge + 1 <= s.challenge + 1
      BY <1>1, ShortcutsAssumption
    <3> QED BY <1>4, <1>6, <3>1, Zenon
  <2> QED BY <1>4, <1>6, <2>1, Zenon DEF Good, CapOK
<1>9. LocalOK(t)
  <2>1. Pending(t) = Pending(s) /\ t.dropped = s.dropped
    BY <1>4, <1>6, Zenon DEF Pending
  <2> QED BY <2>1, Zenon DEF LocalOK, Good
<1>10. RemoteOK(t)
  <2>1. t.out = Append(s.out, e) /\ t.pressed = s.pressed /\ t.owner = s.owner /\ RemoteOK(s)
    BY <1>4, <1>6, Zenon DEF Good
  <2> QED BY <1>1, <1>3, <2>1, BeatEvent
<1>11. AckOK(t)
  <2>1. t.out = Append(s.out, e) /\ t.challenge = s.challenge + 1 /\ t.pending = s.challenge + 1 /\ t.session = s.session /\ AckOK(s)
    BY <1>4, <1>6, Zenon DEF Good
  <2>2. FreshBeat(t, e)
    BY <1>1, <1>3, <2>1 DEF FreshBeat
  <2>3. s.challenge <= t.challenge
    BY <1>1, <2>1
  <2>4. t.pending \in {0, s.challenge + 1}
    BY <2>1
  <2> QED BY <1>1, <1>3, <2>1, <2>2, <2>3, <2>4, BeatsKeepEvent
<1> QED BY <1>2, <1>4, <1>7, <1>8, <1>9, <1>10, <1>11, Zenon DEF Good

LEMMA HealthKeeps ==
  ASSUME ShortcutIInv, checkHealth
  PROVE  ShortcutIInv'
<1>1. /\ UNCHANGED <<held, remote, keyVars>> /\ acks' = acks /\ staleAck' = staleAck
      /\ UNCHANGED <<mods, focused, permitted, consumer>>
  BY Zenon DEF checkHealth, userVars, consumerVars
<1>2. /\ toDart \in Seq(Events) /\ Good(cap) /\ UserForm' /\ ~staleAck' /\ acks' \subseteq acks
  BY <1>1, Users
<1>3. ASSUME NEW t, Good(t), Ends(t) PROVE ShortcutIInv'
  BY <1>1, <1>2, <1>3, EndsKeeps
<1>4. PICK t : t = Checked(cap)
  BY Zenon
<1>5. Good(t)
  BY <1>2, <1>4, CheckedKeeps, Zenon
<1>6. CASE t.armed /\ t.pending = 0
  <2>1. t.challenge < MaxChallenge
    BY <1>4, <1>6, Zenon DEF checkHealth
  <2>2. Ends(Emit([t EXCEPT !.challenge = @ + 1, !.pending = t.challenge + 1],
                  [kind |-> "heartbeat", owner |-> t.owner, challenge |-> t.challenge + 1, session |-> t.session]))
    BY <1>4, <1>6, Zenon DEF checkHealth
  <2> QED BY <1>2, <1>3, <1>5, <1>6, <2>1, <2>2, BeatKeeps, Zenon
<1>7. CASE ~(t.armed /\ t.pending = 0)
  <2>1. Ends(t)
    BY <1>4, <1>7, Zenon DEF checkHealth
  <2> QED BY <1>3, <1>5, <2>1, Zenon
<1> QED BY <1>6, <1>7, Zenon

\* acknowledge: an answer that is accepted is one to a heartbeat of this arming.
LEMMA AcknowledgeKeeps ==
  ASSUME ShortcutIInv, NEW a \in acks, acknowledge(a)
  PROVE  ShortcutIInv'
<1>1. UNCHANGED <<held, remote, keyVars>> /\ UNCHANGED <<mods, focused, permitted, consumer>>
  BY Zenon DEF acknowledge, userVars
<1>2. toDart \in Seq(Events) /\ Good(cap) /\ UserForm' /\ ~staleAck
  BY <1>1, Users
<1>3. PICK s : s = expireIfNeeded(cap)
  BY Zenon
<1>4. Good(s) /\ s \in Caps
  BY <1>2, <1>3, ExpireKeeps, Zenon DEF Good, CapOK
<1>5. /\ Ends(IF Accepts(s, a) THEN [s EXCEPT !.pending = 0, !.overdue = FALSE] ELSE s)
      /\ staleAck' = (staleAck \/ (Accepts(s, a) /\ a.session # s.session))
      /\ acks' = acks \ {a}
  BY <1>3, Zenon DEF acknowledge
<1>6. ~staleAck'
  <2>1. Accepts(s, a) => a.session = s.session
    BY <1>4, Zenon DEF Accepts, Good, AckOK, FreshBeat
  <2> QED BY <1>2, <1>5, <2>1, Zenon
<1>7. acks' \subseteq acks
  BY <1>5
<1>8. ASSUME NEW t, Good(t), Ends(t) PROVE ShortcutIInv'
  BY <1>1, <1>2, <1>6, <1>7, <1>8, EndsKeeps
<1>9. PICK t \in Caps :
        /\ t = [s EXCEPT !.pending = 0, !.overdue = FALSE]
        /\ t.armed = s.armed /\ t.pressed = s.pressed /\ t.tails = s.tails
        /\ t.owner = s.owner /\ t.tap = s.tap /\ t.timer = s.timer
        /\ t.overdue = FALSE /\ t.tailDeadline = s.tailDeadline /\ t.pending = 0
        /\ t.challenge = s.challenge /\ t.out = s.out /\ t.dropped = s.dropped
        /\ t.session = s.session
  BY <1>4, SetAcked, Zenon
<1>10. Good(t)
  BY <1>4, <1>9, TimingKeeps, Zenon
<1> QED BY <1>4, <1>5, <1>8, <1>9, <1>10, Zenon

LEMMA OverdueKeeps ==
  ASSUME ShortcutIInv, AckOverdue
  PROVE  ShortcutIInv'
<1>1. /\ UNCHANGED <<toDart, held, remote, acks, keyVars>> /\ staleAck' = staleAck
      /\ UNCHANGED <<mods, focused, permitted, consumer>> /\ cap' = [cap EXCEPT !.overdue = TRUE]
  BY Zenon DEF AckOverdue, userVars, consumerVars
<1>2. Good(cap) /\ cap \in Caps /\ cap.out = <<>> /\ UserForm' /\ ~staleAck'
  BY <1>1, Users, Zenon
<1>3. PICK t \in Caps :
        /\ t = [cap EXCEPT !.overdue = TRUE]
        /\ t.armed = cap.armed /\ t.pressed = cap.pressed /\ t.tails = cap.tails
        /\ t.owner = cap.owner /\ t.tap = cap.tap /\ t.timer = cap.timer
        /\ t.overdue = TRUE /\ t.tailDeadline = cap.tailDeadline /\ t.pending = cap.pending
        /\ t.challenge = cap.challenge /\ t.out = cap.out /\ t.dropped = cap.dropped
        /\ t.session = cap.session
  BY <1>2, SetOverdue, Zenon
<1>4. Good(t) /\ t.out = <<>> /\ cap' = t
  BY <1>1, <1>2, <1>3, TimingKeeps, Zenon
<1> QED BY <1>1, <1>2, <1>4, CapKeeps, Zenon

LEMMA TailDueKeeps ==
  ASSUME ShortcutIInv, TailDue
  PROVE  ShortcutIInv'
<1>1. /\ UNCHANGED <<toDart, held, remote, acks, keyVars>> /\ staleAck' = staleAck
      /\ UNCHANGED <<mods, focused, permitted, consumer>> /\ cap' = [cap EXCEPT !.tailDeadline = "due"]
  BY Zenon DEF TailDue, userVars, consumerVars
<1>2. Good(cap) /\ cap \in Caps /\ cap.out = <<>> /\ UserForm' /\ ~staleAck'
  BY <1>1, Users, Zenon
<1>3. PICK t \in Caps :
        /\ t = [cap EXCEPT !.tailDeadline = "due"]
        /\ t.armed = cap.armed /\ t.pressed = cap.pressed /\ t.tails = cap.tails
        /\ t.owner = cap.owner /\ t.tap = cap.tap /\ t.timer = cap.timer
        /\ t.overdue = cap.overdue /\ t.tailDeadline = "due" /\ t.pending = cap.pending
        /\ t.challenge = cap.challenge /\ t.out = cap.out /\ t.dropped = cap.dropped
        /\ t.session = cap.session
  <2>1. "due" \in {"none", "set", "due"}
    OBVIOUS
  <2> QED BY <1>2, <2>1, SetDeadline, Zenon
<1>4. Good(t) /\ t.out = <<>> /\ cap' = t
  BY <1>1, <1>2, <1>3, TimingKeeps, Zenon
<1> QED BY <1>1, <1>2, <1>4, CapKeeps, Zenon

LEMMA TapDisabledKeeps ==
  ASSUME ShortcutIInv, TapDisabled
  PROVE  ShortcutIInv'
<1>1. /\ UNCHANGED <<toDart, held, remote, acks, keyVars>> /\ staleAck' = staleAck
      /\ UNCHANGED <<mods, focused, permitted, consumer>> /\ cap.tap = "on" /\ cap' = [cap EXCEPT !.tap = "off"]
  BY Zenon DEF TapDisabled, userVars, consumerVars
<1>2. Good(cap) /\ cap \in Caps /\ cap.out = <<>> /\ UserForm' /\ ~staleAck'
  BY <1>1, Users, Zenon
<1>3. PICK t \in Caps :
        /\ t = [cap EXCEPT !.tap = "off"]
        /\ t.armed = cap.armed /\ t.pressed = cap.pressed /\ t.tails = cap.tails
        /\ t.owner = cap.owner /\ t.tap = "off" /\ t.timer = cap.timer
        /\ t.overdue = cap.overdue /\ t.tailDeadline = cap.tailDeadline /\ t.pending = cap.pending
        /\ t.challenge = cap.challenge /\ t.out = cap.out /\ t.dropped = cap.dropped
        /\ t.session = cap.session
  <2>1. "off" \in {"none", "on", "off"}
    OBVIOUS
  <2> QED BY <1>2, <2>1, SetTap, Zenon
<1>4. t.tap # "none" <=> cap.tap # "none"
  BY <1>1, <1>3
<1>5. Good(t) /\ t.out = <<>> /\ cap' = t
  BY <1>1, <1>2, <1>3, <1>4, TimingKeeps, Zenon
<1> QED BY <1>1, <1>2, <1>5, CapKeeps, Zenon

LEMMA StoppingKeeps ==
  ASSUME ShortcutIInv, HandleTapDisabled \/ ResignNotified
  PROVE  ShortcutIInv'
<1>1. /\ UNCHANGED <<held, remote, keyVars>> /\ acks' = acks /\ staleAck' = staleAck
      /\ UNCHANGED <<mods, focused, permitted, consumer>>
  BY Zenon DEF HandleTapDisabled, ResignNotified, userVars, consumerVars
<1>2. /\ toDart \in Seq(Events) /\ Good(cap) /\ UserForm' /\ ~staleAck' /\ acks' \subseteq acks
  BY <1>1, Users
<1>3. ASSUME NEW t, Good(t), Ends(t) PROVE ShortcutIInv'
  BY <1>1, <1>2, <1>3, EndsKeeps
<1>4. CASE HandleTapDisabled
  BY <1>2, <1>3, <1>4, ExpireKeeps, StopKeeps, Zenon DEF HandleTapDisabled
<1>5. CASE ResignNotified
  BY <1>2, <1>3, <1>5, StopKeeps, Zenon DEF ResignNotified
<1> QED BY <1>4, <1>5

LEMMA SurroundingsKeep ==
  ASSUME ShortcutIInv, FocusMoves \/ PermissionChanges \/ ConsumerGone
  PROVE  ShortcutIInv'
<1>1. UNCHANGED <<cap, toDart, held, remote, acks, keyVars>> /\ staleAck' = staleAck /\ mods' = mods
  BY Zenon DEF FocusMoves, PermissionChanges, ConsumerGone, userVars, consumerVars
<1>2. Good(cap) /\ cap.out = <<>> /\ ~staleAck'
  BY <1>1, Users, Zenon
<1>3. UserForm'
  <2>1. UserForm
    BY Users, Zenon
  <2>2. CASE FocusMoves
    BY <2>1, <2>2 DEF FocusMoves, UserForm, Modifiers, consumerVars
  <2>3. CASE PermissionChanges
    BY <2>1, <2>3 DEF PermissionChanges, UserForm, Modifiers, consumerVars
  <2>4. CASE ConsumerGone
    BY <2>1, <2>4 DEF ConsumerGone, UserForm, Modifiers, userVars
  <2> QED BY <2>2, <2>3, <2>4
<1> QED BY <1>1, <1>2, <1>3, CapKeeps, Zenon

LEMMA ModifiersKeep ==
  ASSUME ShortcutIInv, NEW m \in Modifiers, UserModifiers(m)
  PROVE  ShortcutIInv'
<1>1. /\ UNCHANGED <<held, remote, acks, keyVars>> /\ staleAck' = staleAck /\ mods' = m
      /\ UNCHANGED <<focused, permitted, consumer>>
  BY Zenon DEF UserModifiers, consumerVars
<1>2. /\ toDart \in Seq(Events) /\ Good(cap) /\ cap.out = <<>> /\ UserForm /\ ~staleAck'
  BY <1>1, Users, Zenon
<1>3. UserForm'
  BY <1>1, <1>2 DEF UserForm, Modifiers
<1>4. CASE Ends(TailEnds(Screened(cap)))
  <2>1. Good(TailEnds(Screened(cap)))
    BY <1>2, ScreenedKeeps, TailEndsKeeps, Zenon
  <2>2. acks' \subseteq acks
    BY <1>1
  <2> QED BY <1>1, <1>2, <1>3, <1>4, <2>1, <2>2, EndsKeeps, Zenon
<1>5. CASE UNCHANGED <<cap, toDart>>
  BY <1>1, <1>2, <1>3, <1>5, CapKeeps, Zenon
<1> QED BY <1>4, <1>5, Zenon DEF UserModifiers

----------------------------------------------------------------------------
(* The system shortcuts: a key at the tap.                                 *)

\* The router changes the keys of a capture; the tap may close after it.
Kept(s, t) ==
  /\ t \in Caps /\ t.armed = s.armed /\ t.owner = s.owner /\ t.challenge = s.challenge /\ t.session = s.session
  /\ \/ t.tap = s.tap /\ t.timer = s.timer /\ t.pending = s.pending
     \/ ~s.armed /\ t.tap = "none" /\ ~t.timer /\ t.pending = 0

\* What the router makes of a key: s becomes t.
Consumed(s, t, k, down) ==
  /\ k \in Pending(s) /\ t.pressed = s.pressed /\ t.tails \in {s.tails, s.tails \ {k}}
  /\ down => k \in Pending(t)
SentUp(s, t, k, down) ==
  ~down /\ k \in s.pressed /\ t.pressed = s.pressed \ {k} /\ t.tails = s.tails \ {k}
SentDown(s, t, k, down, repeat) ==
  down /\ ~repeat /\ s.armed /\ t.pressed = s.pressed \cup {k} /\ t.tails = s.tails \ {k}
Passed(s, t, k) ==
  k \notin s.pressed /\ t.pressed = s.pressed /\ t.tails = s.tails \ {k}

Outcome(s, r, k, down, repeat) ==
  \/ r.as = "consume" /\ Consumed(s, r.s, k, down)
  \/ r.as = "send" /\ (SentUp(s, r.s, k, down) \/ SentDown(s, r.s, k, down, repeat))
  \/ r.as = "pass" /\ Passed(s, r.s, k)

LEMMA RoutedFields ==
  ASSUME NEW s \in Caps, NEW k \in Keys, NEW down \in BOOLEAN, NEW repeat \in BOOLEAN, NEW r,
         r = Routed(s, k, down, repeat)
  PROVE  Outcome(s, r, k, down, repeat) /\ Kept(s, r.s) /\ r.s.out = s.out /\ r.s.dropped = s.dropped
<1>1. s.pressed \in SUBSET Keys /\ s.tails \in SUBSET Keys
  BY DEF Caps
<1>2. PICK f \in Caps :
        /\ f = [s EXCEPT !.tails = s.tails \ {k}]
        /\ f.armed = s.armed /\ f.pressed = s.pressed /\ f.tails = s.tails \ {k}
        /\ f.owner = s.owner /\ f.tap = s.tap /\ f.timer = s.timer
        /\ f.overdue = s.overdue /\ f.tailDeadline = s.tailDeadline /\ f.pending = s.pending
        /\ f.challenge = s.challenge /\ f.out = s.out /\ f.dropped = s.dropped
        /\ f.session = s.session
  <2>1. s.tails \ {k} \in SUBSET Keys
    BY <1>1
  <2> QED BY <2>1, SetTails, Zenon
<1>3. PICK u \in Caps :
        /\ u = [f EXCEPT !.pressed = f.pressed \ {k}]
        /\ u.armed = f.armed /\ u.pressed = f.pressed \ {k} /\ u.tails = f.tails
        /\ u.owner = f.owner /\ u.tap = f.tap /\ u.timer = f.timer
        /\ u.overdue = f.overdue /\ u.tailDeadline = f.tailDeadline /\ u.pending = f.pending
        /\ u.challenge = f.challenge /\ u.out = f.out /\ u.dropped = f.dropped
        /\ u.session = f.session
  <2>1. f.pressed \ {k} \in SUBSET Keys
    BY <1>1, <1>2
  <2> QED BY <2>1, SetPressed, Zenon
<1>4. PICK d \in Caps :
        /\ d = [f EXCEPT !.pressed = f.pressed \cup {k}]
        /\ d.armed = f.armed /\ d.pressed = f.pressed \cup {k} /\ d.tails = f.tails
        /\ d.owner = f.owner /\ d.tap = f.tap /\ d.timer = f.timer
        /\ d.overdue = f.overdue /\ d.tailDeadline = f.tailDeadline /\ d.pending = f.pending
        /\ d.challenge = f.challenge /\ d.out = f.out /\ d.dropped = f.dropped
        /\ d.session = f.session
  <2>1. f.pressed \cup {k} \in SUBSET Keys
    BY <1>1, <1>2
  <2> QED BY <2>1, SetPressed, Zenon
<1>5. \/ k \in s.tails /\ ~(down /\ ~repeat) /\ r = [as |-> "consume", s |-> IF down THEN s ELSE f]
      \/ ~down /\ r = [as |-> IF k \in s.pressed THEN "send" ELSE "pass", s |-> u]
      \/ down /\ k \in s.pressed /\ r = [as |-> "consume", s |-> f]
      \/ down /\ k \notin s.pressed /\ Matches(s, k, repeat) /\ r = [as |-> "send", s |-> d]
      \/ down /\ k \notin s.pressed /\ r = [as |-> "pass", s |-> f]
  BY <1>2, <1>3, <1>4, Zenon DEF Routed
<1>6. \A a, b : [as |-> a, s |-> b].as = a /\ [as |-> a, s |-> b].s = b
  OBVIOUS
<1>7. Kept(s, s) /\ Kept(s, f) /\ Kept(s, u) /\ Kept(s, d)
  BY <1>2, <1>3, <1>4, Zenon DEF Kept
<1>8. CASE k \in s.tails /\ ~(down /\ ~repeat) /\ r = [as |-> "consume", s |-> IF down THEN s ELSE f]
  <2>1. r.as = "consume" /\ r.s = IF down THEN s ELSE f
    BY <1>6, <1>8, Zenon
  <2>2. CASE down
    <3>1. r.s = s
      BY <2>1, <2>2, Zenon
    <3>2. Consumed(s, s, k, down)
      BY <1>8 DEF Consumed, Pending
    <3> QED BY <1>7, <2>1, <3>1, <3>2, Zenon DEF Outcome
  <2>3. CASE ~down
    <3>1. r.s = f
      BY <2>1, <2>3, Zenon
    <3>2. Consumed(s, f, k, down)
      BY <1>2, <1>8, <2>3 DEF Consumed, Pending
    <3> QED BY <1>2, <1>7, <2>1, <3>1, <3>2, Zenon DEF Outcome
  <2> QED BY <2>2, <2>3
<1>9. CASE ~down /\ r = [as |-> IF k \in s.pressed THEN "send" ELSE "pass", s |-> u]
  <2>1. r.as = (IF k \in s.pressed THEN "send" ELSE "pass") /\ r.s = u
    BY <1>6, <1>9, Zenon
  <2>2. u.pressed = s.pressed \ {k} /\ u.tails = s.tails \ {k} /\ u.out = s.out /\ u.dropped = s.dropped
    BY <1>2, <1>3, Zenon
  <2>3. CASE k \in s.pressed
    BY <1>7, <1>9, <2>1, <2>2, <2>3, Zenon DEF Outcome, SentUp
  <2>4. CASE k \notin s.pressed
    <3>1. s.pressed \ {k} = s.pressed
      BY <1>1, <2>4
    <3> QED BY <1>7, <1>9, <2>1, <2>2, <2>4, <3>1, Zenon DEF Outcome, Passed
  <2> QED BY <2>3, <2>4
<1>10. CASE down /\ k \in s.pressed /\ r = [as |-> "consume", s |-> f]
  <2>1. r.as = "consume" /\ r.s = f
    BY <1>6, <1>10, Zenon
  <2>2. Consumed(s, f, k, down)
    BY <1>2, <1>10 DEF Consumed, Pending
  <2> QED BY <1>2, <1>7, <2>1, <2>2, Zenon DEF Outcome
<1>11. CASE down /\ k \notin s.pressed /\ Matches(s, k, repeat) /\ r = [as |-> "send", s |-> d]
  <2>1. r.as = "send" /\ r.s = d /\ s.armed /\ ~repeat
    <3>1. r.as = "send" /\ r.s = d
      BY <1>6, <1>11, Zenon
    <3>2. s.armed /\ ~repeat
      BY <1>11 DEF Matches
    <3> QED BY <3>1, <3>2, Zenon
  <2>2. d.pressed = s.pressed \cup {k} /\ d.tails = s.tails \ {k} /\ d.out = s.out /\ d.dropped = s.dropped
    BY <1>2, <1>4, Zenon
  <2> QED BY <1>7, <1>11, <2>1, <2>2, Zenon DEF Outcome, SentDown
<1>12. CASE down /\ k \notin s.pressed /\ r = [as |-> "pass", s |-> f]
  <2>1. r.as = "pass" /\ r.s = f
    BY <1>6, <1>12, Zenon
  <2> QED BY <1>2, <1>7, <1>12, <2>1, Zenon DEF Outcome, Passed
<1> QED BY <1>5, <1>8, <1>9, <1>10, <1>11, <1>12, Zenon

LEMMA TailFields ==
  ASSUME NEW s \in Caps, NEW t \in Caps, Kept(s, t)
  PROVE  /\ Kept(s, TailEnds(t)) /\ TailEnds(t).out = t.out /\ TailEnds(t).dropped = t.dropped
         /\ TailEnds(t).pressed = t.pressed /\ TailEnds(t).tails = t.tails
<1>1. PICK c \in Caps :
        /\ c = closeTap(t)
        /\ c.armed = t.armed /\ c.pressed = t.pressed /\ c.tails = t.tails
        /\ c.owner = t.owner /\ c.tap = "none" /\ c.timer = FALSE
        /\ c.overdue = t.overdue /\ c.tailDeadline = "none" /\ c.pending = 0
        /\ c.challenge = t.challenge /\ c.out = t.out /\ c.dropped = t.dropped
        /\ c.session = t.session
  BY SetClosed, Zenon
<1>2. TailEnds(t) = t \/ (~t.armed /\ TailEnds(t) = c)
  BY <1>1, Zenon DEF TailEnds
<1> QED BY <1>1, <1>2, Zenon DEF Kept

\* Without permission nothing stays pending.
LEMMA ScreenedGivesUp ==
  ASSUME toDart \in Seq(Events), NEW s, Good(s), ~permitted
  PROVE  Pending(Screened(s)) = {}
<1>1. PICK e : e = expireIfNeeded(s)
  BY Zenon
<1>2. Good(e) /\ StopOf(e, TRUE, stop(e, TRUE))
  BY <1>1, ExpireKeeps, StopKeeps, Zenon
<1>3. Pending(stop(e, TRUE)) = {}
  BY <1>2 DEF StopOf, Pending
<1>4. Screened(s) = stop(e, TRUE) \/ (Screened(s) = e /\ Pending(e) = {})
  BY <1>1, Zenon DEF Screened
<1> QED BY <1>3, <1>4, Zenon

\* The capture after a key, and the event that tells of it.
LEMMA KeyKeeps ==
  ASSUME toDart \in Seq(Events), NEW e, Good(e), NEW k \in Keys, NEW down \in BOOLEAN, NEW repeat \in BOOLEAN,
         NEW r, Outcome(e, r, k, down, repeat), NEW f, Kept(e, f), f.pressed = r.s.pressed,
         f.out = IF r.as = "send" THEN Append(e.out, [kind |-> "key", owner |-> e.owner, key |-> k, down |-> down])
                 ELSE e.out
  PROVE  CapOK(f) /\ RemoteOK(f) /\ AckOK(f)
<1>1. CapOK(e) /\ RemoteOK(e) /\ AckOK(e) /\ e \in Caps /\ f \in Caps
  BY Zenon DEF Good, CapOK, Kept
<1>2. e.challenge \in Nat /\ e.challenge <= MaxChallenge /\ e.pending <= e.challenge
  BY <1>1 DEF CapOK, Caps
<1>3. r.as = "send" => (SentUp(e, r.s, k, down) \/ SentDown(e, r.s, k, down, repeat))
  BY DEF Outcome
<1>4. r.as # "send" => f.pressed = e.pressed
  BY DEF Outcome, Consumed, Passed
<1>5. CapOK(f)
  <2>1. f.challenge <= MaxChallenge /\ f.pending <= f.challenge
    BY <1>2 DEF Kept
  <2>2. ~f.armed => f.pressed = {}
    <3>1. CASE r.as # "send"
      BY <1>1, <1>4, <3>1, Zenon DEF CapOK, Kept
    <3>2. CASE SentUp(e, r.s, k, down)
      <4>1. e.armed
        BY <1>1, <3>2 DEF CapOK, SentUp
      <4> QED BY <4>1, Zenon DEF Kept
    <3>3. CASE SentDown(e, r.s, k, down, repeat)
      BY <3>3, Zenon DEF SentDown, Kept
    <3> QED BY <1>3, <3>1, <3>2, <3>3, Zenon
  <2>3. f.tap # "none" <=> f.timer
    <3>1. CASE f.tap = e.tap /\ f.timer = e.timer
      BY <1>1, <3>1, Zenon DEF CapOK
    <3>2. CASE f.tap = "none" /\ ~f.timer
      BY <3>2
    <3> QED BY <3>1, <3>2, Zenon DEF Kept
  <2>4. f.armed => f.timer
    BY <1>1, Zenon DEF CapOK, Kept
  <2> QED BY <1>1, <2>1, <2>2, <2>3, <2>4, Zenon DEF CapOK
<1>6. CASE r.as # "send"
  <2>1. f.out = e.out /\ f.owner = e.owner /\ f.challenge = e.challenge /\ f.session = e.session
    BY <1>6, Zenon DEF Kept
  <2>2. RemoteOK(f)
    BY <1>1, <1>4, <1>6, <2>1, Silent, Zenon
  <2>3. AckOK(f)
    BY <1>1, <2>1, BeatsKeep, Zenon DEF Kept
  <2> QED BY <1>5, <2>2, <2>3
<1>7. CASE r.as = "send"
  <2>1. PICK v : v = [kind |-> "key", owner |-> e.owner, key |-> k, down |-> down]
    BY Zenon
  <2>2. f.out = Append(e.out, v) /\ f.owner = e.owner /\ f.challenge = e.challenge /\ f.session = e.session
    BY <1>7, <2>1, Zenon DEF Kept
  <2>3. v \in Events /\ v.kind = "key"
    BY <1>1, <2>1 DEF Events, KeyEvents, Caps
  <2>4. f.pressed = IF down THEN e.pressed \cup {k} ELSE e.pressed \ {k}
    BY <1>3, <1>7, Zenon DEF SentUp, SentDown
  <2>5. RemoteOK(f)
    BY <1>1, <2>1, <2>2, <2>4, KeyEvent, Zenon
  <2>6. AckOK(f)
    <3>1. e.challenge <= f.challenge /\ v.kind # "heartbeat"
      BY <1>2, <2>2, <2>3
    <3>2. f.pending \in {0, e.challenge + 1} \/ (f.pending = e.pending /\ f.session = e.session)
      BY <2>2 DEF Kept
    <3> QED BY <1>1, <2>2, <2>3, <3>1, <3>2, BeatsKeepEvent
  <2> QED BY <1>5, <2>5, <2>6
<1> QED BY <1>6, <1>7

\* Both hands of a key, as this Mac and the capture have it.
LEMMA KeyPairs ==
  ASSUME NEW e, LocalOK(e), NEW k \in Keys, NEW down \in BOOLEAN, NEW repeat \in BOOLEAN, repeat = (down /\ k \in held),
         NEW r, Outcome(e, r, k, down, repeat), cap'.pressed = r.s.pressed, cap'.tails = r.s.tails,
         cap'.dropped = IF down /\ ~repeat THEN e.dropped \ {k} ELSE e.dropped,
         held' = (IF down THEN held \cup {k} ELSE held \ {k}), missed' = missed,
         IF r.as = "pass" THEN LocalKey(k, down)
         ELSE UNCHANGED localDown /\ taken' = IF down THEN taken \cup {k} ELSE taken \ {k}
  PROVE  LocalOK(cap)'
<1>1. Pending(cap)' = r.s.pressed \cup r.s.tails
  BY DEF Pending
<1>2. ASSUME NEW j \in Keys \ missed, j # k
      PROVE  /\ j \in localDown' => j \in held'
             /\ j \in taken' => j \in held' /\ (j \in Pending(cap)' \/ j \in cap'.dropped)
             /\ j \in Pending(cap)' => j \notin localDown'
  <2>1. (j \in held' <=> j \in held) /\ (j \in cap'.dropped <=> j \in e.dropped)
    BY <1>2
  <2>2. (j \in localDown' <=> j \in localDown) /\ (j \in taken' <=> j \in taken)
    BY <1>2 DEF LocalKey
  <2>3. j \in Pending(cap)' <=> j \in Pending(e)
    BY <1>1, <1>2 DEF Pending, Outcome, Consumed, SentUp, SentDown, Passed
  <2>4. /\ j \in localDown => j \in held
        /\ j \in taken => j \in held /\ (j \in Pending(e) \/ j \in e.dropped)
        /\ j \in Pending(e) => j \notin localDown
    BY <1>2, Zenon DEF LocalOK
  <2> QED BY <2>1, <2>2, <2>3, <2>4, Zenon
<1>3. ASSUME k \notin missed
      PROVE  /\ k \in localDown' => k \in held'
             /\ k \in taken' => k \in held' /\ (k \in Pending(cap)' \/ k \in cap'.dropped)
             /\ k \in Pending(cap)' => k \notin localDown'
  <2>1. k \in held' <=> down
    OBVIOUS
  <2>2. (k \in localDown => k \in held) /\ (k \in Pending(e) => k \notin localDown)
    <3>1. k \in Keys \ missed
      BY <1>3
    <3> QED BY <3>1, Zenon DEF LocalOK
  <2>3. CASE r.as = "pass"
    <3>1. (k \in localDown' <=> down) /\ k \notin taken'
      BY <2>3 DEF LocalKey
    <3>2. k \notin Pending(cap)'
      BY <1>1, <2>3 DEF Outcome, Passed
    <3> QED BY <2>1, <3>1, <3>2, Zenon
  <2>4. CASE r.as # "pass"
    <3>1. localDown' = localDown /\ (k \in taken' <=> down)
      BY <2>4
    <3>2. k \notin localDown
      <4>1. CASE r.as = "consume" \/ SentUp(e, r.s, k, down)
        <5>1. k \in Pending(e)
          BY <4>1 DEF Outcome, Consumed, SentUp, Pending
        <5> QED BY <2>2, <5>1
      <4>2. CASE SentDown(e, r.s, k, down, repeat)
        <5>1. k \notin held
          BY <4>2 DEF SentDown
        <5> QED BY <2>2, <5>1
      <4> QED BY <2>4, <4>1, <4>2 DEF Outcome
    <3>3. down => k \in Pending(cap)'
      BY <1>1, <2>4 DEF Outcome, Consumed, SentUp, SentDown, Pending
    <3> QED BY <2>1, <3>1, <3>2, <3>3, Zenon
  <2> QED BY <2>3, <2>4
<1>4. \A j \in Keys \ missed' : j \in Keys \ missed /\ (j = k => k \notin missed)
  OBVIOUS
<1> QED BY <1>2, <1>3, <1>4, Zenon DEF LocalOK

LEMMA HandleKeeps ==
  ASSUME ShortcutIInv, NEW k \in Keys, NEW down \in BOOLEAN, Handle(k, down, down /\ k \in held),
         held' = (IF down THEN held \cup {k} ELSE held \ {k}), UNCHANGED <<focused, permitted, mods, consumerVars>>
  PROVE  ShortcutIInv'
<1>1. /\ toDart \in Seq(Events) /\ Good(cap) /\ UserForm' /\ ~staleAck' /\ acks' \subseteq acks /\ UNCHANGED <<acks, remote>>
  <2>1. UNCHANGED <<acks, consumer, remote, staleAck>>
    BY Zenon DEF consumerVars
  <2>2. acks' \subseteq acks
    BY <2>1
  <2> QED BY <2>1, <2>2, Users, Zenon
<1>2. PICK repeat \in BOOLEAN : repeat = (down /\ k \in held)
  OBVIOUS
<1>3. PICK e : e = Screened(cap)
  BY Zenon
<1>4. Good(e) /\ e \in Caps /\ (~permitted => Pending(e) = {})
  BY <1>1, <1>3, ScreenedKeeps, ScreenedGivesUp, Zenon DEF Good, CapOK
<1>5. PICK r : r = IF permitted THEN Routed(e, k, down, repeat) ELSE [as |-> "pass", s |-> e]
  BY Zenon
<1>6. Outcome(e, r, k, down, repeat) /\ Kept(e, r.s) /\ r.s.out = e.out /\ r.s.dropped = e.dropped
  <2>1. CASE permitted
    <3>1. r = Routed(e, k, down, repeat)
      BY <1>5, <2>1, Zenon
    <3> QED BY <1>4, <3>1, RoutedFields
  <2>2. CASE ~permitted
    <3>1. r.as = "pass" /\ r.s = e
      BY <1>5, <2>2
    <3>2. Passed(e, e, k)
      BY <1>4, <2>2 DEF Passed, Pending
    <3>3. Kept(e, e)
      BY <1>4, Zenon DEF Kept
    <3> QED BY <3>1, <3>2, <3>3, Zenon DEF Outcome
  <2> QED BY <2>1, <2>2
<1>7. PICK t : t = IF permitted THEN TailEnds(r.s) ELSE e
  BY Zenon
<1>8. Kept(e, t) /\ t.out = e.out /\ t.dropped = e.dropped /\ t.pressed = r.s.pressed /\ t.tails = r.s.tails /\ t \in Caps
  <2>1. r.s \in Caps
    BY <1>6, Zenon DEF Kept
  <2>2. CASE permitted
    BY <1>4, <1>6, <1>7, <2>1, <2>2, TailFields, Zenon DEF Kept
  <2>3. CASE ~permitted
    <3>1. r.s = e
      BY <1>5, <2>3
    <3> QED BY <1>4, <1>6, <1>7, <2>3, <3>1, Zenon
  <2> QED BY <2>2, <2>3
<1>9. PICK S : S = IF down /\ ~repeat THEN t.dropped \ {k} ELSE t.dropped
  BY Zenon
<1>10. PICK d \in Caps :
        /\ d = [t EXCEPT !.dropped = S]
        /\ d.armed = t.armed /\ d.pressed = t.pressed /\ d.tails = t.tails
        /\ d.owner = t.owner /\ d.tap = t.tap /\ d.timer = t.timer
        /\ d.overdue = t.overdue /\ d.tailDeadline = t.tailDeadline /\ d.pending = t.pending
        /\ d.challenge = t.challenge /\ d.out = t.out /\ d.dropped = S
        /\ d.session = t.session
  <2>1. S \in SUBSET Keys
    BY <1>8, <1>9 DEF Caps
  <2> QED BY <1>8, <2>1, SetDropped, Zenon
<1>11. PICK v : v = [kind |-> "key", owner |-> e.owner, key |-> k, down |-> down]
  BY Zenon
<1>12. v \in Events /\ Append(d.out, v) \in Seq(Events)
  <2>1. v \in Events /\ d.out \in Seq(Events)
    BY <1>4, <1>11 DEF Events, KeyEvents, Caps
  <2> QED BY <1>1, <2>1, Adding
<1>13. PICK m \in Caps :
        /\ m = [d EXCEPT !.out = Append(d.out, v)]
        /\ m.armed = d.armed /\ m.pressed = d.pressed /\ m.tails = d.tails
        /\ m.owner = d.owner /\ m.tap = d.tap /\ m.timer = d.timer
        /\ m.overdue = d.overdue /\ m.tailDeadline = d.tailDeadline /\ m.pending = d.pending
        /\ m.challenge = d.challenge /\ m.out = Append(d.out, v) /\ m.dropped = d.dropped
        /\ m.session = d.session
  BY <1>12, SetOut, Zenon
<1>14. PICK f : f = IF r.as = "send" THEN Emit(d, v) ELSE d
  BY Zenon
<1>15. f = IF r.as = "send" THEN m ELSE d
  BY <1>13, <1>14, Zenon DEF Emit
<1>16. Kept(e, f) /\ f.pressed = r.s.pressed /\ f.tails = r.s.tails /\ f.dropped = S
  BY <1>8, <1>10, <1>13, <1>15, Zenon DEF Kept
<1>17. f.out = IF r.as = "send" THEN Append(e.out, v) ELSE e.out
  <2>1. d.out = e.out /\ m.out = Append(e.out, v)
    <3>1. d.out = e.out
      BY <1>8, <1>10, Zenon
    <3> QED BY <1>13, <3>1, Zenon
  <2>2. CASE r.as = "send"
    BY <1>15, <2>1, <2>2, Zenon
  <2>3. CASE r.as # "send"
    BY <1>15, <2>1, <2>3, Zenon
  <2> QED BY <2>2, <2>3
<1>18. CapOK(f) /\ RemoteOK(f) /\ AckOK(f)
  BY <1>1, <1>4, <1>6, <1>11, <1>16, <1>17, KeyKeeps
<1>19. d = [t EXCEPT !.dropped = IF down /\ ~repeat THEN @ \ {k} ELSE @]
  BY <1>9, <1>10, Zenon
<1>20. /\ Ends(f) /\ UNCHANGED missed
       /\ IF r.as = "pass" THEN LocalKey(k, down)
          ELSE UNCHANGED localDown /\ taken' = IF down THEN taken \cup {k} ELSE taken \ {k}
  BY <1>2, <1>3, <1>5, <1>7, <1>11, <1>14, <1>19, Zenon DEF Handle
<1>21. /\ CapOK(cap)' /\ RemoteOK(cap)' /\ AckOK(cap)' /\ cap'.out = <<>> /\ toDart' \in Seq(Events)
       /\ cap'.pressed = f.pressed /\ cap'.tails = f.tails /\ cap'.dropped = f.dropped
  BY <1>1, <1>18, <1>20, EndsParts
<1>22. LocalOK(cap)'
  <2>1. cap'.pressed = r.s.pressed /\ cap'.tails = r.s.tails
    BY <1>16, <1>21, Zenon
  <2>2. cap'.dropped = IF down /\ ~repeat THEN e.dropped \ {k} ELSE e.dropped
    BY <1>8, <1>9, <1>16, <1>21, Zenon
  <2>3. LocalOK(e) /\ missed' = missed
    BY <1>4, <1>20, Zenon DEF Good
  <2> QED BY <1>2, <1>6, <1>20, <2>1, <2>2, <2>3, KeyPairs
<1>23. ShortcutForm'
  <2>1. held' \subseteq Keys
    BY DEF ShortcutIInv, ShortcutForm
  <2>2. localDown' \subseteq Keys
    BY <1>20 DEF ShortcutIInv, ShortcutForm, LocalKey
  <2> QED BY <1>1, <1>20, <1>21, <2>1, <2>2, Zenon DEF ShortcutIInv, ShortcutForm
<1> QED BY <1>1, <1>21, <1>22, <1>23, Zenon DEF ShortcutIInv, Good

\* A key that the tap does not see.
LEMMA BypassKeeps ==
  ASSUME ShortcutIInv, NEW k \in Keys, NEW down \in BOOLEAN, Bypass(k, down),
         held' = (IF down THEN held \cup {k} ELSE held \ {k}), UNCHANGED <<focused, permitted, mods, consumerVars>>
  PROVE  ShortcutIInv'
<1>1. UNCHANGED <<acks, consumer, remote, staleAck, cap, toDart>>
  BY Zenon DEF consumerVars, Bypass
<1>2. Good(cap) /\ cap.out = <<>> /\ UserForm' /\ ~staleAck'
  BY <1>1, Users, Zenon
<1>3. /\ localDown' = (IF down THEN localDown \cup {k} ELSE localDown \ {k}) /\ taken' = taken \ {k}
      /\ missed' = IF k \in Pending(cap) THEN missed \cup {k} ELSE missed
  BY DEF Bypass, LocalKey
<1>4. LocalOK(cap)'
  <2>1. Pending(cap)' = Pending(cap)
    BY <1>1, Zenon DEF Pending
  <2>2. LocalOK(cap)
    BY <1>2 DEF Good
  <2> QED BY <1>1, <1>3, <2>1, <2>2 DEF LocalOK
<1>5. CapOK(cap)' /\ RemoteOK(cap)' /\ AckOK(cap)'
  BY <1>1, <1>2, Zenon DEF Good, CapOK, RemoteOK, WillBeDown, AckOK, FreshBeat
<1>6. ShortcutForm'
  <2>1. held' \subseteq Keys /\ localDown' \subseteq Keys /\ missed' \subseteq Keys
    BY <1>3 DEF ShortcutIInv, ShortcutForm
  <2> QED BY <1>1, <1>2, <2>1, Zenon DEF ShortcutIInv, ShortcutForm
<1> QED BY <1>1, <1>2, <1>4, <1>5, <1>6, Zenon DEF ShortcutIInv, Good

LEMMA UserKeyKeeps ==
  ASSUME ShortcutIInv, NEW k \in Keys, NEW down \in BOOLEAN, UserKey(k, down)
  PROVE  ShortcutIInv'
  BY HandleKeeps, BypassKeeps, Zenon DEF UserKey

----------------------------------------------------------------------------
(* The system shortcuts: Dart hears of an event.                           *)

LEMMA ConsumeKeeps ==
  ASSUME ShortcutIInv, Consume
  PROVE  ShortcutIInv'
<1>1. /\ toDart \in Seq(Events) /\ Good(cap) /\ cap \in Caps /\ cap.out = <<>> /\ UserForm' /\ ~staleAck'
      /\ UNCHANGED <<cap, held, localDown, taken, missed>>
  <2>1. UNCHANGED <<cap, mods, focused, permitted, consumer, held, staleAck, localDown, taken, missed>>
    BY Zenon DEF Consume, userVars, keyVars
  <2> QED BY <2>1, Users, Zenon
<1>2. PICK q \in Seq(Events) : q = toDart
  BY <1>1, Zenon
<1>3. PICK e : e = Head(q)
  BY Zenon
<1>4. /\ q # <<>> /\ toDart' = Tail(q)
      /\ acks' = (IF e.kind = "heartbeat" THEN acks \cup {e} ELSE acks)
      /\ remote' = IF e.kind = "heartbeat" THEN remote
                   ELSE IF e.kind = "stopped" THEN {d \in remote : d[1] # e.owner}
                   ELSE IF e.down THEN remote \cup {<<e.owner, e.key>>}
                   ELSE remote \ {<<e.owner, e.key>>}
  BY <1>2, <1>3, Zenon DEF Consume
<1>5. PICK L \in Nat : L + 1 = Len(q)
  <2>1. Len(q) \in Nat /\ Len(q) # 0
    BY <1>2, <1>4, EmptySeq
  <2> QED BY <2>1
<1>6. PICK w \in Seq(Events) : w = Tail(q) /\ Len(w) = L /\ \A n \in 1 .. L : w[n] = q[n + 1]
  <2>1. Tail(q) \in Seq(Events) /\ Len(Tail(q)) = Len(q) - 1 /\ \A n \in 1 .. Len(Tail(q)) : Tail(q)[n] = q[n + 1]
    BY <1>4, HeadTailProperties
  <2>2. Len(q) - 1 = L
    BY <1>5
  <2> QED BY <2>1, <2>2, Zenon
<1>7. e = q[1] /\ e \in Events
  BY <1>3, <1>4, HeadTailProperties
<1>8. /\ toDart \o cap.out = q /\ toDart' \o cap'.out = w /\ cap'.out = <<>>
  BY <1>1, <1>2, <1>4, <1>6
<1>9. \A o \in OwnersOrNone, k \in Keys : WillBeDown(q, o, k) => o = cap.owner /\ k \in cap.pressed
  BY <1>1, <1>8, Zenon DEF Good, RemoteOK
<1>10. /\ \A a \in acks : FreshBeat(cap, a)
       /\ \A n \in 1 .. Len(q) : q[n].kind = "heartbeat" => FreshBeat(cap, q[n])
  BY <1>1, <1>8, Zenon DEF Good, AckOK
<1>11. ASSUME NEW x, FreshBeat(cap, x) PROVE FreshBeat(cap, x)'
  BY <1>1, <1>11, Zenon DEF FreshBeat
<1>12. 1 \in 1 .. Len(q) /\ \A n \in 1 .. L : n + 1 \in 1 .. Len(q)
  BY <1>5
<1>13. AckOK(cap)'
  <2>1. \A a \in acks' : FreshBeat(cap, a)
    <3>1. e.kind = "heartbeat" => FreshBeat(cap, e)
      BY <1>7, <1>10, <1>12, Zenon
    <3>2. \A a \in acks' : a \in acks \/ (a = e /\ e.kind = "heartbeat")
      BY <1>4
    <3> QED BY <1>10, <3>1, <3>2, Zenon
  <2>2. \A n \in 1 .. Len(w) : w[n].kind = "heartbeat" => FreshBeat(cap, w[n])
    BY <1>6, <1>10, <1>12, Zenon
  <2> QED BY <1>8, <1>11, <2>1, <2>2, Zenon DEF AckOK
<1>14. RemoteOK(cap)'
  <2>1. ASSUME NEW o \in OwnersOrNone, NEW k \in Keys, WillBeDown(w, o, k)' PROVE WillBeDown(q, o, k)
    <3>1. CASE <<o, k>> \in remote' /\ \A n \in 1 .. Len(w) : ~Lifts(w[n], o, k)
      <4>1. ASSUME NEW n \in 1 .. Len(q), n # 1 PROVE ~Lifts(q[n], o, k)
        <5>1. n - 1 \in 1 .. L /\ (n - 1) + 1 = n
          BY <1>5, <4>1
        <5> QED BY <1>6, <3>1, <5>1, Zenon
      <4>2. CASE <<o, k>> \in remote /\ ~Lifts(e, o, k)
        BY <1>7, <4>1, <4>2, Zenon DEF WillBeDown
      <4>3. CASE Lowers(e, o, k)
        <5>1. \A l \in 1 + 1 .. Len(q) : l \in 1 .. Len(q) /\ l # 1
          BY <1>5
        <5> QED BY <1>7, <1>12, <4>1, <4>3, <5>1, Zenon DEF WillBeDown
      <4>4. (<<o, k>> \in remote /\ ~Lifts(e, o, k)) \/ Lowers(e, o, k)
        <5>1. CASE e.kind = "heartbeat"
          BY <1>4, <3>1, <5>1 DEF Lifts
        <5>2. CASE e.kind = "stopped"
          BY <1>4, <3>1, <5>2 DEF Lifts
        <5>3. CASE e.kind = "key" /\ e.down
          BY <1>4, <3>1, <5>3 DEF Lifts, Lowers
        <5>4. CASE e.kind = "key" /\ ~e.down
          BY <1>4, <3>1, <5>4 DEF Lifts, Lowers
        <5>5. e.kind \in {"heartbeat", "stopped", "key"}
          BY <1>7 DEF Events, Heartbeats, Stops, KeyEvents
        <5> QED BY <5>1, <5>2, <5>3, <5>4, <5>5
      <4> QED BY <4>2, <4>3, <4>4
    <3>2. ASSUME NEW n \in 1 .. Len(w), Lowers(w[n], o, k), \A l \in n + 1 .. Len(w) : ~Lifts(w[l], o, k)
          PROVE  WillBeDown(q, o, k)
      <4>1. n + 1 \in 1 .. Len(q) /\ Lowers(q[n + 1], o, k)
        BY <1>6, <1>12, <3>2, Zenon
      <4>2. ASSUME NEW l \in (n + 1) + 1 .. Len(q) PROVE ~Lifts(q[l], o, k)
        <5>1. l - 1 \in n + 1 .. L /\ l - 1 \in 1 .. L /\ (l - 1) + 1 = l
          BY <1>5, <1>6, <3>2, <4>2
        <5> QED BY <1>6, <3>2, <5>1, Zenon
      <4> QED BY <4>1, <4>2, Zenon DEF WillBeDown
    <3> QED BY <2>1, <3>1, <3>2, Zenon DEF WillBeDown, Lifts, Lowers
  <2> QED BY <1>1, <1>8, <1>9, <2>1, Zenon DEF RemoteOK
<1>15. CapOK(cap)' /\ LocalOK(cap)'
  <2>1. Pending(cap)' = Pending(cap)
    BY <1>1, Zenon DEF Pending
  <2> QED BY <1>1, <2>1, Zenon DEF Good, CapOK, LocalOK
<1>16. ShortcutForm'
  <2>1. acks \subseteq Heartbeats /\ remote \subseteq OwnersOrNone \X Keys
    BY DEF ShortcutIInv, ShortcutForm
  <2>2. acks' \subseteq Heartbeats
    BY <1>4, <1>7, <2>1 DEF Events, Heartbeats, Stops, KeyEvents
  <2>3. remote' \subseteq OwnersOrNone \X Keys
    <3>1. CASE e.kind = "key"
      <4>1. e.owner \in OwnersOrNone /\ e.key \in Keys
        BY <1>7, <3>1 DEF Events, Heartbeats, Stops, KeyEvents
      <4> QED BY <1>4, <2>1, <3>1, <4>1
    <3>2. CASE e.kind \in {"heartbeat", "stopped"}
      BY <1>4, <2>1, <3>2
    <3>3. e.kind \in {"heartbeat", "stopped", "key"}
      BY <1>7 DEF Events, Heartbeats, Stops, KeyEvents
    <3> QED BY <3>1, <3>2, <3>3
  <2> QED BY <1>1, <1>4, <1>6, <2>2, <2>3, Zenon DEF ShortcutIInv, ShortcutForm
<1> QED BY <1>1, <1>8, <1>13, <1>14, <1>15, <1>16, Zenon DEF ShortcutIInv, Good

----------------------------------------------------------------------------
(* The system shortcuts: the start, every step, and what it all says.      *)

LEMMA ShortcutUnchanged ==
  ASSUME ShortcutIInv, UNCHANGED shortcutVars
  PROVE  ShortcutIInv'
<1>1. UNCHANGED <<cap, toDart, held, remote, acks, keyVars, staleAck, mods, focused, permitted, consumer>>
  BY Zenon DEF shortcutVars, userVars, consumerVars
<1>2. Good(cap) /\ cap.out = <<>> /\ UserForm' /\ ~staleAck'
  BY <1>1, Users, Zenon
<1> QED BY <1>1, <1>2, CapKeeps, Zenon

LEMMA ShortcutStart ==
  ASSUME ShortcutsInit
  PROVE  ShortcutIInv
<1>1. /\ cap = [armed |-> FALSE, pressed |-> {}, tails |-> {}, owner |-> "none", tap |-> "none",
                timer |-> FALSE, overdue |-> FALSE, tailDeadline |-> "none", pending |-> 0,
                challenge |-> 0, out |-> <<>>, dropped |-> {}, session |-> 0]
      /\ toDart = <<>> /\ acks = {} /\ consumer = TRUE
      /\ focused = TRUE /\ permitted = TRUE /\ held = {} /\ mods = "none"
      /\ localDown = {} /\ taken = {} /\ remote = {} /\ missed = {} /\ staleAck = FALSE
  BY Zenon DEF ShortcutsInit
<1>2. cap \in Caps
  BY <1>1 DEF Caps, OwnersOrNone
<1>3. /\ cap.armed = FALSE /\ cap.pressed = {} /\ cap.tails = {} /\ cap.tap = "none" /\ cap.timer = FALSE
      /\ cap.pending = 0 /\ cap.challenge = 0 /\ cap.out = <<>>
  BY <1>1
<1>4. CapOK(cap)
  BY <1>2, <1>3, ShortcutsAssumption DEF CapOK
<1>5. LocalOK(cap)
  BY <1>1, <1>3 DEF LocalOK, Pending
<1>6. toDart \o cap.out = <<>> /\ Len(toDart \o cap.out) = 0
  BY <1>1, <1>3
<1>7. RemoteOK(cap)
  <2>1. \A n \in 1 .. 0 : FALSE
    OBVIOUS
  <2>2. \A o, k : <<o, k>> \notin remote
    BY <1>1
  <2> QED BY <1>6, <2>1, <2>2, Zenon DEF RemoteOK, WillBeDown
<1>8. AckOK(cap)
  BY <1>1, <1>6 DEF AckOK
<1>9. ShortcutForm
  BY <1>1 DEF ShortcutForm, UserForm, Modifiers
<1> QED BY <1>1, <1>3, <1>4, <1>5, <1>7, <1>8, <1>9 DEF ShortcutIInv, Good

LEMMA ShortcutSteps ==
  ASSUME ShortcutIInv, ShortcutCalls \/ ShortcutUser \/ ShortcutEvents \/ UNCHANGED shortcutVars
  PROVE  ShortcutIInv'
<1>1. ASSUME ShortcutUser PROVE ShortcutIInv'
  BY <1>1, UserKeyKeeps, ModifiersKeep, SurroundingsKeep, TapDisabledKeeps, Zenon DEF ShortcutUser
<1>2. ASSUME ShortcutEvents PROVE ShortcutIInv'
  BY <1>2, HealthKeeps, OverdueKeeps, TailDueKeeps, StoppingKeeps, ConsumeKeeps, SurroundingsKeep, AcknowledgeKeeps,
     Zenon DEF ShortcutEvents
<1> QED BY <1>1, <1>2, CallsKeep, ShortcutUnchanged, Zenon

LEMMA ShortcutIsSound ==
  ASSUME ShortcutIInv
  PROVE  ShortcutTypeOK /\ ShortcutsSound
<1>1. /\ CapOK(cap) /\ LocalOK(cap) /\ RemoteOK(cap) /\ cap \in Caps /\ cap.out = <<>> /\ ShortcutForm /\ UserForm
      /\ ~staleAck
  BY Zenon DEF ShortcutIInv, Good, CapOK, ShortcutForm
<1>2. ShortcutTypeOK
  <2>1. /\ cap.owner \in Owners \cup {"none"} /\ cap.tap \in {"none", "on", "off"}
        /\ cap.tailDeadline \in {"none", "set", "due"}
    BY <1>1 DEF Caps, OwnersOrNone
  <2>2. cap.pending \in 0 .. MaxChallenge
    BY <1>1, ShortcutsAssumption DEF CapOK, Caps
  <2>3. cap.pressed \cup cap.tails \cup held \cup localDown \cup missed \subseteq Keys
    BY <1>1 DEF Caps, ShortcutForm
  <2>4. {focused, permitted, consumer} \subseteq BOOLEAN
    <3>1. \A x, y, z, S : x \in S /\ y \in S /\ z \in S => {x, y, z} \subseteq S
      OBVIOUS
    <3> QED BY <1>1, <3>1, Zenon DEF UserForm
  <2> QED BY <1>1, <2>1, <2>2, <2>3, <2>4, Zenon DEF ShortcutTypeOK, UserForm
<1>3. KeysPaired
  BY <1>1, Zenon DEF LocalOK, KeysPaired
<1>4. RemotePaired
  <2>1. SUFFICES ASSUME toDart = <<>>, NEW d \in remote PROVE d[1] = cap.owner /\ d[2] \in cap.pressed
    BY Zenon DEF RemotePaired
  <2>2. PICK o \in OwnersOrNone, k \in Keys : d = <<o, k>> /\ d[1] = o /\ d[2] = k
    BY <1>1, <2>1 DEF ShortcutForm
  <2>3. toDart \o cap.out = <<>> /\ Len(<<>>) = 0 /\ \A n \in 1 .. 0 : FALSE
    BY <1>1, <2>1
  <2>4. WillBeDown(toDart \o cap.out, o, k)
    BY <2>1, <2>2, <2>3, Zenon DEF WillBeDown
  <2> QED BY <1>1, <2>2, <2>4, Zenon DEF RemoteOK
<1>5. TapWatched
  BY <1>1, Zenon DEF CapOK, TapWatched
<1> QED BY <1>1, <1>2, <1>3, <1>4, <1>5, Zenon DEF ShortcutsSound, AcksFresh

----------------------------------------------------------------------------
(* The plugin.                                                             *)

MacIInv == RemapIInv /\ ShortcutIInv

LEMMA InitMac == Init => MacIInv
  BY RemapStart, ShortcutStart DEF Init, MacIInv

LEMMA NextMac == MacIInv /\ [Next]_vars => MacIInv'
<1>1. SUFFICES ASSUME MacIInv, [Next]_vars PROVE MacIInv'
  OBVIOUS
<1>2. /\ RemapCalls \/ RemapEvents \/ UNCHANGED remapVars
      /\ ShortcutCalls \/ ShortcutUser \/ ShortcutEvents \/ UNCHANGED shortcutVars
  BY <1>1, Zenon DEF Next, handle, User, Shortcuts, Remaps, vars
<1> QED BY <1>1, <1>2, RemapSteps, ShortcutSteps, Zenon DEF MacIInv

\* Type correctness of the two captures of the macOS plugin.
THEOREM TypeCorrect == Spec => []TypeOK
<1>1. MacIInv => TypeOK
  BY RemapIsSound, ShortcutIsSound DEF MacIInv, TypeOK
<1> QED BY <1>1, InitMac, NextMac, PTL DEF Spec

\* MacOSSystemShortcutCapture keeps every press paired with its release on both sides:
\* no key stays down for this Mac that the user let go of, and none at the remote host
\* once Dart has heard everything; the global tap is under its timer; an arming is renewed
\* only by answers to its own heartbeats.
THEOREM ShortcutsAreSound == Spec => []ShortcutsSound
<1>1. MacIInv => ShortcutsSound
  BY ShortcutIsSound DEF MacIInv
<1> QED BY <1>1, InitMac, NextMac, PTL DEF Spec

\* The Caps Lock remap, over any number of processes that crash or fail at any point:
\* while the user's mapping is not in force the journal says how to get back to it
\* (unless the user changed it during a write, or a write could not be undone); a remap
\* has one owner, who holds the lease; and a normal quit leaves the user's mapping.
THEOREM RemapsAreSound == Spec => []RemapSound
<1>1. MacIInv => RemapSound
  BY RemapIsSound DEF MacIInv
<1> QED BY <1>1, InitMac, NextMac, PTL DEF Spec

=============================================================================
