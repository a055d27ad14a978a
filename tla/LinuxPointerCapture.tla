------------------------ MODULE LinuxPointerCapture ------------------------
(***************************************************************************)
(* Pointer capture of the Linux viewer: the Dart side of                   *)
(* lib/hardware_simulator_method_channel.dart (lock and unlock requests    *)
(* numbered by _linuxCaptureGeneration), the method-call handler of        *)
(* linux/hardware_simulator_plugin.cc and linux/linux_pointer_capture.cc,  *)
(* joined by the two directions of the platform channel.  The application  *)
(* may call again before an earlier call has been answered.                *)
(*                                                                         *)
(* X11 confirms a capture inside lock(); Wayland confirms or refuses it    *)
(* later.  The closure variable wasConfirmed of a pending call travels     *)
(* with the call and comes back with its reply.                            *)
(***************************************************************************)
EXTENDS Naturals, Sequences

CONSTANTS
  MaxCalls,    \* bound on lockCursor and unlockCursor calls
  MaxNative    \* bound on native revocations and motions

ASSUME CaptureAssumption == MaxCalls \in Nat /\ MaxNative \in Nat

VARIABLES
  dartGen, dartRequested, dartConfirmed,   \* _linuxCapture{Generation,Requested,Confirmed}
  published,      \* the last value pointerCaptureChanges carried
  toNative, toDart,
  generation, requested, active,           \* LinuxPointerCapture::Impl
  relative_sender,                         \* generation it was set for, 0 if none
  overlapped,     \* some call was made while another was unanswered, or a lock
                  \* while one was requested already
  lostMotion,     \* a motion of the current capture reached Dart unconfirmed
  calls, natives

dart   == <<dartGen, dartRequested, dartConfirmed, published>>
native == <<generation, requested, active, relative_sender>>
ghosts == <<overlapped, lostMotion>>
vars   == <<dart, toNative, toDart, native, ghosts, calls, natives>>

Init ==
  /\ dartGen = 0 /\ dartRequested = FALSE /\ dartConfirmed = FALSE
  /\ published = FALSE
  /\ toNative = <<>> /\ toDart = <<>>
  /\ generation = 0 /\ requested = FALSE /\ active = FALSE /\ relative_sender = 0
  /\ overlapped = FALSE /\ lostMotion = FALSE
  /\ calls = 0 /\ natives = 0

\* A call is without its reply: the Dart code awaits each of them.
Unanswered == toNative # <<>> \/ \E i \in 1 .. Len(toDart) : toDart[i].type = "reply"

Call(msg) ==
  /\ calls < MaxCalls
  /\ calls' = calls + 1
  /\ toNative' = Append(toNative, msg)
  /\ overlapped' = (overlapped \/ Unanswered \/ (msg.method = "lock" /\ dartRequested))
  /\ UNCHANGED <<published, toDart, native, lostMotion, natives>>

----------------------------------------------------------------------------
(* Dart.                                                                   *)

\* _lockCursor up to its await; handle tells whether a relative sender is given.
lockCursor(handle) ==
  /\ dartGen' = dartGen + 1
  /\ dartRequested' = TRUE /\ dartConfirmed' = FALSE
  /\ Call([method |-> "lock", generation |-> dartGen + 1, handle |-> handle,
           wasConfirmed |-> dartConfirmed])

\* Mutant: an unlock goes back to the previous generation.
unlockCursorRewinds ==
  /\ dartGen' = dartGen - 1
  /\ dartRequested' = FALSE /\ dartConfirmed' = FALSE
  /\ Call([method |-> "unlock", generation |-> dartGen, handle |-> FALSE,
           wasConfirmed |-> dartConfirmed])

\* _unlockLinuxCursor up to its await (unlockCursor and unlockCursorAndReseed).
unlockCursor ==
  /\ dartGen' = dartGen + 1
  /\ dartRequested' = FALSE /\ dartConfirmed' = FALSE
  /\ Call([method |-> "unlock", generation |-> dartGen, handle |-> FALSE,
           wasConfirmed |-> dartConfirmed])

\* The filter of _handleLinuxPointerEvent.
Current(m) == dartRequested /\ m.generation = dartGen

\* _handleLinuxPointerEvent.
HandleState(m) ==
  IF Current(m) THEN /\ dartConfirmed' = m.locked /\ published' = m.locked
                     /\ UNCHANGED <<dartGen, dartRequested, lostMotion>>
                ELSE UNCHANGED <<dart, lostMotion>>

HandleMotion(m) ==
  /\ lostMotion' = (lostMotion \/ (Current(m) /\ ~dartConfirmed))
  /\ UNCHANGED dart

\* Mutant: an unlock never publishes.
HandleReplyLockOnly(m) ==
  LET failed == m.method = "lock" /\ ~m.ok /\ m.generation = dartGen
  IN  /\ dartRequested' = (dartRequested /\ ~failed)
      /\ dartConfirmed' = (dartConfirmed /\ ~failed)
      /\ published' = (published /\ ~(m.wasConfirmed /\ failed))
      /\ UNCHANGED <<dartGen, lostMotion>>

\* What follows the await: a failed lock that is still the newest call clears
\* the request; a lock that fails, or an unlock, that is still the newest call
\* publishes the end of a capture that was confirmed when it was called.
HandleReply(m) ==
  LET failed == m.method = "lock" /\ ~m.ok /\ m.generation = dartGen
      ended  == m.method = "unlock" /\ dartGen = m.generation + 1
  IN  /\ dartRequested' = (dartRequested /\ ~failed)
      /\ dartConfirmed' = (dartConfirmed /\ ~failed)
      /\ published' = (published /\ ~(m.wasConfirmed /\ (failed \/ ended)))
      /\ UNCHANGED <<dartGen, lostMotion>>

DartReceives ==
  /\ toDart # <<>>
  /\ toDart' = Tail(toDart)
  /\ LET m == Head(toDart) IN
       \/ m.type = "state"  /\ HandleState(m)
       \/ m.type = "motion" /\ HandleMotion(m)
       \/ m.type = "reply"  /\ HandleReply(m)
  /\ UNCHANGED <<toNative, native, overlapped, calls, natives>>

----------------------------------------------------------------------------
(* Native side, on the GTK main thread.                                    *)

State(gen, locked) == [type |-> "state", generation |-> gen, locked |-> locked]
Reply(m, ok) == [type |-> "reply", method |-> m.method, generation |-> m.generation,
                 ok |-> ok, wasConfirmed |-> m.wasConfirmed]

\* What release() and the state callback send: nothing if nothing was requested.
Released == IF requested THEN <<State(generation, FALSE)>> ELSE <<>>

\* release(): the state callback also forgets the relative sender.
Release ==
  /\ requested' = FALSE /\ active' = FALSE
  /\ relative_sender' = IF requested THEN 0 ELSE relative_sender
  /\ UNCHANGED generation

\* Mutant: the old capture is left alone.
RejectSenderOnly(m) ==
  /\ m.handle
  /\ UNCHANGED native
  /\ toDart' = Append(toDart, Reply(m, FALSE))

\* lockCursor with an invalid sender: the old capture goes, since Dart no longer
\* knows its generation.
RejectSender(m) ==
  /\ m.handle
  /\ requested' = FALSE /\ active' = FALSE /\ relative_sender' = 0
  /\ UNCHANGED generation
  /\ toDart' = toDart \o Released \o <<Reply(m, FALSE)>>

\* lock() fails before it records the request (unsupported, not focused), or
\* after it (no device, grab refused), which it announces.
LockFails(m) ==
  \/ /\ Release
     /\ toDart' = toDart \o Released \o <<Reply(m, FALSE)>>
  \/ /\ requested' = FALSE /\ active' = FALSE /\ relative_sender' = 0
     /\ generation' = m.generation
     /\ toDart' = toDart \o Released \o <<State(m.generation, FALSE), Reply(m, FALSE)>>

\* lock() succeeds: confirmed at once (X11) or to be confirmed (Wayland).
LockSucceeds(m) ==
  \E confirmed \in BOOLEAN :
    /\ generation' = m.generation
    /\ requested' = TRUE /\ active' = confirmed
    /\ relative_sender' = IF m.handle THEN m.generation ELSE 0
    /\ toDart' = toDart \o Released
                   \o (IF confirmed THEN <<State(m.generation, TRUE)>> ELSE <<>>)
                   \o <<Reply(m, TRUE)>>

\* unlock_generation and unlock_and_reseed_generation.
Unlock(m) ==
  IF m.generation = generation
    THEN Release /\ toDart' = toDart \o Released \o <<Reply(m, TRUE)>>
    ELSE UNCHANGED native /\ toDart' = Append(toDart, Reply(m, TRUE))

HandleCall ==
  /\ toNative # <<>>
  /\ toNative' = Tail(toNative)
  /\ LET m == Head(toNative) IN
       \/ m.method = "lock" /\ (RejectSender(m) \/ LockFails(m) \/ LockSucceeds(m))
       \/ m.method = "unlock" /\ Unlock(m)
  /\ UNCHANGED <<dart, ghosts, calls, natives>>

\* Mutant: the confirmation is not announced.
ConfirmSilently ==
  /\ requested /\ ~active
  /\ active' = TRUE
  /\ UNCHANGED <<dart, toNative, toDart, generation, requested, relative_sender, ghosts,
                 calls, natives>>

\* confirm(), from the compositor's locked event.
Confirm ==
  /\ requested /\ ~active
  /\ active' = TRUE
  /\ toDart' = Append(toDart, State(generation, TRUE))
  /\ UNCHANGED <<dart, toNative, generation, requested, relative_sender, ghosts, calls, natives>>

Revocation ==
  /\ requested
  /\ Release
  /\ toDart' = toDart \o Released
  /\ UNCHANGED <<dart, toNative, ghosts, calls>>

\* Focus lost, unmapped, destroyed, compositor unlock, connection lost, ...
Revoke == natives < MaxNative /\ natives' = natives + 1 /\ Revocation

\* Mutant: the timeout is only armed for an active capture.
TimeoutIfActive == active /\ UNCHANGED natives /\ Revocation
\* The compositor did not answer in 5 s.
Timeout         == ~active /\ UNCHANGED natives /\ Revocation

\* A relative motion goes to the native sender if there is one, else to Dart.
Motion ==
  /\ active /\ natives < MaxNative
  /\ natives' = natives + 1
  /\ toDart' = IF relative_sender # 0 THEN toDart
               ELSE Append(toDart, [type |-> "motion", generation |-> generation])
  /\ UNCHANGED <<dart, toNative, native, ghosts, calls>>

----------------------------------------------------------------------------
Next ==
  \/ \E h \in BOOLEAN : lockCursor(h)
  \/ unlockCursor \/ DartReceives \/ HandleCall
  \/ Confirm \/ Revoke \/ Timeout \/ Motion

Spec == Init /\ [][Next]_vars

\* Both event loops run and the 5 s timer fires; the compositor need not answer.
FairSpec == Spec /\ WF_vars(DartReceives) /\ WF_vars(HandleCall) /\ WF_vars(Timeout)

----------------------------------------------------------------------------
(* Properties.                                                             *)

Quiet == toNative = <<>> /\ toDart = <<>>

\* Type correctness.
TypeOK ==
  /\ dartGen \in 0 .. MaxCalls /\ generation \in 0 .. MaxCalls
  /\ {dartRequested, dartConfirmed, published, requested, active,
      overlapped, lostMotion} \subseteq BOOLEAN
  /\ relative_sender \in 0 .. MaxCalls
  /\ \A i \in 1 .. Len(toNative) : toNative[i].method \in {"lock", "unlock"}
  /\ \A i \in 1 .. Len(toDart) : toDart[i].type \in {"state", "motion", "reply"}

\* "Unlock cancels pending activation as well as active capture": once all
\* messages are handled, a pointer the application does not want is not held
\* and not about to be, whatever calls overlapped and failed.
NoStrandedCapture == Quiet /\ ~dartRequested => ~requested

\* Dart's confirmed flag and the native capture agree once all messages are
\* handled, and then speak of the same generation.
ConfirmationAgrees ==
  Quiet => /\ dartConfirmed <=> active
           /\ requested => generation = dartGen

\* The relative sender belongs to the present capture: motion never goes to the
\* sender of a capture that was released, replaced or refused.
SenderOfPresentCapture == relative_sender # 0 => requested /\ relative_sender = generation

\* A motion of the current capture never overtakes its confirmation, so none is
\* dropped by _handleLinuxPointerEvent.
NoMotionBeforeConfirmation == ~lostMotion

\* As long as the application awaits each call and alternates lock and unlock,
\* pointerCaptureChanges ends with the native state.
PublishedAgreesWhenAwaited == Quiet /\ ~overlapped => (published <=> active)

\* The native side holds, and reports to, only what the application last asked for
\* (no capture outlives its unlock, no sender its capture), and Dart believes what
\* the native side confirmed, hears it before any motion and publishes it.
CaptureSound ==
  /\ NoStrandedCapture /\ SenderOfPresentCapture
  /\ ConfirmationAgrees /\ NoMotionBeforeConfirmation /\ PublishedAgreesWhenAwaited

\* A requested capture is confirmed or given up.
CaptureResolves == (requested /\ ~active) ~> (active \/ ~requested)
=============================================================================
