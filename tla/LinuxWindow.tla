------------------------------ MODULE LinuxWindow ------------------------------
(***************************************************************************)
(* Immersive mode and the edit-focus question in the Linux plugin          *)
(* (linux/hardware_simulator_plugin.cc), on the GTK main thread, until the *)
(* plugin is disposed.                                                     *)
(***************************************************************************)
EXTENDS LinuxImmersiveInput, LinuxEditFocus

CONSTANTS
  Uses,       \* the parts an application may use: "immersive", "edit"
  MaxCalls    \* bound on calls

ASSUME LinuxWindowAssumption == Uses \subseteq {"immersive", "edit"} /\ MaxCalls \in Nat

VARIABLES alive, use, calls

vars == <<immersiveVars, editFocusVars, alive, use, calls>>

\* The part that is not used starts in one state.
Init ==
  /\ ImmersiveInit /\ EditFocusInit /\ alive = TRUE /\ use \in Uses /\ calls = 0
  /\ use # "immersive" => backend = "x11" /\ ~mapped
  /\ use # "edit" => realFocus = NoNode

HandleMethodCall ==
  /\ alive /\ calls < MaxCalls /\ calls' = calls + 1
  /\ \/ use = "immersive" /\ (\E e \in BOOLEAN : set_enabled(e)) /\ UNCHANGED editFocusVars
     \/ use = "edit" /\ EditFocusCalls /\ UNCHANGED immersiveVars
  /\ UNCHANGED <<alive, use>>

Events ==
  /\ \/ use = "immersive" /\ ImmersiveEvents /\ UNCHANGED editFocusVars
     \/ use = "edit" /\ EditFocusEvents /\ UNCHANGED immersiveVars
  /\ UNCHANGED <<alive, use, calls>>

\* Mutant: the edit-focus question outlives the plugin.
DisposeHalf == DestroyImpl /\ UNCHANGED editFocusVars
DisposeParts == DestroyImpl /\ stop

dispose ==
  /\ alive /\ alive' = FALSE
  /\ DisposeParts
  /\ UNCHANGED <<use, calls>>

Next == HandleMethodCall \/ Events \/ dispose

Fairness ==
  /\ WF_vars(check_focus /\ UNCHANGED <<editFocusVars, alive, use, calls>>)
  /\ WF_vars((AppHandlesClick \/ \E id \in timers : Timer(id))
              /\ UNCHANGED <<immersiveVars, alive, use, calls>>)

Spec == Init /\ [][Next]_vars /\ Fairness

----------------------------------------------------------------------------
\* Type correctness.
TypeOK == ImmersiveTypeOK /\ EditFocusTypeOK /\ alive \in BOOLEAN

\* What is captured, cached and answered is right at any time, and a disposed plugin
\* leaves the display server nothing to hold and no timer to run.
WindowSound ==
  /\ OneCapture /\ WantedIsCaptured
  /\ CacheIsCurrent /\ AnswersSound
  /\ ~alive => held = 0 /\ timers = {} /\ ~callback /\ ~focus_watch

\* A grab is let go once the focus has left it, and a click is answered unless a
\* later click replaces it or the questions end.
Prompt ==
  /\ (focus_watch /\ ~xfocus) ~> (~window \/ xfocus)
  /\ \A i \in 1 .. MaxClicks :
       (timers = {i}) ~> (timers # {i})
=============================================================================
