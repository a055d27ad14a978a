---------------------------- MODULE WindowsPlugin ----------------------------
(***************************************************************************)
(* Gamepads, immersive mode, the cursor lock and display settings in one    *)
(* plugin object (windows/hardware_simulator_plugin.cpp): HandleMethodCall dispatches    *)
(* their calls on the platform thread until the destructor takes them down. *)
(* Threads of ViGEm and the user go on after it.  (The host-input,         *)
(* editing and display parts of the destructor are in their own modules.   *)
(* A keyboard hook that outlives the plugin calls through a dangling        *)
(* pointer, so typing ends with the plugin, as does the window subclass.)  *)
(***************************************************************************)
EXTENDS WindowsGamepads, WindowsLocalCapture, WindowsDisplaySettings

CONSTANTS
  Uses,        \* the sets of parts that an application may use
  MaxCalls,    \* bound on calls
  MaxUser      \* bound on what the user does

ASSUME PluginAssumption ==
  /\ {MaxCalls, MaxUser} \subseteq Nat
  /\ Uses \subseteq SUBSET {"pads", "keyboard", "cursor", "configs", "orientation"}

VARIABLES alive, uses, calls, users

vars == <<padVars, captureVars, settingsVars, alive, uses, calls, users>>

\* What is not used starts in one state.
Init ==
  /\ PadInit /\ CaptureInit /\ SettingsInit
  /\ alive = TRUE /\ uses \in Uses /\ calls = 0 /\ users = 0
  /\ {"keyboard", "cursor"} \cap uses = {} => foreground
  /\ "orientation" \notin uses => orientation = 0

HandleMethodCall ==
  /\ alive /\ calls < MaxCalls /\ calls' = calls + 1
  /\ \/ "pads" \in uses /\ PadCalls /\ UNCHANGED <<captureVars, settingsVars>>
     \/ "keyboard" \in uses /\ KeyboardCalls /\ UNCHANGED <<padVars, settingsVars>>
     \/ "cursor" \in uses /\ CursorCalls /\ UNCHANGED <<padVars, settingsVars>>
     \/ "configs" \in uses /\ ConfigCalls /\ UNCHANGED <<padVars, captureVars>>
     \/ "orientation" \in uses /\ OrientationCalls /\ UNCHANGED <<padVars, captureVars>>
  /\ UNCHANGED <<alive, uses, users>>

User ==
  /\ users < MaxUser /\ users' = users + 1
  /\ \/ "keyboard" \in uses /\ alive /\ UserTypes /\ UNCHANGED settingsVars
     \/ "cursor" \in uses /\ UserMoves /\ UNCHANGED settingsVars
     \/ {"keyboard", "cursor"} \cap uses # {} /\ FocusChanges /\ UNCHANGED settingsVars
     \/ "orientation" \in uses /\ UserRotates /\ UNCHANGED captureVars
  /\ UNCHANGED <<padVars, alive, uses, calls>>

Deliver ==
  /\ \/ PadEvents /\ UNCHANGED <<captureVars, settingsVars>>
     \/ alive /\ CursorReseedSubclassProc /\ UNCHANGED <<padVars, settingsVars>>
     \/ ServiceCatchesUp /\ UNCHANGED <<padVars, captureVars>>
  /\ UNCHANGED <<alive, uses, calls, users>>

\* Mutant: the cursor lock is left as it is.
DestroyOnlyPads == StopRumbleNotifications /\ UNCHANGED captureVars
DestroyParts    == StopRumbleNotifications /\ CleanupCursorLock /\ UNCHANGED moveVars

Destroy ==
  /\ alive /\ alive' = FALSE
  /\ DestroyParts
  /\ UNCHANGED <<settingsVars, uses, calls, users>>

Next == HandleMethodCall \/ User \/ Deliver \/ Destroy

Spec == Init /\ [][Next]_vars

----------------------------------------------------------------------------
\* Type correctness.
TypeOK == PadTypeOK /\ CaptureTypeOK /\ SettingsTypeOK /\ alive \in BOOLEAN

\* The lock is sound in every state, and the destructor leaves behind neither a
\* clipped or hidden cursor, nor a window procedure, nor a rumble registration that
\* points at the plugin.  (The keyboard hook does stay, if immersive mode was on.)
LeavesNothing ==
  /\ LockSound
  /\ ~alive => /\ ~cursor_locked_ /\ ~raw_input /\ ~clipped /\ showCount = 0
               /\ ~rumble_proc /\ entries = {} /\ \A t \in Targets : notify[t] = None
=============================================================================
