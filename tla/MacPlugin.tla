------------------------------ MODULE MacPlugin ------------------------------
(***************************************************************************)
(* The two captures of the macOS plugin that reach beyond the application, *)
(* both owned by HardwareSimulatorPlugin and driven by its method channel. *)
(***************************************************************************)
EXTENDS MacSystemShortcuts, MacCapsLockRemap

CONSTANTS
  Uses,        \* what an application uses: "shortcuts" or "caps"
  MaxCalls,    \* bound on calls for each use
  MaxUser      \* bound on what the user does

ASSUME MacAssumption ==
  /\ Uses \subseteq {"shortcuts", "caps"}
  /\ MaxUser \in Nat /\ \A u \in Uses : MaxCalls[u] \in Nat

VARIABLES use, calls, users

vars == <<shortcutVars, remapVars, use, calls, users>>

Init ==
  /\ ShortcutsInit /\ RemapInit
  /\ use \in Uses /\ calls = 0 /\ users = 0
  /\ use # "caps" => mapping = {} /\ journal = None

handle ==
  /\ calls < MaxCalls[use] /\ calls' = calls + 1
  /\ \/ use = "shortcuts" /\ ShortcutCalls /\ UNCHANGED remapVars
     \/ use = "caps" /\ RemapCalls /\ UNCHANGED shortcutVars
  /\ UNCHANGED <<use, users>>

User ==
  /\ use = "shortcuts" /\ users < MaxUser /\ users' = users + 1
  /\ ShortcutUser /\ UNCHANGED <<remapVars, use, calls>>

Shortcuts == use = "shortcuts" /\ ShortcutEvents /\ UNCHANGED <<remapVars, use, calls, users>>
Remaps    == use = "caps" /\ RemapEvents /\ UNCHANGED <<shortcutVars, use, calls, users>>

Next == handle \/ User \/ Shortcuts \/ Remaps

Spec     == Init /\ [][Next]_vars
FairSpec == Spec /\ ShortcutFairness /\ RemapFairness

----------------------------------------------------------------------------
\* Type correctness.
TypeOK == ShortcutTypeOK /\ RemapTypeOK

\* Whatever fails, both captures come to an end: the global tap goes after a stop or
\* without its consumer, and a stop of the Caps Lock capture restores the mapping,
\* which takes retries until one succeeds.
Unfinished(p) == Ending \/ inst[p].stopRequested
CapturesEnd   == \A p \in Procs : Unfinished(p) ~> ~Unfinished(p)
=============================================================================
