--------------------------- MODULE MCWindowsPlugin ---------------------------
(* Alt is always blocked, Tab with Alt, Esc with Alt and the left Ctrl.     *)
EXTENDS WindowsPlugin, TLC
MCChord == "tab" :> {"alt"} @@ "esc" :> {"alt", "lctrl"}
=============================================================================
