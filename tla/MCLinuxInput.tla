--------------------------- MODULE MCLinuxInput ---------------------------
(* A small instance of LinuxInput: two virtual keys share a Linux code, as   *)
(* VK_SHIFT and VK_LSHIFT do; the wheel deltas are in half units.            *)
EXTENDS LinuxInput

\* VK_SHIFT, VK_LSHIFT and VK_A.
MCKeyCode == [vk \in Vks |-> IF vk = 65 THEN "KEY_A" ELSE "KEY_LEFTSHIFT"]

\* 40.5 units (rounded to 41), 80 units back, more than the limit, not finite.
MCDeltas == {81, -160, 50000, NotFinite}
=============================================================================
