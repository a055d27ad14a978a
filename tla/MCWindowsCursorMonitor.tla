---------------------- MODULE MCWindowsCursorMonitor ----------------------
(* Handles 1 (a system cursor) and 2 have the same picture, 3 has another. *)
EXTENDS WindowsCursorMonitor
MCBitmap == [c \in {1, 2, 3} |-> IF c = 3 THEN 2 ELSE 1]
=============================================================================
