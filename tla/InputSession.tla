--------------------------- MODULE InputSession ---------------------------
(***************************************************************************)
(* What the desktop service input client promises its callers, with no     *)
(* threads, locks or pipes: inputs are numbered in the order in which they *)
(* are accepted; accepting needs an open session; the oldest pending input *)
(* is delivered next; ending a session drops every pending input except,   *)
(* at most, the oldest one, whose write may already be under way.  Nothing *)
(* is delivered twice, out of order, or after a newer session opened.      *)
(***************************************************************************)
EXTENDS Naturals, Sequences

VARIABLES
  open,       \* inputs are being accepted
  last,       \* the number of the last accepted input
  pending,    \* accepted inputs that may still be delivered
  delivered   \* the inputs delivered, in order

sessionVars == <<open, last, pending, delivered>>

SessionInit ==
  /\ open = FALSE
  /\ last = 0
  /\ pending = {}
  /\ delivered = <<>>

IsOldest(n) == n \in pending /\ \A m \in pending : n <= m

Open ==
  /\ ~open /\ pending = {}
  /\ open' = TRUE
  /\ UNCHANGED <<last, pending, delivered>>

Accept ==
  /\ open
  /\ last' = last + 1
  /\ pending' = pending \cup {last + 1}
  /\ UNCHANGED <<open, delivered>>

Deliver ==
  \E n \in pending :
    /\ IsOldest(n)
    /\ pending' = pending \ {n}
    /\ delivered' = Append(delivered, n)
    /\ UNCHANGED <<open, last>>

End ==
  /\ open' = FALSE
  /\ \/ pending' = {}
     \/ \E n \in pending : IsOldest(n) /\ pending' = {n}
  /\ UNCHANGED <<last, delivered>>

SessionNext == Open \/ Accept \/ Deliver \/ End

SessionSpec == SessionInit /\ [][SessionNext]_sessionVars
=============================================================================
