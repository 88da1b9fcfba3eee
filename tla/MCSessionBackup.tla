--------------------------- MODULE MCSessionBackup ---------------------------
(* The deployments of SessionBackup that are explored. *)
EXTENDS SessionBackup

\* Anything may go wrong; two processes work on each node's copy.
Free == [reconciled |-> FALSE, active |-> 1, ops |-> 2, writes |-> 1, faults |-> 2, lost |-> 1, kills |-> 1]
Crowded == [reconciled |-> FALSE, active |-> 2, ops |-> 2, writes |-> 1, faults |-> 1, lost |-> 0, kills |-> 1]
\* A failed backup is reconciled before the next one.
Careful == [reconciled |-> TRUE, active |-> 1, ops |-> 3, writes |-> 1, faults |-> 2, lost |-> 0, kills |-> 0]
\* The failure itself may go unrecorded.
Unrecorded == [Careful EXCEPT !.ops = 2, !.lost = 1]

AllSettings == {Free, Crowded, Careful, Unrecorded}
=============================================================================
