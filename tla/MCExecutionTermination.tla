------------------------ MODULE MCExecutionTermination ------------------------
(* The executions of ExecutionTermination that are explored. *)
EXTENDS ExecutionTermination
CONSTANTS t1, t2

\* A direct backup of one task's session, of two tasks', of one whose permission was
\* handed off, with the coordinator, and without a backup directory.
Direct == [tasks |-> {t1}, service |-> "direct", handoff |-> FALSE, claims |-> 2, data |-> 2, failures |-> 2, revision |-> 40]
Tandem == [Direct EXCEPT !.tasks = {t1, t2}, !.data = 3]
Handed == [Direct EXCEPT !.handoff = TRUE]
Coordinated == [Direct EXCEPT !.service = "coordinated", !.claims = 3, !.revision = 9]
Disabled == [Direct EXCEPT !.service = "off"]

AllSettings == {Direct, Tandem, Handed, Coordinated, Disabled}
=============================================================================
