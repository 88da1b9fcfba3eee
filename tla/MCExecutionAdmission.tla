------------------------- MODULE MCExecutionAdmission -------------------------
(* The deployments of ExecutionAdmission that are explored. *)
EXTENDS ExecutionAdmission, TLC

\* Up to three turns handed over between processes; two with a subprocess tool
\* each; three where a wait is recovered beside the subprocess of a process that
\* died; two with background work and permission waits that cannot move.
Handoffs == [shared |-> TRUE, background |-> FALSE, execs |-> 3, rev |-> 3, tools |-> 0]
Tools == [shared |-> TRUE, background |-> FALSE, execs |-> 2, rev |-> 4, tools |-> 1]
Orphans == [shared |-> FALSE, background |-> FALSE, execs |-> 3, rev |-> 2, tools |-> 1]
Background == [shared |-> FALSE, background |-> TRUE, execs |-> 2, rev |-> 4, tools |-> 1]

AllSettings == {Handoffs, Tools, Orphans, Background}

\* Processes differ only by name.
WorkerSymmetry == Permutations(Workers)
=============================================================================
