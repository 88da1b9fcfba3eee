--------------------------- MODULE MCExecutionPause ---------------------------
(* The executions of ExecutionPause that are explored. *)
EXTENDS ExecutionPause
CONSTANTS loop, tool

\* An agent loop and the tool (or sub-agent) it runs.
MCParent == [t \in Tasks |-> IF t = tool THEN loop ELSE t]

\* With a bash tool, whose marker may fail to be written; with a sub-agent that
\* checks in itself; the loop alone, paused twice; the loop with a failed write
\* or with an external operation.
Bash == [tasks |-> {loop, tool}, subprocess |-> {tool}, pauses |-> 1, revision |-> 2, failures |-> 0, operations |-> 0]
Unmarked == [Bash EXCEPT !.pauses = 0, !.revision = 3, !.failures = 1]
SubAgent == [Bash EXCEPT !.subprocess = {}]
Twice == [SubAgent EXCEPT !.tasks = {loop}, !.pauses = 2, !.revision = 3]
Failing == [Twice EXCEPT !.pauses = 1, !.revision = 2, !.failures = 1]
Operating == [Failing EXCEPT !.failures = 0, !.operations = 1]
OperationFails == [Failing EXCEPT !.operations = 1, !.revision = 1]

AllSettings == {Bash, Unmarked, SubAgent, Twice, Failing, Operating, OperationFails}
=============================================================================
