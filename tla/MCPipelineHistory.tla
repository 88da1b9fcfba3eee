------------------------- MODULE MCPipelineHistory -------------------------
(* The configurations of PipelineHistory that are explored. *)
EXTENDS PipelineHistory

Immediate == [extreme |-> FALSE, kinds |-> {"plain", "semantic", "journaled"},
              separators |-> FALSE, double |-> FALSE]
Default == [extreme |-> TRUE, kinds |-> {"delta", "plain", "semantic"},
            separators |-> FALSE, double |-> TRUE]
Separated == [extreme |-> FALSE, kinds |-> {"plain", "semantic"},
              separators |-> TRUE, double |-> FALSE]

AllSettings == {Immediate, Default, Separated}
SeparatedOnly == {Separated}

=============================================================================
