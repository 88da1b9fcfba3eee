------------------------- MODULE MCPipelineEngine -------------------------
(* The instances of PipelineEngine: the first step feeds every other, and  *)
(* each step the next.                                                     *)
EXTENDS PipelineEngine

ChainDeps == [i \in 1..N |-> {d \in {1, i - 1} : d >= 1 /\ d < i}]

(* A REPL pipeline that waits for its user at the second step. *)
Repl == [waits |-> {2}, legacy |-> {}, plain |-> {}, parallel |-> {}, exits |-> {1}, a2a |-> FALSE,
         rollbacks |-> 1, interrupts |-> 1, attempts |-> 9, crashes |-> 1,
         torn |-> 0, blocks |-> 0, answers |-> 2, fails |-> 1, refused |-> 1]

(* Its saves are cut short, its backups block. *)
TornSaves == [Repl EXCEPT !.exits = {}, !.attempts = 7, !.crashes = 0, !.torn = 1, !.fails = 0]
BlockedBackups == [Repl EXCEPT !.interrupts = 0, !.attempts = 8, !.blocks = 2, !.refused = 0]

(* The A2A surface, with parallel steps only and with steps of all kinds. *)
AllParallel == [Repl EXCEPT !.waits = {}, !.parallel = {1, 2, 3}, !.exits = {}, !.a2a = TRUE,
                            !.attempts = 7, !.torn = 1, !.blocks = 0, !.refused = 0]
Mixed == [Repl EXCEPT !.parallel = {1}, !.exits = {}, !.a2a = TRUE, !.attempts = 6, !.blocks = 1, !.answers = 1]

(* The REPL with parallel steps. *)
ReplParallel == [TornSaves EXCEPT !.parallel = {1}, !.refused = 0, !.fails = 1]

(* The REPL with a step that any resume passes. *)
Plain == [Repl EXCEPT !.legacy = {2}, !.plain = {2}, !.exits = {}, !.attempts = 5, !.answers = 1, !.fails = 0, !.refused = 0]

AllSettings == {Repl, ReplParallel, TornSaves, BlockedBackups, AllParallel, Mixed, Plain}

=============================================================================
