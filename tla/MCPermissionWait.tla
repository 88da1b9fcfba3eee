--------------------------- MODULE MCPermissionWait ---------------------------
(***************************************************************************)
(* PermissionWait on both surfaces: a session is served by the A2A         *)
(* executor or by the Web session manager, never by both.  Re-issued cards *)
(* belong to A2A.                                                          *)
(***************************************************************************)
EXTENDS PermissionWait, TLC

CONSTANT WebGraceZero  \* the policy of the Web sessions

VARIABLE surface

WebSide == INSTANCE PermissionWait WITH
             Surface <- "web", GraceZero <- WebGraceZero, MaxReactivations <- 0

\* Another worker's request meets one of the server's, on A2A and without a
\* re-issued card.
InFlight(Q) == {q \in Q : req[q].st # "idle"}
OneComplication ==
  InFlight(Foreign) # {} => surface = "a2a" /\ reactivations = 0 /\ Cardinality(InFlight(Requests)) <= 2

ServedInit == Init /\ surface \in {"a2a", "web"}

ServedNext ==
  \/ surface = "a2a" /\ Next /\ UNCHANGED surface /\ OneComplication'
  \/ surface = "web" /\ WebSide!Next /\ UNCHANGED surface /\ OneComplication'

ServedSpec == ServedInit /\ [][ServedNext]_<<vars, surface>>

OnA2A(action) == surface = "a2a" /\ action

\* What the asyncio loop guarantees: every ready continuation, request and
\* timer callback is eventually scheduled, and its FIFO locks are eventually
\* granted; strong, because another request may be running whenever one is not.
Scheduling ==
  /\ SF_vars(OnA2A(\E r \in Runs : RunProgress(r)))
  /\ \A b \in Boundaries :
       /\ WF_vars(OnA2A(Tick(b)))
       /\ SF_vars(OnA2A(TimerFires(b)))
       /\ SF_vars(OnA2A(TimerRearmed(b)))
  /\ \A q \in Requests : SF_vars(OnA2A(RequestProgress(q)))

\* What the environment must add for progress: the client repeats the answer
\* that stands, and of the backups and header commits that are tried again and
\* again one succeeds.  Other answers may come too, or never.
Persistence ==
  /\ \A b \in Boundaries :
       SF_vars(OnA2A(\E q \in Requests \ Foreign, v \in Answers :
                       SubmitA2A(q, b, v) /\ (Decided(rec[b]) => v = rec[b].value)))
  /\ SF_vars(OnA2A(\E q \in Requests : ClaimBackedUp(q) \/ Deliver(q) \/ RestoreBackedUp(q)))

\* Only A2A promises progress.
A2AInit == Init /\ surface = "a2a"

A2AFairSpec == A2AInit /\ [][ServedNext]_<<vars, surface>> /\ Scheduling /\ Persistence

\* Requests of the server itself are interchangeable.
Symmetry == Permutations(Requests \ Foreign)

\* A tool runs only on a durable, audited allow, and on A2A only after that
\* decision reached its backup: agent_loop executes allowed_requests long after
\* _claim_live_and_deliver or resume_permission_boundary decided.
ServedExecutedWithPermission ==
  IF surface = "a2a" THEN ExecutedWithPermission ELSE WebSide!ExecutedWithPermission

\* On A2A the live owner of a card is respected: whenever nobody is inside the
\* resolution lock it holds the current generation, so that neither an answer
\* nor the timer is fenced out by a transaction that failed in between, and no
\* restoration starts while it is registered.  (The Web manager waits for its
\* turn lock only after it has begun the restoration.)
A2AOwnerRespected == surface = "a2a" => OwnerNotFenced /\ RestoreWaitsForOwner

\* What is finished stays so, whatever handler, request or run reaches it late:
\* a sealed checkpoint is not opened or sealed differently, and a batch whose
\* results are persisted is not executed again (resume_permission_boundary).
FinishedIsFinal == ReceiptsAreFinal /\ NoRerunAfterResults

\* What a run is told and what the checkpoint records agree: a future holds
\* what was decided, SUSPEND only when the wait is over, and a decision is
\* marked applied only after the run that waits got it (_claim_live_and_deliver).
OutcomesAgree == OutcomeMatchesRecord /\ AppliedWasDelivered

\* A run waits for ever: its owner, with the timer, and its card are gone, so that
\* nobody can answer its future, or, when the run is detached and its future is
\* answered, nobody finds the continuation to drive (claim_continuation).
Stranded(b) ==
  \E r \in Runs : /\ run[r].st = "wait" /\ run[r].b = b /\ ~owner[b].live
                  /\ fut[b] = "pending" \/ (r = Live /\ fut[b] \in {"allow", "deny"})

\* A run waits for an answer to b.
Unanswered(b) == \E r \in Runs : run[r].st = "wait" /\ run[r].b = b /\ fut[b] = "pending"

\* With a resident timeout the run that waits eventually reads a decision, a
\* suspension or a cancellation, even when its timer task is lost
\* (_resident_timer_finished), unless it is stranded.
AnsweredOrStranded ==
  \A b \in Boundaries : (surface = "a2a" /\ Unanswered(b)) ~> (~Unanswered(b) \/ Stranded(b))

\* An answer to a card whose decision has another value: it is about to be refused.
Contradicts(q, b) ==
  req[q].st = "claim" /\ req[q].b = b /\ Decided(rec[b]) /\ req[q].v # rec[b].value

\* Only one thing strands a run: while it waits, its decision claimed but not
\* delivered because a backup or a header commit failed, or delivered and not yet
\* taken up, an answer with another value is refused, and its handler takes owner and
\* card away (_claim_live_and_deliver, executor.py:2033).  Repeating the answer that
\* stands, a failure, a late or a lost timer never does.
StrandedByConflict ==
  [][surface = "a2a" =>
       \A b \in Boundaries : ~Stranded(b) /\ Stranded(b)' => \E q \in Requests : Contradicts(q, b)]_vars

\* An A2A wait ends, unless an answer that contradicts the accepted one strands it
\* (the code does not keep more: see the README).  On the Web the wait may hang: see
\* the README on resume_permission and the fenced timer.
WaitEnds == AnsweredOrStranded /\ StrandedByConflict

\* An A2A decision that was accepted is eventually acted on: applied by the
\* resident run or by a restoration (_resume_persisted_permission), and its
\* checkpoint sealed, after failed audits and backups too, unless an answer that
\* contradicts it strands the run (StrandedByConflict).
DecisionConcludes ==
  \A b \in Boundaries :
    (surface = "a2a" /\ Decided(rec[b])) ~> (rec[b].phase \in {"RESOLVED", "CANCELED"} \/ Stranded(b))
=============================================================================
