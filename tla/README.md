# Verification of iac-code

iac-code is an agent for infrastructure as code. An agent loop streams a model's
answer, runs the tools it asks for, and stores the conversation; several servers
(A2A, Web, ACP, AG-UI) drive it for remote users, and a pipeline engine chains
agent runs into steps. This directory holds TLA+ models of its protocols, the TLC
runs that check them on small instances, and theorems proved with TLAPS. Paths
below are relative to `src/iac_code/` of the repository.

## Inventory

| Part | State | Operations | Interacts with | What is hard | What makes it correct | Module |
|---|---|---|---|---|---|---|
| Permission checkpoint store (`services/permission_wait.py`) | one JSON file per permission card: phase, generation, decision, audit, backup, deadlines, continuation frame | create, create_successor, reactivate, reconcile_deadline, claim_decision, run_claim_audit_once, mark_claim_backed_up, mark_applied, begin_restore, resolve, cancel, cancel_restore | every worker process of a session, through a file lock | several processes, crashes between transactions, stale generations | a decision is claimed once and never rewritten, generations only grow, receipts are final | `PermissionStore` |
| Permission wait coordinator (same file) | live owners with resolution lock, generation and timer; boundaries being restored | register_live, claim_live, cancel_live_result, suspend_now, unregister_live, acquire_restore | registry or Web session, agent loop futures | timer, answers and cancellation race at every await | a waiting run gets exactly the outcome the checkpoint records; a wait always ends | `PermissionWait` |
| A2A registry (`a2a/input_required.py`, `a2a/events.py`) | pending cards, detached continuations | open/activate/fail/complete a durable boundary, answer, cancel_task, claim_continuation | coordinator, executor, backup | duplicate answers, failing backups | one continuation per card | `PermissionWait` |
| A2A executor (`a2a/executor.py`) | tasks, contexts | execute, detached runs, _resume_persisted_permission, termination | registry, admissions, agent loop | cold answers race with live ones and with other workers | a restored run never overlaps the old one | `PermissionWait` (answers and recovery) |
| Agent loop (`agent/agent_loop.py`) | context, transcript tail, ordered permission batch | run_streaming, resume_permission_boundary, tool batches | tools, storage, permission cards | resume in the middle of a batch, crash between execution and persistence | a tool runs only with permission; results are stored once | `PermissionWait` (batches) |
| Web sessions (`web/session_manager.py`, `web/runtime.py`, `web/app.py`) | sessions, listed cards, turn lock, queued inputs | open/answer/cancel cards, interrupt, reload, resume_permission | coordinator, agent loop, browsers | interrupts against answers, turn lock against recovery | as for A2A | `PermissionWait` (cards) |
| Execution control, one execution (`a2a/execution_control.py`) | phase, gate, participants, activities, revisions, control.json; finalizers, backup status, receipts | pause, resume, deadlines, activities, terminate, natural completion, retries | client requests, agent loop, backup | every lock release between a snapshot and its write; requests while another finalizer runs | paused means quiet, resumed is durable, released means backed up | `ExecutionPause`, `ExecutionTermination` |
| Execution control, many processes (same file) | control document and admission ticket per context | reserve, begin, activate, hand off, release, recover | executor, other workers | expiry, crashes, two processes between check and lock | one execution per context, a dead one's subprocess is not worked beside | `ExecutionAdmission` |
| Push notifications (`a2a/push*.py`) | queued, in-flight, dead jobs | enqueue, claim, ack, retry, dead_letter | workers | a worker dies holding a job | every job is delivered or dead-lettered | `PushDelivery`, `RedisPushQueue`, `FilePushQueue`, `PushService` |
| Session backup (`services/session_backup.py`) | local and shared payload, state and markers | backup, reconcile, restore | permission boundaries, execution control | two nodes, I/O errors and deaths while publishing | captures are whole, never fork, failures stay retryable | `SessionBackup` |
| Pipeline engine (`pipeline/engine/`) | state machine, context with stale marks, attempts, sidecar files | run, conclude, roll back, interrupt, answer, save, restore | agent loop, A2A pipelines, REPL | interrupts and kills at step borders, saves of two files | no step is skipped, none concludes on what was rolled back | `PipelineEngine` |
| A2A pipeline output (`a2a/pipeline_outbound.py`) | source queues, frozen batches, boundaries | submit, permission, flush, callback, close, abort | publisher, permission cards | a permission blocks its source while others go on | order per source, nothing dropped, every caller answered | `PipelineOutbound` |
| A2A pipeline history (`a2a/pipeline_journal.py`, `_snapshot`, `_stream`, `_recovery`) | journal, snapshot, deferred events | persist, repair, snapshot, recover | clients that come back | cut, failed and undone writes, kills | what clients were shown is found again, with its number | `PipelineHistory` |
| Staged backup (`services/session_backup_staging.py`) | staged captures, publisher | stage, publish | backup | crash while publishing | as for the backup | – |
| Session storage (`services/session_storage.py`, index, guard) | transcript, index | append, load, rewrite | everything | torn writes | the transcript is append-only | – |
| Task store (`a2a/task_store.py`) | tasks, contexts, runtimes | mirror, commit, discard | executor | restart with a running task | one active task per context | – |
| Background tasks (`tasks/`), MCP (`mcp/`), ACP and AG-UI, providers, tools, memory, UI, desktop, the Rust port | – | – | – | mostly I/O | see `PROJECT.json` | – |

`PROJECT.json` lists under `hazards`, line by line, what in this code is hard to
test and which property would notice it going wrong.

## Modules

| Module | Contents |
|---|---|
| `PermissionStore` | one checkpoint record and, for each store method, its guard `CanOp` and its effect `Op`; `LedgerStep`, the rules all of them obey |
| `PermissionWait` | the durable permission wait: runs, cards, owners, timers, answers on the live and the cold path, restorations, cancellations, interrupts, crashes |
| `MCPermissionWait` | composes the A2A side and the Web side (two instances of `PermissionWait`): a session is served by one of them |
| `PermissionWait_proofs`, `PushService_proofs`, `ExecutionPause_proofs`, `ExecutionAdmission_proofs`, `SessionBackup_proofs`, `PipelineHistory_proofs`, `PipelineEngine_proofs`, `PipelineOutbound_proofs` | the theorems, see *Proofs* |
| `PushDelivery` | abstract: what a push queue promises |
| `RedisPushQueue`, `FilePushQueue` | the two queues with their workers |
| `PushService` | composes them (one is configured) and shows that both implement `PushDelivery` |
| `ExecutionPause` | one execution: pause, resume, deadlines, activities and external operations, up to a claimed termination |
| `ExecutionTermination` | one execution: how it is cleaned up, backed up and released |
| `ExecutionAdmission` | several processes that may run one conversation |
| `SessionBackup` | two nodes and the shared backup of one session |
| `PipelineEngine` | the pipeline runner, its context, its sidecar and its restores |
| `PipelineOutbound` | the outbound queue of an A2A pipeline |
| `PipelineHistory` | journal, snapshot, publisher and recovery of an A2A pipeline |
| `MCExecutionPause`, `MCExecutionTermination`, `MCExecutionAdmission`, `MCSessionBackup`, `MCPipelineEngine`, `MCPipelineHistory` | the *settings* explored, symmetry |

Most new modules have a variable `setting` that `Init` chooses from the constant
`Settings` and no step changes: the deployment (which surface, which backup, with
which tools) together with the bounds that keep this deployment finite. One run
thus explores several deployments, each with its own bounds. A setting's bounds
are named where `Setting` is defined; they count environment events (failures,
kills, requests), never the code's own steps.

### Permission wait

A *boundary* is the durable permission card of one tool; boundaries `1..NB` are
the tools of one ordered batch, boundary `b + 1` the successor of `b`. A *run*
is one agent-loop continuation of the batch: the run that opened it (`Live`) or
one restored by a request. A *request* is one delivery of a client's answer.

| Variable | Code |
|---|---|
| `rec`, `frame` | checkpoint files, `continuationFrame` |
| `results` | the batch's ToolResults are in the transcript, so its assistant message is no longer the tail |
| `clock` | which deadlines of a wait have passed |
| `owner` | `coordinator._owners`; `generation`, `permission_resolution_lock`, `timer` of `_LiveOwner`; `id` tells two owners of one boundary apart |
| `fut` | the `response_future` a run awaits |
| `restoring` | `coordinator._restoring` |
| `reg` | A2A `_pending` / Web `pending_permissions`; `taken` is `continuation_claimed` |
| `admission` | the recoverable-input admission of the context |
| `run`, `req` | where each run and each request is between two awaits |
| `busy` | the request that is between two transactions without an await |
| `ran` | history: tools executed |

The server is one asyncio process, so an action is what happens between two
awaits; where the code runs several store transactions without an await, `busy`
keeps the server from interleaving but lets other processes (`Foreign`) in,
because the file lock is only held per transaction. The A2A live answer, for
example, is `SubmitA2A`, `ClaimReconcile`, `ClaimDecision`, `ClaimAudit`,
`ClaimBackedUp`, `Deliver` (or `DeliveryFails`, when the backup or the commit of the
headers raises), `ClaimContinuation`; the cold one `LoadCheckpoint`,
`ColdReconcile`, `ColdClaim`, `ColdAudit`, `AcquireRestore`, `Admit`,
`RestoreBackedUp`, `BeginRestoration`, `ResumeBoundary`. `Surface` selects A2A or
Web where they differ; on the Web only the server itself answers (`SubmitWeb`). The await of `before_release` is kept also for a duplicate
answer to a finished future, where the code skips it; the steps it separates then
change nothing.

Abstractions: payloads, digests, identities and claim ids are dropped (a claim id
is issued exactly when `status` leaves `none`); identity checks and policies that
changed during a restoration are a nondeterministic denial; deadlines are the two
facts the code derives from them; a backup is a step that succeeds or fails; tools
that need no permission are not boundaries.

### Push notifications

In `RedisPushQueue` every Redis command is awaited, so a step is one command of
one worker: promote due retries, blocking read, reclaim of expired leases, post,
then acknowledge, delay or bury. A command may fail and a worker may die before
or after it took effect. In `FilePushQueue` the methods never await; `todo` holds
the file operations left in the running one (a write is a truncation and a fill),
and a crash may come between any two; the recovery of expired leases at the head of
`claim` is one step per lease. `Tracked` is where each queue still knows a
job; `Delivery` in `PushService` maps these to the abstract queue. A crash of the
local queue may lose the one job whose file is being replaced; the mapping keeps
that job as tracked for ever (the promise is broken by the crash, not by the queue's
own steps), and `LossPerCrash` bounds how many there are. `Forget` of the abstract
queue takes a set of jobs, because the death of a worker or of the server drops every
settled copy it held at once.

Abstractions: a job is its number and its attempt; a lease or a delay is whether
it has passed; addresses, headers and signing are left out.

### Execution control

The controller runs its handlers under one `asyncio` lock and spawns coroutines
that write a snapshot to `control.json` outside it. In `ExecutionPause` a `Job` is
such a coroutine with the fences (revision, generation, pause id) it was given.
A task registers as a participant, opens activities, parks at the gate, waits
passively or records an external operation; a client pauses, resumes or reports a
timeout. An execution may be `paused` and a tool begun before the pause may still
start its subprocess (`begin_activity(check_gate=False)`); `PausedWhenQuiet` is
therefore about the moment it becomes paused.

`Parent` makes the tasks a tree of any depth: a loop runs tools, a sub-agent tool runs
a loop of its own. Two facts about the tools keep the tree faithful, and TLC shows on
a tree of three levels that without them neither `PausedWhenQuiet` nor
`ControlFileTrue` holds: bash and grep run no task of the execution
(`ExecutionAssumption`), and the tools that record external operations
(`tools/cloud/aliyun/ros_stack.py:709`, `ros_stack_instances.py:154`) run none either
(`Leaf`). For the same reason `PausedWhenQuiet` lets the activity of a task that is
no leaf be there when the pause commits: it belongs to a tool that only waits for the
tasks it runs, and is `blocked`, never `open`.

In `ExecutionTermination` a `Job` is a finalizer (of a stop, a natural completion,
a repeated cleanup, backup or commit, or a release) and `fresh` the coroutines
spawned and not begun, in order. The session is a counter of writes, `data`, and
what the last backup holds, `saved`. A staged backup still pending is abstracted to
the backup's status.

`ExecutionAdmission` has the control file (`disk`), the admission ticket, each
process's controller and its one request. A request is the local checks, one locked
step on the files, and the installation of its controller. `proof` is what a
permission checkpoint says about a handoff, `waiting` the durable input wait the
session proves. Left out: the revocation of an ordinary durable handoff is not
written before a stop, nor is the snapshot of the ending phase, because neither
admits more than the model does; a pipeline permission answered with a local-only
ticket is refused before it gets here; and the cards a recovered permission
continuation is bound to (`execution_control.py:3666`), whose claims the controller would
check: the model's recovered turn has none.

### Session backup

A node is a machine with its session directory; a process takes the local and the
shared lock, then changes files one at a time, and may meet an I/O error or die at
each. `capture`, `from` and `dirty` are history variables: what each generation
captured, which capture a node's payload descends from, what it changed since. The
local state write of the repair and idempotent paths is modelled after the shared
lock is released, which only allows more. A session whose restore is incomplete is
not opened for writing.

Left out: publication proofs, `minimum_generation`, path validation, repair of
metadata of equal lineage, staging.

### Pipelines

`PipelineEngine` follows `_continue_from_current`: an action is the code between
two points at which a stream gives way (a yield, the agent loop, the backup
thread). A save replaces `context.yaml` and `meta.yaml`; `CrashInSave` is a death
between the two. A conclusion is a stamp that remembers the stamps it was drawn
from, which is what `BasisCurrent` compares. Steps form a chain with dependencies
on earlier steps. A failed save has the effect of a kill before it. The agent
inside a step is assumed to conclude only on what the step was given. Left out:
candidates of parallel steps one by one, resource selection and permission
boundaries, cleanup of deployed resources, handoff to normal mode, the successor of
a canceled checkpoint, confirmation of pauses, MCP status, in-process continuation
of a blocked backup.

`PipelineOutbound` names events by arrival number; a batch is a set, published in
the order of arrival. `_ready` is modelled by its batches and its boundaries: a batch
carries the number of arrivals when it was frozen (`at`), which tells the boundaries it
stands behind. Age and size of collected events are left open: a batch may
become due at any time. Coalescing of text events, the flow monitor and the
shielding of `_await_completion` are left out; publishing one batch is one step. The code does not
record what a boundary leaves behind blocked sources; the model does, in the
boundary's own arrival (`held`), because `Fenced` and `EverythingSettles` except it.

`PipelineHistory` has one task. `persist_envelope` has no await, so its steps
interleave with the death of the process only; a write may fail, be undone, fail to
be undone or be cut. What the kernel accepted survives (power loss is not
modelled). Delivery aliases, protected publications and the 1 MiB window in which
the tail is repaired are left out, and reads do not fail (`_append_tail_state` takes a
file it cannot read for clean, and the append would go on behind a cut line); a kill also stands for a publisher that ends.

## Runs

`CHECK_DEADLOCK` is off where the system may stop: an execution that is over, a
pipeline that ended, bounds used up. The permission runs `batch` and `reissue`
check deadlock. A property of a run may join several named parts of its module,
given in brackets.

| Run | Instance | Shows |
|---|---|---|
| `batch` | A2A or Web, 2 tools, 1 request at a time, faults; Web with grace 0 | tools run only on audited, backed-up allows (`ServedExecutedWithPermission`); `SuccessorReady`; on A2A a live owner is never fenced out of its card and restorations wait for it (`A2AOwnerRespected`: `OwnerNotFenced`, `RestoreWaitsForOwner`); what is sealed or persisted stays so (`FinishedIsFinal`: `ReceiptsAreFinal`, `NoRerunAfterResults`); `TypeOK` |
| `reissue` | A2A with 1 re-issued card, Web, or A2A with a request of another process; 1 tool, 2 requests, faults | with stale answers of the card's earlier life in flight: `OutcomesAgree` (`OutcomeMatchesRecord`, `AppliedWasDelivered`), `CanceledIsNotActedOn`, `OneContinuation`, `CheckpointLedger` |
| `progress` | A2A, 1 tool, 2 requests with either answer, failed audits, backups and header commits, no crashes or cancellations; fairness | `WaitEnds` (`AnsweredOrStranded`, `StrandedByConflict`) and `DecisionConcludes`: every wait ends and every decision is concluded, unless an answer that contradicts the accepted one strands the run, and nothing else does |
| `push` | Redis: 1 job, 2 workers, 4 stream entries; files: 2 jobs, 2 crashes; 2 attempts | the refinement `AtLeastOnce`; Redis: `JobsAreStored` (`NoLostJob`, `SafeToAck`); files: `FilesSurvive` (`OneCopy`, `LossPerCrash`, types), `EverySettled` |
| `exec_pause` | 7 executions: loop with a bash tool, with an unwritable marker, with a sub-agent, alone and paused twice, with failed writes, with external operations | `ControlFileTrue` (`DiskIsCurrent`, `SubprocessIsMarked`, types), `PausedWhenQuiet`, `ResumeIsDurable`, `TimeoutHitsItsPause`; under fairness `HoldEnds` (`PauseEnds`, `ResumeEnds`) |
| `exec_term` | direct backup of one and of two tasks, coordinated backup, none, an execution handed over on a permission card | `ReleasedIsSafe` (`ReleasedIsBackedUp`, `ReleasedIsDurable`, types), `StopIsKept`; under fairness `ReleaseHappens` |
| `admission` | 2 processes; 3 turns handed over, 2 with tools, 3 with an orphaned subprocess, 2 with background work | `OwnerHoldsControl` (`WorkerOwnsControl`, `StopKeepsControl`, types), `NeverLockedOut`, `ClaimFindsNoOrphan` |
| `backup` | 2 nodes; free, two processes per node, careful, careful with unrecorded failures | `CapturesAreWhole` (`SharedIsWhole`, `LocalIsWhole`, types), `OneHistory` (`NoFork`, `PublishExtendsShared`); where a failed backup is reconciled before the next one and one process works on each copy, `FailureCostsNothing` (`InterruptedIsRetryable`, `OwnWritesKept`) and `FailuresSettle` |
| `pipe_engine` | 3 steps; REPL, REPL with a parallel step, torn saves, blocked backups, A2A with parallel steps, A2A mixed, a step that is never asked again | `PositionAgrees` (`CompletedPrefix`, `ActiveIsRestorable`, types), `RedoneAfterRollback`, `FinishedIsCurrent` (`BasisCurrent`, `NoStaleAtEnd`), `AdvanceNeedsAnswer` |
| `outbound` | 2 sources, batches of 2, 4 arrivals, 2 permissions, 2 boundaries, 1 failure, 1 abort | `InOrderOnce` (`SourceOrder`, `Conserved`, types), `BoundariesHold` (`NoOvertaking`, `Fenced`), `CallersAreAnswered` (`NoneLeftWaiting`, and under fairness `EverythingSettles`) |
| `history` | immediate, extreme (default) and with separators; 4 events, 2 faults, 2 kills | `HistorySurvives` (`StaysReadable`, `SemanticSurvives`, types), `RecoveryComplete`, `NumbersIdentify` (`SequencesGrow`, `JournalNumbers`) |
| `history_unreadable` | with separators | finding: `AppendedIsReadable` is violated |

### Why the bounds are enough to be interesting

* Permission wait: two tools are the shortest batch with a predecessor, a successor
  and a frame; two requests the shortest race (duplicate or conflicting answers,
  live against cold), and a request is reused, so any number of answers arrive one
  after the other. Crashes, cancellations and ticks are unbounded. Re-issued cards
  are bounded because each raises a generation. `OneComplication` keeps the request
  of another process and a re-issued card apart. `OwnerNotFenced` and
  `RestoreWaitsForOwner` are not checked with re-issued cards: an answer that loaded
  the suspended card before it was issued again reconciles it with
  `live_owner=False` and fences the new owner. The code keeps that safe, at the
  price of a suspension.
* Push: two workers are enough for one to hold what the other reclaims, two attempts
  for one retry and one burial, four stream entries for a job to be moved back twice
  while its old entry is pending. Two file jobs show that a crash in one spares the
  other.
* Execution control: one tool under one loop has every combination of parent and
  child at the gate; two pauses let a deadline of the first meet the second. Three
  claims let a stop overtake a stop while a natural completion is retried. Two
  processes and three executions let a ticket outlive the execution it was given for,
  and a wait be recovered beside the subprocess of a process that died:
  `ClaimFindsNoOrphan` speaks of claims only because a recovery may meet one.
  `NeverLockedOut` counts a reservation that republishes a ready controller first as
  a way in (`Republishes`), as `reserve_pending_input_admission` does.
* Backup: two operations are the shortest in which the second meets what the first
  left; two files the smallest payload that can be half written; two faults let the
  handling of a fault fail.
* Pipelines: three steps are the shortest chain with a step between the rolled-back
  and the running one. Two sources show that a blocked one does not block the other;
  a batch limit of two is reached. Four events with a flush at two fill, flush and
  refill the deferred list, and two kills let a recovery be killed in turn.

### Fairness

* `progress`: `Scheduling` is strong fairness for each request and timer and for the
  run that is at work (at most one is, so one condition serves them all): the asyncio
  loop runs every ready task and grants locks in FIFO order, but at a given moment
  another task may be the one that runs, so a step is enabled again and again rather
  than continuously. `Tick` is weakly fair: time passes. `Persistence` adds what the
  environment must do: the client repeats the answer that stands (before a decision,
  any answer), and of the backups and header commits tried again and again one
  succeeds. Nothing keeps it from sending the other answer, too. There are no crashes
  and no cancellations because an unbounded supply of them would defeat any progress.
  All this is assumed of A2A only: on the Web a wait may hang for good (see
  `services/permission_wait.py:1416` below).
* `push`: `LocalFairness` is weak fairness of the local queue's worker and of time;
  nothing is assumed of Redis, and `EverySettled` is about the local queue until its
  first crash.
* `exec_pause`: coroutines continue, writes end (well or badly), deadlines fire,
  tasks at an open gate leave it and finished ones are removed. Nothing makes a task
  reach the gate: a tool may run for ever, and then the deadline ends the pause.
* `exec_term`: finalizers continue, canceled tasks end, and a client keeps observing
  (`observe_state` is what retries a finalization that stopped short).
* `backup`: an operation that began goes on, and a session is reconciled before every
  turn and at every resumption.
* `outbound`: the worker runs, the delay timer fires, an abort that began ends, and
  users decide.

### Findings

`history_unreadable`: events are written with `ensure_ascii=False` and read with
`str.splitlines` (`a2a/pipeline_journal.py:143`), which also ends lines at U+2028,
U+2029 and U+0085. One such character in a text makes the journal unreadable from
then on. The journal's tests expect what was appended to be read back.

### Other disagreements met while modelling

Each was found as a counterexample; the property that showed it now carries the
condition named last, so that the run shows what does hold.

| Where | What happens | Condition |
|---|---|---|
| `a2a/executor.py:2035` | an answer with the other value, sent while the accepted one is being executed, completes the registry entry and unregisters the owner, which the comment of `has_live_owners` promises to keep until the results are persisted; when the accepted answer has not reached the run yet, because its backup or its headers failed, the run waits for ever | `WaitEnds`, `DecisionConcludes`: not `Stranded` |
| `a2a/executor.py:4582` | a restored A2A run that fails leaves its checkpoint in `RESTORING`; `reconcile_deadline` ignores that phase and later answers are only acknowledged, until the task is terminated | `DecisionConcludes` has no faults |
| `web/runtime.py:743` | a Web restoration begins while the suspending owner is registered; `turn_lock` still keeps the runs apart | `A2AOwnerRespected`: A2A |
| `services/permission_wait.py:1416` | a Web answer that finds the card past its grace deadline claims it in `SUSPENDING` and leaves the future to the timer; `resume_permission` then raises the generation (`web/runtime.py:743`) before the timer runs, the timer is fenced out and ends, the waiting run keeps `turn_lock` and the restoration waits for it for ever | `WaitEnds`, `DecisionConcludes`: A2A |
| `a2a/push_queue.py:229` | `claim` promotes due retries, then blocks without limit: with no further traffic a failed job is not tried again | `EverySettled` is about the local queue |
| `a2a/execution_control.py:2048` | a bash or grep tool that starts or ends between `resume` and its write raises the revision but not the barrier; the execution stays resuming | `ResumeEnds`: no subprocess tool |
| `a2a/execution_control.py:2858` | a natural completion whose `register_boundary` fails has no job to retry with; every retry raises until an explicit stop | `ReleaseHappens`: not with the coordinator |
| `a2a/execution_control.py:1728` | the claim of a natural completion under a permission handoff is fenced out or cannot be written: the finalizer raises, its slot keeps the exception, the phase stays terminating, and a later stop is only noted for it | `ReleaseHappens`: not `Raised` |
| `a2a/execution_control.py:1506` | after `rollover_normal_execution` the control file still names the old execution and every snapshot is dropped, markers of subprocess tools included; a successor begins beside an orphan | `ClaimFindsNoOrphan`: no background work |
| `a2a/execution_control.py:3598` | a turn of another task replaces a controller that is busy, and with it the markers of its subprocess tools; `executor.py:2559` refuses the second task as already working only after `begin_execution` | `ClaimFindsNoOrphan`: one task |
| `a2a/execution_control.py:837` | a running document of a dead owner is admitted whatever its `activeSubprocessTools`, on an input wait proved before the lock | `ClaimFindsNoOrphan` is about claims |
| `a2a/execution_control.py:3846` | a recovered turn that detaches while background work is alive becomes ready without a new revision, and its readiness is never written: every request is refused | `NeverLockedOut`: no background work |
| `services/session_backup.py:356` | a backup refused by the fence overwrites the failed state with its own id; the interrupted capture can no longer be recognized and blocks every backup and restore | `InterruptedIsRetryable`: disciplined |
| `services/session_backup.py:363` | the same overwriting makes a reconciliation restore an older capture over the node's own writes | `OwnWritesKept`: disciplined; `FailuresSettle`: failed backups are reconciled first |
| `pipeline/engine/pipeline_runner.py:2470` | a backup blocked after the last step saves a position that `_valid_state_machine_snapshot` rejects; the session cannot be continued | `ActiveIsRestorable` is about active positions |
| `pipeline/engine/pipeline_runner.py:5410` | a resumed selection without a status advances on any saved input (a rollback reason, an interrupt's text); a confirmation without one, or a step of another `ui_mode`, is never asked again | `AdvanceNeedsAnswer`: steps whose conclusions have a status (`legacy`, `plain`) |
| `pipeline/engine/pipeline_runner.py:4094` | an interrupt over the limit saves the pipeline as failed and is refused; on the REPL the stream it did not replace goes on and completes a pipeline the sidecar called failed | the refusal is modelled as it is |
| `pipeline/engine/pipeline_runner.py:6091` | such a refusal during a parallel step has already canceled its candidates and failed its attempt; `_execute_parallel_sub_pipeline` returns without a conclusion, and the stream marks the step completed and goes on | `RedoneAfterRollback`, `FinishedIsCurrent`: no refusal where steps are parallel (`NoneRefusedInParallel`) |
| `a2a/pipeline_executor.py:1824` | the old stream of a normal step that is past its last yield advances the step an interrupt went back to | `RedoneAfterRollback`: the old stream is harmless |
| `pipeline/engine/` saves | a kill between the two files of a hard interrupt's save leaves a stale mark | `NoStaleAtEnd`: no torn save |
| `a2a/pipeline_outbound.py:508` | events held behind an undecided permission are appended behind a flush, callback or close submitted after them | `Fenced`, `EverythingSettles`: not what waited behind an undecided permission when the boundary was called (`held`) |
| `a2a/pipeline_stream.py:1014` | in extreme mode a snapshot ignores journal events that an earlier process did not put into it; `get_state` never recovers them | `RecoveryComplete`: immediate mode |
| `a2a/pipeline_stream.py:986` | in extreme mode text events reach clients before the journal; after a crash their numbers are given to others. So is, in either mode, the number of a plain event for which both the journal and the snapshot failed | `SequencesGrow`: immediate mode, never both failures (`~setting.double`) |

The first row in full: an accepted answer whose backup or header commit failed leaves
its card usable, to be answered again (`release_failed_claim_for_retry`: "Keep a resident
card usable when its decision delivery failed before release."). If the next answer has
the other value, `claim_decision` refuses it, and the handler of the refusal
(`a2a/executor.py:2033`) completes the card and unregisters its owner and timer. The run
goes on waiting on a future that nobody can answer any more: later answers take the
cold path, where no admission is granted beside an active run. Repeating an
`allow_once` does the same when its failed audit has turned it into a denial. With both
answers allowed, TLC finds this as a counterexample of `DecisionConcludes` without
`Stranded`; `StrandedByConflict` says that it is the only way there. The documentation
(`website/docs/automation/solution-first-pipeline.md:113`) wants a conflicting answer
rejected, not the accepted one lost.

The documentation says that `.backup-state.json` stays local and is not copied
(`website/docs/configuration/environment-variables.md:78`); the shared directory
holds a file of that name too, which is what `shared.doc` models.

## Proofs

For every `NB`, `Requests`, `Foreign`, `Answers`, surface and policy, from
`PolicyAssumption` and `ConstantsAssumption` only (`PermissionWait_proofs`):

* `Types`: `Spec => []TypeOK`.
* `Ledger`: `Spec => CheckpointLedger`. `Sound` says which records the store can
  have written (an undecided one has no audit, a decided one has a value, a failed
  audit denies, a missing file has generation 0).
  Each store operation takes a sound record to a sound one along `LedgerStep`
  (`Advances`, one lemma per operation; `AdvancesTrans` composes the transactions
  of one action). `Typed == TypeOK /\ AllSound` is inductive: types are needed to
  look records up, and `AllSound` keeps records in their type.
* `Continuation`: `Spec => []OneContinuation`. The property is not inductive: an
  A2A restoration starts its run steps after it was admitted. `Exclusive` adds
  that a request which may still start a run holds the admission, that while the
  admission is held no run is active, and that requests of another worker never
  get that far. All steps but seven are `Quiet` (they start no run and touch no
  admission); the seven are treated one by one.

The decision's whole way, from the answer to the execution
(the second part of `PermissionWait_proofs`), with the inductive invariant
`DInv == Futures /\ Runners /\ Answering /\ Listing /\ History` on top of `Typed` and
`Exclusive` (TLC finds no violation of it with one and two tools on A2A, with a
foreign worker and a re-issued card, and on the Web):

* `Permission`: `Spec /\ [](surface = Surface) => []ServedExecutedWithPermission`.
  The run `batch` serves a session on either surface and remembers which; a session of
  `Spec` is served on the surface `Surface`, hence the hypothesis. `ran` changes long
  after the decision, so the invariant follows it: what a request has established
  (`Known`: the audit, then the backup), what the future it answers stands for (`Told`),
  what a run may conclude (`Standing`: its allows are permitted and, before the current
  card, receipts), and what a later card's frame carries over a restart (`History`).
* `Outcome`: `Spec => []OutcomesAgree`, from `Futures` and `Standing`. A future that a
  cancellation or a failed backup answers with a denial is harmless because no run
  reads it any more.
* `Cancellation`: `Spec => []CanceledIsNotActedOn`. A card is canceled only before its
  decision is delivered or restored (`Past`), or together with the one run there is.
* `Finality`: `Spec => FinishedIsFinal`. The receipts come from the step lemma below;
  the batch is not rerun because a run on its way to `exec` excludes `results`, which a
  re-issued card also needs: `results` implies that every card is decided.
* `Successor`: `Spec => []SuccessorReady`, with three more invariants on top of `DInv`
  (`SuccessionInvariant`). `Order`: every card before an opened one is a receipt, which
  also makes the unresolved card unique. `Places`: a run that opens a card finds it
  absent and the one before it not sealed. Only an opened card or persisted results seal a card
  (`Seals`), so nobody takes the predecessor away from the one run there is, except while a
  restoration is prepared without a run: on A2A the admission excludes runs
  meanwhile; on the Web the restoration is begun before `turn_lock` is taken
  (`resume_permission`), and another run could open the next card in between.
  `WebInv` says why it cannot: a card that is not resident any more stays so, a request
  past `reconcile_deadline` found it so (`WebRequests`), and the run that opens the card
  behind still has its predecessor's live owner and resident record, or was restored
  from it (`Fits`), in which case it and not the request holds the restoration
  (`WebHolders`). The lemma `Tame` per action says what a step may do to owners,
  listed cards and requests it does not move. TLC finds no violation of these
  invariants in 6.1 million states of a Web session with three requests.

The argument has two layers. `StepOrderly` shows of every action that it is `Orderly`
for each checkpoint: it obeys the ledger, leaves receipts and cancellations alone,
makes a wait resident only with a new future, cancels and answers only as above.
`Kept` and the `Keeps...` lemmas derive from that alone that all facts about
checkpoints, and about runs and requests the step does not move, stay true; what is
left per action is the run or request it moves. `Listing` is needed on the Web only: an
answer to an unlisted card goes to recovery without an audit of its own, which is right
because an active card leaves the list only once its decision is audited.

For every number of jobs, workers, attempts, stream entries, failures and crashes,
from `PushAssumption` and `FileQueueAssumption` (`PushService_proofs`):

* `RedisLosesNoJob`: `ServiceSpec => []JobsAreStored`. `NoLostJob` and `SafeToAck`
  need each other: an acknowledgement drops an entry, which is harmless only because
  its job is delivered, dead, delayed or in a later entry, and that stays so when
  another worker reclaims the entry in between. `RedisInv` adds types and `Shape`,
  which ties what a worker holds to the stream (entries have numbers below the next
  one, a worker past its read holds an entry that was there).
* `LocalFilesSurvive`: `ServiceSpec => []FilesSurvive`. `FileInv` adds `FileShape`
  (which files may exist for a job in each state), `WorkerShape` and `Method`: what
  the operations left in `todo` will still do, so that a crash in the middle of a
  replacement is counted against that one job.
* `QueuesDeliver`: `ServiceSpec => AtLeastOnce`, the refinement. Under `ServiceInv`
  (both invariants; the queue not configured stays in its initial state) an enqueue is
  `Accept`, a confirmed post `Confirm`, a completed dead letter `Bury`. Every other
  step leaves accepted, delivered and dead jobs alone and tracks no new job, so it is
  `Forget(Tracked \ Tracked')`, and the invariants show that what it forgets is
  settled.

For every tree of tasks, every setting and all bounds, from `ExecutionAssumption`
(`ExecutionPause_proofs`), with the inductive invariant
`IInv == Types /\ Gate /\ Snapshots /\ Places /\ Leaves /\ Committing /\ Markers /\ Timers`
(TLC finds no violation of it in the 350,434 states of `exec_pause`):

* `ControlFileIsTrue`: `Spec => []ControlFileTrue`. `DiskIsCurrent` speaks of the file;
  the writers that have not written yet are what makes it inductive. `Snapshots` says
  what the newest revision may carry (`Newest`) whether it is in the file or in a
  coroutine about to write it, and that older ones are dropped (`Outdated`). The step
  lemma `Spawns` covers all actions but the writes: such a step spawns writers for
  newer revisions only, or lets the newest one carry more phases than before.
  `Markers` does the same for the count of subprocesses.
* `PausesWhenQuiet`: `Spec => PausedWhenQuiet`. `Places` relates where a task is to
  what the controller believes of it, `Committing` says that while a pause commits
  nobody works, `Leaves` that an activity at work belongs to a leaf or to a task that
  waits.
* `ResumesDurably`: `Spec => ResumeIsDurable`, from `Gate` (the gate is closed exactly
  in the phases of a pause or behind a barrier) and `Snapshots`.
* `TimeoutsHitTheirPause`: `Spec => TimeoutHitsItsPause`, from `Timers` (a deadline
  coroutine past its sleep belongs to a pause whose time is over).

For every number of processes, tasks, executions, revisions and tools and every
deployment, from `AdmissionAssumption` (`ExecutionAdmission_proofs`), with the
inductive invariant
`IInv == Types /\ Named /\ Controllers /\ Publication /\ Ownership /\ Stops`
(TLC finds no violation of it in 951,951 states of two processes and two tasks with
background work and a shared backup):

* `Owner`: `Spec => []OwnerHoldsControl`. The property speaks of processes that work;
  the invariant also of those that may take work up again without asking (`Owns`): the
  control file names them, has not ended and is not ready to be handed over
  (`Guards`), which is what every branch of
  `_persisted_control_allows_begin_without_admission` and
  `_persisted_control_allows_recovery` refuses for another process (`Allowed`).
  `Named` says that an execution belongs to one process, wherever its name is
  written. `Publication` covers the moment between the file step of a request and the
  installation of its controller: what a canceled request puts back guards whom it
  guarded before. `Controllers` is about a rollover, after which the file does not know
  the new name and keeps guarding the process under the old one. `LocalKeeps` covers
  at once all steps in which a process only moves its own controller or request; the
  steps that name an execution, publish, install or withdraw a controller are proved
  one by one.
* `Claims`: `OneTask` implies `Spec => ClaimFindsNoOrphan`. `OneTask` says that all tasks
  are the same one: with two, TLC finds a claim beside an orphan in ten states, because a
  turn of another task replaces a busy controller and its markers (see the table above).
  The second invariant, `OInv == Controls /\ Markers /\ Followed`, holds of deployments
  without background work, on top of `IInv`. `Marked` is the point: a document whose owner
  may still have a subprocess running says so, the document a canceled request would put
  back included. A process that asks for a turn has none at work (`Resting`, where
  `BeginsAtRest` needs the one task), so no published document loses a marker; and the
  control file of a controller that works is an earlier revision of its own (`Followed`),
  so that the write before a tool starts is never dropped. `TurnKeeps` covers the steps of
  controllers, `StillKeeps` those of requests. TLC finds no violation of `OInv` in
  5,801,436 states of two processes, three executions and two tools.
* `Unlocked`: `Spec => []NeverLockedOut`, for any tasks. The third invariant,
  `WInv == Ties /\ Shapes /\ Brings`, holds of deployments without background work, on
  top of `IInv`. `Fits` relates a controller to the document its process is known by: the
  control file, but for a controller not installed yet, and what a canceled request would
  put back (`Stands`). A turn at work, or waiting in its process alone, left its mark
  there; a durable wait is published, or the document is of an earlier revision, so that
  the reservation publishes it again; a committed handoff is committed in both; and a
  handoff is left behind only by a stop, whose end then replaces it because nobody takes
  the control file from a stop (`Stops` of `IInv`). `ShiftTies` covers the steps of a
  controller that leave the control file alone, `WriteTies` those that write it, `AskTies`
  those of a request; `PersistTies` joins the first two for `_persist_snapshot`.
  `OwnerMayAsk` concludes: when nothing is under way, it is the owner itself that may
  begin or reserve. TLC finds no violation of `WInv` in 1,392,876 states of two
  processes, two tasks and three executions.

For every number of nodes, processes, files, generations, I/O errors and kills and
every setting, from `BackupAssumption` (`SessionBackup_proofs`), with the inductive
invariant `IInv`: `Types`, `Locked`, `Lineage`, `Identity`, `Tearing`, `Whole`, `Rooted`,
`LocalIsWhole` and a `Stage` for each process (TLC finds no violation of it in 276,754
states of the four settings of `backup` and of the careful one with a third fault):

* `CapturesStayWhole`: `Spec => []CapturesAreWhole`. Files are copied one at a time, and
  an error, a kill or another node's repair may come between any two. `Stage` says how
  far an operation is: which files it has already copied, and that the shared state it
  started from is still there; that stays so because of the two locks (`Locked`). What
  an operation leaves behind when it stops is described without it: `Tearing` says of
  a torn publication that it is the next capture and of one node that is not being
  restored, so whoever finishes it copies what was captured. That needs `Identity`: an
  operation id belongs to one node, and a node whose own attempt turns out to be the
  committed one stems from it, which is why `_complete_publication` may be skipped and
  the local state only rewritten. `Rooted` tells a session from no session.
* `HistoryIsOne`: `Spec => OneHistory`. `Lineage` says of every state document anywhere
  that it is `Older`: of a smaller generation than the shared one, or equal to it. Only
  `WriteShared` commits, with the next generation, under the shared lock.
* `FailuresCostNothing`: `Spec => FailureCostsNothing`, from the stronger `DInv`, which
  adds under the discipline that an interrupted capture is remembered by a node that no
  other operation is about to overwrite (`Claimed`), that the node whose capture is the
  last one knows it or still will (`Known`), and what is on record of each operation
  under way (`Recorded`). The proof corrected the discipline: with two processes on one
  copy the failure of the second overwrites the attempt id of the first, and the
  interrupted capture can then be taken up by nobody. No setting of `backup` combines
  two processes with the discipline, so the run had not met this case; `Disciplined` now
  asks for one process per copy, a condition on the deployment.

For every server configuration and any number of events, failures, cut or undone
writes and kills, from `HistoryAssumption` (`PipelineHistory_proofs`), with the
inductive invariant
`IInv == Types /\ Identified /\ Recoverable /\ Growing /\ Durable` (TLC finds no
violation of it in the settings of `history`):

* `Survival`: `Spec => []HistorySurvives`, `Recovery`: `Spec => []RecoveryComplete`,
  `Numbering`: `Spec => []NumbersIdentify`. One relation carries all three: a step of
  the journal loses no event that could be read back and puts no number twice
  (`Extends`), proved once for an append, for a failed or cut one, for an undone one
  and for the repair at the next start (`AppendExtends`, `FaultExtends`,
  `MendedExtends`). `Durable` says which events the journal must already hold when a
  client is told of a step, an input or an end; `Growing` that the publisher's next
  number is above all it handed out; `Recoverable` that snapshot and journal tail
  overlap. Numbers handed on grow only outside extreme mode and where journal and
  snapshot do not both fail for one event (`setting.double`): a plain event that
  neither took is handed on all the same, and its number dies with the process. In the
  journal a number stands for one event, in extreme mode as long as the journal can be
  read: a publisher that cannot read it starts from 0.

For every number of steps, every dependency on earlier steps, every deployment and all
bounds, from `PipelineAssumption` (`PipelineEngine_proofs`), with the inductive invariant
`IInv == TypeOK /\ Snapshots /\ Saved /\ Filed /\ Written /\ Running` (TLC finds no
violation of it in the 702,285 states of `pipe_engine`):

* `Position`: `Spec => []PositionAgrees`, `Answered`: `Spec => []AdvanceNeedsAnswer`,
  `Redone`: `Spec => []RedoneAfterRollback`, `Whole`: `Spec => []FinishedIsCurrent`. The
  properties speak of the position; a kill, a torn save or a restore puts it back to what
  a file says. So the invariant says the same of three snapshots (`Snapshots`): of the
  memory, of `meta.yaml`, and of the older `meta.yaml` a torn save leaves beside a newer
  `context.yaml`. Of each, `Coherent` demands four things. `Attempts`: an attempt begun
  since the last move back over its step is of a step the position has reached, so a
  restored attempt is never ahead of it. `Replied`: a transcript or a saved input with
  an answer in it is of a step the user has answered. `Drawn`: the conclusions behind
  the position, and the finished transcripts a restore may conclude from again, were
  drawn from the conclusions held next to them. `Unstale`: those conclusions carry no
  mark, unless a save was torn. `Running` relates the streams to the memory: the current
  one is in the step at the position; a replaced one does no harm because its parallel
  step was discarded before the interrupt moved the position (`Replaced`).
  A step that begins or relabels an attempt is an instance of `Relates`
  (`RelatedCoheres`); an advance (`AdvanceCoheres`) and a move back have lemmas of their
  own. `DownstreamIsAhead` says that `_propagate_stale` marks later steps only, which
  holds because every step depends on earlier ones.

For every number of sources, arrivals, permissions, boundaries and failures and every
batch size, from `OutboundAssumption` (`PipelineOutbound_proofs`), with the inductive
invariant `IInv`: `TypeOK`, `Good`, `Counted`, `Arrivals`, `Closes`, `Permitted`,
`SourceOrder`, `Accounted`, `Operating`, `Passing`, `Fencing` and `NoneLeftWaiting` (TLC
finds no violation of it in the 216,213 states of `outbound`):

* `InOrder`: `Spec => []InOrderOnce`. The property speaks of what was published; the
  order has to hold earlier, wherever an event is kept. `Good` says so of the collected
  work: batches of a source stand in its order and before what is still collected
  (`Batched`); a request stands behind earlier events of its source and before later
  ones (`Requested`); a batch that a request did not take into its prefix stands before
  a boundary before that request (`Fronted`), so it goes out first although prefixes
  are delivered ahead of batches; a source with an unfinished request is blocked
  (`Blocks`). The worker forgets a request when it begins to execute it, so these facts
  also speak of the request it holds (`Held`), and `Counted` says that a source is
  blocked as often as it has unfinished requests: the end of one of two must not
  unblock it. `Passing` takes the order from the collected work to the operation under
  way and to what was sent; `Accounted` says that an event is in one place.
* `Divided`: `Spec => []BoundariesHold`, from `Passing` and `Fencing`; `Fences` is the
  part of `Good` that says that what is held back beyond a boundary submitted after it
  waited behind a permission request then.
* `NobodyWaits`: `Spec => []NoneLeftWaiting`, the safety half of `CallersAreAnswered`.

Each operation on the collected work has a lemma that it keeps `Good` (`FreezeKeeps`,
`ShrinkKeeps` for what only takes away, one for each kind of arrival) and one that says
what it does to the set of pending events.

Provers update one record field at a time, so operations that write several fields
are proved as a chain of single updates.

Model-checked only: liveness (`WaitEnds`, `DecisionConcludes`, `EverySettled`,
`PauseEnds`, `ResumeEnds`, `ReleaseHappens`, `FailuresSettle`, `EverythingSettles`),
which TLAPS cannot prove here because it needs fairness and ENABLED, and the
invariants and action properties not listed above: `A2AOwnerRespected`,
`ReleasedIsSafe` and `StopIsKept`, whose inductive invariants are not found yet (see
the plan).

## Not modelled

* Permission wait: automatic denials of sub-pipeline permissions, the closing-task
  tokens of `cancel_task`, staged backup actions and generation-fenced backups; the
  crash between the two writes of `create_successor` (the model writes both at once:
  a restored run would issue a second card for the same tool, and the model names
  cards by their tool).
* What each section above leaves out.
* The A2A pipeline executor, task store, session storage and index, background tasks
  and the staged backup: planned, see below.
* MCP clients, ACP and AG-UI adapters, providers, tools and skills, the ROS template
  analyzers, memory, command line, terminal UI and desktop: I/O, presentation or
  conversion without a protocol of their own.
* The Rust port, a second implementation of the same program (about 105,000 lines of
  the repository). Together with the user interfaces and scripts it is most of the
  code; the models cover the protocols, which are a small part of it by length.

## Plan

1. (done) `PermissionStore`, `PermissionWait` on both surfaces, first theorems.
2. (done) Push queues and their refinement; execution control; session backup;
   pipeline engine, output and history.
3. Staged backup and its publisher, on top of `SessionBackup`.
4. `SessionStorage`: appends, torn writes, `create_successor`'s two files.
5. Task store and the A2A pipeline executor's turns, on top of `ExecutionAdmission`.
6. Background tasks.
7. Theorems: `A2AOwnerRespected` of the permission wait (on A2A without re-issued cards
   and without requests of other processes, it needs the places of timers and
   resolution locks); `ReleasedIsSafe` and `StopIsKept` of the termination. (Done: the
   other safety properties of the permission wait, the push queues and their refinement,
   pause and resume, the admissions, the session backup, the pipeline engine, output and
   history.)
