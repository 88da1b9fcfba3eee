---------------------------- MODULE ExecutionPause ----------------------------
(***************************************************************************)
(* ExecutionController of iac_code.a2a.execution_control: how a client's   *)
(* pause, resume and terminate requests meet the tasks of one execution.   *)
(* Handlers run under the controller's lock between two awaits; spawned    *)
(* coroutines are jobs that write a snapshot and come back for the lock.   *)
(* A claimed termination ends this module: ExecutionTermination goes on.   *)
(***************************************************************************)
EXTENDS Integers, FiniteSets

CONSTANTS
  Tasks,        \* asyncio tasks of the execution
  Parent,       \* the task that spawns each task; a root is its own parent
  Settings      \* executions and bounds, see Setting

\* tasks: those that take part; subprocess: those of them that run bash or
\* grep; pauses, failures, operations: pause requests accepted, failed writes,
\* external operations recorded; revision: no task starts anything new from
\* this revision on.
Setting == [tasks : SUBSET Tasks, subprocess : SUBSET Tasks, pauses : Nat, revision : Nat,
            failures : Nat, operations : Nat]

\* bash and grep run no task of the execution themselves.
ASSUME ExecutionAssumption ==
  /\ Parent \in [Tasks -> Tasks] /\ Settings \subseteq Setting
  /\ \A s \in Settings : \A t \in s.subprocess : \A u \in s.tasks \ {t} : Parent[u] # t

VARIABLES
  setting,          \* the execution, chosen once
  phase, hold, barrier, revision, generation, pauseId, failed, reason,
  persisted, disk,  \* persisted_revision, and control.json
  run,              \* what each task does
  participant,      \* _participants: none, unsafe, safe
  activity,         \* _activities: none, open, blocked
  context,          \* _CURRENT_ACTIVITY_IDS: tasks whose activities it is inside of
  waiter,           \* _passive_waiters
  marked,           \* _active_subprocess_tools
  operations, jobs, failures,
  expired, asked    \* pauses whose timeout has passed; that a client reported timed out

control == <<phase, hold, barrier, revision, generation, pauseId, failed, reason>>
tasks == <<run, participant, activity, context, waiter, marked>>
fences == <<hold, barrier, generation, pauseId, failed, reason>>
store == <<persisted, disk, failures, expired, asked>>
vars == <<setting, control, tasks, store, operations, jobs>>

PausePhases == {"pausing", "pause_committing", "paused"}
Phases == {"running", "resuming", "terminating"} \cup PausePhases
Over == phase = "terminating"

\* A spawned coroutine: the snapshot it writes, the fences it was given, and
\* whether it still has to write, has written, or has failed to.
Job == [kind : {"persist", "pause", "resume", "deadline", "operation", "retry", "mark"},
        revision : Nat, phase : Phases, marks : Nat, generation : Nat, pause : Nat,
        task : SUBSET Tasks, resuming : BOOLEAN, st : {"write", "done", "failed"}]

TypeOK ==
  /\ phase \in Phases /\ hold \in BOOLEAN /\ failed \in BOOLEAN
  /\ barrier \in Nat /\ revision \in Nat /\ generation \in Nat /\ pauseId \in Nat
  /\ barrier <= revision /\ persisted <= revision
  /\ reason \in {"none", "disconnect_timeout", "explicit"}
  /\ disk \in [revision : Nat, phase : Phases, marks : Nat] /\ disk.revision = persisted
  /\ run \in [Tasks -> {"absent", "run", "gate", "wait", "record", "mark"}]
  /\ participant \in [Tasks -> {"none", "unsafe", "safe"}]
  /\ activity \in [Tasks -> {"none", "open", "blocked"}]
  /\ context \in [Tasks -> SUBSET Tasks]
  /\ waiter \subseteq Tasks /\ marked \subseteq Tasks
  /\ operations \in Nat /\ jobs \subseteq Job /\ failures \in Nat
  /\ expired \subseteq Nat /\ asked \subseteq Nat

Init ==
  /\ setting \in Settings
  /\ phase = "running" /\ hold = FALSE /\ barrier = 0 /\ revision = 0
  /\ generation = 0 /\ pauseId = 0 /\ failed = FALSE /\ reason = "none"
  /\ persisted = 0 /\ disk = [revision |-> 0, phase |-> "running", marks |-> 0]
  /\ run = [t \in Tasks |-> "absent"] /\ participant = [t \in Tasks |-> "none"]
  /\ activity = [t \in Tasks |-> "none"]
  /\ context = [t \in Tasks |-> {}] /\ waiter = {} /\ marked = {}
  /\ operations = 0 /\ jobs = {} /\ failures = 0 /\ expired = {} /\ asked = {}

Held == hold \/ barrier # 0
Quiet == \A t \in Tasks : activity[t] # "open" /\ participant[t] # "unsafe"
Busy == revision < setting.revision   \* bound

-----------------------------------------------------------------------------
\* The jobs the controller spawns, with the snapshot they write.
Write(kind, r, p, marks) ==
  [kind |-> kind, revision |-> r, phase |-> p, marks |-> marks, generation |-> 0,
   pause |-> 0, task |-> {}, resuming |-> FALSE, st |-> "write"]
Marks == Cardinality(marked)

\* _finish_pause with _paused_commit_target_locked.
PauseJob(r) == [Write("pause", r, "paused", Marks') EXCEPT !.generation = generation', !.pause = pauseId']
\* _finish_resume with _running_commit_target_locked.
ResumeJob(r) == Write("resume", r, "running", Marks')

\* _schedule_pause_commit_locked, on the state the handler has reached.
SchedulePauseCommit(p, r, js) ==
  IF p = "pausing" /\ hold' /\ Quiet'
  THEN phase' = "pause_committing" /\ revision' = r + 1 /\ jobs' = js \cup {PauseJob(r + 1)}
  ELSE phase' = p /\ revision' = r /\ jobs' = js

\* _invalidate_pause_commit_locked, likewise.  (Mutant: nothing happens.)
Silent(p, r, js) == phase' = p /\ revision' = r /\ jobs' = js
InvalidatePauseCommit(p, r, js) ==
  IF p = "pause_committing" /\ hold' /\ ~Quiet'
  THEN /\ phase' = "pausing" /\ revision' = r + 1
       /\ jobs' = js \cup {Write("persist", r + 1, "pausing", Marks')}
  ELSE phase' = p /\ revision' = r /\ jobs' = js

\* end_activity calls both; at most one of them applies.
Recheck(p, r, js) ==
  IF Quiet' THEN SchedulePauseCommit(p, r, js) ELSE InvalidatePauseCommit(p, r, js)

\* _set_participants_safe_locked and _set_activities_blocked_locked skip ids
\* that are gone.
MarkSafe(ts, flag) ==
  [t \in Tasks |-> IF t \in ts /\ participant[t] # "none" THEN flag ELSE participant[t]]
MarkBlocked(ts, blocked) ==
  [t \in Tasks |-> IF t \in ts /\ activity[t] # "none"
                   THEN (IF blocked THEN "blocked" ELSE "open") ELSE activity[t]]
Inside(ts) == UNION {context[t] : t \in ts}

\* _refresh_passive_waiters_locked of the remaining waiters ws.
RefreshWaiters(ws, blocked) ==
  participant' = MarkSafe(ws, "safe") /\ activity' = MarkBlocked(Inside(ws), blocked)

-----------------------------------------------------------------------------
\* The pause-deadline coroutine of the new pause.  (Mutant: the generation
\* before the pause.)
TimerOfLast == [Write("deadline", 0, "pausing", 0) EXCEPT !.generation = generation, !.pause = pauseId']
Timer == [Write("deadline", 0, "pausing", 0) EXCEPT !.generation = generation', !.pause = pauseId']

\* pause: a new request.  Repeated, stale and conflicting requests change
\* nothing, except that a repeat retries a failed commit.
Pause ==
  /\ phase = "running" /\ pauseId < setting.pauses
  /\ generation' = generation + 1 /\ pauseId' = pauseId + 1
  /\ hold' = TRUE /\ barrier' = 0
  /\ RefreshWaiters(waiter, TRUE)
  /\ UNCHANGED <<setting, failed, reason, store, run, context, waiter, marked, operations>>
  /\ SchedulePauseCommit("pausing", revision + 1, jobs \cup
       {Write("persist", revision + 1, "pausing", Marks), Timer})

RetryPause ==
  /\ phase = "pause_committing" /\ failed
  /\ failed' = FALSE
  /\ UNCHANGED <<setting, phase, hold, barrier, revision, generation, pauseId, reason, store, tasks, operations>>
  /\ jobs' = jobs \cup {PauseJob(revision)}

\* _claim_termination_locked, as far as the pause protocol sees it.
ClaimTermination(why) ==
  /\ reason' = why
  /\ generation' = generation + 1 /\ hold' = FALSE /\ barrier' = 0
  /\ phase' = "terminating" /\ revision' = revision + 1
  /\ UNCHANGED <<pauseId, failed, persisted, disk, tasks, operations, failures>>

\* _resume_barrier_revision of a resume.  (Mutant: none.)
NoBarrier == 0
ResumeBarrier == revision + 1

\* resume within the reconnect timeout: tasks stay held by the barrier until
\* the running state is durable.
Resume ==
  /\ phase \in PausePhases /\ pauseId \notin expired
  /\ hold' = FALSE /\ generation' = generation + 1
  /\ phase' = "resuming" /\ revision' = revision + 1 /\ barrier' = ResumeBarrier
  /\ RefreshWaiters(waiter, barrier' # 0)
  /\ UNCHANGED <<setting, pauseId, failed, reason, store, run, context, waiter, marked, operations>>
  /\ jobs' = jobs \cup {ResumeJob(revision + 1)}

\* resume after it.
ResumeTooLate ==
  /\ phase \in PausePhases /\ pauseId \in expired
  /\ ClaimTermination("disconnect_timeout")
  /\ UNCHANGED <<setting, jobs, expired, asked>>

\* A repeated resume request after a failed commit.
RetryResume ==
  /\ phase = "resuming" /\ failed
  /\ failed' = FALSE
  /\ UNCHANGED <<setting, phase, hold, barrier, revision, generation, pauseId, reason, store, tasks, operations>>
  /\ jobs' = jobs \cup {IF operations > 0 THEN Write("retry", 0, "resuming", 0) ELSE ResumeJob(revision)}

\* terminate by the user, or by a client that saw the reconnect timeout pass.
Terminate ==
  /\ ~Over
  /\ ClaimTermination("explicit")
  /\ UNCHANGED <<setting, jobs, expired, asked>>

TerminateTimedOut(p) ==
  /\ ~Over /\ p = pauseId /\ phase \in PausePhases /\ hold
  /\ ClaimTermination("disconnect_timeout")
  /\ asked' = asked \cup {p}
  /\ UNCHANGED <<setting, jobs, expired>>

-----------------------------------------------------------------------------
\* attach_task for a root, register_spawned_task or a plain create_task for
\* the others.
Start(t, registered) ==
  /\ Busy /\ run[t] = "absent" /\ participant[t] = "none" /\ ~Over
  /\ Parent[t] # t => run[Parent[t]] = "run"
  /\ Parent[t] = t => registered
  /\ run' = [run EXCEPT ![t] = "run"]
  /\ participant' = [participant EXCEPT ![t] = IF registered THEN "unsafe" ELSE "none"]
  /\ context' = [context EXCEPT ![t] = IF Parent[t] = t THEN {} ELSE context[Parent[t]]]
  /\ UNCHANGED <<setting, fences, store, activity, waiter, marked, operations>>
  /\ IF registered THEN InvalidatePauseCommit(phase, revision, jobs) ELSE UNCHANGED <<phase, revision, jobs>>

\* bash and grep run no nested loop: they neither check in nor wait.
Nests(t) == run[t] = "run" /\ t \notin marked

\* checkpoint.
Checkpoint(t) ==
  /\ Nests(t) /\ ~Over
  /\ LET known == [participant EXCEPT ![t] = IF Held THEN "safe" ELSE "unsafe"]
     IN participant' = known
  /\ activity' = MarkBlocked(context[t], Held)
  /\ run' = [run EXCEPT ![t] = IF Held THEN "gate" ELSE "run"]
  /\ UNCHANGED <<setting, fences, store, context, waiter, marked, operations>>
  /\ IF Held THEN SchedulePauseCommit(phase, revision, jobs) ELSE UNCHANGED <<phase, revision, jobs>>

\* checkpoint: a parked task is notified and looks again; a termination is
\* raised as an exception.
LeaveGate(t) ==
  /\ run[t] = "gate" /\ (Over \/ ~Held)
  /\ run' = [run EXCEPT ![t] = "run"]
  /\ IF Over THEN UNCHANGED <<participant, activity>>
     ELSE participant' = MarkSafe({t}, "unsafe") /\ activity' = MarkBlocked(context[t], FALSE)
  /\ UNCHANGED <<setting, control, store, context, waiter, marked, operations, jobs>>

\* handoff_participant_ids: a tool's activity hands over to the loop that runs it.
Handoff(t) == {Parent[t]} \ {t}

\* begin_activity.  A gated one checks in first, which is Checkpoint.
BeginActivity(t) ==
  /\ Busy /\ run[t] = "run" /\ activity[t] = "none" /\ t \notin setting.subprocess /\ ~Over
  /\ activity' = [activity EXCEPT ![t] = "open"]
  /\ context' = [context EXCEPT ![t] = @ \cup {t}]
  /\ UNCHANGED <<setting, fences, store, run, participant, waiter, marked, operations>>
  /\ InvalidatePauseCommit(phase, revision, jobs)

\* A tool that may spawn a process waits for its marker.
AwaitMarker(t) == [run EXCEPT ![t] = "mark"]

\* begin_activity with may_spawn_subprocess.
BeginSubprocess(t) ==
  /\ Busy /\ run[t] = "run" /\ activity[t] = "none" /\ t \in setting.subprocess /\ ~Over
  /\ activity' = [activity EXCEPT ![t] = "open"]
  /\ context' = [context EXCEPT ![t] = @ \cup {t}]
  /\ marked' = marked \cup {t}
  /\ run' = AwaitMarker(t)
  /\ UNCHANGED <<setting, fences, store, participant, waiter, operations>>
  /\ InvalidatePauseCommit(phase, revision + 1,
       jobs \cup {[Write("mark", revision + 1, phase, Marks') EXCEPT !.task = {t}]})

\* The writes the tool's task waits for.
Marking(t) == {j \in jobs : j.kind = "mark" /\ t \in j.task}

\* end_activity: what its parent waits for is there, so the parent is unsafe
\* until its next checkpoint.
EndActivity(t, js) ==
  LET ended == IF t \in marked THEN revision + 1 ELSE revision
      revoked == {w \in waiter : w \in Handoff(t)}
  IN
  /\ activity' = [activity EXCEPT ![t] = "none"]
  /\ context' = [u \in Tasks |-> context[u] \ {t}]
  /\ waiter' = waiter \ revoked
  /\ participant' = MarkSafe(Handoff(t), "unsafe")
  /\ marked' = marked \ {t}
  /\ run' = [run EXCEPT ![t] = "run"]
  /\ UNCHANGED <<setting, fences, store, operations>>
  /\ Recheck(phase, ended, IF t \in marked THEN js \cup {Write("persist", ended, phase, Marks')} ELSE js)

End(t) == ~Over /\ run[t] = "run" /\ activity[t] # "none" /\ EndActivity(t, jobs)

\* The subprocess marker is durable, or its write failed and the tool does
\* not start.
Marked(t, j) ==
  /\ j \in Marking(t) /\ j.st = "done"
  /\ jobs' = jobs \ {j} /\ run' = [run EXCEPT ![t] = "run"]
  /\ UNCHANGED <<setting, control, store, participant, activity, context, waiter, marked, operations>>
MarkFails(t, j) == j \in Marking(t) /\ j.st = "failed" /\ EndActivity(t, jobs \ {j})

\* begin_non_advancing_wait.
BeginWait(t) ==
  /\ Busy /\ Nests(t) /\ ~Over
  /\ participant' = [participant EXCEPT ![t] = "safe"]
  /\ waiter' = waiter \cup {t}
  /\ activity' = IF Held THEN MarkBlocked(context[t], TRUE) ELSE activity
  /\ run' = [run EXCEPT ![t] = "wait"]
  /\ UNCHANGED <<setting, fences, store, context, marked, operations>>
  /\ SchedulePauseCommit(phase, revision, jobs)

\* A wait that ends sends a pause that is being written back.
WaitOver(p, r, js) == InvalidatePauseCommit(p, r, js)

\* end_non_advancing_wait: nothing to undo when a child's end revoked the wait.
EndWait(t) ==
  /\ run[t] = "wait" /\ ~Over
  /\ run' = [run EXCEPT ![t] = "run"]
  /\ waiter' = waiter \ {t}
  /\ LET others == Inside(waiter')
         released == IF Held THEN {} ELSE context[t]
     IN IF t \in waiter
        THEN /\ participant' = [MarkSafe(waiter', "safe") EXCEPT ![t] = IF @ = "none" THEN @ ELSE "unsafe"]
             /\ activity' = [u \in Tasks |-> IF u \in others THEN MarkBlocked({u}, Held)[u]
                                             ELSE MarkBlocked(released, FALSE)[u]]
        ELSE UNCHANGED <<participant, activity>>
  /\ UNCHANGED <<setting, fences, store, context, marked, operations>>
  /\ IF t \in waiter THEN WaitOver(phase, revision, jobs) ELSE UNCHANGED <<phase, revision, jobs>>

\* detach_task of a root removes its participant at once; the done callback
\* of any other task does so later.
Finish(t) ==
  /\ run[t] = "run" /\ activity[t] = "none" /\ ~Over
  /\ \A u \in Tasks \ {t} : Parent[u] = t => run[u] = "absent"
  /\ run' = [run EXCEPT ![t] = "absent"]
  /\ participant' = IF Parent[t] = t THEN [participant EXCEPT ![t] = "none"] ELSE participant
  /\ UNCHANGED <<setting, fences, store, activity, context, waiter, marked, operations>>
  /\ SchedulePauseCommit(phase, revision, jobs)

\* _remove_finished_participant.
RemoveFinished(t) ==
  /\ run[t] = "absent" /\ participant[t] # "none" /\ ~Over
  /\ participant' = [participant EXCEPT ![t] = "none"]
  /\ UNCHANGED <<setting, fences, store, run, activity, context, waiter, marked, operations>>
  /\ SchedulePauseCommit(phase, revision, jobs)

\* record_external_operation: in a resume it moves the barrier with the revision.
\* The tools that call it (ros_stack, ros_stack_instances) run no other task.
Leaf(t) == \A u \in setting.tasks \ {t} : Parent[u] # t
RecordOperation(t) ==
  /\ run[t] = "run" /\ activity[t] # "none" /\ ~Over /\ operations < setting.operations
  /\ Leaf(t)
  /\ operations' = operations + 1
  /\ revision' = revision + 1
  /\ barrier' = IF phase = "resuming" THEN revision + 1 ELSE barrier
  /\ run' = [run EXCEPT ![t] = "record"]
  /\ jobs' = jobs \cup {[Write("operation", revision + 1, phase, Marks)
                           EXCEPT !.task = {t}, !.resuming = (phase = "resuming")]}
  /\ UNCHANGED <<setting, phase, hold, generation, pauseId, failed, reason, store, participant, activity, context, waiter, marked>>

-----------------------------------------------------------------------------
\* Nobody waits for a plain persist, and one that is older than what is
\* persisted has nothing left to do.
Waited(js) == {j \in js : j.kind # "persist" \/ (j.st = "write" /\ j.revision > persisted')}
Become(j, st) == jobs' = Waited((jobs \ {j}) \cup {[j EXCEPT !.st = st]})

\* An older snapshot is not written.  (Mutant: it is.)
NeverOutdated(j) == FALSE
Outdated(j) == j.revision <= persisted

\* _persist_snapshot: under the commit lock, and never an older revision.
\* retry writes the external operations only.
Persist(j) ==
  /\ j \in jobs /\ j.st = "write" /\ j.kind # "deadline"
  /\ IF j.kind = "retry" \/ Outdated(j)
     THEN UNCHANGED <<persisted, disk>>
     ELSE /\ persisted' = j.revision
          /\ disk' = [revision |-> j.revision, phase |-> j.phase, marks |-> j.marks]
  /\ Become(j, "done")
  /\ UNCHANGED <<setting, control, tasks, operations, failures, expired, asked>>

PersistFails(j) ==
  /\ j \in jobs /\ j.st = "write" /\ j.kind # "deadline"
  /\ j.kind # "retry" => ~Outdated(j)
  /\ failures < setting.failures /\ failures' = failures + 1
  /\ UNCHANGED <<setting, control, persisted, disk, tasks, operations, expired, asked>>
  /\ Become(j, "failed")

\* _finish_pause after its write.
StillCommitting(j) ==
  /\ phase = "pause_committing" /\ hold /\ pauseId = j.pause
  /\ generation = j.generation /\ revision = j.revision
FinishPause(j) ==
  /\ j \in jobs /\ j.kind = "pause" /\ j.st # "write"
  /\ jobs' = jobs \ {j}
  /\ IF j.st = "done" /\ StillCommitting(j)
     THEN phase' = "paused" /\ failed' = FALSE
     ELSE /\ failed' = (failed \/ (j.st = "failed" /\ phase = "pause_committing" /\ revision = j.revision))
          /\ phase' = phase
  /\ UNCHANGED <<setting, hold, barrier, revision, generation, pauseId, reason, store, tasks, operations>>

\* _finish_resume after its write.
StillResuming(j) == phase = "resuming" /\ barrier = j.revision /\ revision = j.revision
FinishResume(j) ==
  /\ j \in jobs /\ j.kind = "resume" /\ j.st # "write"
  /\ jobs' = jobs \ {j}
  /\ IF j.st = "done" /\ StillResuming(j)
     THEN /\ phase' = "running" /\ barrier' = 0 /\ failed' = FALSE
          /\ RefreshWaiters(waiter, FALSE)
     ELSE /\ failed' = (failed \/ (j.st = "failed" /\ phase = "resuming" /\ revision = j.revision))
          /\ UNCHANGED <<phase, barrier, participant, activity>>
  /\ UNCHANGED <<setting, hold, revision, generation, pauseId, reason, store, run, context, waiter, marked, operations>>

\* The operation was written while a resume that lost its revision is open.
Restarts(j) == j.st = "done" /\ j.resuming /\ StillResuming(j)

\* record_external_operation after its writes: a resume whose revision it took
\* is started again.
FinishOperation(t, j) ==
  /\ j \in jobs /\ j.kind = "operation" /\ j.st # "write" /\ t \in j.task
  /\ run' = [run EXCEPT ![t] = "run"]
  /\ failed' = (failed \/ j.st = "failed")
  /\ IF Restarts(j)
     THEN /\ revision' = revision + 1 /\ barrier' = revision + 1
          /\ jobs' = (jobs \ {j}) \cup {Write("resume", revision + 1, "running", Marks)}
     ELSE jobs' = jobs \ {j} /\ UNCHANGED <<revision, barrier>>
  /\ UNCHANGED <<setting, phase, hold, generation, pauseId, reason, store, participant, activity, context, waiter, marked, operations>>

\* _retry_external_operations_and_resume after its write.
FinishRetry(j) ==
  /\ j \in jobs /\ j.kind = "retry" /\ j.st # "write"
  /\ IF phase = "resuming" /\ j.st = "done"
     THEN /\ revision' = revision + 1 /\ barrier' = revision + 1
          /\ jobs' = (jobs \ {j}) \cup {Write("resume", revision + 1, "running", Marks)}
          /\ failed' = failed
     ELSE /\ failed' = (failed \/ (phase = "resuming" /\ j.st = "failed"))
          /\ jobs' = jobs \ {j} /\ UNCHANGED <<revision, barrier>>
  /\ UNCHANGED <<setting, phase, hold, generation, pauseId, reason, store, tasks, operations>>

\* The reconnect timeout of a pause passes; _deadline wakes up later.
Expire(j) ==
  /\ j \in jobs /\ j.kind = "deadline" /\ j.st = "write"
  /\ expired' = expired \cup {j.pause}
  /\ UNCHANGED <<setting, control, persisted, disk, tasks, operations, failures, asked>>
  /\ Become(j, "done")

\* _deadline: the pause it was started for.  (Mutant: any pause.)
AnyPause(j) == phase \in PausePhases /\ hold
StillHeld(j) ==
  generation = j.generation /\ pauseId = j.pause /\ phase \in PausePhases /\ hold
Deadline(j) ==
  /\ j \in jobs /\ j.kind = "deadline" /\ j.st = "done"
  /\ jobs' = jobs \ {j}
  /\ IF StillHeld(j) THEN ClaimTermination("disconnect_timeout")
     ELSE UNCHANGED <<control, persisted, disk, tasks, operations, failures>>
  /\ UNCHANGED <<setting, expired, asked>>

-----------------------------------------------------------------------------
Requests ==
  Pause \/ RetryPause \/ Resume \/ ResumeTooLate \/ RetryResume \/ Terminate
  \/ \E p \in 1..setting.pauses : TerminateTimedOut(p)

TaskStep(t) ==
  \/ \E registered \in BOOLEAN : Start(t, registered)
  \/ Checkpoint(t) \/ LeaveGate(t) \/ End(t) \/ BeginWait(t) \/ EndWait(t)
  \/ BeginActivity(t) \/ BeginSubprocess(t)
  \/ RecordOperation(t) \/ Finish(t) \/ RemoveFinished(t)

Continue(j) ==
  \/ FinishPause(j) \/ FinishResume(j) \/ FinishRetry(j)
  \/ \E t \in Tasks : FinishOperation(t, j) \/ Marked(t, j) \/ MarkFails(t, j)
JobStep(j) ==
  Persist(j) \/ PersistFails(j) \/ Continue(j) \/ Expire(j) \/ Deadline(j)

Next == Requests \/ (\E t \in setting.tasks : TaskStep(t)) \/ (\E j \in jobs : JobStep(j))

Spec == Init /\ [][Next]_vars

\* The event loop and its threads finish what was started, timers fire, and a
\* released task leaves the gate.  Clients and tasks promise nothing.
Fairness ==
  /\ \A t \in Tasks : WF_vars(LeaveGate(t)) /\ WF_vars(RemoveFinished(t))
  /\ WF_vars((\E j \in jobs : Continue(j)))
  /\ WF_vars((\E j \in jobs : Persist(j) \/ PersistFails(j)))
  /\ WF_vars((\E j \in jobs : Expire(j) \/ Deadline(j)))
FairSpec == Spec /\ Fairness

-----------------------------------------------------------------------------
\* The execution is called paused only when no task works: each one is parked,
\* waits, has finished, is a tool that has not reached its activity yet, or
\* one whose activity waits for the tasks it runs.
\* A task that left a safe wait, started an activity or got its child's
\* result while the paused state was being written has sent the pause back.
PausedWhenQuiet ==
  [][phase' = "paused" /\ phase # "paused" =>
       \A t \in Tasks : /\ run[t] \in {"run", "record", "mark"} =>
                             participant[t] = "none" /\ (activity[t] = "none" \/ ~Leaf(t))
                        /\ activity[t] # "open"]_vars

\* A task leaves the gate of a resumed execution only after control.json says
\* running: a restart cannot find the execution paused behind work that went on.
ResumeIsDurable ==
  [][\A t \in Tasks : run[t] = "gate" /\ run'[t] = "run" => disk.phase = "running" \/ Over]_vars

\* Late writes never bring an older state back: control.json describes the
\* running execution as running, and its newest revision as it is or is about
\* to be.
DiskIsCurrent ==
  /\ phase = "running" => disk.phase = "running"
  /\ (disk.revision = revision /\ ~Over) =>
       disk.phase \in (CASE phase = "pause_committing" -> {"pause_committing", "paused"}
                         [] phase = "resuming" -> {"resuming", "running"}
                         [] OTHER -> {phase})

\* A subprocess runs only while control.json counts it: whoever finds the owner
\* dead knows that a child process may still be alive.
SubprocessIsMarked ==
  \A t \in Tasks : (t \in marked /\ run[t] \in {"run", "record"}) => disk.marks > 0

\* Nobody's timeout ends a pause other than its own: after a resume, or in a
\* later pause, an earlier timer and an earlier client report find nothing.
TimeoutHitsItsPause ==
  [][reason' = "disconnect_timeout" /\ reason # "disconnect_timeout" =>
       hold /\ pauseId \in expired \cup asked']_vars

\* A pause does not last: the client resumes it or the deadline ends it.
PauseEnds == (phase \in PausePhases) ~> (phase \notin PausePhases)

\* A resume is finished, ended by a termination, or reported as failed to the
\* client, whose repeated request starts it again.  (A bash or grep tool that
\* starts or ends during the resume strands it, so this is claimed of
\* executions without them.)
ResumeEnds == (setting.subprocess = {} /\ phase = "resuming") ~> (phase # "resuming" \/ failed)

\* What control.json says is so, whichever of several writers was last: it
\* describes the newest state and counts every running subprocess.
ControlFileTrue == TypeOK /\ DiskIsCurrent /\ SubprocessIsMarked

\* No task is held for ever: a pause ends by resume or deadline, and a resume
\* opens the gate, fails towards its client or is ended (_deadline,
\* _finish_resume).
HoldEnds == PauseEnds /\ ResumeEnds

=============================================================================
