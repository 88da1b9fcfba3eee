------------------------ MODULE ExecutionPause_proofs ------------------------
(***************************************************************************)
(* Proofs about ExecutionPause, for every tree of tasks and every bound on *)
(* pauses, revisions, failed writes and operations.                        *)
(***************************************************************************)
EXTENDS ExecutionPause, FiniteSetTheorems, TLAPS

\* Jobs that write a snapshot to control.json, and may change its phase.
Writers == {j \in jobs : j.kind \notin {"deadline", "retry"}}

Types ==
  /\ TypeOK /\ setting \in Settings /\ persisted \in Nat /\ IsFiniteSet(marked)
  /\ \A j \in jobs : j.revision <= revision

\* The gate is closed by the hold in a pause and by the barrier in a resume,
\* and by neither while the execution runs.
Gate ==
  /\ hold <=> phase \in PausePhases
  /\ barrier # 0 <=> phase = "resuming"

\* The phases a snapshot of the newest revision may carry.  A resume whose
\* revision no operation has taken finds only itself there.
Uncontested == barrier = revision /\ (operations = 0 \/ \E j \in jobs : j.kind = "resume" /\ j.revision = revision)
Newest ==
  IF Over THEN Phases
  ELSE IF phase = "pause_committing" THEN {"paused"}
  ELSE IF phase = "resuming" THEN (IF Uncontested THEN {"running"} ELSE {"resuming", "running"})
  ELSE {phase}

Snapshots ==
  /\ \A j \in Writers : j.st = "done" => j.revision <= persisted
  /\ \A j \in Writers : j.revision = revision => j.phase \in Newest
  /\ persisted = revision => disk.phase \in Newest
  /\ phase = "running" =>
       disk.phase = "running" /\ \A j \in Writers : j.revision > persisted => j.phase = "running"

\* Where a task is, what the controller believes of it.
Places ==
  /\ \A t \in Tasks :
       /\ run[t] # "absent" => t \in setting.tasks
       /\ t \in waiter => run[t] = "wait"
       /\ run[t] \in {"gate", "wait"} => participant[t] # "none"
       /\ activity[t] # "none" => run[t] # "absent" /\ t \in context[t]
  /\ ~Over => \A t \in Tasks :
       participant[t] = "safe" => run[t] \in {"gate", "absent"} \/ t \in waiter

\* Only a leaf itself blocks its activity, and it is then parked or unsafe.
Leaves ==
  \A t \in Tasks : Leaf(t) =>
    /\ \A u \in Tasks : t \in context[u] => u = t
    /\ run[t] = "wait" => t \in waiter
    /\ (~Over /\ activity[t] = "blocked") => run[t] \in {"gate", "wait"} \/ participant[t] = "unsafe"

\* A pause is being written only while nobody works.
Committing == phase = "pause_committing" => Quiet

\* Whatever is or will be written from revision r on counts a subprocess.
Counted(r) ==
  /\ \A j \in Writers : j.revision >= r => j.marks > 0
  /\ persisted >= r => disk.marks > 0

\* The writes that tasks wait for.
Awaited == {j \in jobs : j.kind \in {"mark", "operation"}}

\* A marked tool waits for its own marker, or every later snapshot counts it.
Markers ==
  /\ \A t \in marked :
       /\ t \in setting.subprocess /\ activity[t] = "open"
       /\ \/ run[t] = "mark" /\ \E j \in jobs : j.kind = "mark" /\ j.task = {t} /\ Counted(j.revision)
          \/ run[t] \in {"run", "record"} /\ Counted(persisted)
  /\ \A j, k \in Awaited : j.task \cap k.task # {} => j = k
  /\ \A j \in Awaited : \A t \in j.task :
       (j.kind = "mark" => run[t] = "mark") /\ (j.kind = "operation" => run[t] = "record")

\* A deadline that has fired belongs to a pause whose timeout has passed.
Timers == \A j \in jobs : j.kind = "deadline" /\ j.st = "done" => j.pause \in expired

IInv == Types /\ Gate /\ Snapshots /\ Places /\ Leaves /\ Committing /\ Markers /\ Timers

-----------------------------------------------------------------------------
\* The task side of the state, whose types no other part is needed for.
TaskTypes ==
  /\ run \in [Tasks -> {"absent", "run", "gate", "wait", "record", "mark"}]
  /\ participant \in [Tasks -> {"none", "unsafe", "safe"}]
  /\ activity \in [Tasks -> {"none", "open", "blocked"}]
  /\ context \in [Tasks -> SUBSET Tasks]
  /\ waiter \subseteq Tasks /\ marked \subseteq Tasks /\ IsFiniteSet(marked)

\* The parts of Next, one by one.
LEMMA Cases ==
  ASSUME [Next]_vars, setting \in Settings
  PROVE  \/ Pause \/ RetryPause \/ Resume \/ ResumeTooLate \/ RetryResume \/ Terminate
         \/ \E p \in 1..setting.pauses : TerminateTimedOut(p)
         \/ \E t \in Tasks : t \in setting.tasks /\ TaskStep(t)
         \/ \E j \in jobs : JobStep(j)
         \/ UNCHANGED vars
<1>1. setting.tasks \subseteq Tasks
  BY ExecutionAssumption DEF Setting
<1>. QED  BY <1>1 DEF Next, Requests

\* What the marking helpers return.
LEMMA MarkTypes ==
  ASSUME TaskTypes
  PROVE  /\ \A ts \in SUBSET Tasks : \A f \in {"unsafe", "safe"} :
              MarkSafe(ts, f) \in [Tasks -> {"none", "unsafe", "safe"}]
         /\ \A ts \in SUBSET Tasks : \A b \in BOOLEAN :
              MarkBlocked(ts, b) \in [Tasks -> {"none", "open", "blocked"}]
         /\ \A ts \in SUBSET Tasks : Inside(ts) \in SUBSET Tasks
BY DEF TaskTypes, MarkSafe, MarkBlocked, Inside

LEMMA MarkedFinite ==
  ASSUME TaskTypes, NEW t \in Tasks
  PROVE  IsFiniteSet(marked \cup {t}) /\ IsFiniteSet(marked \ {t})
BY FS_AddElement, FS_RemoveElement DEF TaskTypes

\* end_activity, with or without a subprocess.
LEMMA EndTypes ==
  ASSUME TaskTypes, NEW t \in Tasks, NEW js, EndActivity(t, js)
  PROVE  TaskTypes'
<1>1. IsFiniteSet(marked')
  BY MarkedFinite DEF EndActivity
<1>2. Handoff(t) \in SUBSET Tasks
  BY ExecutionAssumption DEF Handoff
<1>3. participant' \in [Tasks -> {"none", "unsafe", "safe"}]
  BY <1>2, MarkTypes DEF EndActivity
<1>. QED  BY <1>1, <1>3 DEF EndActivity, TaskTypes

\* Every task step, and every job that comes back to a task, keeps the types.
LEMMA TaskTypesKept ==
  ASSUME TaskTypes, setting \in Settings, hold \in BOOLEAN, [Next]_vars
  PROVE  TaskTypes'
<1>0. \A ts \in SUBSET Tasks : Inside(ts) \in SUBSET Tasks
  BY MarkTypes
<1>a. waiter \in SUBSET Tasks /\ Held \in BOOLEAN
  BY DEF TaskTypes, Held
<1>b. ASSUME NEW b \in BOOLEAN, RefreshWaiters(waiter, b), UNCHANGED <<run, context, waiter, marked>>
      PROVE  TaskTypes'
  <2>1. participant' \in [Tasks -> {"none", "unsafe", "safe"}]
    BY <1>a, <1>b, MarkTypes DEF RefreshWaiters
  <2>2. activity' \in [Tasks -> {"none", "open", "blocked"}]
    BY <1>0, <1>a, <1>b, MarkTypes DEF RefreshWaiters
  <2>. QED  BY <1>b, <2>1, <2>2 DEF TaskTypes
<1>c. ASSUME UNCHANGED tasks
      PROVE  TaskTypes'
  BY <1>c DEF tasks, TaskTypes
<1>1. CASE Pause
  BY <1>1, <1>b DEF Pause
<1>2. CASE RetryPause
  BY <1>2, <1>c DEF RetryPause
<1>3. CASE Resume
  <2>1. (barrier' # 0) \in BOOLEAN
    OBVIOUS
  <2>. QED  BY <1>3, <1>b, <2>1 DEF Resume
<1>4. CASE ResumeTooLate
  BY <1>4, <1>c DEF ResumeTooLate, ClaimTermination
<1>5. CASE RetryResume
  BY <1>5, <1>c DEF RetryResume
<1>6. CASE Terminate
  BY <1>6, <1>c DEF Terminate, ClaimTermination
<1>7. ASSUME NEW p \in 1..setting.pauses, TerminateTimedOut(p)
      PROVE  TaskTypes'
  BY <1>7, <1>c DEF TerminateTimedOut, ClaimTermination
<1>8. ASSUME NEW t \in Tasks, TaskStep(t)
      PROVE  TaskTypes'
  <2>0. context[t] \in SUBSET Tasks /\ Parent[t] \in Tasks
    BY ExecutionAssumption DEF TaskTypes
  <2>1. ASSUME NEW registered \in BOOLEAN, Start(t, registered)
        PROVE  TaskTypes'
    BY <2>0, <2>1 DEF TaskTypes, Start
  <2>2. CASE Checkpoint(t)
    <3>1. activity' \in [Tasks -> {"none", "open", "blocked"}]
      BY <1>a, <2>0, <2>2, MarkTypes DEF Checkpoint
    <3>. QED  BY <2>2, <3>1 DEF TaskTypes, Checkpoint
  <2>3. CASE LeaveGate(t)
    <3>1. activity' \in [Tasks -> {"none", "open", "blocked"}]
      BY <2>0, <2>3, MarkTypes DEF LeaveGate, TaskTypes
    <3>a. {t} \in SUBSET Tasks
      OBVIOUS
    <3>b. MarkSafe({t}, "unsafe") \in [Tasks -> {"none", "unsafe", "safe"}]
      BY <3>a, MarkTypes
    <3>2. participant' \in [Tasks -> {"none", "unsafe", "safe"}]
      BY <2>3, <3>b DEF LeaveGate, TaskTypes
    <3>. QED  BY <2>3, <3>1, <3>2 DEF TaskTypes, LeaveGate
  <2>4. CASE End(t)
    BY <2>4, EndTypes DEF End
  <2>5. CASE BeginWait(t)
    <3>1. activity' \in [Tasks -> {"none", "open", "blocked"}]
      BY <2>0, <2>5, MarkTypes DEF BeginWait, TaskTypes
    <3>. QED  BY <2>5, <3>1 DEF TaskTypes, BeginWait
  <2>6. CASE EndWait(t)
    <3>1. waiter' \in SUBSET Tasks
      BY <2>6 DEF EndWait, TaskTypes
    <3>2. MarkSafe(waiter', "safe") \in [Tasks -> {"none", "unsafe", "safe"}]
      BY <3>1, MarkTypes
    <3>3. participant' \in [Tasks -> {"none", "unsafe", "safe"}]
      <4>1. CASE t \in waiter
        BY <2>6, <3>2, <4>1 DEF EndWait
      <4>2. CASE t \notin waiter
        BY <2>6, <4>2 DEF EndWait, TaskTypes
      <4>. QED  BY <4>1, <4>2
    <3>4. activity' \in [Tasks -> {"none", "open", "blocked"}]
      <4>1. CASE t \in waiter
        <5>1. ASSUME NEW u \in Tasks
              PROVE  MarkBlocked({u}, Held)[u] \in {"none", "open", "blocked"}
          BY MarkTypes, <1>a
        <5>2. PICK released \in SUBSET Tasks : released = IF Held THEN {} ELSE context[t]
          BY <2>0
        <5>3. MarkBlocked(released, FALSE) \in [Tasks -> {"none", "open", "blocked"}]
          BY MarkTypes
        <5>4. activity' = [u \in Tasks |-> IF u \in Inside(waiter') THEN MarkBlocked({u}, Held)[u]
                                           ELSE MarkBlocked(released, FALSE)[u]]
          BY <2>6, <4>1, <5>2 DEF EndWait
        <5>. QED  BY <5>1, <5>3, <5>4
      <4>2. CASE t \notin waiter
        BY <2>6, <4>2 DEF EndWait, TaskTypes
      <4>. QED  BY <4>1, <4>2
    <3>. QED  BY <2>6, <3>1, <3>3, <3>4 DEF TaskTypes, EndWait
  <2>7. CASE BeginActivity(t)
    BY <2>7 DEF TaskTypes, BeginActivity
  <2>8. CASE BeginSubprocess(t)
    <3>1. IsFiniteSet(marked')
      BY <2>8, MarkedFinite DEF BeginSubprocess
    <3>. QED  BY <2>8, <3>1 DEF TaskTypes, BeginSubprocess, AwaitMarker
  <2>9. CASE RecordOperation(t)
    BY <2>9 DEF TaskTypes, RecordOperation
  <2>10. CASE Finish(t)
    BY <2>10 DEF TaskTypes, Finish
  <2>11. CASE RemoveFinished(t)
    BY <2>11 DEF TaskTypes, RemoveFinished
  <2>. QED  BY <1>8, <2>1, <2>2, <2>3, <2>4, <2>5, <2>6, <2>7, <2>8, <2>9, <2>10, <2>11 DEF TaskStep
<1>9. ASSUME NEW j \in jobs, JobStep(j)
      PROVE  TaskTypes'
  <2>1. CASE Persist(j) \/ PersistFails(j) \/ Expire(j)
    BY <1>c, <2>1 DEF Persist, PersistFails, Expire
  <2>2. CASE FinishPause(j)
    BY <1>c, <2>2 DEF FinishPause
  <2>3. CASE FinishResume(j)
    BY <1>b, <2>3 DEF FinishResume, TaskTypes
  <2>4. CASE FinishRetry(j)
    BY <1>c, <2>4 DEF FinishRetry
  <2>5. CASE Deadline(j)
    BY <1>c, <2>5 DEF Deadline, ClaimTermination
  <2>6. ASSUME NEW t \in Tasks, FinishOperation(t, j)
        PROVE  TaskTypes'
    BY <2>6 DEF FinishOperation, TaskTypes
  <2>7. ASSUME NEW t \in Tasks, Marked(t, j)
        PROVE  TaskTypes'
    BY <2>7 DEF Marked, TaskTypes
  <2>8. ASSUME NEW t \in Tasks, MarkFails(t, j)
        PROVE  TaskTypes'
    BY <2>8, EndTypes DEF MarkFails
  <2>. QED  BY <1>9, <2>1, <2>2, <2>3, <2>4, <2>5, <2>6, <2>7, <2>8 DEF JobStep, Continue
<1>10. CASE UNCHANGED vars
  BY <1>10, <1>c DEF vars
<1>. QED  BY <1>1, <1>2, <1>3, <1>4, <1>5, <1>6, <1>7, <1>8, <1>9, <1>10, Cases

-----------------------------------------------------------------------------
\* The rest of the state.
ControlTypes ==
  /\ setting \in Settings /\ phase \in Phases /\ hold \in BOOLEAN /\ failed \in BOOLEAN
  /\ barrier \in Nat /\ revision \in Nat /\ generation \in Nat /\ pauseId \in Nat
  /\ barrier <= revision /\ persisted \in Nat /\ persisted <= revision
  /\ reason \in {"none", "disconnect_timeout", "explicit"}
  /\ disk \in [revision : Nat, phase : Phases, marks : Nat] /\ disk.revision = persisted
  /\ operations \in Nat /\ failures \in Nat /\ expired \subseteq Nat /\ asked \subseteq Nat
  /\ jobs \subseteq Job /\ \A j \in jobs : j.revision <= revision

LEMMA TypesSplit == Types <=> TaskTypes /\ ControlTypes
BY DEF Types, TypeOK, TaskTypes, ControlTypes

LEMMA TypesSplitNext == Types' <=> TaskTypes' /\ ControlTypes'
BY TypesSplit, PTL

\* A count of subprocesses is positive when there is one.
LEMMA CountPositive ==
  ASSUME NEW S, IsFiniteSet(S)
  PROVE  Cardinality(S) \in Nat /\ (S # {} => Cardinality(S) > 0)
BY FS_CardinalityType, FS_EmptySet

\* The spawned coroutines, field by field.
LEMMA PauseJobFields ==
  ASSUME generation' \in Nat, pauseId' \in Nat, Marks' \in Nat, NEW r \in Nat
  PROVE  LET w == PauseJob(r)
         IN  w \in Job /\ w.kind = "pause" /\ w.revision = r /\ w.phase = "paused" /\ w.marks = Marks' /\ w.st = "write"
BY DEF PauseJob, Write, Job, Phases, PausePhases

LEMMA TimerFields ==
  ASSUME generation' \in Nat, pauseId' \in Nat
  PROVE  Timer \in Job /\ Timer.kind = "deadline" /\ Timer.revision = 0 /\ Timer.st = "write"
BY DEF Timer, Write, Job, Phases, PausePhases

LEMMA MarkJobFields ==
  ASSUME NEW r \in Nat, NEW p \in Phases, NEW m \in Nat, NEW t \in Tasks
  PROVE  LET w == [Write("mark", r, p, m) EXCEPT !.task = {t}]
         IN  /\ w \in Job /\ w.kind = "mark" /\ w.revision = r /\ w.phase = p /\ w.marks = m /\ w.st = "write"
             /\ w.task = {t}
<1>1. \A v \in Job : \A ts \in SUBSET Tasks :
        LET w == [v EXCEPT !.task = ts]
        IN  /\ w \in Job /\ w.task = ts
            /\ w.kind = v.kind /\ w.revision = v.revision /\ w.phase = v.phase /\ w.marks = v.marks /\ w.st = v.st
  BY DEF Job
<1>2. PICK v : v = Write("mark", r, p, m)
  OBVIOUS
<1>3. v \in Job /\ v.kind = "mark" /\ v.revision = r /\ v.phase = p /\ v.marks = m /\ v.st = "write"
  BY <1>2 DEF Write, Job
<1>4. {t} \in SUBSET Tasks
  OBVIOUS
<1>. QED  BY <1>1, <1>2, <1>3, <1>4

\* What a step other than a write does to the jobs and to the newest revision.
Spawns ==
  /\ UNCHANGED <<persisted, disk>> /\ revision' \in Nat /\ revision <= revision'
  /\ revision' = revision => Newest \subseteq Newest'
  /\ \A j \in jobs' \ jobs :
       /\ j \in Job /\ j.st = "write" /\ j.revision <= revision'
       /\ j.kind \notin {"deadline", "retry"} =>
            /\ revision <= j.revision
            /\ marked' # {} => j.marks > 0
            /\ j.revision = revision' => j.phase \in Newest'
            /\ phase' = "running" => j.phase = "running"

\* A handler's own jobs, before the pause is looked at again.
NewJob(j, r, p) ==
  /\ j \in Job /\ j.st = "write" /\ j.revision <= r
  /\ j.kind \notin {"deadline", "retry"} =>
       j.revision = r /\ j.phase = p /\ (marked' # {} => j.marks > 0)

\* The outcomes of looking at the pause again.
Settle(p, r, js) ==
  \/ phase' = p /\ revision' = r /\ jobs' = js
  \/ /\ p = "pausing" /\ hold' /\ Quiet'
     /\ phase' = "pause_committing" /\ revision' = r + 1 /\ jobs' = js \cup {PauseJob(r + 1)}
  \/ /\ p = "pause_committing" /\ hold' /\ ~Quiet'
     /\ phase' = "pausing" /\ revision' = r + 1
     /\ jobs' = js \cup {Write("persist", r + 1, "pausing", Marks')}

LEMMA Settles ==
  ASSUME NEW p, NEW r, NEW js,
         SchedulePauseCommit(p, r, js) \/ InvalidatePauseCommit(p, r, js) \/ Recheck(p, r, js)
  PROVE  Settle(p, r, js)
BY DEF SchedulePauseCommit, InvalidatePauseCommit, Recheck, Settle

LEMMA SettleSpawns ==
  ASSUME ControlTypes, TaskTypes', generation' \in Nat, pauseId' \in Nat, barrier' \in Nat,
         UNCHANGED <<persisted, disk>>,
         NEW p \in Phases, NEW r \in Nat, NEW js, Settle(p, r, js), revision <= r,
         r = revision => p = phase /\ barrier' = barrier /\ operations' = operations /\ js \subseteq jobs,
         (r # revision /\ p = "pause_committing") => revision' # r,
         (r # revision /\ p = "resuming") => barrier' < r,
         \A j \in js \ jobs : NewJob(j, r, p)
  PROVE  Spawns
<1>1. Marks' \in Nat /\ (marked' # {} => Marks' > 0)
  BY CountPositive DEF Marks, TaskTypes
<1>2. revision \in Nat
  BY DEF ControlTypes
<1>3. CASE phase' = p /\ revision' = r /\ jobs' = js /\ r = revision
  <2>1. Newest \subseteq Newest'
    BY <1>3 DEF Newest, Uncontested, Over
  <2>2. jobs' \ jobs = {}
    BY <1>3
  <2>. QED  BY <1>2, <1>3, <2>1, <2>2 DEF Spawns
<1>4. CASE phase' = p /\ revision' = r /\ jobs' = js /\ r # revision
  <2>1. p \in Newest'
    BY <1>4 DEF Newest, Uncontested, Over
  <2>2. ASSUME NEW j \in jobs' \ jobs
        PROVE  /\ j \in Job /\ j.st = "write" /\ j.revision <= revision'
               /\ j.kind \notin {"deadline", "retry"} =>
                    /\ revision <= j.revision
                    /\ marked' # {} => j.marks > 0
                    /\ j.revision = revision' => j.phase \in Newest'
                    /\ phase' = "running" => j.phase = "running"
    <3>1. NewJob(j, r, p)
      BY <1>4
    <3>. QED  BY <1>2, <1>4, <2>1, <3>1 DEF NewJob
  <2>. QED  BY <1>2, <1>4, <2>2 DEF Spawns
<1>5. ASSUME NEW w, w \in Job, w.st = "write", w.revision = r + 1, marked' # {} => w.marks > 0,
             w.phase \in Newest', phase' # "running", revision' = r + 1, jobs' = js \cup {w}
      PROVE  Spawns
  <2>1. ASSUME NEW j \in jobs' \ jobs
        PROVE  /\ j \in Job /\ j.st = "write" /\ j.revision <= revision'
               /\ j.kind \notin {"deadline", "retry"} =>
                    /\ revision <= j.revision
                    /\ marked' # {} => j.marks > 0
                    /\ j.revision = revision' => j.phase \in Newest'
                    /\ phase' = "running" => j.phase = "running"
    <3>1. CASE j = w
      BY <1>2, <1>5, <3>1
    <3>2. CASE j # w
      <4>1. NewJob(j, r, p)
        BY <1>5, <3>2
      <4>2. j.revision \in Nat
        BY <4>1 DEF NewJob, Job
      <4>. QED  BY <1>2, <1>5, <4>1, <4>2 DEF NewJob
    <3>. QED  BY <3>1, <3>2
  <2>. QED  BY <1>2, <1>5, <2>1 DEF Spawns
<1>6. CASE /\ p = "pausing" /\ hold' /\ Quiet'
           /\ phase' = "pause_committing" /\ revision' = r + 1 /\ jobs' = js \cup {PauseJob(r + 1)}
  <2>1. "paused" \in Newest'
    BY <1>6 DEF Newest, Over
  <2>. QED  BY <1>1, <1>5, <1>6, <2>1, PauseJobFields
<1>7. CASE /\ p = "pause_committing" /\ hold' /\ ~Quiet'
           /\ phase' = "pausing" /\ revision' = r + 1
           /\ jobs' = js \cup {Write("persist", r + 1, "pausing", Marks')}
  <2>1. "pausing" \in Newest' /\ "pausing" \in Phases
    BY <1>7 DEF Newest, Over, Phases, PausePhases
  <2>2. PICK w : w = Write("persist", r + 1, "pausing", Marks')
    OBVIOUS
  <2>3. w \in Job /\ w.kind = "persist" /\ w.revision = r + 1 /\ w.phase = "pausing" /\ w.marks = Marks' /\ w.st = "write"
    BY <1>1, <2>1, <2>2 DEF Write, Job
  <2>. QED  BY <1>1, <1>5, <1>7, <2>1, <2>2, <2>3
<1>. QED  BY <1>3, <1>4, <1>6, <1>7 DEF Settle

\* Steps that spawn nothing.
LEMMA DropSpawns ==
  ASSUME ControlTypes, UNCHANGED <<persisted, disk>>, jobs' \subseteq jobs,
         \/ revision' = revision + 1
         \/ revision' = revision /\ Newest \subseteq Newest'
  PROVE  Spawns
<1>1. revision \in Nat
  BY DEF ControlTypes
<1>2. jobs' \ jobs = {}
  OBVIOUS
<1>. QED  BY <1>1, <1>2 DEF Spawns

LEMMA IdleSpawns ==
  ASSUME ControlTypes, UNCHANGED <<persisted, disk, phase, revision, barrier, operations>>, jobs' \subseteq jobs
  PROVE  Spawns
<1>1. Newest \subseteq Newest'
  BY DEF Newest, Uncontested, Over
<1>. QED  BY <1>1, DropSpawns

\* Steps that spawn one job that writes.
LEMMA OneSpawns ==
  ASSUME ControlTypes, UNCHANGED <<persisted, disk>>, NEW js, js \subseteq jobs, NEW w, jobs' = js \cup {w},
         \/ revision' = revision + 1
         \/ revision' = revision /\ Newest \subseteq Newest',
         w \in Job, w.st = "write", w.revision = revision', marked' # {} => w.marks > 0,
         w.phase \in Newest', phase' = "running" => w.phase = "running"
  PROVE  Spawns
<1>1. revision \in Nat
  BY DEF ControlTypes
<1>2. \A j \in jobs' \ jobs : j = w
  OBVIOUS
<1>. QED  BY <1>1, <1>2 DEF Spawns

\* A claimed termination.
LEMMA ClaimSpawns ==
  ASSUME ControlTypes, NEW why, ClaimTermination(why), jobs' \subseteq jobs
  PROVE  Spawns
BY DropSpawns DEF ClaimTermination

\* A handler that only looks at the pause again.
LEMMA LookSpawns ==
  ASSUME ControlTypes, TaskTypes', UNCHANGED <<persisted, disk, fences, operations>>, NEW js, js \subseteq jobs,
         Settle(phase, revision, js)
  PROVE  Spawns
<1>1. /\ generation' \in Nat /\ pauseId' \in Nat /\ barrier' \in Nat /\ barrier' = barrier
      /\ phase \in Phases /\ revision \in Nat /\ revision <= revision /\ js \ jobs = {}
      /\ persisted' = persisted /\ disk' = disk
  BY DEF ControlTypes, fences
<1>. QED  BY <1>1, SettleSpawns

\* end_activity: a marked tool's activity is open, so no pause is being written.
LEMMA EndSpawns ==
  ASSUME ControlTypes, TaskTypes', Gate, Committing, Markers, NEW t \in Tasks, NEW js, js \subseteq jobs,
         EndActivity(t, js)
  PROVE  Spawns
<1>0. /\ generation' \in Nat /\ pauseId' \in Nat /\ barrier' \in Nat /\ barrier' = barrier /\ operations' = operations
      /\ phase \in Phases /\ revision \in Nat /\ barrier <= revision
      /\ persisted' = persisted /\ disk' = disk
  BY DEF ControlTypes, fences, store, EndActivity
<1>1. CASE t \in marked
  <2>1. phase # "pause_committing"
    BY <1>1 DEF Committing, Quiet, Markers
  <2>2. Marks' \in Nat /\ (marked' # {} => Marks' > 0)
    BY CountPositive DEF Marks, TaskTypes
  <2>3. PICK r : r = revision + 1
    OBVIOUS
  <2>4. PICK w : w = Write("persist", r, phase, Marks')
    OBVIOUS
  <2>5. NewJob(w, r, phase)
    BY <1>0, <2>2, <2>3, <2>4 DEF NewJob, Write, Job
  <2>6. Settle(phase, r, js \cup {w})
    BY <1>1, <2>3, <2>4, Settles DEF EndActivity
  <2>7. \A j \in (js \cup {w}) \ jobs : NewJob(j, r, phase)
    BY <2>5
  <2>8. r \in Nat /\ revision <= r /\ r # revision /\ barrier' < r
    BY <1>0, <2>3
  <2>. QED  BY <1>0, <2>1, <2>6, <2>7, <2>8, SettleSpawns
<1>2. CASE t \notin marked
  <2>1. Settle(phase, revision, js)
    BY <1>2, Settles DEF EndActivity
  <2>. QED  BY <1>0, <2>1, LookSpawns DEF EndActivity
<1>. QED  BY <1>1, <1>2

\* A tool that records an operation works, so no pause is being written.
LEMMA RecordNotCommitting ==
  ASSUME TaskTypes, Places, Leaves, Committing, NEW t \in Tasks, RecordOperation(t)
  PROVE  phase # "pause_committing"
BY DEF TaskTypes, Places, Leaves, Committing, Quiet, RecordOperation

LEMMA RequestSpawns ==
  ASSUME ControlTypes, TaskTypes, TaskTypes', Gate,
         Pause \/ RetryPause \/ Resume \/ ResumeTooLate \/ RetryResume \/ Terminate
         \/ \E p \in 1..setting.pauses : TerminateTimedOut(p)
  PROVE  Spawns
<1>a. Marks' \in Nat /\ (marked' # {} => Marks' > 0)
  BY CountPositive DEF Marks, TaskTypes
<1>b. /\ revision \in Nat /\ generation \in Nat /\ pauseId \in Nat /\ barrier \in Nat
      /\ "paused" \in Phases /\ "pausing" \in Phases /\ "running" \in Phases /\ "resuming" \in Phases
  BY DEF ControlTypes, Phases, PausePhases
<1>1. CASE Pause
  <2>1. PICK r : r = revision + 1
    OBVIOUS
  <2>2. PICK w : w = Write("persist", r, "pausing", Marks)
    OBVIOUS
  <2>3. Marks' = Marks
    BY <1>1 DEF Pause, Marks
  <2>4. NewJob(w, r, "pausing")
    BY <1>a, <1>b, <2>1, <2>2, <2>3 DEF NewJob, Write, Job
  <2>5. generation' \in Nat /\ pauseId' \in Nat /\ barrier' \in Nat /\ persisted' = persisted /\ disk' = disk
    BY <1>1, <1>b DEF Pause, store
  <2>6. PICK d : d = Timer
    OBVIOUS
  <2>7. r \in Nat /\ 0 <= r /\ revision <= r /\ r # revision
    BY <1>b, <2>1
  <2>8. NewJob(d, r, "pausing")
    BY <2>5, <2>6, <2>7, TimerFields DEF NewJob
  <2>9. Settle("pausing", r, jobs \cup {w, d})
    BY <1>1, <2>1, <2>2, <2>6, Settles DEF Pause
  <2>10. \A j \in (jobs \cup {w, d}) \ jobs : NewJob(j, r, "pausing")
    BY <2>4, <2>8
  <2>. QED  BY <1>b, <2>5, <2>7, <2>9, <2>10, SettleSpawns
<1>2. CASE RetryPause
  <2>1. generation' \in Nat /\ pauseId' \in Nat /\ persisted' = persisted /\ disk' = disk /\ revision' = revision
    BY <1>2, <1>b DEF RetryPause, store
  <2>2. Newest = {"paused"} /\ Newest' = {"paused"}
    BY <1>2 DEF RetryPause, Newest, Over
  <2>3. PICK w : w = PauseJob(revision)
    OBVIOUS
  <2>4. w \in Job /\ w.kind = "pause" /\ w.revision = revision /\ w.phase = "paused" /\ w.marks = Marks' /\ w.st = "write"
    BY <1>a, <1>b, <2>1, <2>3, PauseJobFields
  <2>5. jobs' = jobs \cup {w} /\ phase' # "running"
    BY <1>2, <2>3 DEF RetryPause
  <2>6. jobs \subseteq jobs /\ Newest \subseteq Newest' /\ w.phase \in Newest'
    BY <2>2, <2>4
  <2>. QED  BY <1>a, <2>1, <2>4, <2>5, <2>6, OneSpawns
<1>3. CASE Resume
  <2>1. PICK w : w = ResumeJob(revision + 1)
    OBVIOUS
  <2>2. w \in Job /\ w.revision = revision + 1 /\ w.phase = "running" /\ w.marks = Marks' /\ w.st = "write"
    BY <1>a, <1>b, <2>1 DEF ResumeJob, Write, Job
  <2>3. /\ jobs' = jobs \cup {w} /\ phase' = "resuming" /\ revision' = revision + 1
        /\ persisted' = persisted /\ disk' = disk /\ jobs \subseteq jobs
    BY <1>3, <2>1 DEF Resume, store
  <2>4. "running" \in Newest'
    BY <2>3 DEF Newest, Over
  <2>. QED  BY <1>a, <2>2, <2>3, <2>4, OneSpawns
<1>4. CASE ResumeTooLate
  BY <1>4, ClaimSpawns DEF ResumeTooLate
<1>5. CASE RetryResume
  <2>1. /\ phase' = phase /\ phase = "resuming" /\ revision' = revision /\ barrier' = barrier /\ operations' = operations
        /\ persisted' = persisted /\ disk' = disk
    BY <1>5 DEF RetryResume, store
  <2>2. CASE operations > 0
    <3>1. PICK w : w = Write("retry", 0, "resuming", 0)
      OBVIOUS
    <3>2. w \in Job /\ w.kind = "retry" /\ w.revision = 0 /\ w.st = "write"
      BY <1>b, <3>1 DEF Write, Job
    <3>3. jobs' = jobs \cup {w}
      BY <1>5, <2>2, <3>1 DEF RetryResume
    <3>4. Newest \subseteq Newest'
      BY <2>1, <3>2, <3>3 DEF Newest, Uncontested, Over
    <3>5. \A j \in jobs' \ jobs : j = w
      BY <3>3
    <3>. QED  BY <1>b, <2>1, <3>2, <3>4, <3>5 DEF Spawns
  <2>3. CASE ~(operations > 0)
    <3>0. operations = 0
      BY <2>3 DEF ControlTypes
    <3>1. PICK w : w = ResumeJob(revision)
      OBVIOUS
    <3>2. w \in Job /\ w.revision = revision /\ w.phase = "running" /\ w.marks = Marks' /\ w.st = "write"
      BY <1>a, <1>b, <3>1 DEF ResumeJob, Write, Job
    <3>3. jobs' = jobs \cup {w} /\ jobs \subseteq jobs
      BY <1>5, <2>3, <3>1 DEF RetryResume
    <3>4. Newest \subseteq Newest' /\ "running" \in Newest'
      BY <2>1, <3>0 DEF Newest, Uncontested, Over
    <3>. QED  BY <1>a, <2>1, <3>2, <3>3, <3>4, OneSpawns
  <2>. QED  BY <2>2, <2>3
<1>6. CASE Terminate
  BY <1>6, ClaimSpawns DEF Terminate
<1>7. ASSUME NEW p \in 1..setting.pauses, TerminateTimedOut(p)
      PROVE  Spawns
  BY <1>7, ClaimSpawns DEF TerminateTimedOut
<1>. QED  BY <1>1, <1>2, <1>3, <1>4, <1>5, <1>6, <1>7

LEMMA TaskSpawns ==
  ASSUME ControlTypes, TaskTypes, TaskTypes', Gate, Places, Leaves, Committing, Markers,
         NEW t \in Tasks, TaskStep(t)
  PROVE  Spawns
<1>a. Marks' \in Nat /\ (marked' # {} => Marks' > 0)
  BY CountPositive DEF Marks, TaskTypes
<1>b. /\ revision \in Nat /\ generation \in Nat /\ pauseId \in Nat /\ barrier \in Nat /\ operations \in Nat
      /\ phase \in Phases /\ barrier <= revision /\ jobs \subseteq jobs
      /\ \A j \in jobs : j \in Job /\ j.revision <= revision
  BY DEF ControlTypes
<1>c. ASSUME UNCHANGED <<setting, fences, store, operations>>,
             \/ UNCHANGED <<phase, revision, jobs>>
             \/ SchedulePauseCommit(phase, revision, jobs)
             \/ InvalidatePauseCommit(phase, revision, jobs)
      PROVE  Spawns
  <2>1. UNCHANGED <<persisted, disk, fences, operations>> /\ barrier' = barrier
    BY <1>c DEF store, fences
  <2>2. CASE UNCHANGED <<phase, revision, jobs>>
    BY <2>1, <2>2, IdleSpawns
  <2>3. CASE ~UNCHANGED <<phase, revision, jobs>>
    <3>1. Settle(phase, revision, jobs)
      BY <1>c, <2>3, Settles
    <3>. QED  BY <1>b, <2>1, <3>1, LookSpawns
  <2>. QED  BY <2>2, <2>3
<1>1. ASSUME NEW registered \in BOOLEAN, Start(t, registered)
      PROVE  Spawns
  BY <1>1, <1>c DEF Start
<1>2. CASE Checkpoint(t)
  BY <1>2, <1>c DEF Checkpoint
<1>3. CASE LeaveGate(t)
  BY <1>3, <1>c DEF LeaveGate, control, fences
<1>4. CASE End(t)
  BY <1>4, <1>b, EndSpawns DEF End
<1>5. CASE BeginWait(t)
  BY <1>5, <1>c DEF BeginWait
<1>6. CASE EndWait(t)
  BY <1>6, <1>c DEF EndWait, WaitOver
<1>7. CASE BeginActivity(t)
  BY <1>7, <1>c DEF BeginActivity
<1>8. CASE BeginSubprocess(t)
  <2>1. PICK r : r = revision + 1
    OBVIOUS
  <2>2. PICK w : w = [Write("mark", r, phase, Marks') EXCEPT !.task = {t}]
    OBVIOUS
  <2>r. r \in Nat /\ r <= r
    BY <1>b, <2>1
  <2>w. /\ w \in Job /\ w.kind = "mark" /\ w.revision = r /\ w.phase = phase /\ w.marks = Marks' /\ w.st = "write"
    BY <1>a, <1>b, <2>r, <2>2, MarkJobFields
  <2>3. NewJob(w, r, phase)
    BY <1>a, <2>r, <2>w DEF NewJob
  <2>4. /\ generation' \in Nat /\ pauseId' \in Nat /\ barrier' \in Nat /\ barrier' = barrier /\ hold' = hold
        /\ persisted' = persisted /\ disk' = disk
    BY <1>8, <1>b DEF BeginSubprocess, store, fences
  <2>5. r \in Nat /\ revision <= r /\ r # revision /\ barrier' < r
    BY <1>b, <2>1, <2>4
  <2>6. InvalidatePauseCommit(phase, r, jobs \cup {w})
    BY <1>8, <2>1, <2>2 DEF BeginSubprocess
  <2>7. ~Quiet'
    BY <1>8 DEF BeginSubprocess, Quiet, TaskTypes
  <2>8. phase = "pause_committing" => revision' # r
    BY <2>4, <2>5, <2>6, <2>7 DEF InvalidatePauseCommit, Gate, PausePhases
  <2>9. \A j \in (jobs \cup {w}) \ jobs : NewJob(j, r, phase)
    BY <2>3
  <2>10. Settle(phase, r, jobs \cup {w})
    BY <2>6, Settles
  <2>. QED  BY <1>b, <2>4, <2>5, <2>8, <2>9, <2>10, SettleSpawns
<1>9. CASE RecordOperation(t)
  <2>1. PICK w : w = [Write("operation", revision + 1, phase, Marks) EXCEPT !.task = {t}, !.resuming = (phase = "resuming")]
    OBVIOUS
  <2>2. Marks' = Marks /\ (phase = "resuming") \in BOOLEAN
    BY <1>9 DEF RecordOperation, Marks
  <2>3. /\ w \in Job /\ w.kind = "operation" /\ w.revision = revision + 1 /\ w.phase = phase
        /\ w.marks = Marks' /\ w.st = "write"
    <3>1. PICK r \in Nat : r = revision + 1
      BY <1>b
    <3>2. PICK b \in BOOLEAN : b = (phase = "resuming")
      OBVIOUS
    <3>3. w = [Write("operation", r, phase, Marks) EXCEPT !.task = {t}, !.resuming = b]
      BY <2>1, <3>1, <3>2
    <3>4. Marks \in Nat /\ phase \in Phases
      BY <1>a, <1>b, <2>2
    <3>5. w \in Job /\ w.kind = "operation" /\ w.revision = r /\ w.phase = phase /\ w.marks = Marks /\ w.st = "write"
      BY <3>3, <3>4 DEF Write, Job
    <3>. QED  BY <2>2, <3>1, <3>5
  <2>4. /\ phase' = phase /\ revision' = revision + 1 /\ operations' = operations + 1
        /\ jobs' = jobs \cup {w} /\ persisted' = persisted /\ disk' = disk /\ phase # "terminating"
    BY <1>9, <2>1 DEF RecordOperation, store, Over
  <2>5. phase # "pause_committing"
    BY <1>9, RecordNotCommitting
  <2>6. \A j \in jobs' : ~(j.kind = "resume" /\ j.revision = revision')
    <3>1. \A j \in jobs : j.revision # revision + 1
      BY <1>b DEF Job
    <3>. QED  BY <2>3, <2>4, <3>1
  <2>7. operations' # 0
    BY <1>b, <2>4
  <2>8. phase \in Newest'
    BY <2>4, <2>5, <2>6, <2>7 DEF Newest, Uncontested, Over
  <2>. QED  BY <1>a, <1>b, <2>3, <2>4, <2>8, OneSpawns
<1>10. CASE Finish(t)
  BY <1>10, <1>c DEF Finish
<1>11. CASE RemoveFinished(t)
  BY <1>11, <1>c DEF RemoveFinished
<1>. QED  BY <1>1, <1>2, <1>3, <1>4, <1>5, <1>6, <1>7, <1>8, <1>9, <1>10, <1>11 DEF TaskStep

LEMMA JobSpawns ==
  ASSUME ControlTypes, TaskTypes, TaskTypes', Gate, Committing, Markers,
         NEW j \in jobs, Continue(j) \/ Deadline(j)
  PROVE  Spawns
<1>a. Marks' \in Nat /\ (marked' # {} => Marks' > 0)
  BY CountPositive DEF Marks, TaskTypes
<1>b. /\ revision \in Nat /\ jobs \ {j} \subseteq jobs /\ "running" \in Phases
  BY DEF ControlTypes, Phases
\* A resume that is started again takes a new revision.
<1>c. ASSUME UNCHANGED <<persisted, disk, marked>>, revision' = revision + 1, phase' = "resuming",
             jobs' = (jobs \ {j}) \cup {Write("resume", revision + 1, "running", Marks)}
      PROVE  Spawns
  <2>1. PICK w : w = Write("resume", revision + 1, "running", Marks)
    OBVIOUS
  <2>2. Marks' = Marks
    BY <1>c DEF Marks
  <2>3. w \in Job /\ w.revision = revision + 1 /\ w.phase = "running" /\ w.marks = Marks' /\ w.st = "write"
    BY <1>a, <1>b, <2>1, <2>2 DEF Write, Job
  <2>4. "running" \in Newest'
    BY <1>c DEF Newest, Over
  <2>. QED  BY <1>a, <1>b, <1>c, <2>1, <2>3, <2>4, OneSpawns
<1>1. CASE FinishPause(j)
  <2>1. jobs' = jobs \ {j} /\ UNCHANGED <<persisted, disk, revision, barrier, operations>>
    BY <1>1 DEF FinishPause, store
  <2>2. CASE j.st = "done" /\ StillCommitting(j)
    <3>1. Newest \subseteq Newest'
      BY <1>1, <2>2 DEF FinishPause, StillCommitting, Newest, Over
    <3>. QED  BY <1>b, <2>1, <3>1, DropSpawns
  <2>3. CASE ~(j.st = "done" /\ StillCommitting(j))
    <3>1. phase' = phase
      BY <1>1, <2>3 DEF FinishPause
    <3>. QED  BY <1>b, <2>1, <3>1, IdleSpawns
  <2>. QED  BY <2>2, <2>3
<1>2. CASE FinishResume(j)
  <2>1. jobs' = jobs \ {j} /\ UNCHANGED <<persisted, disk, revision, operations>>
    BY <1>2 DEF FinishResume, store
  <2>2. CASE j.st = "done" /\ StillResuming(j)
    <3>1. Newest = {"running"}
      BY <1>2, <2>2 DEF FinishResume, StillResuming, Newest, Uncontested, Over
    <3>2. Newest' = {"running"}
      BY <1>2, <2>2 DEF FinishResume, Newest, Over
    <3>. QED  BY <1>b, <2>1, <3>1, <3>2, DropSpawns
  <2>3. CASE ~(j.st = "done" /\ StillResuming(j))
    <3>1. phase' = phase /\ barrier' = barrier
      BY <1>2, <2>3 DEF FinishResume
    <3>. QED  BY <1>b, <2>1, <3>1, IdleSpawns
  <2>. QED  BY <2>2, <2>3
<1>3. CASE FinishRetry(j)
  <2>1. UNCHANGED <<persisted, disk, phase, operations, marked>>
    BY <1>3 DEF FinishRetry, store, tasks
  <2>2. CASE phase = "resuming" /\ j.st = "done"
    BY <1>3, <1>c, <2>1, <2>2 DEF FinishRetry
  <2>3. CASE ~(phase = "resuming" /\ j.st = "done")
    <3>1. jobs' = jobs \ {j} /\ revision' = revision /\ barrier' = barrier
      BY <1>3, <2>3 DEF FinishRetry
    <3>. QED  BY <1>b, <2>1, <3>1, IdleSpawns
  <2>. QED  BY <2>2, <2>3
<1>4. ASSUME NEW t \in Tasks, FinishOperation(t, j)
      PROVE  Spawns
  <2>1. UNCHANGED <<persisted, disk, phase, operations, marked>>
    BY <1>4 DEF FinishOperation, store
  <2>2. CASE Restarts(j)
    BY <1>4, <1>c, <2>1, <2>2 DEF FinishOperation, Restarts, StillResuming
  <2>3. CASE ~Restarts(j)
    <3>1. jobs' = jobs \ {j} /\ revision' = revision /\ barrier' = barrier
      BY <1>4, <2>3 DEF FinishOperation
    <3>. QED  BY <1>b, <2>1, <3>1, IdleSpawns
  <2>. QED  BY <2>2, <2>3
<1>5. ASSUME NEW t \in Tasks, Marked(t, j)
      PROVE  Spawns
  BY <1>5, <1>b, IdleSpawns DEF Marked, control, store
<1>6. ASSUME NEW t \in Tasks, MarkFails(t, j)
      PROVE  Spawns
  BY <1>6, <1>b, EndSpawns DEF MarkFails
<1>7. CASE Deadline(j)
  <2>1. CASE StillHeld(j)
    BY <1>7, <1>b, <2>1, ClaimSpawns DEF Deadline
  <2>2. CASE ~StillHeld(j)
    BY <1>7, <1>b, <2>2, IdleSpawns DEF Deadline, control
  <2>. QED  BY <2>1, <2>2
<1>. QED  BY <1>1, <1>2, <1>3, <1>4, <1>5, <1>6, <1>7 DEF Continue

\* Every step spawns jobs for newer revisions, is a write, or lets a timeout pass.
LEMMA NextSpawns ==
  ASSUME IInv, [Next]_vars
  PROVE  \/ Spawns
         \/ \E j \in jobs : Persist(j) \/ PersistFails(j) \/ Expire(j)
<1>1. /\ ControlTypes /\ TaskTypes /\ Gate /\ Places /\ Leaves /\ Committing /\ Markers
      /\ setting \in Settings /\ hold \in BOOLEAN
  BY TypesSplit DEF IInv, ControlTypes
<1>2. TaskTypes'
  BY <1>1, TaskTypesKept
<1>3. CASE \/ Pause \/ RetryPause \/ Resume \/ ResumeTooLate \/ RetryResume \/ Terminate
           \/ \E p \in 1..setting.pauses : TerminateTimedOut(p)
  BY <1>1, <1>2, <1>3, RequestSpawns
<1>4. CASE \E t \in Tasks : t \in setting.tasks /\ TaskStep(t)
  BY <1>1, <1>2, <1>4, TaskSpawns
<1>5. ASSUME NEW j \in jobs, JobStep(j)
      PROVE  Spawns \/ Persist(j) \/ PersistFails(j) \/ Expire(j)
  BY <1>1, <1>2, <1>5, JobSpawns DEF JobStep
<1>6. CASE UNCHANGED vars
  <2>1. UNCHANGED <<persisted, disk, phase, revision, barrier, operations>> /\ jobs' \subseteq jobs
    BY <1>6 DEF vars, control, store
  <2>. QED  BY <1>1, <2>1, IdleSpawns
<1>. QED  BY <1>1, <1>3, <1>4, <1>5, <1>6, Cases

-----------------------------------------------------------------------------
\* The controller's own variables, the revision and the jobs left aside.
Scalars ==
  /\ setting \in Settings /\ phase \in Phases /\ hold \in BOOLEAN /\ failed \in BOOLEAN
  /\ barrier \in Nat /\ generation \in Nat /\ pauseId \in Nat
  /\ reason \in {"none", "disconnect_timeout", "explicit"}
  /\ operations \in Nat /\ failures \in Nat /\ expired \subseteq Nat /\ asked \subseteq Nat
  /\ Gate

LEMMA SettlePhase ==
  ASSUME NEW p \in Phases, NEW r, NEW js, Settle(p, r, js)
  PROVE  /\ phase' \in Phases /\ (phase' \in PausePhases <=> p \in PausePhases)
         /\ phase' = "resuming" <=> p = "resuming"
         /\ phase' = "terminating" <=> p = "terminating"
BY DEF Settle, Phases, PausePhases

\* Looking at the pause again moves the phase between pausing phases only.
LEMMA LookScalars ==
  ASSUME Scalars, UNCHANGED <<setting, fences, store, operations>>,
         UNCHANGED phase \/ \E r, js : Settle(phase, r, js)
  PROVE  Scalars'
<1>1. /\ phase' \in Phases /\ (phase' \in PausePhases <=> phase \in PausePhases)
      /\ phase' = "resuming" <=> phase = "resuming"
  BY SettlePhase DEF Scalars
<1>. QED  BY <1>1 DEF Scalars, Gate, fences, store

LEMMA ClaimScalars ==
  ASSUME Scalars, NEW why \in {"disconnect_timeout", "explicit"}, ClaimTermination(why),
         setting' = setting, expired' = expired, asked' \subseteq Nat
  PROVE  Scalars'
<1>1. /\ phase' = "terminating" /\ barrier' = 0 /\ hold' = FALSE /\ reason' = why
      /\ generation' = generation + 1
      /\ UNCHANGED <<pauseId, failed, operations, failures>>
  BY DEF ClaimTermination
<1>2. Gate'
  BY <1>1 DEF Gate, PausePhases
<1>3. phase' \in Phases /\ hold' \in BOOLEAN /\ barrier' \in Nat
  BY <1>1 DEF Phases
<1>. QED  BY <1>1, <1>2, <1>3 DEF Scalars

LEMMA ScalarsKept ==
  ASSUME Scalars, revision \in Nat, jobs \subseteq Job, [Next]_vars
  PROVE  Scalars'
<1>a. ASSUME UNCHANGED <<setting, fences, store, operations, phase>>
      PROVE  Scalars'
  BY <1>a, LookScalars
<1>b. ASSUME NEW t \in Tasks, NEW js, EndActivity(t, js)
      PROVE  Scalars'
  BY <1>b, Settles, LookScalars DEF EndActivity
<1>c. ASSUME UNCHANGED <<setting, hold, generation, pauseId, reason, operations, failures, expired, asked, phase>>,
             failed' \in BOOLEAN, barrier' \in Nat, barrier' # 0 <=> phase = "resuming"
      PROVE  Scalars'
  BY <1>c DEF Scalars, Gate
<1>1. CASE Pause
  <2>1. "pausing" \in Phases /\ "pausing" \in PausePhases
    BY DEF Phases, PausePhases
  <2>2. /\ phase' \in Phases /\ phase' \in PausePhases /\ phase' # "resuming"
    BY <1>1, <2>1, Settles, SettlePhase DEF Pause
  <2>. QED  BY <1>1, <2>2 DEF Scalars, Gate, Pause, store
<1>2. CASE RetryPause
  BY <1>2 DEF RetryPause, Scalars, Gate, store
<1>3. CASE Resume
  <2>1. /\ phase' = "resuming" /\ barrier' = revision + 1 /\ hold' = FALSE /\ generation' = generation + 1
        /\ UNCHANGED <<setting, pauseId, failed, reason, operations, failures, expired, asked>>
    BY <1>3 DEF Resume, ResumeBarrier, store
  <2>2. Gate'
    BY <2>1 DEF Gate, PausePhases
  <2>3. barrier' \in Nat
    BY <2>1
  <2>4. phase' \in Phases /\ hold' \in BOOLEAN
    BY <2>1 DEF Phases
  <2>. QED  BY <2>1, <2>2, <2>3, <2>4 DEF Scalars
<1>4. CASE ResumeTooLate
  BY <1>4, ClaimScalars DEF ResumeTooLate, Scalars
<1>5. CASE RetryResume
  BY <1>5 DEF RetryResume, Scalars, Gate, store
<1>6. CASE Terminate
  BY <1>6, ClaimScalars DEF Terminate, Scalars
<1>7. ASSUME NEW p \in 1..setting.pauses, TerminateTimedOut(p)
      PROVE  Scalars'
  <2>1. p = pauseId /\ asked' \subseteq Nat
    BY <1>7 DEF TerminateTimedOut, Scalars
  <2>. QED  BY <1>7, <2>1, ClaimScalars DEF TerminateTimedOut
<1>8. ASSUME NEW t \in Tasks, TaskStep(t)
      PROVE  Scalars'
  <2>1. ASSUME NEW registered \in BOOLEAN, Start(t, registered)
        PROVE  Scalars'
    BY <2>1, Settles, LookScalars DEF Start
  <2>2. CASE Checkpoint(t)
    BY <2>2, Settles, LookScalars DEF Checkpoint
  <2>3. CASE LeaveGate(t)
    BY <2>3, <1>a DEF LeaveGate, control, fences
  <2>4. CASE End(t)
    BY <2>4, <1>b DEF End
  <2>5. CASE BeginWait(t)
    BY <2>5, Settles, LookScalars DEF BeginWait
  <2>6. CASE EndWait(t)
    BY <2>6, Settles, LookScalars DEF EndWait, WaitOver
  <2>7. CASE BeginActivity(t)
    BY <2>7, Settles, LookScalars DEF BeginActivity
  <2>8. CASE BeginSubprocess(t)
    BY <2>8, Settles, LookScalars DEF BeginSubprocess
  <2>9. CASE RecordOperation(t)
    BY <2>9 DEF RecordOperation, Scalars, Gate, store
  <2>10. CASE Finish(t)
    BY <2>10, Settles, LookScalars DEF Finish
  <2>11. CASE RemoveFinished(t)
    BY <2>11, Settles, LookScalars DEF RemoveFinished
  <2>. QED  BY <1>8, <2>1, <2>2, <2>3, <2>4, <2>5, <2>6, <2>7, <2>8, <2>9, <2>10, <2>11 DEF TaskStep
<1>9. ASSUME NEW j \in jobs, JobStep(j)
      PROVE  Scalars'
  <2>1. CASE Persist(j)
    BY <2>1 DEF Persist, Scalars, Gate, control
  <2>2. CASE PersistFails(j)
    BY <2>2 DEF PersistFails, Scalars, Gate, control
  <2>3. CASE Expire(j)
    <3>1. j.pause \in Nat
      BY DEF Job
    <3>. QED  BY <2>3, <3>1 DEF Expire, Scalars, Gate, control
  <2>4. CASE FinishPause(j)
    BY <2>4 DEF FinishPause, StillCommitting, Scalars, Gate, store, Phases, PausePhases
  <2>5. CASE FinishResume(j)
    <3>1. UNCHANGED <<setting, hold, generation, pauseId, reason, operations, failures, expired, asked>>
      BY <2>5 DEF FinishResume, store
    <3>2. CASE j.st = "done" /\ StillResuming(j)
      <4>1. phase' = "running" /\ barrier' = 0 /\ failed' = FALSE /\ phase = "resuming"
        BY <2>5, <3>2 DEF FinishResume, StillResuming
      <4>2. Gate'
        BY <3>1, <4>1 DEF Gate, PausePhases, Scalars
      <4>3. phase' \in Phases /\ failed' \in BOOLEAN /\ barrier' \in Nat
        BY <4>1 DEF Phases
      <4>. QED  BY <3>1, <4>2, <4>3 DEF Scalars
    <3>3. CASE ~(j.st = "done" /\ StillResuming(j))
      <4>1. phase' = phase /\ barrier' = barrier /\ failed' \in BOOLEAN
        BY <2>5, <3>3 DEF FinishResume, Scalars
      <4>. QED  BY <1>c, <3>1, <4>1 DEF Scalars, Gate
    <3>. QED  BY <3>2, <3>3
  <2>6. CASE FinishRetry(j)
    <3>a. failed' \in BOOLEAN
      BY <2>6 DEF FinishRetry, Scalars
    <3>b. barrier' \in Nat /\ (barrier' # 0 <=> phase = "resuming")
      BY <2>6 DEF FinishRetry, Scalars, Gate
    <3>1. failed' \in BOOLEAN /\ barrier' \in Nat /\ (barrier' # 0 <=> phase = "resuming")
      BY <3>a, <3>b
    <3>. QED  BY <1>c, <2>6, <3>1 DEF FinishRetry, store
  <2>7. CASE Deadline(j)
    <3>1. CASE StillHeld(j)
      BY <2>7, <3>1, ClaimScalars DEF Deadline, Scalars
    <3>2. CASE ~StillHeld(j)
      BY <2>7, <3>2 DEF Deadline, Scalars, Gate, control
    <3>. QED  BY <3>1, <3>2
  <2>8. ASSUME NEW t \in Tasks, FinishOperation(t, j)
        PROVE  Scalars'
    <3>1. failed' \in BOOLEAN /\ barrier' \in Nat /\ (barrier' # 0 <=> phase = "resuming")
      BY <2>8 DEF FinishOperation, Restarts, StillResuming, Scalars, Gate
    <3>. QED  BY <1>c, <2>8, <3>1 DEF FinishOperation, store
  <2>9. ASSUME NEW t \in Tasks, Marked(t, j)
        PROVE  Scalars'
    BY <2>9, <1>a DEF Marked, control, fences
  <2>10. ASSUME NEW t \in Tasks, MarkFails(t, j)
        PROVE  Scalars'
    BY <2>10, <1>b DEF MarkFails
  <2>. QED  BY <1>9, <2>1, <2>2, <2>3, <2>4, <2>5, <2>6, <2>7, <2>8, <2>9, <2>10 DEF JobStep, Continue
<1>10. CASE UNCHANGED vars
  BY <1>10, <1>a DEF vars, control, fences
<1>11. setting \in Settings
  BY DEF Scalars
<1>. QED  BY <1>1, <1>2, <1>3, <1>4, <1>5, <1>6, <1>7, <1>8, <1>9, <1>10, <1>11, Cases

\* Which steps move the barrier, let the execution run again, or end it.
Moves ==
  /\ barrier' = barrier \/ barrier' = 0 \/ barrier' = revision'
  /\ phase' = "running" => phase = "running" \/ \E j \in jobs : FinishResume(j)
  /\ Over => Over'
  /\ \/ reason' = reason \/ ResumeTooLate \/ Terminate
     \/ \E p \in 1..setting.pauses : TerminateTimedOut(p)
     \/ \E j \in jobs : Deadline(j)

LEMMA LookMoves ==
  ASSUME phase \in Phases, UNCHANGED fences, UNCHANGED phase \/ \E r, js : Settle(phase, r, js)
  PROVE  Moves
<1>1. barrier' = barrier /\ reason' = reason
  BY DEF fences
<1>2. phase' = "running" => phase = "running"
  BY DEF Settle
<1>3. Over => Over'
  BY SettlePhase DEF Over
<1>. QED  BY <1>1, <1>2, <1>3 DEF Moves

LEMMA NextMoves ==
  ASSUME phase \in Phases, setting \in Settings, [Next]_vars
  PROVE  Moves
<1>a. ASSUME NEW t \in Tasks, NEW js, EndActivity(t, js)
      PROVE  Moves
  BY <1>a, Settles, LookMoves DEF EndActivity
<1>b. ASSUME UNCHANGED control
      PROVE  Moves
  BY <1>b, LookMoves DEF control, fences
<1>1. CASE Pause
  <2>1. phase' # "running" /\ barrier' = 0 /\ reason' = reason /\ ~Over
    BY <1>1 DEF Pause, SchedulePauseCommit, Over
  <2>. QED  BY <2>1 DEF Moves
<1>2. CASE RetryPause
  BY <1>2 DEF RetryPause, Moves, Over
<1>3. CASE Resume
  BY <1>3 DEF Resume, ResumeBarrier, Moves, Over, PausePhases
<1>4. CASE ResumeTooLate
  BY <1>4 DEF ResumeTooLate, ClaimTermination, Moves, Over
<1>5. CASE RetryResume
  BY <1>5 DEF RetryResume, Moves, Over
<1>6. CASE Terminate
  BY <1>6 DEF Terminate, ClaimTermination, Moves, Over
<1>7. ASSUME NEW p \in 1..setting.pauses, TerminateTimedOut(p)
      PROVE  Moves
  BY <1>7 DEF TerminateTimedOut, ClaimTermination, Moves, Over
<1>8. ASSUME NEW t \in Tasks, TaskStep(t)
      PROVE  Moves
  <2>1. ASSUME NEW registered \in BOOLEAN, Start(t, registered)
        PROVE  Moves
    BY <2>1, Settles, LookMoves DEF Start
  <2>2. CASE Checkpoint(t)
    BY <2>2, Settles, LookMoves DEF Checkpoint
  <2>3. CASE LeaveGate(t)
    BY <2>3, <1>b DEF LeaveGate
  <2>4. CASE End(t)
    BY <2>4, <1>a DEF End
  <2>5. CASE BeginWait(t)
    BY <2>5, Settles, LookMoves DEF BeginWait
  <2>6. CASE EndWait(t)
    BY <2>6, Settles, LookMoves DEF EndWait, WaitOver
  <2>7. CASE BeginActivity(t)
    BY <2>7, Settles, LookMoves DEF BeginActivity
  <2>8. CASE BeginSubprocess(t)
    BY <2>8, Settles, LookMoves DEF BeginSubprocess
  <2>9. CASE RecordOperation(t)
    BY <2>9 DEF RecordOperation, Moves, Over
  <2>10. CASE Finish(t)
    BY <2>10, Settles, LookMoves DEF Finish
  <2>11. CASE RemoveFinished(t)
    BY <2>11, Settles, LookMoves DEF RemoveFinished
  <2>. QED  BY <1>8, <2>1, <2>2, <2>3, <2>4, <2>5, <2>6, <2>7, <2>8, <2>9, <2>10, <2>11 DEF TaskStep
<1>9. ASSUME NEW j \in jobs, JobStep(j)
      PROVE  Moves
  <2>1. CASE Persist(j) \/ PersistFails(j) \/ Expire(j)
    BY <2>1, <1>b DEF Persist, PersistFails, Expire
  <2>2. CASE FinishPause(j)
    BY <2>2 DEF FinishPause, StillCommitting, Moves, Over
  <2>3. CASE FinishResume(j)
    BY <2>3 DEF FinishResume, StillResuming, Moves, Over
  <2>4. CASE FinishRetry(j)
    BY <2>4 DEF FinishRetry, Moves, Over
  <2>5. CASE Deadline(j)
    <3>1. CASE StillHeld(j)
      BY <2>5, <3>1 DEF Deadline, ClaimTermination, Moves, Over
    <3>2. CASE ~StillHeld(j)
      BY <2>5, <3>2, <1>b DEF Deadline
    <3>. QED  BY <3>1, <3>2
  <2>6. ASSUME NEW t \in Tasks, FinishOperation(t, j)
        PROVE  Moves
    BY <2>6 DEF FinishOperation, Moves, Over
  <2>7. ASSUME NEW t \in Tasks, Marked(t, j)
        PROVE  Moves
    BY <2>7, <1>b DEF Marked
  <2>8. ASSUME NEW t \in Tasks, MarkFails(t, j)
        PROVE  Moves
    BY <2>8, <1>a DEF MarkFails
  <2>. QED  BY <1>9, <2>1, <2>2, <2>3, <2>4, <2>5, <2>6, <2>7, <2>8 DEF JobStep, Continue
<1>10. CASE UNCHANGED vars
  BY <1>10, <1>b DEF vars
<1>. QED  BY <1>1, <1>2, <1>3, <1>4, <1>5, <1>6, <1>7, <1>8, <1>9, <1>10, Cases

-----------------------------------------------------------------------------
\* A write or a timeout only changes the state of its own job.
LEMMA BecomeJobs ==
  ASSUME jobs \subseteq Job, NEW j \in jobs, NEW st \in {"write", "done", "failed"}, Become(j, st),
         NEW k \in jobs', k \notin jobs
  PROVE  /\ k \in Job /\ k.st = st /\ k.kind = j.kind /\ k.revision = j.revision /\ k.phase = j.phase
         /\ k.marks = j.marks /\ k.task = j.task /\ k.pause = j.pause
<1>1. k = [j EXCEPT !.st = st]
  BY DEF Become, Waited
<1>2. \A i \in Job : LET w == [i EXCEPT !.st = st]
                     IN  /\ w \in Job /\ w.st = st /\ w.kind = i.kind /\ w.revision = i.revision /\ w.phase = i.phase
                         /\ w.marks = i.marks /\ w.task = i.task /\ w.pause = i.pause
  BY DEF Job
<1>. QED  BY <1>1, <1>2

LEMMA WriteSteps ==
  ASSUME NEW j \in jobs, Persist(j) \/ PersistFails(j) \/ Expire(j), jobs \subseteq Job
  PROVE  /\ UNCHANGED <<phase, hold, barrier, revision, operations, tasks>>
         /\ \A k \in jobs' : k \in jobs \/
              /\ k \in Job /\ k.kind = j.kind /\ k.revision = j.revision /\ k.phase = j.phase
              /\ k.marks = j.marks /\ k.task = j.task /\ k.pause = j.pause
<1>1. PICK st \in {"write", "done", "failed"} : Become(j, st)
  BY DEF Persist, PersistFails, Expire
<1>2. UNCHANGED <<phase, hold, barrier, revision, operations, tasks>>
  BY DEF Persist, PersistFails, Expire, control
<1>. QED  BY <1>1, <1>2, BecomeJobs

LEMMA ControlTypesKept ==
  ASSUME IInv, [Next]_vars
  PROVE  ControlTypes' /\ Gate'
<1>0. ControlTypes /\ Gate
  BY TypesSplit DEF IInv
<1>1. Scalars' /\ Moves
  BY <1>0, ScalarsKept, NextMoves DEF Scalars, ControlTypes
<1>2. CASE Spawns
  <2>1. barrier' <= revision' /\ persisted' \in Nat /\ persisted' <= revision' /\ revision' \in Nat
    BY <1>0, <1>1, <1>2 DEF Spawns, Moves, ControlTypes, Scalars
  <2>2. ASSUME NEW j \in jobs'
        PROVE  j \in Job /\ j.revision <= revision'
    <3>1. CASE j \in jobs
      <4>1. j \in Job /\ j.revision <= revision /\ revision \in Nat /\ revision' \in Nat /\ revision <= revision'
        BY <1>0, <1>2, <3>1 DEF ControlTypes, Spawns
      <4>. QED  BY <4>1 DEF Job
    <3>2. CASE j \notin jobs
      BY <1>2, <3>2 DEF Spawns
    <3>. QED  BY <3>1, <3>2
  <2>3. disk' \in [revision : Nat, phase : Phases, marks : Nat] /\ disk'.revision = persisted'
    BY <1>0, <1>2 DEF Spawns, ControlTypes
  <2>. QED  BY <1>1, <2>1, <2>2, <2>3 DEF ControlTypes, Scalars
<1>3. ASSUME NEW j \in jobs, Persist(j) \/ PersistFails(j) \/ Expire(j)
      PROVE  ControlTypes'
  <2>1. jobs \subseteq Job /\ revision \in Nat /\ j \in Job /\ j.revision <= revision
    BY <1>0 DEF ControlTypes
  <2>2. UNCHANGED <<phase, hold, barrier, revision, operations, tasks>>
    BY <1>3, <2>1, WriteSteps
  <2>3. \A k \in jobs' : k \in Job /\ k.revision <= revision'
    BY <1>0, <1>3, <2>1, <2>2, WriteSteps DEF ControlTypes
  <2>4. \/ UNCHANGED <<persisted, disk>>
        \/ persisted' = j.revision /\ disk' = [revision |-> j.revision, phase |-> j.phase, marks |-> j.marks]
    BY <1>3 DEF Persist, PersistFails, Expire
  <2>5. persisted' \in Nat /\ persisted' <= revision'
    BY <1>0, <2>1, <2>2, <2>4 DEF ControlTypes, Job
  <2>6. disk' \in [revision : Nat, phase : Phases, marks : Nat] /\ disk'.revision = persisted'
    BY <1>0, <2>1, <2>4 DEF ControlTypes, Job
  <2>7. barrier' <= revision' /\ revision' \in Nat
    BY <1>0, <2>2 DEF ControlTypes
  <2>. QED  BY <1>1, <2>3, <2>5, <2>6, <2>7 DEF ControlTypes, Scalars
<1>4. Gate'
  BY <1>1 DEF Scalars
<1>. QED  BY <1>2, <1>3, <1>4, NextSpawns

\* The execution runs again only behind a durable running state.
LEMMA ResumedIsDurable ==
  ASSUME IInv, [Next]_vars, phase' = "running", phase # "running"
  PROVE  disk' = disk /\ persisted' = persisted /\ revision' = revision /\ persisted = revision /\ disk.phase = "running"
<1>0. ControlTypes /\ Snapshots
  BY TypesSplit DEF IInv
<1>1. PICK j \in jobs : FinishResume(j)
  BY <1>0, NextMoves DEF Moves, ControlTypes
<1>2. j.kind = "resume" /\ j.st = "done" /\ StillResuming(j)
  BY <1>1 DEF FinishResume
<1>3. Newest = {"running"}
  BY <1>2 DEF StillResuming, Newest, Uncontested, Over
<1>4. j \in Writers
  BY <1>2 DEF Writers
<1>5. j.revision <= persisted /\ j.revision = revision
  BY <1>0, <1>2, <1>4 DEF Snapshots, StillResuming
<1>6. persisted = revision
  BY <1>0, <1>5 DEF ControlTypes
<1>. QED  BY <1>0, <1>1, <1>3, <1>6 DEF FinishResume, store, Snapshots

LEMMA SnapshotsKept ==
  ASSUME IInv, [Next]_vars
  PROVE  Snapshots'
<1>0. ControlTypes /\ Snapshots
  BY TypesSplit DEF IInv
<1>a. /\ revision \in Nat /\ persisted \in Nat /\ persisted <= revision
      /\ \A j \in jobs : j \in Job /\ j.revision \in Nat /\ j.revision <= revision
  BY <1>0 DEF ControlTypes, Job
<1>1. CASE Spawns
  <2>1. persisted' = persisted /\ disk' = disk /\ revision' \in Nat /\ revision <= revision'
    BY <1>1 DEF Spawns
  <2>2. ASSUME NEW j \in Writers'
        PROVE  /\ j.st = "done" => j.revision <= persisted'
               /\ j.revision = revision' => j.phase \in Newest'
               /\ (phase' = "running" /\ j.revision > persisted') => j.phase = "running"
    <3>0. j \in jobs' /\ j.kind \notin {"deadline", "retry"}
      BY DEF Writers
    <3>1. CASE j \notin jobs
      BY <1>1, <3>0, <3>1 DEF Spawns
    <3>2. CASE j \in jobs
      <4>0. j \in Writers
        BY <3>0, <3>2 DEF Writers
      <4>1. j.st = "done" => j.revision <= persisted'
        BY <1>0, <2>1, <4>0 DEF Snapshots
      <4>2. ASSUME j.revision = revision'
            PROVE  j.phase \in Newest'
        <5>1. revision' = revision
          BY <1>a, <2>1, <3>2, <4>2
        <5>2. j.phase \in Newest
          BY <1>0, <4>0, <4>2, <5>1 DEF Snapshots
        <5>. QED  BY <1>1, <5>1, <5>2 DEF Spawns
      <4>3. ASSUME phase' = "running", j.revision > persisted'
            PROVE  j.phase = "running"
        <5>1. CASE phase = "running"
          BY <1>0, <2>1, <4>0, <4>3, <5>1 DEF Snapshots
        <5>2. CASE phase # "running"
          BY <1>a, <2>1, <3>2, <4>3, <5>2, ResumedIsDurable
        <5>. QED  BY <5>1, <5>2
      <4>. QED  BY <4>1, <4>2, <4>3
    <3>. QED  BY <3>1, <3>2
  <2>3. ASSUME persisted' = revision'
        PROVE  disk'.phase \in Newest'
    <3>1. revision' = revision /\ persisted = revision
      BY <1>a, <2>1, <2>3
    <3>2. disk.phase \in Newest
      BY <1>0, <3>1 DEF Snapshots
    <3>. QED  BY <1>1, <2>1, <3>1, <3>2 DEF Spawns
  <2>4. phase' = "running" => disk'.phase = "running"
    BY <1>0, <2>1, ResumedIsDurable DEF Snapshots
  <2>. QED  BY <2>2, <2>3, <2>4 DEF Snapshots
<1>2. ASSUME NEW j \in jobs, Persist(j) \/ PersistFails(j) \/ Expire(j)
      PROVE  Snapshots'
  <2>0. jobs \subseteq Job
    BY <1>a
  <2>1. UNCHANGED <<phase, barrier, revision, operations>>
    BY <1>2, <2>0, WriteSteps
  <2>2. \A k \in jobs' : k \in jobs \/
              /\ k \in Job /\ k.kind = j.kind /\ k.revision = j.revision /\ k.phase = j.phase
              /\ k.marks = j.marks /\ k.task = j.task /\ k.pause = j.pause
    BY <1>2, <2>0, WriteSteps
  <2>3. Newest \subseteq Newest'
    BY <2>1, <2>2 DEF Newest, Uncontested, Over
  <2>4. \/ UNCHANGED <<persisted, disk>>
        \/ /\ j \in Writers /\ persisted < j.revision /\ persisted' = j.revision
           /\ disk' = [revision |-> j.revision, phase |-> j.phase, marks |-> j.marks]
    <3>1. CASE Persist(j)
      BY <1>a, <3>1 DEF Persist, Writers, Outdated
    <3>2. CASE PersistFails(j) \/ Expire(j)
      BY <3>2 DEF PersistFails, Expire
    <3>. QED  BY <1>2, <3>1, <3>2
  <2>5. persisted' \in Nat /\ persisted <= persisted'
    BY <1>a, <2>4
  <2>6. ASSUME NEW k \in Writers'
        PROVE  /\ k.st = "done" => k.revision <= persisted'
               /\ k.revision = revision' => k.phase \in Newest'
               /\ (phase' = "running" /\ k.revision > persisted') => k.phase = "running"
    <3>0. k \in jobs' /\ k.kind \notin {"deadline", "retry"}
      BY DEF Writers
    <3>1. CASE k \in jobs
      <4>1. k \in Writers /\ k.revision \in Nat
        BY <1>a, <3>0, <3>1 DEF Writers
      <4>. QED  BY <1>0, <1>a, <2>1, <2>3, <2>5, <4>1 DEF Snapshots
    <3>2. CASE k \notin jobs
      <4>1. k.kind = j.kind /\ k.revision = j.revision /\ k.phase = j.phase
        BY <2>2, <3>0, <3>2
      <4>2. j \in Writers /\ j.revision \in Nat
        BY <1>a, <3>0, <4>1 DEF Writers
      <4>3. k.st = "done" => k.revision <= persisted'
        <5>1. CASE Persist(j)
          <6>1. j.revision <= persisted'
            BY <1>a, <4>2, <5>1 DEF Persist, Outdated, Writers
          <6>. QED  BY <4>1, <6>1
        <5>2. CASE PersistFails(j)
          BY <2>0, <3>0, <3>2, <5>2, BecomeJobs DEF PersistFails
        <5>3. CASE Expire(j)
          BY <4>2, <5>3 DEF Expire, Writers
        <5>. QED  BY <1>2, <5>1, <5>2, <5>3
      <4>. QED  BY <1>0, <1>a, <2>1, <2>3, <2>5, <4>1, <4>2, <4>3 DEF Snapshots
    <3>. QED  BY <3>1, <3>2
  <2>7. ASSUME persisted' = revision'
        PROVE  disk'.phase \in Newest'
    BY <1>0, <2>1, <2>3, <2>4, <2>7 DEF Snapshots
  <2>8. phase' = "running" => disk'.phase = "running"
    BY <1>0, <2>1, <2>4 DEF Snapshots
  <2>. QED  BY <2>6, <2>7, <2>8 DEF Snapshots
<1>. QED  BY <1>1, <1>2, NextSpawns

-----------------------------------------------------------------------------
\* Refreshing the waiters moves nobody.
LEMMA RefreshPlaces ==
  ASSUME TaskTypes, Places, Over => Over', NEW b, RefreshWaiters(waiter, b),
         UNCHANGED <<setting, run, context, waiter, marked>>
  PROVE  Places'
<1>1. \A t \in Tasks : participant'[t] = IF t \in waiter /\ participant[t] # "none" THEN "safe" ELSE participant[t]
  BY DEF RefreshWaiters, MarkSafe
<1>2. \A t \in Tasks : activity'[t] # "none" => activity[t] # "none"
  BY DEF RefreshWaiters, MarkBlocked, TaskTypes
<1>3. ASSUME NEW t \in Tasks
      PROVE  /\ run'[t] # "absent" => t \in setting'.tasks
             /\ t \in waiter' => run'[t] = "wait"
             /\ run'[t] \in {"gate", "wait"} => participant'[t] # "none"
             /\ activity'[t] # "none" => run'[t] # "absent" /\ t \in context'[t]
             /\ ~Over' => (participant'[t] = "safe" => run'[t] \in {"gate", "absent"} \/ t \in waiter')
  BY <1>1, <1>2 DEF Places
<1>. QED  BY <1>3 DEF Places

LEMMA EndPlaces ==
  ASSUME TaskTypes, Places, Over => Over', NEW t \in Tasks, run[t] \in {"run", "mark"}, NEW js, EndActivity(t, js)
  PROVE  Places'
<1>1. \A u \in Tasks : participant'[u] = IF u \in Handoff(t) /\ participant[u] # "none" THEN "unsafe" ELSE participant[u]
  BY DEF EndActivity, MarkSafe
<1>2. /\ activity' = [activity EXCEPT ![t] = "none"] /\ context' = [u \in Tasks |-> context[u] \ {t}]
      /\ run' = [run EXCEPT ![t] = "run"] /\ setting' = setting
      /\ waiter' = {w \in waiter : w \notin Handoff(t)}
  BY DEF EndActivity
<1>3. ASSUME NEW u \in Tasks
      PROVE  /\ run'[u] # "absent" => u \in setting'.tasks
             /\ u \in waiter' => run'[u] = "wait"
             /\ run'[u] \in {"gate", "wait"} => participant'[u] # "none"
             /\ activity'[u] # "none" => run'[u] # "absent" /\ u \in context'[u]
             /\ ~Over' => (participant'[u] = "safe" => run'[u] \in {"gate", "absent"} \/ u \in waiter')
  <2>1. /\ run[u] # "absent" => u \in setting.tasks
        /\ u \in waiter => run[u] = "wait"
        /\ run[u] \in {"gate", "wait"} => participant[u] # "none"
        /\ activity[u] # "none" => run[u] # "absent" /\ u \in context[u]
        /\ ~Over' => (participant[u] = "safe" => run[u] \in {"gate", "absent"} \/ u \in waiter)
    BY DEF Places
  <2>2. CASE u = t
    BY <1>1, <1>2, <2>1, <2>2 DEF TaskTypes
  <2>3. CASE u # t
    BY <1>1, <1>2, <2>1, <2>3 DEF TaskTypes
  <2>. QED  BY <2>2, <2>3
<1>. QED  BY <1>3 DEF Places

LEMMA PlacesKept ==
  ASSUME IInv, [Next]_vars
  PROVE  Places'
<1>0. TaskTypes /\ ControlTypes /\ Places /\ Markers /\ setting \in Settings
  BY TypesSplit DEF IInv, ControlTypes
<1>a. Over => Over'
  BY <1>0, NextMoves DEF Moves, ControlTypes
<1>b. ASSUME UNCHANGED <<setting, tasks>>
      PROVE  Places'
  <2>1. UNCHANGED <<setting, run, participant, activity, context, waiter>>
    BY <1>b DEF tasks
  <2>. QED  BY <1>0, <1>a, <2>1 DEF Places
<1>1. CASE Pause \/ Resume
  BY <1>0, <1>1, <1>a, RefreshPlaces DEF Pause, Resume
<1>2. CASE RetryPause \/ ResumeTooLate \/ RetryResume \/ Terminate \/ \E p \in 1..setting.pauses : TerminateTimedOut(p)
  BY <1>2, <1>b DEF RetryPause, ResumeTooLate, RetryResume, Terminate, TerminateTimedOut, ClaimTermination
<1>3. ASSUME NEW t \in Tasks, t \in setting.tasks, TaskStep(t)
      PROVE  Places'
  <2>0. ASSUME NEW u \in Tasks
        PROVE  /\ run[u] # "absent" => u \in setting.tasks
               /\ u \in waiter => run[u] = "wait"
               /\ run[u] \in {"gate", "wait"} => participant[u] # "none"
               /\ activity[u] # "none" => run[u] # "absent" /\ u \in context[u]
               /\ ~Over' => (participant[u] = "safe" => run[u] \in {"gate", "absent"} \/ u \in waiter)
    BY <1>0, <1>a DEF Places
  <2>a. SUFFICES ASSUME NEW u \in Tasks
        PROVE  /\ run'[u] # "absent" => u \in setting'.tasks
               /\ u \in waiter' => run'[u] = "wait"
               /\ run'[u] \in {"gate", "wait"} => participant'[u] # "none"
               /\ activity'[u] # "none" => run'[u] # "absent" /\ u \in context'[u]
               /\ ~Over' => (participant'[u] = "safe" => run'[u] \in {"gate", "absent"} \/ u \in waiter')
    BY DEF Places
  <2>1. ASSUME NEW registered \in BOOLEAN, Start(t, registered)
        PROVE  /\ run'[u] # "absent" => u \in setting'.tasks
               /\ u \in waiter' => run'[u] = "wait"
               /\ run'[u] \in {"gate", "wait"} => participant'[u] # "none"
               /\ activity'[u] # "none" => run'[u] # "absent" /\ u \in context'[u]
               /\ ~Over' => (participant'[u] = "safe" => run'[u] \in {"gate", "absent"} \/ u \in waiter')
    BY <1>0, <1>3, <2>0, <2>1 DEF Start, TaskTypes
  <2>2. CASE Checkpoint(t)
    <3>1. activity'[u] # "none" => activity[u] # "none"
      BY <2>2 DEF Checkpoint, MarkBlocked
    <3>. QED  BY <1>0, <1>3, <2>0, <2>2, <3>1 DEF Checkpoint, TaskTypes, Nests
  <2>3. CASE LeaveGate(t)
    <3>1. activity'[u] # "none" => activity[u] # "none"
      BY <2>3 DEF LeaveGate, MarkBlocked
    <3>2. /\ participant'[u] = "none" => participant[u] = "none"
          /\ ~Over' => participant'[u] = IF u = t /\ participant[u] # "none" THEN "unsafe" ELSE participant[u]
      BY <1>a, <2>3 DEF LeaveGate, MarkSafe
    <3>. QED  BY <1>0, <1>3, <2>0, <2>3, <3>1, <3>2 DEF LeaveGate, TaskTypes
  <2>4. CASE End(t)
    <3>1. Places'
      BY <1>0, <1>a, <2>4, EndPlaces DEF End
    <3>. QED  BY <3>1 DEF Places
  <2>5. CASE BeginWait(t)
    <3>1. activity'[u] # "none" => activity[u] # "none"
      BY <2>5 DEF BeginWait, MarkBlocked
    <3>. QED  BY <1>0, <1>3, <2>0, <2>5, <3>1 DEF BeginWait, TaskTypes, Nests
  <2>6. CASE EndWait(t)
    <3>1. activity'[u] # "none" => activity[u] # "none"
      BY <2>6 DEF EndWait, MarkBlocked
    <3>2. /\ participant'[u] = "none" => participant[u] = "none"
          /\ participant'[u] = "safe" => participant[u] = "safe" \/ u \in waiter'
          /\ u = t /\ t \in waiter => participant'[u] # "safe"
      <4>1. CASE t \in waiter
        <5>1. participant' = [MarkSafe(waiter', "safe") EXCEPT ![t] = IF @ = "none" THEN @ ELSE "unsafe"]
          BY <2>6, <4>1 DEF EndWait
        <5>. QED  BY <5>1 DEF MarkSafe
      <4>2. CASE t \notin waiter
        BY <2>6, <4>2 DEF EndWait
      <4>. QED  BY <4>1, <4>2
    <3>. QED  BY <1>0, <1>3, <2>0, <2>6, <3>1, <3>2 DEF EndWait, TaskTypes
  <2>7. CASE BeginActivity(t)
    BY <1>0, <1>3, <2>0, <2>7 DEF BeginActivity, TaskTypes
  <2>8. CASE BeginSubprocess(t)
    BY <1>0, <1>3, <2>0, <2>8 DEF BeginSubprocess, AwaitMarker, TaskTypes
  <2>9. CASE RecordOperation(t)
    BY <1>0, <1>3, <2>0, <2>9 DEF RecordOperation, TaskTypes
  <2>10. CASE Finish(t)
    BY <1>0, <1>3, <2>0, <2>10 DEF Finish, TaskTypes
  <2>11. CASE RemoveFinished(t)
    BY <1>0, <1>3, <2>0, <2>11 DEF RemoveFinished, TaskTypes
  <2>. QED  BY <1>3, <2>1, <2>2, <2>3, <2>4, <2>5, <2>6, <2>7, <2>8, <2>9, <2>10, <2>11 DEF TaskStep
<1>4. ASSUME NEW j \in jobs, JobStep(j)
      PROVE  Places'
  <2>1. CASE Persist(j) \/ PersistFails(j) \/ Expire(j)
    BY <2>1, <1>b DEF Persist, PersistFails, Expire
  <2>2. CASE FinishPause(j) \/ FinishRetry(j)
    BY <2>2, <1>b DEF FinishPause, FinishRetry
  <2>3. CASE FinishResume(j)
    <3>1. CASE j.st = "done" /\ StillResuming(j)
      BY <1>0, <1>a, <2>3, <3>1, RefreshPlaces DEF FinishResume
    <3>2. CASE ~(j.st = "done" /\ StillResuming(j))
      BY <1>b, <2>3, <3>2 DEF FinishResume, tasks
    <3>. QED  BY <3>1, <3>2
  <2>5. CASE Deadline(j)
    BY <2>5, <1>b DEF Deadline, ClaimTermination
  <2>6. ASSUME NEW t \in Tasks, FinishOperation(t, j) \/ Marked(t, j)
        PROVE  Places'
    <3>1. run[t] \in {"record", "mark"}
      BY <1>0, <2>6 DEF Markers, Awaited, FinishOperation, Marked, Marking
    <3>2. UNCHANGED <<setting, participant, activity, context, waiter>> /\ run' = [run EXCEPT ![t] = "run"]
      BY <2>6 DEF FinishOperation, Marked
    <3>. QED  BY <1>0, <1>a, <3>1, <3>2 DEF Places, TaskTypes
  <2>7. ASSUME NEW t \in Tasks, MarkFails(t, j)
        PROVE  Places'
    <3>1. run[t] = "mark"
      BY <1>0, <2>7 DEF Markers, Awaited, MarkFails, Marking
    <3>. QED  BY <1>0, <1>a, <2>7, <3>1, EndPlaces DEF MarkFails
  <2>. QED  BY <1>4, <2>1, <2>2, <2>3, <2>5, <2>6, <2>7 DEF JobStep, Continue
<1>5. CASE UNCHANGED vars
  BY <1>5, <1>b DEF vars
<1>. QED  BY <1>0, <1>1, <1>2, <1>3, <1>4, <1>5, Cases

-----------------------------------------------------------------------------
\* A leaf is inside its own activity only.
LEMMA LeafInside ==
  ASSUME TaskTypes, Leaves, NEW l \in Tasks, Leaf(l), NEW ts \in SUBSET Tasks, l \in Inside(ts)
  PROVE  l \in ts
BY DEF Leaves, Inside

LEMMA RefreshLeaves ==
  ASSUME TaskTypes, Places, Leaves, Over => Over', NEW b, RefreshWaiters(waiter, b),
         UNCHANGED <<setting, run, context, waiter>>
  PROVE  Leaves'
<1>1. SUFFICES ASSUME NEW l \in Tasks, Leaf(l), ~Over', activity'[l] = "blocked"
               PROVE  run'[l] \in {"gate", "wait"} \/ participant'[l] = "unsafe"
  BY DEF Leaves, Leaf
<1>2. CASE l \in waiter
  BY <1>2 DEF Places
<1>3. CASE l \notin waiter
  <2>1. l \notin Inside(waiter)
    BY <1>1, <1>3, LeafInside DEF TaskTypes
  <2>2. activity'[l] = activity[l] /\ participant'[l] = participant[l]
    BY <1>3, <2>1 DEF RefreshWaiters, MarkBlocked, MarkSafe
  <2>. QED  BY <1>1, <2>2 DEF Leaves
<1>. QED  BY <1>2, <1>3

LEMMA EndLeaves ==
  ASSUME TaskTypes, Places, Leaves, Over => Over', NEW t \in Tasks, t \in setting.tasks,
         run[t] \in {"run", "mark"}, NEW js, EndActivity(t, js)
  PROVE  Leaves'
<1>2. /\ activity' = [activity EXCEPT ![t] = "none"] /\ context' = [u \in Tasks |-> context[u] \ {t}]
      /\ run' = [run EXCEPT ![t] = "run"] /\ setting' = setting
      /\ waiter' = {w \in waiter : w \notin Handoff(t)} /\ participant' = MarkSafe(Handoff(t), "unsafe")
  BY DEF EndActivity
<1>3. ASSUME NEW l \in Tasks, Leaf(l)
      PROVE  /\ \A u \in Tasks : l \in context'[u] => u = l
             /\ run'[l] = "wait" => l \in waiter'
             /\ (~Over' /\ activity'[l] = "blocked") => run'[l] \in {"gate", "wait"} \/ participant'[l] = "unsafe"
  <2>1. l \notin Handoff(t)
    BY <1>3 DEF Leaf, Handoff
  <2>2. participant'[l] = participant[l]
    BY <1>2, <2>1 DEF MarkSafe
  <2>3. /\ \A u \in Tasks : l \in context[u] => u = l
        /\ run[l] = "wait" => l \in waiter
        /\ (~Over' /\ activity[l] = "blocked") => run[l] \in {"gate", "wait"} \/ participant[l] = "unsafe"
    BY <1>3 DEF Leaves
  <2>. QED  BY <1>2, <2>1, <2>2, <2>3 DEF TaskTypes
<1>4. \A l \in Tasks : Leaf(l)' => Leaf(l)
  BY <1>2 DEF Leaf
<1>. QED  BY <1>3, <1>4 DEF Leaves

LEMMA LeavesKept ==
  ASSUME IInv, [Next]_vars
  PROVE  Leaves'
<1>0. TaskTypes /\ ControlTypes /\ Places /\ Leaves /\ Markers /\ setting \in Settings
  BY TypesSplit DEF IInv, ControlTypes
<1>a. Over => Over'
  BY <1>0, NextMoves DEF Moves, ControlTypes
<1>b. ASSUME UNCHANGED <<setting, tasks>>
      PROVE  Leaves'
  <2>1. UNCHANGED <<setting, run, participant, activity, context, waiter>>
    BY <1>b DEF tasks
  <2>. QED  BY <1>0, <1>a, <2>1 DEF Leaves, Leaf
<1>1. CASE Pause \/ Resume
  BY <1>0, <1>1, <1>a, RefreshLeaves DEF Pause, Resume
<1>2. CASE RetryPause \/ ResumeTooLate \/ RetryResume \/ Terminate \/ \E p \in 1..setting.pauses : TerminateTimedOut(p)
  BY <1>2, <1>b DEF RetryPause, ResumeTooLate, RetryResume, Terminate, TerminateTimedOut, ClaimTermination
<1>3. ASSUME NEW t \in Tasks, t \in setting.tasks, TaskStep(t)
      PROVE  Leaves'
  <2>a. CASE End(t)
    BY <1>0, <1>3, <1>a, <2>a, EndLeaves DEF End
  <2>b. SUFFICES ASSUME ~End(t), NEW l \in Tasks, Leaf(l)
        PROVE  /\ \A u \in Tasks : l \in context'[u] => u = l
               /\ run'[l] = "wait" => l \in waiter'
               /\ (~Over' /\ activity'[l] = "blocked") => run'[l] \in {"gate", "wait"} \/ participant'[l] = "unsafe"
    <3>1. ~End(t) => setting' = setting
      BY <1>3 DEF TaskStep, Start, Checkpoint, LeaveGate, BeginWait, EndWait, BeginActivity, BeginSubprocess,
                  RecordOperation, Finish, RemoveFinished
    <3>. QED  BY <2>a, <3>1 DEF Leaves, Leaf
  <2>0. /\ \A u \in Tasks : l \in context[u] => u = l
        /\ run[l] = "wait" => l \in waiter
        /\ (~Over' /\ activity[l] = "blocked") => run[l] \in {"gate", "wait"} \/ participant[l] = "unsafe"
        /\ l \in waiter => run[l] = "wait"
        /\ run[l] \in {"gate", "wait"} => participant[l] # "none"
        /\ activity[l] # "none" => run[l] # "absent" /\ l \in context[l]
    BY <1>0, <1>a, <2>b DEF Leaves, Places
  <2>c. \A b \in BOOLEAN : l # t => MarkBlocked(context[t], b)[l] = activity[l]
    BY <2>0 DEF MarkBlocked
  <2>1. ASSUME NEW registered \in BOOLEAN, Start(t, registered)
        PROVE  /\ \A u \in Tasks : l \in context'[u] => u = l
               /\ run'[l] = "wait" => l \in waiter'
               /\ (~Over' /\ activity'[l] = "blocked") => run'[l] \in {"gate", "wait"} \/ participant'[l] = "unsafe"
    <3>1. Parent[t] = l => t = l
      BY <1>3, <2>b DEF Leaf
    <3>2. \A u \in Tasks : l \in context'[u] => u = l
      BY <1>0, <2>0, <2>1, <3>1, ExecutionAssumption DEF Start, TaskTypes
    <3>3. l = t => activity[l] = "none"
      BY <2>0, <2>1 DEF Start
    <3>. QED  BY <1>0, <2>0, <2>1, <3>2, <3>3 DEF Start, TaskTypes
  <2>2. CASE Checkpoint(t)
    <3>1. l = t /\ ~Held => activity'[l] # "blocked"
      BY <1>0, <2>0, <2>2 DEF Checkpoint, MarkBlocked, TaskTypes
    <3>2. Held \in BOOLEAN
      BY <1>0 DEF Held, ControlTypes
    <3>3. l # t => activity'[l] = activity[l]
      BY <2>2, <2>c, <3>2 DEF Checkpoint
    <3>. QED  BY <1>0, <2>0, <2>2, <3>1, <3>3 DEF Checkpoint, TaskTypes, Nests
  <2>3. CASE LeaveGate(t)
    <3>1. l = t /\ ~Over => activity'[l] # "blocked"
      BY <1>0, <2>0, <2>3 DEF LeaveGate, MarkBlocked, TaskTypes
    <3>2. l # t => activity'[l] = activity[l] /\ participant'[l] = participant[l]
      BY <2>3, <2>c DEF LeaveGate, MarkSafe
    <3>. QED  BY <1>0, <1>a, <2>0, <2>3, <3>1, <3>2 DEF LeaveGate, TaskTypes
  <2>5. CASE BeginWait(t)
    <3>1. l # t => activity'[l] = activity[l]
      BY <2>5, <2>c DEF BeginWait
    <3>. QED  BY <1>0, <2>0, <2>5, <3>1 DEF BeginWait, TaskTypes, Nests
  <2>6. CASE EndWait(t)
    <3>0. waiter' = waiter \ {t} /\ run' = [run EXCEPT ![t] = "run"] /\ context' = context /\ run[t] = "wait"
      BY <2>6 DEF EndWait
    <3>1. CASE l = t
      <4>1. t \in waiter /\ participant[t] # "none"
        BY <2>0, <3>0, <3>1
      <4>2. participant' = [MarkSafe(waiter', "safe") EXCEPT ![t] = IF @ = "none" THEN @ ELSE "unsafe"]
        BY <2>6, <4>1 DEF EndWait
      <4>3. participant'[l] = "unsafe"
        BY <3>0, <3>1, <4>1, <4>2 DEF MarkSafe
      <4>. QED  BY <1>0, <2>0, <3>0, <3>1, <4>3 DEF TaskTypes
    <3>2. CASE l # t /\ l \in waiter
      <4>1. run'[l] = "wait" /\ l \in waiter'
        BY <1>0, <2>0, <3>0, <3>2 DEF TaskTypes
      <4>. QED  BY <2>0, <3>0, <4>1
    <3>3. CASE l # t /\ l \notin waiter
      <4>1. waiter' \in SUBSET Tasks /\ l \notin waiter'
        BY <1>0, <3>0, <3>3 DEF TaskTypes
      <4>2. l \notin Inside(waiter')
        BY <1>0, <2>b, <4>1, LeafInside
      <4>3. PICK released \in SUBSET Tasks : released = IF Held THEN {} ELSE context[t]
        BY <1>0 DEF TaskTypes
      <4>4. l \notin released
        BY <2>0, <3>3, <4>3
      <4>5. activity'[l] = activity[l]
        <5>1. CASE t \in waiter
          <6>1. activity' = [u \in Tasks |-> IF u \in Inside(waiter') THEN MarkBlocked({u}, Held)[u]
                                             ELSE MarkBlocked(released, FALSE)[u]]
            BY <2>6, <4>3, <5>1 DEF EndWait
          <6>2. activity'[l] = MarkBlocked(released, FALSE)[l]
            BY <4>2, <6>1
          <6>. QED  BY <4>4, <6>2 DEF MarkBlocked
        <5>2. CASE t \notin waiter
          BY <2>6, <5>2 DEF EndWait
        <5>. QED  BY <5>1, <5>2
      <4>6. participant'[l] = participant[l]
        BY <2>6, <3>3, <4>1 DEF EndWait, MarkSafe
      <4>7. run'[l] = run[l]
        BY <1>0, <3>0, <3>3 DEF TaskTypes
      <4>. QED  BY <2>0, <3>0, <3>3, <4>5, <4>6, <4>7
    <3>. QED  BY <3>1, <3>2, <3>3
  <2>7. CASE BeginActivity(t)
    BY <1>0, <2>0, <2>7 DEF BeginActivity, TaskTypes
  <2>8. CASE BeginSubprocess(t)
    BY <1>0, <2>0, <2>8 DEF BeginSubprocess, AwaitMarker, TaskTypes
  <2>9. CASE RecordOperation(t)
    BY <1>0, <2>0, <2>9 DEF RecordOperation, TaskTypes
  <2>10. CASE Finish(t)
    BY <1>0, <2>0, <2>10 DEF Finish, TaskTypes
  <2>11. CASE RemoveFinished(t)
    BY <1>0, <2>0, <2>11 DEF RemoveFinished, TaskTypes
  <2>. QED  BY <1>3, <2>b, <2>1, <2>2, <2>3, <2>5, <2>6, <2>7, <2>8, <2>9, <2>10, <2>11 DEF TaskStep
<1>4. ASSUME NEW j \in jobs, JobStep(j)
      PROVE  Leaves'
  <2>1. CASE Persist(j) \/ PersistFails(j) \/ Expire(j)
    BY <2>1, <1>b DEF Persist, PersistFails, Expire
  <2>2. CASE FinishPause(j) \/ FinishRetry(j)
    BY <2>2, <1>b DEF FinishPause, FinishRetry
  <2>3. CASE FinishResume(j)
    <3>1. CASE j.st = "done" /\ StillResuming(j)
      BY <1>0, <1>a, <2>3, <3>1, RefreshLeaves DEF FinishResume
    <3>2. CASE ~(j.st = "done" /\ StillResuming(j))
      BY <1>b, <2>3, <3>2 DEF FinishResume, tasks
    <3>. QED  BY <3>1, <3>2
  <2>5. CASE Deadline(j)
    BY <2>5, <1>b DEF Deadline, ClaimTermination
  <2>6. ASSUME NEW t \in Tasks, FinishOperation(t, j) \/ Marked(t, j)
        PROVE  Leaves'
    <3>1. run[t] \in {"record", "mark"}
      BY <1>0, <2>6 DEF Markers, Awaited, FinishOperation, Marked, Marking
    <3>2. UNCHANGED <<setting, participant, activity, context, waiter>> /\ run' = [run EXCEPT ![t] = "run"]
      BY <2>6 DEF FinishOperation, Marked
    <3>. QED  BY <1>0, <1>a, <3>1, <3>2 DEF Leaves, Leaf, TaskTypes
  <2>7. ASSUME NEW t \in Tasks, MarkFails(t, j)
        PROVE  Leaves'
    <3>1. run[t] = "mark" /\ t \in setting.tasks
      BY <1>0, <2>7 DEF Markers, Awaited, MarkFails, Marking, Places
    <3>. QED  BY <1>0, <1>a, <2>7, <3>1, EndLeaves DEF MarkFails
  <2>. QED  BY <1>4, <2>1, <2>2, <2>3, <2>5, <2>6, <2>7 DEF JobStep, Continue
<1>5. CASE UNCHANGED vars
  BY <1>5, <1>b DEF vars
<1>. QED  BY <1>0, <1>1, <1>2, <1>3, <1>4, <1>5, Cases

-----------------------------------------------------------------------------
LEMMA CommittingKept ==
  ASSUME IInv, [Next]_vars
  PROVE  Committing'
<1>0. TaskTypes /\ ControlTypes /\ Gate /\ Committing /\ setting \in Settings
  BY TypesSplit DEF IInv, ControlTypes
<1>1. SUFFICES ASSUME phase' = "pause_committing"
               PROVE  Quiet'
  BY DEF Committing
<1>a. ASSUME NEW r, NEW js, InvalidatePauseCommit(phase, r, js) \/ Recheck(phase, r, js), hold' = hold
      PROVE  Quiet'
  BY <1>0, <1>1, <1>a DEF InvalidatePauseCommit, Recheck, SchedulePauseCommit, Gate, PausePhases
<1>b. ASSUME phase = "pause_committing"
      PROVE  hold /\ Held /\ Quiet /\ ~Over
  BY <1>0, <1>b DEF Gate, Held, Committing, PausePhases, Over
<1>c. ASSUME NEW p, NEW r, NEW js, SchedulePauseCommit(p, r, js), ~Quiet'
      PROVE  p = "pause_committing"
  BY <1>1, <1>c DEF SchedulePauseCommit
<1>d. ASSUME phase = "pause_committing", UNCHANGED <<participant, activity>>
      PROVE  Quiet'
  BY <1>b, <1>d DEF Quiet
<1>2. CASE Pause
  BY <1>2, <1>c DEF Pause
<1>3. CASE RetryPause \/ RetryResume
  BY <1>1, <1>3, <1>d DEF RetryPause, RetryResume, tasks
<1>4. CASE Resume \/ ResumeTooLate \/ Terminate \/ \E p \in 1..setting.pauses : TerminateTimedOut(p)
  BY <1>1, <1>4 DEF Resume, ResumeTooLate, Terminate, TerminateTimedOut, ClaimTermination
<1>5. ASSUME NEW t \in Tasks, TaskStep(t)
      PROVE  Quiet'
  <2>1. ASSUME NEW registered \in BOOLEAN, Start(t, registered)
        PROVE  Quiet'
    <3>1. CASE registered
      BY <1>a, <2>1, <3>1 DEF Start, fences
    <3>2. CASE ~registered
      <4>1. phase' = phase /\ participant' = [participant EXCEPT ![t] = "none"] /\ activity' = activity
        BY <2>1, <3>2 DEF Start
      <4>. QED  BY <1>0, <1>1, <1>b, <4>1 DEF Quiet, TaskTypes
    <3>. QED  BY <3>1, <3>2
  <2>2. CASE Checkpoint(t)
    <3>1. CASE phase = "pause_committing"
      <4>1. participant' = [participant EXCEPT ![t] = "safe"] /\ activity' = MarkBlocked(context[t], TRUE)
        BY <1>b, <2>2, <3>1 DEF Checkpoint
      <4>. QED  BY <1>0, <1>b, <3>1, <4>1 DEF Quiet, MarkBlocked, TaskTypes
    <3>2. CASE phase # "pause_committing"
      BY <1>1, <1>c, <2>2, <3>2 DEF Checkpoint
    <3>. QED  BY <3>1, <3>2
  <2>3. CASE LeaveGate(t)
    BY <1>1, <1>b, <2>3 DEF LeaveGate, control
  <2>4. CASE End(t)
    BY <1>a, <2>4 DEF End, EndActivity, fences
  <2>5. CASE BeginWait(t)
    <3>1. CASE phase = "pause_committing"
      <4>1. participant' = [participant EXCEPT ![t] = "safe"] /\ activity' = MarkBlocked(context[t], TRUE)
        BY <1>b, <2>5, <3>1 DEF BeginWait
      <4>. QED  BY <1>0, <1>b, <3>1, <4>1 DEF Quiet, MarkBlocked, TaskTypes
    <3>2. CASE phase # "pause_committing"
      BY <1>1, <1>c, <2>5, <3>2 DEF BeginWait
    <3>. QED  BY <3>1, <3>2
  <2>6. CASE EndWait(t)
    <3>1. CASE t \in waiter
      BY <1>a, <2>6, <3>1 DEF EndWait, WaitOver, fences
    <3>2. CASE t \notin waiter
      BY <1>1, <1>d, <2>6, <3>2 DEF EndWait
    <3>. QED  BY <3>1, <3>2
  <2>7. CASE BeginActivity(t)
    BY <1>a, <2>7 DEF BeginActivity, fences
  <2>8. CASE BeginSubprocess(t)
    BY <1>a, <2>8 DEF BeginSubprocess, fences
  <2>9. CASE RecordOperation(t)
    BY <1>1, <1>d, <2>9 DEF RecordOperation
  <2>10. CASE Finish(t) \/ RemoveFinished(t)
    <3>1. CASE phase = "pause_committing"
      <4>1. activity' = activity /\ (participant' = participant \/ participant' = [participant EXCEPT ![t] = "none"])
        BY <2>10 DEF Finish, RemoveFinished
      <4>. QED  BY <1>0, <1>b, <3>1, <4>1 DEF Quiet, TaskTypes
    <3>2. CASE phase # "pause_committing"
      BY <1>1, <1>c, <2>10, <3>2 DEF Finish, RemoveFinished
    <3>. QED  BY <3>1, <3>2
  <2>. QED  BY <1>5, <2>1, <2>2, <2>3, <2>4, <2>5, <2>6, <2>7, <2>8, <2>9, <2>10 DEF TaskStep
<1>6. ASSUME NEW j \in jobs, JobStep(j)
      PROVE  Quiet'
  <2>1. CASE Persist(j) \/ PersistFails(j) \/ Expire(j)
    BY <1>1, <1>d, <2>1 DEF Persist, PersistFails, Expire, control, tasks
  <2>2. CASE FinishPause(j) \/ FinishRetry(j)
    BY <1>1, <1>d, <2>2 DEF FinishPause, FinishRetry, tasks
  <2>3. CASE FinishResume(j)
    BY <1>1, <1>d, <2>3 DEF FinishResume
  <2>5. CASE Deadline(j)
    BY <1>1, <1>d, <2>5 DEF Deadline, ClaimTermination, control, tasks
  <2>6. ASSUME NEW t \in Tasks, FinishOperation(t, j) \/ Marked(t, j)
        PROVE  Quiet'
    BY <1>1, <1>d, <2>6 DEF FinishOperation, Marked, control
  <2>7. ASSUME NEW t \in Tasks, MarkFails(t, j)
        PROVE  Quiet'
    BY <1>a, <2>7 DEF MarkFails, EndActivity, fences
  <2>. QED  BY <1>6, <2>1, <2>2, <2>3, <2>5, <2>6, <2>7 DEF JobStep, Continue
<1>7. CASE UNCHANGED vars
  BY <1>1, <1>7, <1>d DEF vars, control, tasks
<1>. QED  BY <1>0, <1>2, <1>3, <1>4, <1>5, <1>6, <1>7, Cases

-----------------------------------------------------------------------------
\* A subprocess that is counted from some revision on stays counted.
LEMMA CountedUp ==
  ASSUME ControlTypes, NEW r \in Nat, NEW s \in Nat, r <= s, Counted(r)
  PROVE  Counted(s)
<1>1. persisted \in Nat /\ \A j \in Writers : j.revision \in Nat
  BY DEF ControlTypes, Writers, Job
<1>. QED  BY <1>1 DEF Counted

LEMMA CountedUpNext ==
  ASSUME ControlTypes', NEW r \in Nat, NEW s \in Nat, r <= s, Counted(r)'
  PROVE  Counted(s)'
<1>1. persisted' \in Nat /\ \A j \in Writers' : j.revision \in Nat
  BY DEF ControlTypes, Writers, Job
<1>. QED  BY <1>1 DEF Counted

LEMMA CountedStep ==
  ASSUME IInv, [Next]_vars, NEW r \in Nat, Counted(r), marked' # {}
  PROVE  Counted(r)' /\ persisted <= persisted'
<1>0. ControlTypes
  BY TypesSplit DEF IInv
<1>a. persisted \in Nat /\ jobs \subseteq Job /\ \A j \in jobs : j.revision \in Nat
  BY <1>0 DEF ControlTypes, Job
<1>1. CASE Spawns
  <2>1. persisted' = persisted /\ disk' = disk
    BY <1>1 DEF Spawns
  <2>2. \A j \in Writers' : j.revision >= r => j.marks > 0
    BY <1>1 DEF Spawns, Writers, Counted
  <2>. QED  BY <1>a, <2>1, <2>2 DEF Counted
<1>2. ASSUME NEW j \in jobs, Persist(j) \/ PersistFails(j) \/ Expire(j)
      PROVE  Counted(r)' /\ persisted <= persisted'
  <2>1. \A k \in jobs' : k \in jobs \/
              /\ k \in Job /\ k.kind = j.kind /\ k.revision = j.revision /\ k.phase = j.phase
              /\ k.marks = j.marks /\ k.task = j.task /\ k.pause = j.pause
    BY <1>2, <1>a, WriteSteps
  <2>2. \A k \in Writers' : k.revision >= r => k.marks > 0
    BY <2>1 DEF Writers, Counted
  <2>3. \/ UNCHANGED <<persisted, disk>>
        \/ /\ j \in Writers /\ persisted < j.revision /\ persisted' = j.revision
           /\ disk' = [revision |-> j.revision, phase |-> j.phase, marks |-> j.marks]
    <3>1. CASE Persist(j)
      BY <1>a, <3>1 DEF Persist, Writers, Outdated
    <3>2. CASE PersistFails(j) \/ Expire(j)
      BY <3>2 DEF PersistFails, Expire
    <3>. QED  BY <1>2, <3>1, <3>2
  <2>4. persisted' >= r => disk'.marks > 0
    BY <2>3 DEF Counted
  <2>5. persisted <= persisted'
    BY <1>a, <2>3
  <2>. QED  BY <2>2, <2>4, <2>5 DEF Counted
<1>. QED  BY <1>1, <1>2, NextSpawns

\* What is written counts a marked tool before and after a step.
LEMMA CountedPersisted ==
  ASSUME IInv, [Next]_vars, Counted(persisted), marked' # {}
  PROVE  Counted(persisted)'
<1>1. ControlTypes /\ ControlTypes'
  BY TypesSplit, ControlTypesKept DEF IInv
<1>2. PICK r \in Nat : r = persisted
  BY <1>1 DEF ControlTypes
<1>3. PICK s \in Nat : s = persisted'
  BY <1>1 DEF ControlTypes
<1>4. Counted(r)
  BY <1>2
<1>5. Counted(r)' /\ r <= s
  BY <1>2, <1>3, <1>4, CountedStep
<1>6. Counted(s)'
  BY <1>1, <1>5, CountedUpNext
<1>. QED  BY <1>3, <1>6 DEF Counted

\* Looking at the pause again spawns nothing a task waits for.
LEMMA SettleAwaited ==
  ASSUME NEW p, NEW r, NEW js, Settle(p, r, js)
  PROVE  Awaited' = {j \in js : j.kind \in {"mark", "operation"}}
<1>1. PauseJob(r + 1).kind = "pause" /\ Write("persist", r + 1, "pausing", Marks').kind = "persist"
  BY DEF PauseJob, Write
<1>. QED  BY <1>1 DEF Settle, Awaited

\* A marked tool that does not move and keeps its marker stays counted.
LEMMA StaysCounted ==
  ASSUME IInv, [Next]_vars, NEW t \in marked, t \in marked', run'[t] = run[t],
         \A j \in Awaited : j.kind = "mark" /\ t \in j.task => j \in jobs'
  PROVE  \/ run'[t] = "mark" /\ \E j \in jobs' : j.kind = "mark" /\ j.task = {t} /\ Counted(j.revision)'
         \/ run'[t] \in {"run", "record"} /\ Counted(persisted)'
<1>0. ControlTypes /\ Markers
  BY TypesSplit DEF IInv
<1>1. CASE run[t] = "mark"
  <2>1. PICK j \in jobs : j.kind = "mark" /\ j.task = {t} /\ Counted(j.revision)
    BY <1>0, <1>1 DEF Markers
  <2>2. j \in jobs'
    BY <2>1 DEF Awaited
  <2>3. PICK r \in Nat : r = j.revision
    BY <1>0 DEF ControlTypes, Job
  <2>4. Counted(r)
    BY <2>1, <2>3
  <2>5. Counted(r)'
    BY <2>4, CountedStep
  <2>6. Counted(j.revision)'
    BY <2>3, <2>5
  <2>. QED  BY <1>1, <2>1, <2>2, <2>6
<1>2. CASE run[t] \in {"run", "record"} /\ Counted(persisted)
  BY <1>2, CountedPersisted
<1>. QED  BY <1>0, <1>1, <1>2 DEF Markers

\* Steps that leave the waiting tasks and the marked tools alone.
LEMMA MarkersFrame ==
  ASSUME IInv, [Next]_vars, Awaited' = Awaited, setting' = setting, marked' \subseteq marked,
         \A t \in Tasks : run[t] \in {"mark", "record"} => run'[t] = run[t],
         \A t \in marked' : run'[t] = run[t] /\ activity'[t] = "open"
  PROVE  Markers'
<1>0. ControlTypes /\ TaskTypes /\ Markers
  BY TypesSplit DEF IInv
<1>1. ASSUME NEW t \in marked'
      PROVE  /\ t \in setting'.subprocess /\ activity'[t] = "open"
             /\ \/ run'[t] = "mark" /\ \E j \in jobs' : j.kind = "mark" /\ j.task = {t} /\ Counted(j.revision)'
                \/ run'[t] \in {"run", "record"} /\ Counted(persisted)'
  <2>1. t \in marked /\ t \in setting'.subprocess /\ activity'[t] = "open" /\ run'[t] = run[t]
    BY <1>0, <1>1 DEF Markers
  <2>2. \A j \in Awaited : j \in jobs'
    BY DEF Awaited
  <2>. QED  BY <1>1, <2>1, <2>2, StaysCounted
<1>2. \A j, k \in Awaited' : j.task \cap k.task # {} => j = k
  BY <1>0 DEF Markers
<1>3. \A j \in Awaited' : \A t \in j.task :
       (j.kind = "mark" => run'[t] = "mark") /\ (j.kind = "operation" => run'[t] = "record")
  <2>1. \A j \in Awaited : j.task \subseteq Tasks
    BY <1>0 DEF Awaited, ControlTypes, Job
  <2>. QED  BY <1>0, <2>1 DEF Markers
<1>. QED  BY <1>1, <1>2, <1>3 DEF Markers

\* Nobody but a marked tool touches its activity.
LEMMA MarkedAlone ==
  ASSUME IInv, NEW t \in marked
  PROVE  /\ t \in Tasks /\ Leaf(t) /\ run[t] \in {"mark", "run", "record"} /\ activity[t] = "open"
         /\ \A u \in Tasks : t \in context[u] => u = t
         /\ t \notin waiter /\ t \notin Inside(waiter)
<1>0. ControlTypes /\ TaskTypes /\ Markers /\ Leaves /\ Places
  BY TypesSplit DEF IInv
<1>1. t \in Tasks /\ t \in setting.subprocess /\ activity[t] = "open" /\ run[t] \in {"mark", "run", "record"}
  BY <1>0 DEF Markers, TaskTypes
<1>2. Leaf(t)
  BY <1>0, <1>1, ExecutionAssumption DEF Leaf, ControlTypes
<1>3. t \notin waiter
  BY <1>0, <1>1 DEF Places
<1>4. waiter \in SUBSET Tasks
  BY <1>0 DEF TaskTypes
<1>5. t \notin Inside(waiter)
  BY <1>0, <1>1, <1>2, <1>3, <1>4, LeafInside
<1>. QED  BY <1>0, <1>1, <1>2, <1>3, <1>5 DEF Leaves

LEMMA TaskMarkers ==
  ASSUME IInv, [Next]_vars, NEW t \in Tasks, t \in setting.tasks, TaskStep(t)
  PROVE  Markers'
<1>0. ControlTypes /\ TaskTypes /\ Markers /\ Places
  BY TypesSplit DEF IInv
<1>a. \A u \in marked :
         /\ u \in Tasks /\ Leaf(u) /\ run[u] \in {"mark", "run", "record"} /\ activity[u] = "open"
         /\ \A w \in Tasks : u \in context[w] => w = u
         /\ u \notin waiter /\ u \notin Inside(waiter)
  BY MarkedAlone
<1>c. ASSUME UNCHANGED <<setting, marked>>, NEW x \in {"run", "gate", "wait", "absent"}, run' = [run EXCEPT ![t] = x],
             run[t] \notin {"mark", "record"}, t \notin marked,
             \A u \in marked : activity'[u] = "open", Awaited' = Awaited
      PROVE  Markers'
  BY <1>0, <1>a, <1>c, MarkersFrame DEF TaskTypes
<1>d. \A u \in marked : t # u => \A b : MarkBlocked(context[t], b)[u] = activity[u]
  BY <1>a DEF MarkBlocked
<1>e. ASSUME Settle(phase, revision, jobs) \/ UNCHANGED <<phase, revision, jobs>>
      PROVE  Awaited' = Awaited
  BY <1>e, SettleAwaited DEF Awaited
<1>1. ASSUME NEW registered \in BOOLEAN, Start(t, registered)
      PROVE  Markers'
  <2>1. Awaited' = Awaited
    BY <1>1, <1>e, Settles DEF Start
  <2>2. run' = [run EXCEPT ![t] = "run"] /\ run[t] = "absent" /\ t \notin marked
        /\ UNCHANGED <<setting, marked, activity>>
    BY <1>1, <1>a DEF Start
  <2>. QED  BY <1>a, <1>c, <2>1, <2>2
<1>2. CASE Checkpoint(t)
  <2>1. Awaited' = Awaited
    BY <1>2, <1>e, Settles DEF Checkpoint
  <2>2. PICK x \in {"run", "gate"} : run' = [run EXCEPT ![t] = x]
    BY <1>2 DEF Checkpoint
  <2>3. run[t] = "run" /\ t \notin marked /\ UNCHANGED <<setting, marked>> /\ activity' = MarkBlocked(context[t], Held)
    BY <1>2 DEF Checkpoint, Nests
  <2>4. \A u \in marked : activity'[u] = "open"
    BY <1>a, <1>d, <2>3
  <2>. QED  BY <1>c, <2>1, <2>2, <2>3, <2>4
<1>3. CASE LeaveGate(t)
  <2>1. run' = [run EXCEPT ![t] = "run"] /\ run[t] = "gate" /\ UNCHANGED <<setting, marked, jobs>>
    BY <1>3 DEF LeaveGate
  <2>2. t \notin marked /\ Awaited' = Awaited
    BY <1>a, <2>1 DEF Awaited
  <2>3. \A u \in marked : activity'[u] = "open"
    BY <1>3, <1>a, <1>d, <2>2 DEF LeaveGate
  <2>. QED  BY <1>c, <2>1, <2>2, <2>3
<1>4. CASE End(t)
  <2>1. /\ activity' = [activity EXCEPT ![t] = "none"] /\ run' = [run EXCEPT ![t] = "run"] /\ run[t] = "run"
        /\ marked' = marked \ {t} /\ setting' = setting
    BY <1>4 DEF End, EndActivity
  <2>2. Awaited' = Awaited
    <3>1. CASE t \in marked
      <4>1. PICK r, w : w = Write("persist", r, phase, Marks') /\ Settle(phase, r, jobs \cup {w})
        BY <1>4, <3>1, Settles DEF End, EndActivity
      <4>2. w.kind = "persist"
        BY <4>1 DEF Write
      <4>3. Awaited' = {j \in jobs \cup {w} : j.kind \in {"mark", "operation"}}
        BY <4>1, SettleAwaited
      <4>. QED  BY <4>2, <4>3 DEF Awaited
    <3>2. CASE t \notin marked
      BY <1>4, <1>e, <3>2, Settles DEF End, EndActivity
    <3>. QED  BY <3>1, <3>2
  <2>3. \A u \in marked' : run'[u] = run[u] /\ activity'[u] = "open"
    BY <1>0, <1>a, <2>1 DEF TaskTypes
  <2>4. \A u \in Tasks : run[u] \in {"mark", "record"} => run'[u] = run[u]
    BY <1>0, <2>1 DEF TaskTypes
  <2>. QED  BY <2>1, <2>2, <2>3, <2>4, MarkersFrame
<1>5. CASE BeginWait(t)
  <2>1. Awaited' = Awaited
    BY <1>5, <1>e, Settles DEF BeginWait
  <2>2. run' = [run EXCEPT ![t] = "wait"] /\ run[t] = "run" /\ t \notin marked /\ UNCHANGED <<setting, marked>>
    BY <1>5 DEF BeginWait, Nests
  <2>3. \A u \in marked : activity'[u] = "open"
    BY <1>5, <1>a, <1>d, <2>2 DEF BeginWait
  <2>. QED  BY <1>c, <2>1, <2>2, <2>3
<1>6. CASE EndWait(t)
  <2>1. Awaited' = Awaited
    BY <1>6, <1>e, Settles DEF EndWait, WaitOver
  <2>2. /\ run' = [run EXCEPT ![t] = "run"] /\ run[t] = "wait" /\ UNCHANGED <<setting, marked, context>>
        /\ waiter' = waiter \ {t}
    BY <1>6 DEF EndWait
  <2>3. t \notin marked
    BY <1>a, <2>2
  <2>4. ASSUME NEW u \in marked
        PROVE  activity'[u] = "open"
    <3>1. PICK released : released = IF Held THEN {} ELSE context[t]
      OBVIOUS
    <3>2. u \notin released /\ u \notin Inside(waiter') /\ u \in Tasks
      BY <1>a, <2>2, <2>3, <3>1 DEF Inside
    <3>3. CASE t \in waiter
      <4>1. activity' = [v \in Tasks |-> IF v \in Inside(waiter') THEN MarkBlocked({v}, Held)[v]
                                         ELSE MarkBlocked(released, FALSE)[v]]
        BY <1>6, <3>1, <3>3 DEF EndWait
      <4>2. activity'[u] = MarkBlocked(released, FALSE)[u]
        BY <3>2, <4>1
      <4>. QED  BY <1>a, <3>2, <4>2 DEF MarkBlocked
    <3>4. CASE t \notin waiter
      BY <1>6, <1>a, <3>4 DEF EndWait
    <3>. QED  BY <3>3, <3>4
  <2>. QED  BY <1>c, <2>1, <2>2, <2>3, <2>4
<1>7. CASE BeginActivity(t)
  <2>1. Awaited' = Awaited
    BY <1>7, <1>e, Settles DEF BeginActivity
  <2>2. /\ run' = run /\ run[t] = "run" /\ activity[t] = "none" /\ UNCHANGED <<setting, marked>>
        /\ activity' = [activity EXCEPT ![t] = "open"]
    BY <1>7 DEF BeginActivity
  <2>3. t \notin marked /\ \A u \in marked : activity'[u] = "open"
    BY <1>0, <1>a, <2>2 DEF TaskTypes
  <2>. QED  BY <2>1, <2>2, <2>3, MarkersFrame
<1>10. CASE Finish(t)
  <2>1. Awaited' = Awaited
    BY <1>10, <1>e, Settles DEF Finish
  <2>2. /\ run' = [run EXCEPT ![t] = "absent"] /\ run[t] = "run" /\ activity[t] = "none"
        /\ UNCHANGED <<setting, marked, activity>>
    BY <1>10 DEF Finish
  <2>3. t \notin marked /\ \A u \in marked : activity'[u] = "open"
    BY <1>a, <2>2
  <2>. QED  BY <1>c, <2>1, <2>2, <2>3
<1>11. CASE RemoveFinished(t)
  <2>1. Awaited' = Awaited
    BY <1>11, <1>e, Settles DEF RemoveFinished
  <2>2. UNCHANGED <<setting, marked, activity, run>>
    BY <1>11 DEF RemoveFinished
  <2>. QED  BY <1>a, <2>1, <2>2, MarkersFrame
<1>8. CASE BeginSubprocess(t)
  <2>0. /\ run[t] = "run" /\ activity[t] = "none" /\ t \in setting.subprocess /\ setting' = setting
        /\ run' = [run EXCEPT ![t] = "mark"] /\ activity' = [activity EXCEPT ![t] = "open"] /\ marked' = marked \cup {t}
        /\ persisted' = persisted
    BY <1>8 DEF BeginSubprocess, AwaitMarker, store
  <2>1. PICK w : w = [Write("mark", revision + 1, phase, Marks') EXCEPT !.task = {t}]
    OBVIOUS
  <2>2. Marks' \in Nat
    BY TypesSplit, TaskTypesKept, CountPositive, <1>0 DEF Marks, TaskTypes, ControlTypes
  <2>3. revision \in Nat /\ revision + 1 \in Nat /\ phase \in Phases /\ persisted \in Nat /\ persisted <= revision
    BY <1>0 DEF ControlTypes
  <2>4. w.kind = "mark" /\ w.task = {t} /\ w.revision = revision + 1
    BY <2>1, <2>2, <2>3, MarkJobFields
  <2>5. Settle(phase, revision + 1, jobs \cup {w})
    BY <1>8, <2>1, Settles DEF BeginSubprocess
  <2>6. Awaited' = Awaited \cup {w}
    BY <2>4, <2>5, SettleAwaited DEF Awaited
  <2>7. \A j \in Awaited : t \notin j.task /\ j.task \subseteq Tasks
    BY <1>0, <2>0 DEF Markers, Awaited, ControlTypes, Job
  <2>8. w \in jobs' /\ \A j \in Awaited : j \in jobs'
    BY <2>6 DEF Awaited
  <2>r. PICK r \in Nat : r = revision + 1
    BY <2>3
  <2>9. Counted(r)'
    <3>1. \A j \in Writers' : j.revision >= revision + 1 => j.marks > 0
      <4>1. Spawns
        BY <1>8, <2>0, NextSpawns, TaskSpawns, TaskTypesKept, TypesSplit DEF IInv, ControlTypes
      <4>2. ASSUME NEW j \in Writers', j.revision >= revision + 1
            PROVE  j.marks > 0
        <5>1. j \notin jobs
          BY <1>0, <2>3, <4>2 DEF ControlTypes, Job
        <5>. QED  BY <2>0, <4>1, <4>2, <5>1 DEF Spawns, Writers
      <4>. QED  BY <4>2
    <3>2. ~(persisted' >= revision + 1)
      BY <2>0, <2>3
    <3>. QED  BY <2>r, <3>1, <3>2 DEF Counted
  <2>10. ASSUME NEW u \in marked'
         PROVE  /\ u \in setting'.subprocess /\ activity'[u] = "open"
                /\ \/ run'[u] = "mark" /\ \E j \in jobs' : j.kind = "mark" /\ j.task = {u} /\ Counted(j.revision)'
                   \/ run'[u] \in {"run", "record"} /\ Counted(persisted)'
    <3>1. CASE u = t
      <4>1. Counted(w.revision)'
        BY <2>4, <2>9, <2>r
      <4>. QED  BY <1>0, <2>0, <2>4, <2>8, <3>1, <4>1 DEF TaskTypes
    <3>2. CASE u # t
      <4>1. u \in marked /\ run'[u] = run[u] /\ u \in setting'.subprocess /\ activity'[u] = "open"
        BY <1>0, <2>0, <3>2 DEF TaskTypes, Markers
      <4>. QED  BY <2>8, <2>10, <4>1, StaysCounted
    <3>. QED  BY <3>1, <3>2
  <2>11. \A j, k \in Awaited' : j.task \cap k.task # {} => j = k
    BY <1>0, <2>4, <2>6, <2>7 DEF Markers
  <2>12. \A j \in Awaited' : \A u \in j.task :
           (j.kind = "mark" => run'[u] = "mark") /\ (j.kind = "operation" => run'[u] = "record")
    BY <1>0, <2>0, <2>4, <2>6, <2>7 DEF Markers, TaskTypes
  <2>. QED  BY <2>10, <2>11, <2>12 DEF Markers
<1>9. CASE RecordOperation(t)
  <2>0. /\ run[t] = "run" /\ setting' = setting /\ run' = [run EXCEPT ![t] = "record"]
        /\ UNCHANGED <<activity, marked>>
    BY <1>9 DEF RecordOperation
  <2>1. PICK w : w = [Write("operation", revision + 1, phase, Marks) EXCEPT !.task = {t}, !.resuming = (phase = "resuming")]
    OBVIOUS
  <2>2. w.kind = "operation" /\ w.task = {t}
    BY <2>1 DEF Write
  <2>3. jobs' = jobs \cup {w}
    BY <1>9, <2>1 DEF RecordOperation
  <2>4. Awaited' = Awaited \cup {w}
    BY <2>2, <2>3 DEF Awaited
  <2>5. \A j \in Awaited : t \notin j.task /\ j.task \subseteq Tasks
    BY <1>0, <2>0 DEF Markers, Awaited, ControlTypes, Job
  <2>6. ASSUME NEW u \in marked'
         PROVE  /\ u \in setting'.subprocess /\ activity'[u] = "open"
                /\ \/ run'[u] = "mark" /\ \E j \in jobs' : j.kind = "mark" /\ j.task = {u} /\ Counted(j.revision)'
                   \/ run'[u] \in {"run", "record"} /\ Counted(persisted)'
    <3>0. u \in marked /\ u \in setting'.subprocess /\ activity'[u] = "open"
      BY <1>0, <2>0 DEF Markers
    <3>1. CASE u = t
      <4>1. Counted(persisted)
        BY <1>0, <2>0, <3>0, <3>1 DEF Markers
      <4>2. Counted(persisted)'
        BY <2>6, <4>1, CountedPersisted
      <4>. QED  BY <1>0, <2>0, <3>0, <3>1, <4>2 DEF TaskTypes
    <3>2. CASE u # t
      <4>1. run'[u] = run[u]
        BY <1>0, <2>0, <3>2 DEF TaskTypes
      <4>2. \A j \in Awaited : j \in jobs'
        BY <2>3 DEF Awaited
      <4>. QED  BY <2>6, <3>0, <4>1, <4>2, StaysCounted
    <3>. QED  BY <3>1, <3>2
  <2>7. \A j, k \in Awaited' : j.task \cap k.task # {} => j = k
    BY <1>0, <2>2, <2>4, <2>5 DEF Markers
  <2>8. \A j \in Awaited' : \A u \in j.task :
           (j.kind = "mark" => run'[u] = "mark") /\ (j.kind = "operation" => run'[u] = "record")
    BY <1>0, <2>0, <2>2, <2>4, <2>5 DEF Markers, TaskTypes
  <2>. QED  BY <2>6, <2>7, <2>8 DEF Markers
<1>. QED  BY <1>1, <1>2, <1>3, <1>4, <1>5, <1>6, <1>7, <1>8, <1>9, <1>10, <1>11 DEF TaskStep

\* A write that a task waits for stays a job of that task.
LEMMA WriteAwaited ==
  ASSUME NEW j \in jobs, Persist(j) \/ PersistFails(j) \/ Expire(j), jobs \subseteq Job
  PROVE  \E c \in Job : /\ c.kind = j.kind /\ c.task = j.task /\ c.revision = j.revision
                        /\ Awaited' = {k \in (jobs \ {j}) \cup {c} : k.kind \in {"mark", "operation"}}
<1>1. PICK st \in {"write", "done", "failed"} : Become(j, st)
  BY DEF Persist, PersistFails, Expire
<1>2. PICK c : c = [j EXCEPT !.st = st]
  OBVIOUS
<1>3. \A i \in Job : LET w == [i EXCEPT !.st = st]
                     IN  w \in Job /\ w.kind = i.kind /\ w.revision = i.revision /\ w.task = i.task
  BY DEF Job
<1>4. c \in Job /\ c.kind = j.kind /\ c.task = j.task /\ c.revision = j.revision
  BY <1>2, <1>3
<1>5. jobs' = Waited((jobs \ {j}) \cup {c})
  BY <1>1, <1>2 DEF Become
<1>6. Awaited' = {k \in (jobs \ {j}) \cup {c} : k.kind \in {"mark", "operation"}}
  BY <1>5 DEF Waited, Awaited
<1>. QED  BY <1>4, <1>6

LEMMA WriteMarkers ==
  ASSUME IInv, [Next]_vars, NEW j \in jobs, Persist(j) \/ PersistFails(j) \/ Expire(j)
  PROVE  Markers'
<1>0. ControlTypes /\ TaskTypes /\ Markers
  BY TypesSplit DEF IInv
<1>1. jobs \subseteq Job
  BY <1>0 DEF ControlTypes
<1>2. PICK c \in Job : /\ c.kind = j.kind /\ c.task = j.task /\ c.revision = j.revision
                       /\ Awaited' = {k \in (jobs \ {j}) \cup {c} : k.kind \in {"mark", "operation"}}
  BY <1>1, WriteAwaited
<1>3. UNCHANGED <<setting, run, activity, marked>>
  BY DEF Persist, PersistFails, Expire, tasks
<1>4. ASSUME NEW t \in marked
      PROVE  \/ run[t] = "mark" /\ \E k \in jobs' : k.kind = "mark" /\ k.task = {t} /\ Counted(k.revision)'
             \/ run[t] \in {"run", "record"} /\ Counted(persisted)'
  <2>0. marked' # {}
    BY <1>3, <1>4
  <2>1. CASE run[t] = "mark"
    <3>1. PICK i \in jobs : i.kind = "mark" /\ i.task = {t} /\ Counted(i.revision)
      BY <1>0, <2>1 DEF Markers
    <3>2. PICK k \in jobs' : k.kind = "mark" /\ k.task = {t} /\ k.revision = i.revision
      <4>1. CASE i = j
        BY <1>2, <3>1, <4>1 DEF Awaited
      <4>2. CASE i # j
        BY <1>2, <3>1, <4>2 DEF Awaited
      <4>. QED  BY <4>1, <4>2
    <3>3. PICK r \in Nat : r = i.revision
      BY <1>1 DEF Job
    <3>4. Counted(r)
      BY <3>1, <3>3
    <3>5. Counted(r)'
      BY <2>0, <3>4, CountedStep
    <3>6. Counted(k.revision)'
      BY <3>2, <3>3, <3>5
    <3>. QED  BY <2>1, <3>2, <3>6
  <2>2. CASE run[t] \in {"run", "record"} /\ Counted(persisted)
    BY <2>0, <2>2, CountedPersisted
  <2>. QED  BY <1>0, <2>1, <2>2 DEF Markers
<1>5. \A i, k \in Awaited' : i.task \cap k.task # {} => i = k
  BY <1>0, <1>2 DEF Markers, Awaited
<1>6. \A k \in Awaited' : \A t \in k.task :
         (k.kind = "mark" => run[t] = "mark") /\ (k.kind = "operation" => run[t] = "record")
  BY <1>0, <1>2 DEF Markers, Awaited
<1>. QED  BY <1>0, <1>3, <1>4, <1>5, <1>6 DEF Markers

\* A write comes back to the task that waits for it.
LEMMA ReturnMarkers ==
  ASSUME IInv, [Next]_vars, NEW j \in jobs, NEW t \in Tasks,
         FinishOperation(t, j) \/ Marked(t, j) \/ MarkFails(t, j)
  PROVE  Markers'
<1>0. ControlTypes /\ TaskTypes /\ Markers /\ Snapshots
  BY TypesSplit DEF IInv
<1>a. \A u \in marked :
         /\ u \in Tasks /\ Leaf(u) /\ run[u] \in {"mark", "run", "record"} /\ activity[u] = "open"
  BY MarkedAlone
<1>1. j \in Awaited /\ t \in j.task
  BY DEF FinishOperation, Marked, MarkFails, Marking, Awaited
<1>2. \A k \in Awaited : (t \in k.task => k = j) /\ k.task \subseteq Tasks
  BY <1>0, <1>1 DEF Markers, Awaited, ControlTypes, Job
<1>3. run[t] \in {"mark", "record"} /\ (j.kind = "mark" => run[t] = "mark") /\ (j.kind = "operation" => run[t] = "record")
  BY <1>0, <1>1 DEF Markers, Awaited
<1>4. /\ run' = [run EXCEPT ![t] = "run"] /\ setting' = setting /\ marked' \subseteq marked
      /\ \A u \in marked' : activity'[u] = "open"
  <2>1. CASE FinishOperation(t, j) \/ Marked(t, j)
    BY <1>a, <2>1 DEF FinishOperation, Marked
  <2>2. CASE MarkFails(t, j)
    BY <1>0, <1>a, <2>2 DEF MarkFails, EndActivity, TaskTypes
  <2>. QED  BY <2>1, <2>2
<1>5. Awaited' = Awaited \ {j}
  <2>1. CASE FinishOperation(t, j)
    <3>1. \A r, m : Write("resume", r, "running", m).kind = "resume"
      BY DEF Write
    <3>. QED  BY <2>1, <3>1 DEF FinishOperation, Awaited
  <2>2. CASE Marked(t, j)
    BY <2>2 DEF Marked, Awaited
  <2>3. CASE MarkFails(t, j)
    <3>1. CASE t \in marked
      <4>1. PICK r, w : w = Write("persist", r, phase, Marks') /\ Settle(phase, r, (jobs \ {j}) \cup {w})
        BY <2>3, <3>1, Settles DEF MarkFails, EndActivity
      <4>2. w.kind = "persist"
        BY <4>1 DEF Write
      <4>3. Awaited' = {k \in (jobs \ {j}) \cup {w} : k.kind \in {"mark", "operation"}}
        BY <4>1, SettleAwaited
      <4>. QED  BY <4>2, <4>3 DEF Awaited
    <3>2. CASE t \notin marked
      <4>1. Settle(phase, revision, jobs \ {j})
        BY <2>3, <3>2, Settles DEF MarkFails, EndActivity
      <4>2. Awaited' = {k \in jobs \ {j} : k.kind \in {"mark", "operation"}}
        BY <4>1, SettleAwaited
      <4>. QED  BY <4>2 DEF Awaited
    <3>. QED  BY <3>1, <3>2
  <2>. QED  BY <2>1, <2>2, <2>3
<1>6. ASSUME NEW u \in marked'
      PROVE  /\ u \in setting'.subprocess /\ activity'[u] = "open"
             /\ \/ run'[u] = "mark" /\ \E k \in jobs' : k.kind = "mark" /\ k.task = {u} /\ Counted(k.revision)'
                \/ run'[u] \in {"run", "record"} /\ Counted(persisted)'
  <2>0. u \in marked /\ u \in Tasks /\ u \in setting'.subprocess /\ activity'[u] = "open"
    BY <1>0, <1>4, <1>a DEF Markers
  <2>1. CASE u # t
    <3>1. run'[u] = run[u]
      BY <1>0, <1>4, <2>0, <2>1 DEF TaskTypes
    <3>2. ASSUME NEW k \in Awaited, k.kind = "mark", u \in k.task
          PROVE  k \in jobs'
      <4>1. run[u] = "mark"
        BY <1>0, <3>2 DEF Markers
      <4>2. PICK i \in jobs : i.kind = "mark" /\ i.task = {u}
        BY <1>0, <2>0, <4>1 DEF Markers
      <4>3. i = k
        BY <1>0, <3>2, <4>2 DEF Markers, Awaited
      <4>4. k # j
        BY <1>1, <2>1, <4>2, <4>3
      <4>. QED  BY <1>5, <4>4 DEF Awaited
    <3>. QED  BY <1>6, <2>0, <3>1, <3>2, StaysCounted
  <2>2. CASE u = t
    <3>1. run'[u] = "run"
      BY <1>0, <1>4, <2>0, <2>2 DEF TaskTypes
    <3>2. Counted(persisted)
      <4>1. CASE run[t] = "record"
        BY <1>0, <2>0, <2>2, <4>1 DEF Markers
      <4>2. CASE run[t] = "mark"
        <5>1. PICK i \in jobs : i.kind = "mark" /\ i.task = {t} /\ Counted(i.revision)
          BY <1>0, <2>0, <2>2, <4>2 DEF Markers
        <5>2. i = j
          BY <1>2, <5>1 DEF Awaited
        <5>3. j.st = "done"
          BY <1>6, <2>2, <5>1, <5>2 DEF FinishOperation, Marked, MarkFails, EndActivity
        <5>4. j.revision <= persisted
          BY <1>0, <5>1, <5>2, <5>3 DEF Snapshots, Writers
        <5>5. PICK r, s \in Nat : r = j.revision /\ s = persisted
          BY <1>0 DEF ControlTypes, Job
        <5>6. Counted(r)
          BY <5>1, <5>2, <5>5
        <5>7. Counted(s)
          BY <1>0, <5>4, <5>5, <5>6, CountedUp
        <5>. QED  BY <5>5, <5>7
      <4>. QED  BY <1>3, <4>1, <4>2
    <3>3. Counted(persisted)'
      BY <1>6, <3>2, CountedPersisted
    <3>. QED  BY <2>0, <3>1, <3>3
  <2>. QED  BY <2>1, <2>2
<1>7. \A i, k \in Awaited' : i.task \cap k.task # {} => i = k
  BY <1>0, <1>5 DEF Markers
<1>8. \A k \in Awaited' : \A u \in k.task :
         (k.kind = "mark" => run'[u] = "mark") /\ (k.kind = "operation" => run'[u] = "record")
  BY <1>0, <1>2, <1>4, <1>5 DEF Markers, TaskTypes
<1>. QED  BY <1>6, <1>7, <1>8 DEF Markers

LEMMA MarkersKept ==
  ASSUME IInv, [Next]_vars
  PROVE  Markers'
<1>0. ControlTypes /\ TaskTypes /\ setting \in Settings
  BY TypesSplit DEF IInv, ControlTypes
<1>a. \A u \in marked :
         /\ u \in Tasks /\ activity[u] = "open" /\ u \notin Inside(waiter)
  BY MarkedAlone
<1>b. ASSUME NEW b, RefreshWaiters(waiter, b)
      PROVE  \A u \in marked : activity'[u] = "open"
  BY <1>a, <1>b DEF RefreshWaiters, MarkBlocked
<1>c. ASSUME UNCHANGED <<setting, run, marked>>, \A u \in marked : activity'[u] = "open", Awaited' = Awaited
      PROVE  Markers'
  BY <1>c, MarkersFrame
<1>d. ASSUME UNCHANGED <<setting, tasks>>, Awaited' = Awaited
      PROVE  Markers'
  BY <1>a, <1>c, <1>d DEF tasks
<1>e. \A r, p, m : /\ Write("persist", r, p, m).kind = "persist" /\ Write("resume", r, p, m).kind = "resume"
                   /\ Write("retry", r, p, m).kind = "retry"
  BY DEF Write
<1>1. CASE Pause
  <2>1. Timer.kind = "deadline"
    BY DEF Timer, Write
  <2>2. PICK r, w, d : w = Write("persist", r, "pausing", Marks) /\ d = Timer /\ Settle("pausing", r, jobs \cup {w, d})
    BY <1>1, Settles DEF Pause
  <2>3. Awaited' = Awaited
    BY <1>e, <2>1, <2>2, SettleAwaited DEF Awaited
  <2>. QED  BY <1>1, <1>b, <1>c, <2>3 DEF Pause
<1>2. CASE RetryPause
  <2>1. PauseJob(revision).kind = "pause"
    BY DEF PauseJob, Write
  <2>2. Awaited' = Awaited
    BY <1>2, <2>1 DEF RetryPause, Awaited
  <2>. QED  BY <1>2, <1>d, <2>2 DEF RetryPause
<1>3. CASE Resume
  <2>1. Awaited' = Awaited
    BY <1>3, <1>e DEF Resume, ResumeJob, Awaited
  <2>. QED  BY <1>3, <1>b, <1>c, <2>1 DEF Resume
<1>4. CASE RetryResume
  <2>1. Awaited' = Awaited
    BY <1>4, <1>e DEF RetryResume, ResumeJob, Awaited
  <2>. QED  BY <1>4, <1>d, <2>1 DEF RetryResume
<1>5. CASE ResumeTooLate \/ Terminate \/ \E p \in 1..setting.pauses : TerminateTimedOut(p)
  BY <1>5, <1>d DEF ResumeTooLate, Terminate, TerminateTimedOut, ClaimTermination, Awaited
<1>6. ASSUME NEW j \in jobs, JobStep(j)
      PROVE  Markers'
  <2>1. CASE Persist(j) \/ PersistFails(j) \/ Expire(j)
    BY <2>1, WriteMarkers
  <2>2. CASE FinishPause(j)
    BY <2>2, <1>d DEF FinishPause, Awaited
  <2>3. CASE FinishResume(j)
    <3>1. Awaited' = Awaited
      BY <2>3 DEF FinishResume, Awaited
    <3>2. \A u \in marked : activity'[u] = "open"
      BY <2>3, <1>a, <1>b DEF FinishResume
    <3>. QED  BY <2>3, <1>c, <3>1, <3>2 DEF FinishResume
  <2>4. CASE FinishRetry(j)
    <3>1. Awaited' = Awaited
      BY <2>4, <1>e DEF FinishRetry, Awaited
    <3>. QED  BY <2>4, <1>d, <3>1 DEF FinishRetry
  <2>5. CASE Deadline(j)
    <3>1. Awaited' = Awaited
      BY <2>5 DEF Deadline, Awaited
    <3>. QED  BY <2>5, <1>d, <3>1 DEF Deadline, ClaimTermination
  <2>6. CASE \E t \in Tasks : FinishOperation(t, j) \/ Marked(t, j) \/ MarkFails(t, j)
    BY <2>6, ReturnMarkers
  <2>. QED  BY <1>6, <2>1, <2>2, <2>3, <2>4, <2>5, <2>6 DEF JobStep, Continue
<1>7. CASE UNCHANGED vars
  BY <1>7, <1>d DEF vars, Awaited
<1>8. CASE \E t \in Tasks : t \in setting.tasks /\ TaskStep(t)
  BY <1>8, TaskMarkers
<1>. QED  BY <1>0, <1>1, <1>2, <1>3, <1>4, <1>5, <1>6, <1>7, <1>8, Cases

-----------------------------------------------------------------------------
LEMMA ExpiredGrows ==
  ASSUME setting \in Settings, [Next]_vars
  PROVE  expired \subseteq expired'
<1>1. CASE Pause \/ RetryPause \/ Resume \/ ResumeTooLate \/ RetryResume \/ Terminate
  BY <1>1 DEF Pause, RetryPause, Resume, ResumeTooLate, RetryResume, Terminate, store
<1>2. CASE \E p \in 1..setting.pauses : TerminateTimedOut(p)
  BY <1>2 DEF TerminateTimedOut
<1>3. ASSUME NEW t \in Tasks, TaskStep(t)
      PROVE  expired' = expired
  BY <1>3 DEF TaskStep, Start, Checkpoint, LeaveGate, End, EndActivity, BeginWait, EndWait, BeginActivity,
              BeginSubprocess, RecordOperation, Finish, RemoveFinished, store
<1>4. ASSUME NEW j \in jobs, JobStep(j)
      PROVE  expired \subseteq expired'
  <2>1. CASE Persist(j) \/ PersistFails(j) \/ Expire(j) \/ Deadline(j)
    BY <2>1 DEF Persist, PersistFails, Expire, Deadline
  <2>2. CASE Continue(j)
    BY <2>2 DEF Continue, FinishPause, FinishResume, FinishRetry, FinishOperation, Marked, MarkFails, EndActivity, store
  <2>. QED  BY <1>4, <2>1, <2>2 DEF JobStep
<1>5. CASE UNCHANGED vars
  BY <1>5 DEF vars, store
<1>. QED  BY <1>1, <1>2, <1>3, <1>4, <1>5, Cases

LEMMA TimersKept ==
  ASSUME IInv, [Next]_vars
  PROVE  Timers'
<1>0. ControlTypes /\ Timers
  BY TypesSplit DEF IInv
<1>1. expired \subseteq expired'
  BY <1>0, ExpiredGrows DEF ControlTypes
<1>2. CASE Spawns
  BY <1>0, <1>1, <1>2 DEF Timers, Spawns
<1>3. ASSUME NEW j \in jobs, Persist(j) \/ PersistFails(j) \/ Expire(j)
      PROVE  Timers'
  <2>0. jobs \subseteq Job
    BY <1>0 DEF ControlTypes
  <2>1. ASSUME NEW k \in jobs', k.kind = "deadline", k.st = "done"
        PROVE  k.pause \in expired'
    <3>1. CASE k \in jobs
      BY <1>0, <1>1, <2>1, <3>1 DEF Timers
    <3>2. CASE k \notin jobs
      <4>1. k.kind = j.kind /\ k.pause = j.pause
        BY <1>3, <2>0, <3>2, WriteSteps
      <4>. QED  BY <1>3, <2>1, <4>1 DEF Persist, PersistFails, Expire
    <3>. QED  BY <3>1, <3>2
  <2>. QED  BY <2>1 DEF Timers
<1>. QED  BY <1>2, <1>3, NextSpawns

-----------------------------------------------------------------------------
\* The inductive invariant holds at first and is kept by every step.
LEMMA IInvInit == Init => IInv
<1>. SUFFICES ASSUME Init PROVE IInv
  OBVIOUS
<1>1. TaskTypes
  BY FS_EmptySet DEF Init, TaskTypes
<1>2. ControlTypes
  <2>1. hold \in BOOLEAN /\ failed \in BOOLEAN
    BY Zenon DEF Init
  <2>2. disk \in [revision : Nat, phase : Phases, marks : Nat] /\ disk.revision = persisted
    BY DEF Init, Phases
  <2>3. jobs \subseteq Job /\ (\A j \in jobs : j.revision <= revision)
        /\ expired \subseteq Nat /\ asked \subseteq Nat
    BY Zenon DEF Init
  <2>4. /\ setting \in Settings /\ phase \in Phases /\ reason \in {"none", "disconnect_timeout", "explicit"}
        /\ barrier \in Nat /\ revision \in Nat /\ generation \in Nat /\ pauseId \in Nat
        /\ barrier <= revision /\ persisted \in Nat /\ persisted <= revision
        /\ operations \in Nat /\ failures \in Nat
    BY DEF Init, Phases
  <2>. QED  BY <2>1, <2>2, <2>3, <2>4 DEF ControlTypes
<1>3. Gate /\ Committing /\ Timers
  <2>1. hold <=> phase \in PausePhases
    BY DEF Init, PausePhases
  <2>2. barrier # 0 <=> phase = "resuming"
    BY DEF Init
  <2>3. Committing /\ Timers
    BY DEF Init, Committing, Timers
  <2>. QED  BY <2>1, <2>2, <2>3 DEF Gate
<1>4. Snapshots
  BY DEF Init, Snapshots, Writers, Newest, Over
<1>5. Places /\ Leaves
  BY DEF Init, Places, Leaves
<1>6. Markers
  BY DEF Init, Markers, Awaited
<1>. QED  BY <1>1, <1>2, <1>3, <1>4, <1>5, <1>6, TypesSplit DEF IInv

LEMMA IInvNext == IInv /\ [Next]_vars => IInv'
<1>. SUFFICES ASSUME IInv, [Next]_vars PROVE IInv'
  OBVIOUS
<1>1. TaskTypes'
  BY TypesSplit, TaskTypesKept DEF IInv, ControlTypes
<1>2. ControlTypes' /\ Gate'
  BY ControlTypesKept
<1>3. Types'
  BY <1>1, <1>2, TypesSplitNext
<1>. QED  BY <1>2, <1>3, SnapshotsKept, PlacesKept, LeavesKept, CommittingKept, MarkersKept, TimersKept DEF IInv

LEMMA Invariance == Spec => []IInv
BY IInvInit, IInvNext, PTL DEF Spec

\* control.json is true for every tree of tasks: whichever of several late
\* writers was last, it shows the newest revision as it is or is about to be, a
\* running execution as running, and counts every running bash or grep
\* (_persist_snapshot, _finish_pause, _finish_resume, begin_activity).
THEOREM ControlFileIsTrue == Spec => []ControlFileTrue
<1>1. IInv => ControlFileTrue
  <2>. SUFFICES ASSUME IInv PROVE ControlFileTrue
    OBVIOUS
  <2>0. TypeOK /\ ControlTypes /\ Snapshots /\ Markers
    BY TypesSplit DEF IInv, Types
  <2>1. DiskIsCurrent
    <3>1. phase = "running" => disk.phase = "running"
      BY <2>0 DEF Snapshots
    <3>2. ASSUME disk.revision = revision, ~Over
          PROVE  disk.phase \in (CASE phase = "pause_committing" -> {"pause_committing", "paused"}
                                   [] phase = "resuming" -> {"resuming", "running"}
                                   [] OTHER -> {phase})
      <4>1. disk.phase \in Newest
        BY <2>0, <3>2 DEF Snapshots, ControlTypes
      <4>2. CASE phase = "pause_committing"
        BY <3>2, <4>1, <4>2 DEF Newest
      <4>3. CASE phase = "resuming"
        BY <3>2, <4>1, <4>3 DEF Newest
      <4>4. CASE phase \notin {"pause_committing", "resuming"}
        BY <3>2, <4>1, <4>4 DEF Newest
      <4>. QED  BY <4>2, <4>3, <4>4
    <3>. QED  BY <3>1, <3>2 DEF DiskIsCurrent
  <2>2. SubprocessIsMarked
    <3>1. ASSUME NEW t \in Tasks, t \in marked, run[t] \in {"run", "record"}
          PROVE  disk.marks > 0
      <4>1. Counted(persisted)
        BY <2>0, <3>1 DEF Markers
      <4>. QED  BY <2>0, <4>1 DEF Counted, ControlTypes
    <3>. QED  BY <3>1 DEF SubprocessIsMarked
  <2>. QED  BY <2>0, <2>1, <2>2 DEF ControlFileTrue
<1>. QED  BY <1>1, Invariance, PTL

\* The execution is called paused (_finish_pause) only when no task works, for
\* every tree of tasks.
THEOREM PausesWhenQuiet == Spec => PausedWhenQuiet
<1>1. ASSUME IInv, [Next]_vars
      PROVE  [phase' = "paused" /\ phase # "paused" =>
               \A t \in Tasks : /\ run[t] \in {"run", "record", "mark"} =>
                                     participant[t] = "none" /\ (activity[t] = "none" \/ ~Leaf(t))
                                /\ activity[t] # "open"]_vars
  <2>1. SUFFICES ASSUME phase' = "paused", phase # "paused"
                 PROVE  phase = "pause_committing"
    <3>1. ASSUME phase = "pause_committing", NEW t \in Tasks
          PROVE  /\ run[t] \in {"run", "record", "mark"} =>
                      participant[t] = "none" /\ (activity[t] = "none" \/ ~Leaf(t))
                 /\ activity[t] # "open"
      <4>0. TaskTypes /\ Places /\ Leaves /\ Quiet /\ ~Over
        BY <1>1, <3>1, TypesSplit DEF IInv, Committing, Over
      <4>. QED  BY <4>0 DEF TaskTypes, Places, Leaves, Quiet
    <3>. QED  BY <3>1
  <2>2. phase \in Phases /\ setting \in Settings
    BY <1>1, TypesSplit DEF IInv, ControlTypes
  <2>a. ASSUME NEW p, NEW r, NEW js, Settle(p, r, js)
        PROVE  p = "paused"
    BY <2>1, <2>a DEF Settle
  <2>b. phase' # phase
    BY <2>1
  <2>3. CASE Pause \/ RetryPause \/ Resume \/ ResumeTooLate \/ RetryResume \/ Terminate
             \/ \E p \in 1..setting.pauses : TerminateTimedOut(p)
    <3>1. CASE Pause
      BY <2>a, <3>1, Settles DEF Pause
    <3>2. CASE ~Pause
      BY <2>1, <2>3, <3>2 DEF RetryPause, Resume, ResumeTooLate, RetryResume, Terminate, TerminateTimedOut, ClaimTermination
    <3>. QED  BY <3>1, <3>2
  <2>4. ASSUME NEW t \in Tasks, TaskStep(t)
        PROVE  FALSE
    <3>1. (\E r, js : Settle(phase, r, js)) \/ phase' = phase
      BY <2>4, Settles DEF TaskStep, Start, Checkpoint, LeaveGate, control, End, EndActivity, BeginWait, EndWait, WaitOver,
         BeginActivity, BeginSubprocess, RecordOperation, Finish, RemoveFinished
    <3>. QED  BY <2>1, <2>a, <3>1
  <2>5. ASSUME NEW j \in jobs, JobStep(j)
        PROVE  phase = "pause_committing"
    <3>1. CASE FinishPause(j)
      BY <2>b, <3>1 DEF FinishPause, StillCommitting
    <3>2. CASE ~FinishPause(j)
      <4>1. CASE \E t \in Tasks : MarkFails(t, j)
        BY <2>1, <2>a, <4>1, Settles DEF MarkFails, EndActivity
      <4>2. CASE ~\E t \in Tasks : MarkFails(t, j)
        BY <2>1, <2>5, <3>2, <4>2 DEF JobStep, Continue, Persist, PersistFails, Expire, Deadline, ClaimTermination,
           FinishResume, FinishRetry, FinishOperation, Marked, control
      <4>. QED  BY <4>1, <4>2
    <3>. QED  BY <3>1, <3>2
  <2>6. CASE UNCHANGED vars
    BY <2>b, <2>6 DEF vars, control
  <2>. QED  BY <1>1, <2>2, <2>3, <2>4, <2>5, <2>6, Cases
<1>. QED  BY <1>1, Invariance, PTL DEF Spec, PausedWhenQuiet

\* A task leaves the gate of a resumed execution (checkpoint) only after
\* control.json says running.
THEOREM ResumesDurably == Spec => ResumeIsDurable
<1>1. ASSUME IInv, [Next]_vars
      PROVE  [\A t \in Tasks : run[t] = "gate" /\ run'[t] = "run" => disk.phase = "running" \/ Over]_vars
  <2>1. SUFFICES ASSUME NEW t \in Tasks, run[t] = "gate", run'[t] = "run", ~Over
                 PROVE  ~Held
    <3>1. ASSUME ~Held, ~Over
          PROVE  disk.phase = "running"
      <4>1. phase = "running"
        BY <1>1, <3>1, TypesSplit DEF IInv, ControlTypes, Gate, Held, Over, Phases
      <4>. QED  BY <1>1, <4>1 DEF IInv, Snapshots
    <3>. QED  BY <3>1
  <2>0. TaskTypes /\ ControlTypes /\ Markers /\ setting \in Settings
    BY <1>1, TypesSplit DEF IInv, ControlTypes
  <2>a. run' # run
    BY <2>1
  <2>b. ASSUME NEW u \in Tasks, NEW x, run' = [run EXCEPT ![u] = x]
        PROVE  u = t /\ x = "run"
    BY <2>0, <2>1, <2>b DEF TaskTypes
  <2>3. CASE Pause \/ RetryPause \/ Resume \/ ResumeTooLate \/ RetryResume \/ Terminate
             \/ \E p \in 1..setting.pauses : TerminateTimedOut(p)
    BY <2>a, <2>3 DEF Pause, RetryPause, Resume, ResumeTooLate, RetryResume, Terminate, TerminateTimedOut, ClaimTermination, tasks
  <2>4. ASSUME NEW u \in Tasks, TaskStep(u)
        PROVE  ~Held
    <3>1. CASE LeaveGate(u)
      BY <2>1, <2>b, <3>1 DEF LeaveGate
    <3>2. CASE RemoveFinished(u) \/ BeginActivity(u)
      BY <2>a, <3>2 DEF RemoveFinished, BeginActivity
    <3>3. CASE ~LeaveGate(u) /\ ~RemoveFinished(u) /\ ~BeginActivity(u)
      <4>1. PICK x : run' = [run EXCEPT ![u] = x]
        BY <2>4, <3>3 DEF TaskStep, Start, Checkpoint, End, EndActivity, BeginWait, EndWait, BeginSubprocess, AwaitMarker,
           RecordOperation, Finish
      <4>2. run[u] # "gate"
        BY <2>4, <3>3 DEF TaskStep, Start, Checkpoint, Nests, End, BeginWait, EndWait, BeginSubprocess, RecordOperation, Finish
      <4>. QED  BY <2>1, <2>b, <4>1, <4>2
    <3>. QED  BY <3>1, <3>2, <3>3
  <2>5. ASSUME NEW j \in jobs, JobStep(j)
        PROVE  ~Held
    <3>1. ASSUME NEW u \in Tasks, FinishOperation(u, j) \/ Marked(u, j) \/ MarkFails(u, j)
          PROVE  ~Held
      <4>1. run[u] \in {"mark", "record"}
        BY <2>0, <3>1 DEF Markers, Awaited, FinishOperation, Marked, MarkFails, Marking
      <4>2. run' = [run EXCEPT ![u] = "run"]
        BY <3>1 DEF FinishOperation, Marked, MarkFails, EndActivity
      <4>. QED  BY <2>1, <2>b, <4>1, <4>2
    <3>2. CASE ~\E u \in Tasks : FinishOperation(u, j) \/ Marked(u, j) \/ MarkFails(u, j)
      BY <2>a, <2>5, <3>2 DEF JobStep, Continue, Persist, PersistFails, Expire, Deadline, ClaimTermination,
         FinishPause, FinishResume, FinishRetry, tasks
    <3>. QED  BY <3>1, <3>2
  <2>6. CASE UNCHANGED vars
    BY <2>a, <2>6 DEF vars, tasks
  <2>. QED  BY <1>1, <2>0, <2>3, <2>4, <2>5, <2>6, Cases
<1>. QED  BY <1>1, Invariance, PTL DEF Spec, ResumeIsDurable

\* A reconnect timeout (_deadline, or a client's report) ends only the pause it
\* belongs to, for any number of pauses and resumes.
THEOREM TimeoutsHitTheirPause == Spec => TimeoutHitsItsPause
<1>1. ASSUME IInv, [Next]_vars
      PROVE  [reason' = "disconnect_timeout" /\ reason # "disconnect_timeout" =>
               hold /\ pauseId \in expired \cup asked']_vars
  <2>1. SUFFICES ASSUME reason' = "disconnect_timeout", reason # "disconnect_timeout"
                 PROVE  hold /\ pauseId \in expired \cup asked'
    OBVIOUS
  <2>2. Moves /\ Gate /\ Timers
    BY <1>1, TypesSplit, NextMoves DEF IInv, ControlTypes
  <2>3. CASE ResumeTooLate
    BY <2>2, <2>3 DEF ResumeTooLate, Gate
  <2>4. CASE Terminate
    BY <2>1, <2>4 DEF Terminate, ClaimTermination
  <2>5. CASE \E p \in 1..setting.pauses : TerminateTimedOut(p)
    BY <2>5 DEF TerminateTimedOut
  <2>6. ASSUME NEW j \in jobs, Deadline(j)
        PROVE  hold /\ pauseId \in expired \cup asked'
    BY <2>1, <2>2, <2>6 DEF Deadline, StillHeld, Timers, control
  <2>. QED  BY <2>1, <2>2, <2>3, <2>4, <2>5, <2>6 DEF Moves
<1>. QED  BY <1>1, Invariance, PTL DEF Spec, TimeoutHitsItsPause

=============================================================================
