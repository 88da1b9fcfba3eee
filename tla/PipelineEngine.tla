-------------------------- MODULE PipelineEngine --------------------------
(***************************************************************************)
(* The pipeline runner (pipeline/engine): the state machine over the steps *)
(* of a pipeline, the conclusions the steps leave in the context with      *)
(* their stale marks, the attempts and their transcripts, and the sidecar  *)
(* on disk (context.yaml and meta.yaml) from which a killed process        *)
(* resumes.                                                                *)
(*                                                                         *)
(* A stream is one call of the generator _continue_from_current.  An       *)
(* action is the code between two points at which the stream gives way to  *)
(* others: a yield to its consumer, the agent loop, the backup thread.     *)
(* Saves run on the event loop, so a save is part of the action that makes *)
(* it; but it replaces two files, and the process may die in between.      *)
(*                                                                         *)
(* What the agent concludes is abstracted to its kind; a conclusion is     *)
(* named by a stamp and remembers which conclusions it was drawn from.     *)
(* A failed save ends the stream and leaves the disk as a kill just before *)
(* it would, so it is not modelled on its own.                             *)
(***************************************************************************)
EXTENDS Integers, Sequences

CONSTANTS
    N,        \* number of steps; step i's forward target is i + 1
    Deps,     \* Deps[i]: the steps whose conclusions step i depends on
    Settings, \* the pipelines, surfaces and bounds explored, see Setting
    None

Steps == 1..N

(* waits: the steps with auto_advance: false; legacy: those of them whose  *)
(* conclusions do not say that they still wait, for want of a "status";    *)
(* plain: those of these that are never asked again (confirmations, and    *)
(* the steps of any other ui_mode); parallel: the parallel_sub_pipeline    *)
(* steps; exits: the steps with an exit_condition; a2a: the surface, A2A   *)
(* or the REPL; rollbacks, interrupts: the limits of the state machine;    *)
(* the rest bounds what happens.                                           *)
Setting ==
    [waits : SUBSET Steps, legacy : SUBSET Steps, plain : SUBSET Steps,
     parallel : SUBSET Steps, exits : SUBSET Steps,
     a2a : BOOLEAN, rollbacks : Nat, interrupts : Nat, attempts : Nat \ {0}, crashes : Nat,
     torn : Nat, blocks : Nat, answers : Nat, fails : Nat, refused : Nat]

Statuses  == {"pending", "running", "completed", "stale"}
Terminal  == {"completed", "failed", "stopped"}
Resumable == {"running", "waiting_input", "backup_blocked"}

(* What a snapshot of the runner holds in setting x, see InitMemory, and   *)
(* what meta.yaml holds.                                                   *)
Attempt    == [step : Steps, status : {"running", "completed", "failed", "rolled_back", "discarded"}]
Machine(x) == [index : 1..(N + 1), status : [Steps -> Statuses],
               rollbacks : 0..x.rollbacks, interrupts : 0..x.interrupts]
Past       == [since : [Steps -> Nat], answered : [Steps -> BOOLEAN]]
Memory(x)  == [sm : Machine(x), att : Seq(Attempt), exec : 0..x.attempts,
               inp : {"none", "text", "answer"}, hist : Past]
File(x)    == [status : Resumable \union Terminal, step : Steps, reason : {"none", "input", "terminal"},
               mem : Memory(x)]

ASSUME PipelineAssumption ==
    /\ N \in Nat \ {0}
    /\ Deps \in [Steps -> SUBSET Steps]
    /\ \A i \in Steps : \A d \in Deps[i] : d < i
    /\ Settings \subseteq Setting
    /\ \A x \in Settings :
          /\ x.plain \subseteq x.legacy /\ x.legacy \subseteq x.waits
          /\ (x.parallel \union x.exits) \intersect x.waits = {}
          /\ None \notin File(x)

VARIABLES
    setting,  \* the pipeline and its surface, chosen once
    mem,      \* what a snapshot of the runner holds, see Memory
    ctx,      \* PipelineContext: per step [val, stale, seen, by]
    scripts,  \* the transcripts on disk, by attempt id
    strm,     \* the current stream and the one it replaces
    up,       \* the process is alive
    meta,     \* meta.yaml, None before the first save
    dctx,     \* context.yaml
    torn,     \* meta.yaml before the save just made; None after any other step
    clock,    \* number of conclusions drawn so far
    used      \* how often each bounded event has happened

vars == <<setting, mem, ctx, scripts, strm, up, meta, dctx, torn, clock, used>>

Waits    == setting.waits
Legacy   == setting.legacy
Parallel == setting.parallel
Exits    == setting.exits
A2A      == setting.a2a
MaxAttempts == setting.attempts

----------------------------------------------------------------------------
(* The state machine and the context                                       *)

(* mem.sm is the StateMachine, att the attempt records, exec the active    *)
(* attempt (0: none) and inp the saved input of the current step.  hist is *)
(* history: the first attempt after the last rollback over each step, and  *)
(* whether the user has answered since.                                    *)
InitMemory ==
    [sm   |-> [index |-> 1, status |-> [i \in Steps |-> "pending"],
               rollbacks |-> 0, interrupts |-> 0],
     att  |-> <<>>, exec |-> 0, inp |-> "none",
     hist |-> [since |-> [i \in Steps |-> 0], answered |-> [i \in Steps |-> FALSE]]]

EmptyContext == [i \in Steps |-> [val |-> 0, stale |-> FALSE, seen |-> <<>>, by |-> 0]]

IsComplete(sm) == sm.index > N

(* advance: the current step, whoever asks, is completed. *)
Advance(sm) ==
    [sm EXCEPT !.index  = @ + 1,
               !.status = [i \in Steps |-> IF i = sm.index THEN "completed"
                                           ELSE IF i = sm.index + 1 THEN "running"
                                           ELSE sm.status[i]]]

RollbackTargets(sm) == {i \in Steps : i <= sm.index /\ sm.status[i] = "completed"}

(* (Mutant: the steps ahead keep their statuses.) *)
MoveBackOnly(sm, t) ==
    [sm EXCEPT !.index = t, !.status[t] = "running"]

(* The part rollback and interrupt_rollback share. *)
MoveBack(sm, t) ==
    [sm EXCEPT !.index  = t,
               !.status = [i \in Steps |-> IF i = t THEN "running"
                                           ELSE IF i > t THEN "stale"
                                           ELSE sm.status[i]]]

CountedRollback(sm, t)  == [MoveBack(sm, t) EXCEPT !.rollbacks = @ + 1]
CountedInterrupt(sm, t) == [MoveBack(sm, t) EXCEPT !.interrupts = @ + 1]

(* The steps whose conclusions depend, directly or not, on that of s: what *)
(* the search of _propagate_stale visits, the steps in every set that has  *)
(* s in it and, with a step, those that depend on it.                      *)
Closed(S) == \A i \in Steps : Deps[i] \intersect S # {} => i \in S

Downstream(s) == {i \in Steps : \A S \in SUBSET Steps : s \in S /\ Closed(S) => i \in S} \ {s}

PropagateStale(c, s) ==
    [i \in Steps |-> IF i \in Downstream(s) /\ c[i].val # 0 THEN [c[i] EXCEPT !.stale = TRUE] ELSE c[i]]

MarkStale(c, s) == PropagateStale([c EXCEPT ![s].stale = TRUE], s)

SetConclusion(c, s, v, seen, a) ==
    PropagateStale([c EXCEPT ![s] = [val |-> v, stale |-> FALSE, seen |-> seen, by |-> a]], s)

----------------------------------------------------------------------------
(* Attempts                                                                *)

(* _mark_attempt_status: a status other than running also ends the         *)
(* execution of the active attempt.                                        *)
MarkAttempt(m, a, status) ==
    IF a = 0 THEN m
    ELSE [m EXCEPT !.att[a].status = status,
                   !.exec = IF @ = a THEN 0 ELSE @]

CreateAttempt(m, s) ==
    [m EXCEPT !.att = Append(@, [step |-> s, status |-> "running"]), !.exec = Len(m.att) + 1]

ActiveMatches(m, s) == m.exec # 0 /\ m.att[m.exec].step = s

(* (Mutant: an earlier attempt of the step is taken up again.) *)
ReuseAttempt(m, s) ==
    LET of == {a \in DOMAIN m.att : m.att[a].step = s /\ s \notin Waits}
    IN IF ActiveMatches(m, s) /\ m.att[m.exec].status = "running" THEN m
       ELSE IF of = {} THEN CreateAttempt(m, s)
       ELSE [m EXCEPT !.exec = CHOOSE a \in of : \A b \in of : b <= a]

EnsureAttempt(m, s) ==
    IF ActiveMatches(m, s) /\ m.att[m.exec].status = "running" THEN m ELSE CreateAttempt(m, s)

(* _current_parent_attempt: the active one or the latest of the step. *)
CurrentAttempt(m, s) ==
    LET of == {a \in DOMAIN m.att : m.att[a].step = s}
    IN IF ActiveMatches(m, s) THEN m.exec
       ELSE IF of = {} THEN 0
       ELSE CHOOSE a \in of : \A b \in of : b <= a

HasTranscript(a) == a # 0 /\ scripts[a].state # "none"

NoScript == [state |-> "none", ans |-> FALSE, out |-> "none", to |-> 0, val |-> 0, seen |-> <<>>]

(* The history of a move back to t: everything from t on must be redone    *)
(* by attempts from the next one on, and its answers no longer count.      *)
ForgetFrom(m, t) ==
    [m EXCEPT !.hist = [since    |-> [i \in Steps |-> IF i >= t THEN Len(m.att) + 1 ELSE @.since[i]],
                        answered |-> [i \in Steps |-> i < t /\ @.answered[i]]]]

----------------------------------------------------------------------------
(* The sidecar                                                             *)

(* _save_snapshot_sync: context.yaml is replaced first, meta.yaml second. *)
Save(status, step, reason, m, c) ==
    /\ mem' = m
    /\ ctx' = c
    /\ dctx' = c
    /\ meta' = [status |-> status, step |-> step, reason |-> reason, mem |-> m]
    /\ torn' = meta

NoSave == UNCHANGED <<mem, ctx, dctx, meta>> /\ torn' = None

(* _valid_state_machine_snapshot *)
ValidSnapshot(f) == f.mem.sm.index <= N /\ f.mem.sm.index = f.step

CanRestore == meta # None /\ (meta # None => meta.status \in Resumable /\ ValidSnapshot(meta))

----------------------------------------------------------------------------
(* Streams                                                                 *)

Idle == [pc |-> "idle", flag |-> "none", msg |-> "none", step |-> 0, att |-> 0, resume |-> FALSE, what |-> "none"]

(* A stream about to enter the loop; flag tells a resumed waiting step or  *)
(* a resumed running one, msg is first_step_user_input.                    *)
AtTop(flag, msg) == [Idle EXCEPT !.pc = "top", !.flag = flag, !.msg = msg]

InBackup(what, s) == [Idle EXCEPT !.pc = "backup", !.what = what, !.step = s]

(* A stream that is to be replaced is not pulled any more: it goes no      *)
(* further than its next yield.                                            *)
Set(w, r) ==
    strm' = [strm EXCEPT ![w] = IF w = "old" /\ strm["cur"].pc = "restart" /\ r.pc # "backup" THEN Idle ELSE r]

Streams == {"cur", "old"}

Init ==
    /\ setting \in Settings
    /\ mem = InitMemory
    /\ ctx = EmptyContext
    /\ scripts = [a \in 1..MaxAttempts |-> NoScript]
    /\ strm = [w \in Streams |-> Idle]
    /\ up = TRUE
    /\ meta = None
    /\ dctx = EmptyContext
    /\ torn = None
    /\ clock = 0
    /\ used = [crash |-> 0, torn |-> 0, block |-> 0, answer |-> 0, fail |-> 0, refused |-> 0]

(* run: the request is saved with the first step. *)
Start ==
    /\ up /\ meta = None /\ strm["cur"].pc = "idle"
    /\ Save("running", 1, "none", [mem EXCEPT !.inp = "text"], ctx)
    /\ Set("cur", AtTop("none", "text"))
    /\ UNCHANGED <<setting, scripts, up, clock, used>>

(* resume_current_step *)
Resumes(r, s) ==
    \/ r.flag = "waiting"
    \/ r.flag = "running" /\ HasTranscript(CurrentAttempt(mem, s))

(* The head of the loop: the attempt, the save that announces it, and the  *)
(* step executor, which takes a conclusion found in the transcript as the  *)
(* step's result.                                                          *)
EnterStep(w) ==
    LET r == strm[w]
        s == mem.sm.index
        m == [EnsureAttempt(mem, s) EXCEPT !.inp = r.msg]
    IN /\ up /\ r.pc = "top" /\ ~IsComplete(mem.sm)
       /\ Len(m.att) <= MaxAttempts
       /\ Save("running", s, "none", m, ctx)
       /\ Set(w, [r EXCEPT !.pc = IF scripts[m.exec].state = "done" THEN "done" ELSE "exec",
                           !.step = s, !.att = m.exec, !.resume = Resumes(r, s)])
       /\ UNCHANGED <<setting, scripts, up, clock, used>>

(* A stream that finds the pipeline complete saves that and ends. *)
EndStream(w) ==
    /\ up /\ strm[w].pc = "top" /\ IsComplete(mem.sm)
    /\ Save("completed", N, "none", mem, ctx)
    /\ Set(w, InBackup("completed", N))
    /\ UNCHANGED <<setting, scripts, up, clock, used>>

(* The agent loop writes the step's messages to the transcript.  Agent     *)
(* loops are paused while an interrupt is applied, so the loop of a stream *)
(* that was replaced concludes nothing more.                               *)
NeedsMessage(r) == scripts[r.att].state = "none" \/ (r.msg = "answer" /\ ~scripts[r.att].ans)

Converse(w) ==
    LET r == strm[w]
    IN /\ up /\ w = "cur" /\ r.pc = "exec" /\ r.step \notin Parallel
       /\ NeedsMessage(r)
       /\ scripts' = [scripts EXCEPT ![r.att].state = "open", ![r.att].ans = @ \/ r.msg = "answer"]
       /\ NoSave
       /\ UNCHANGED <<setting, strm, up, clock, used>>

(* What the agent may conclude: an unanswered waiting step only presents   *)
(* its options.                                                            *)
Outcomes(s, ans) ==
    IF s \in Waits THEN {"ask"} \union (IF ans THEN {"ok"} ELSE {})
    ELSE {"ok"} \union (IF s \in Exits THEN {"exit"} ELSE {}) \union (IF s > 1 THEN {"rollback"} ELSE {})

SeenBy(s) == [d \in Deps[s] |-> ctx[d].val]

(* complete_step is in the transcript before the stream acts on it. *)
Complete(w, out, t) ==
    LET r == strm[w]
    IN /\ up /\ w = "cur" /\ r.pc = "exec" /\ r.step \notin Parallel
       /\ ~NeedsMessage(r)
       /\ out \in Outcomes(r.step, scripts[r.att].ans)
       /\ IF out = "rollback" THEN t < r.step ELSE t = 1
       /\ scripts' = [scripts EXCEPT ![r.att].state = "done", ![r.att].out = out, ![r.att].to = t,
                                     ![r.att].val = clock + 1, ![r.att].seen = SeenBy(r.step)]
       /\ clock' = clock + 1
       /\ Set(w, [r EXCEPT !.pc = "done"])
       /\ NoSave
       /\ UNCHANGED <<setting, up, used>>

----------------------------------------------------------------------------
(* What the runner does with a step's result                               *)

(* (Mutant: any resumed step counts as answered.) *)
NeverAwaiting(r, out) == FALSE

(* Legacy conclusions without status count as an answer once there was     *)
(* any input; the others say themselves that they still wait.  Only the    *)
(* candidate_selection and deployment_confirmation steps wait again.       *)
AwaitingAgain(r, out) ==
    /\ r.step \notin setting.plain
    /\ IF r.step \in Legacy THEN r.msg = "none" ELSE out = "ask"

MovesOn(r, out) ==
    r.step \notin Waits \/ (r.resume /\ ~AwaitingAgain(r, out))

StepAfter(r, m) == m.sm.index

(* advance, _save_after_advance and, at the end, _save_completed. *)
Proceed(w, m, c) ==
    LET r  == strm[w]
        m1 == [m EXCEPT !.sm = Advance(@), !.inp = "none"]
    IN IF IsComplete(m1.sm)
       THEN Save("completed", r.step, "none", m1, c) /\ Set(w, InBackup("completed", r.step))
       ELSE Save("running", StepAfter(r, m1), "none", m1, c) /\ Set(w, AtTop("none", "none"))

WaitForInput(w, m, c) ==
    LET r == strm[w]
    IN /\ Save("waiting_input", r.step, "none", [m EXCEPT !.inp = "none"], c)
       /\ Set(w, IF A2A THEN Idle ELSE InBackup("input", r.step))

FailStep(w, m, c) ==
    LET r == strm[w]
    IN Save("failed", r.step, "none", MarkAttempt(m, m.exec, "failed"), c) /\ Set(w, InBackup("terminal", r.step))

RollBack(w, m, c, t) ==
    LET m1 == [m EXCEPT !.sm = CountedRollback(@, t)]
        m2 == MarkAttempt(m1, strm[w].att, "rolled_back")
        m3 == [CreateAttempt(ForgetFrom(m2, t), t) EXCEPT !.inp = "text"]
    IN /\ Len(m3.att) <= MaxAttempts
       /\ Save("running", t, "none", m3, MarkStale(c, t))
       /\ Set(w, AtTop("none", "text"))

CanRollBack(sm, t) == t \in RollbackTargets(sm) /\ sm.rollbacks < setting.rollbacks

(* A completed complete_step of a normal step. *)
Settle(w) ==
    LET r    == strm[w]
        res  == scripts[r.att]
        c    == SetConclusion(ctx, r.step, res.val, res.seen, r.att)
        m    == MarkAttempt(mem, r.att, "completed")
    IN /\ up /\ r.pc = "done"
       /\ \/ /\ res.out = "exit"
             /\ Save("completed", r.step, "none", m, c)
             /\ Set(w, InBackup("terminal", r.step))
          \/ /\ res.out = "rollback" /\ CanRollBack(mem.sm, res.to)
             /\ RollBack(w, mem, c, res.to)
          \/ /\ res.out = "rollback" /\ ~CanRollBack(mem.sm, res.to)
             /\ FailStep(w, mem, c)
          \/ /\ res.out \in {"ok", "ask"} /\ MovesOn(r, res.out)
             /\ Proceed(w, m, c)
          \/ /\ res.out \in {"ok", "ask"} /\ ~MovesOn(r, res.out)
             /\ WaitForInput(w, m, c)
       /\ UNCHANGED <<setting, scripts, up, clock, used>>

(* A parallel step has no transcript of its own, and concludes nothing     *)
(* once its attempt is not the active one.  The stream ends when the       *)
(* attempt was discarded; otherwise it goes on as if concluded.            *)
OwnsExecution(r) == mem.exec = r.att

(* (Mutant: an old stream does not notice that it was replaced.) *)
NeverDiscarded(r) == FALSE

Discarded(r) == mem.att[r.att].status = "discarded"

SettleParallel(w) ==
    LET r == strm[w]
        c == SetConclusion(ctx, r.step, clock + 1, SeenBy(r.step), r.att)
    IN /\ up /\ r.pc = "exec" /\ r.step \in Parallel
       /\ \/ /\ ~OwnsExecution(r) /\ Discarded(r)
             /\ Set(w, Idle) /\ NoSave /\ UNCHANGED clock
          \/ /\ ~OwnsExecution(r) /\ ~Discarded(r)
             /\ Proceed(w, MarkAttempt(mem, r.att, "completed"), ctx) /\ UNCHANGED clock
          \/ /\ OwnsExecution(r) /\ ~Discarded(r)
             /\ Proceed(w, MarkAttempt(mem, r.att, "completed"), c) /\ clock' = clock + 1
       /\ UNCHANGED <<setting, scripts, up, used>>

(* The agent gives no conclusion, or a parallel step raises. *)
Fail(w) ==
    /\ up /\ strm[w].pc = "exec"
    /\ used.fail < setting.fails
    /\ FailStep(w, mem, ctx)
    /\ used' = [used EXCEPT !.fail = @ + 1]
    /\ UNCHANGED <<setting, scripts, up, clock>>

----------------------------------------------------------------------------
(* The critical backup at the end of a stream                              *)

BackupSucceeds(w) ==
    /\ up /\ strm[w].pc = "backup"
    /\ Set(w, Idle)
    /\ NoSave
    /\ UNCHANGED <<setting, scripts, up, clock, used>>

(* The step _save_backup_blocked_sidecar records: the caller's, or the     *)
(* last one of a finished pipeline.                                        *)
BlockedStep(r) == IF r.what = "completed" THEN N ELSE r.step

BlockedReason(r) == IF r.what = "input" THEN "input" ELSE "terminal"

BackupBlocks(w) ==
    LET r == strm[w]
    IN /\ up /\ r.pc = "backup"
       /\ used.block < setting.blocks
       /\ Save("backup_blocked", BlockedStep(r), BlockedReason(r), mem, ctx)
       /\ Set(w, Idle)
       /\ used' = [used EXCEPT !.block = @ + 1]
       /\ UNCHANGED <<setting, scripts, up, clock>>

----------------------------------------------------------------------------
(* The user                                                                *)

(* resume: the answer is put into the waiting step's conclusion. *)
Answer ==
    LET s == mem.sm.index
        c == SetConclusion(ctx, s, clock + 1, ctx[s].seen, ctx[s].by)
        m == [mem EXCEPT !.inp = "answer", !.hist.answered[s] = TRUE]
    IN /\ up /\ strm["cur"].pc = "idle" /\ strm["old"].pc = "idle"
       /\ meta # None /\ meta.status = "waiting_input"
       /\ used.answer < setting.answers
       /\ Save("running", s, "none", m, c)
       /\ Set("cur", AtTop("waiting", "answer"))
       /\ clock' = clock + 1
       /\ used' = [used EXCEPT !.answer = @ + 1]
       /\ UNCHANGED <<setting, scripts, up>>

(* The REPL applies a verdict while it does not pull the stream; on the    *)
(* A2A surface the stream is driven by a task of its own.                  *)
Interruptible == IF A2A THEN {"top", "exec", "done", "backup"} ELSE {"top", "exec", "done"}

(* apply_hard_interrupt with an accepted target: t, or the current step    *)
(* when t lies ahead.  On the A2A surface the old stream is cancelled only *)
(* when its consumer notices the restart event.                            *)
HardInterrupt(t) ==
    LET m1 == [mem EXCEPT !.sm = CountedInterrupt(@, t)]
        m2 == MarkAttempt(m1, mem.exec, "discarded")
        m3 == [CreateAttempt(ForgetFrom(m2, t), t) EXCEPT !.inp = "text"]
    IN /\ Len(m3.att) <= MaxAttempts
       /\ Save("running", t, "none", m3, MarkStale(ctx, t))
       /\ strm' = IF A2A THEN [cur |-> [Idle EXCEPT !.pc = "restart"], old |-> strm["cur"]]
                  ELSE [strm EXCEPT !["cur"] = AtTop("none", "text")]

Interrupt(t) ==
    /\ up /\ strm["cur"].pc \in Interruptible
    /\ ~IsComplete(mem.sm)
    /\ mem.sm.interrupts < setting.interrupts
    /\ HardInterrupt(IF t <= mem.sm.index THEN t ELSE mem.sm.index)
    /\ UNCHANGED <<setting, scripts, up, clock, used>>

(* The limit is reached: the sidecar says failed.  The REPL goes on with   *)
(* its stream, the A2A executor cancels it once the failure is published.  *)
InterruptRefused ==
    /\ up /\ strm["cur"].pc \in Interruptible
    /\ ~IsComplete(mem.sm)
    /\ mem.sm.interrupts >= setting.interrupts
    /\ used.refused < setting.refused
    /\ Save("failed", mem.sm.index, "none", MarkAttempt(mem, mem.exec, "failed"), ctx)
    /\ strm' = IF A2A THEN [cur |-> [Idle EXCEPT !.pc = "halt"], old |-> strm["cur"]] ELSE strm
    /\ used' = [used EXCEPT !.refused = @ + 1]
    /\ UNCHANGED <<setting, scripts, up, clock>>

(* The consumer cancels the old stream and drives a new one, if the        *)
(* interrupt was applied.                                                  *)
Restart ==
    /\ up /\ strm["cur"].pc \in {"restart", "halt"}
    /\ strm' = [cur |-> IF strm["cur"].pc = "restart" THEN AtTop("none", "text") ELSE Idle, old |-> Idle]
    /\ NoSave
    /\ UNCHANGED <<setting, scripts, up, clock, used>>

(* mark_user_aborted, or mark_execution_terminated on the A2A surface: the *)
(* active attempt fails and execution is kept.                             *)
Stop ==
    LET m == IF mem.exec = 0 THEN mem ELSE [mem EXCEPT !.att[mem.exec].status = "failed"]
    IN /\ up /\ strm["cur"].pc \in {"top", "exec", "done"} /\ ~IsComplete(mem.sm)
       /\ Save("stopped", mem.sm.index, "none", m, ctx)
       /\ strm' = [w \in Streams |-> Idle]
       /\ UNCHANGED <<setting, scripts, up, clock, used>>

----------------------------------------------------------------------------
(* Kills and restarts                                                      *)

Lost == mem' = InitMemory /\ ctx' = EmptyContext /\ strm' = [w \in Streams |-> Idle] /\ up' = FALSE

Crash ==
    /\ up /\ used.crash < setting.crashes
    /\ Lost
    /\ torn' = None
    /\ used' = [used EXCEPT !.crash = @ + 1]
    /\ UNCHANGED <<setting, scripts, meta, dctx, clock>>

(* The process dies inside the save of the last step: context.yaml is new, *)
(* meta.yaml is not.                                                       *)
CrashInSave ==
    /\ up /\ used.torn < setting.torn /\ torn # None
    /\ Lost
    /\ meta' = torn /\ torn' = None
    /\ used' = [used EXCEPT !.torn = @ + 1]
    /\ UNCHANGED <<setting, scripts, dctx, clock>>

(* A blocked session is left and opened again later. *)
Leave ==
    /\ up /\ meta # None /\ meta.status = "backup_blocked" /\ \A w \in Streams : strm[w].pc = "idle"
    /\ Lost
    /\ torn' = None
    /\ UNCHANGED <<setting, scripts, meta, dctx, clock, used>>

(* restore_from_sidecar_sync and continue_from_sidecar: a running step     *)
(* resumes with its saved input or with what the user adds; a waiting one  *)
(* waits; a blocked one first repeats its backup.                          *)
Restore(extra) ==
    /\ ~up /\ CanRestore
    /\ up' = TRUE
    /\ mem' = meta.mem
    /\ ctx' = dctx
    /\ torn' = None
    /\ LET msg == IF extra THEN "text" ELSE meta.mem.inp
       IN /\ extra => meta.status = "running"
          /\ Set("cur", CASE meta.status = "running"       -> AtTop("running", msg)
                          [] meta.status = "waiting_input" -> Idle
                          [] OTHER                         -> [AtTop("running", msg) EXCEPT !.pc = "retry"])
    /\ UNCHANGED <<setting, scripts, meta, dctx, clock, used>>

RetryBackup(ok) ==
    /\ up /\ strm["cur"].pc = "retry"
    /\ IF ok
       THEN Set("cur", [strm["cur"] EXCEPT !.pc = "top"]) /\ NoSave /\ UNCHANGED used
       ELSE /\ used.block < setting.blocks
            /\ Save("backup_blocked", mem.sm.index, meta.reason, mem, ctx)
            /\ Set("cur", Idle)
            /\ used' = [used EXCEPT !.block = @ + 1]
    /\ UNCHANGED <<setting, scripts, up, clock>>

StreamStep(w) ==
    \/ EnterStep(w) \/ EndStream(w) \/ Converse(w)
    \/ \E out \in {"ok", "ask", "exit", "rollback"}, t \in Steps : Complete(w, out, t)
    \/ Settle(w) \/ SettleParallel(w) \/ BackupSucceeds(w)

Next ==
    \/ Start \/ Answer \/ Stop
    \/ \E w \in Streams : StreamStep(w) \/ Fail(w) \/ BackupBlocks(w)
    \/ \E t \in Steps : Interrupt(t)
    \/ InterruptRefused \/ Restart
    \/ Crash \/ CrashInSave \/ Leave
    \/ \E b \in BOOLEAN : Restore(b) \/ RetryBackup(b)

Spec == Init /\ [][Next]_vars

----------------------------------------------------------------------------
(* Properties                                                              *)

(* While at most k conclusions have been drawn. *)
Reads(k)         == {<<>>} \union UNION {[Deps[i] -> 0..k] : i \in Steps}
Conclusion(x, k) == [val : 0..k, stale : BOOLEAN, seen : Reads(k), by : 0..x.attempts]
Contexts(x, k)   == [Steps -> Conclusion(x, k)]
Transcript(k)    == [state : {"none", "open", "done"}, ans : BOOLEAN, out : {"none", "ok", "ask", "exit", "rollback"},
                     to : 0..N, val : 0..k, seen : Reads(k)]
StreamState(x) ==
    [pc : {"idle", "top", "exec", "done", "backup", "retry", "restart", "halt"},
     flag : {"none", "waiting", "running"}, msg : {"none", "text", "answer"}, step : 0..N,
     att : 0..x.attempts, resume : BOOLEAN, what : {"none", "completed", "input", "terminal"}]

(* The types of the runner's state and of the sidecar; the active attempt  *)
(* is always one that was recorded.                                        *)
TypeOK ==
    /\ setting \in Settings
    /\ mem \in Memory(setting) /\ mem.exec \in 0..Len(mem.att)
    /\ clock \in Nat /\ ctx \in Contexts(setting, clock) /\ dctx \in Contexts(setting, clock)
    /\ scripts \in [1..MaxAttempts -> Transcript(clock)]
    /\ strm \in [Streams -> StreamState(setting)]
    /\ up \in BOOLEAN
    /\ meta \in {None} \union File(setting) /\ torn \in {None} \union File(setting)
    /\ used \in [crash : Nat, torn : Nat, block : Nat, answer : Nat, fail : Nat, refused : Nat]

(* The steps before the current one are completed, those after it are not, *)
(* whatever mixture of advances, rollbacks, interrupts and restarts led    *)
(* there: the statuses the progress bar and the rollback targets are read  *)
(* from agree with the position (advance, rollback, interrupt_rollback).   *)
CompletedPrefix ==
    \A i \in Steps : (mem.sm.status[i] = "completed") <=> (i < mem.sm.index)

(* On the A2A surface the stream of a normal step may go on for a moment   *)
(* after an interrupt has moved the state machine, and advance it again;   *)
(* the REPL closes the stream first, and a parallel step looks whether its *)
(* attempt was discarded.                                                  *)
OldStreamIsHarmless == ~A2A \/ Parallel = Steps

(* A refused interrupt has cancelled the candidates and failed the attempt *)
(* of a parallel step by the time it is refused; the stream that goes on   *)
(* passes the step without a conclusion.                                   *)
NoneRefusedInParallel == Parallel = {} \/ setting.refused = 0

(* A step before the current one was concluded by an attempt begun after   *)
(* the last rollback or interrupt that reached back to it or beyond: what  *)
(* the user or a later step asked to be redone is redone, even when the    *)
(* process was killed meanwhile (apply_hard_interrupt,                     *)
(* _ensure_parent_attempt, _restore_completed_step_result).                *)
RedoneAfterRollback ==
    (OldStreamIsHarmless /\ NoneRefusedInParallel) =>
        \A i \in Steps : i < mem.sm.index => ctx[i].by >= mem.hist.since[i]

(* Every conclusion of a finished pipeline was drawn from the conclusions  *)
(* that are in the context next to it (PipelineContext, the order in which *)
(* steps are redone, and the two files of a save).                         *)
BasisCurrent ==
    (OldStreamIsHarmless /\ NoneRefusedInParallel /\ meta # None) =>
        (meta.status = "completed" /\ IsComplete(meta.mem.sm) =>
            \A i \in Steps : dctx[i].val # 0 /\ \A d \in Deps[i] : dctx[i].seen[d] = dctx[d].val)

(* And none of them is marked stale: the marks of every rollback have been *)
(* cleared by the steps redone since (mark_stale, set_conclusion).  A kill *)
(* between the two files of an interrupt's save leaves its marks without   *)
(* its position.                                                           *)
NoStaleAtEnd ==
    (OldStreamIsHarmless /\ NoneRefusedInParallel /\ used.torn = 0 /\ meta # None) =>
        (meta.status = "completed" /\ IsComplete(meta.mem.sm) => \A i \in Steps : ~dctx[i].stale)

(* The pipeline never passes a step with auto_advance: false, such as the  *)
(* choice before a deployment, unless the user has answered it since it    *)
(* was last reset (resume, awaiting_selection_again).  A conclusion without *)
(* a status is taken for an answer after any other input.                  *)
AdvanceNeedsAnswer ==
    OldStreamIsHarmless => \A i \in Waits \ Legacy : i < mem.sm.index => mem.hist.answered[i]

(* A sidecar that says the pipeline runs or waits can be restored: no      *)
(* interleaving of saves leaves a position and a step that disagree        *)
(* (_valid_state_machine_snapshot).                                        *)
ActiveIsRestorable ==
    (OldStreamIsHarmless /\ meta # None) => (meta.status \in {"running", "waiting_input"} => ValidSnapshot(meta))

(* The position of the pipeline agrees with the statuses of its steps, in  *)
(* memory, and with the saved step in a sidecar that is to be resumed      *)
(* (advance, rollback, interrupt_rollback, _valid_state_machine_snapshot). *)
PositionAgrees == TypeOK /\ CompletedPrefix /\ ActiveIsRestorable

(* A finished pipeline is of one piece: each conclusion was drawn from     *)
(* those next to it, and none is stale (PipelineContext, mark_stale).      *)
FinishedIsCurrent == BasisCurrent /\ NoStaleAtEnd

=============================================================================
