------------------------- MODULE ExecutionTermination -------------------------
(***************************************************************************)
(* The other half of ExecutionController: how an execution ends.  A stop   *)
(* request cancels its tasks, a turn that completed naturally is finalized *)
(* after its answer was delivered; both clean up, back the session up and  *)
(* only then declare the execution released.  Several finalizers, retries  *)
(* and a later claim may be under way at once.  A job is one coroutine; a  *)
(* step is its code between two awaits.                                    *)
(***************************************************************************)
EXTENDS Integers, FiniteSets, Sequences, Functions

CONSTANTS
  Tasks,        \* tasks of the execution
  Settings      \* backups and bounds, see Setting

\* tasks: those that take part; service: how the session is backed up; handoff:
\* its control file names a permission handoff; claims, data, failures: terminations claimed, writes to the session, and failed
\* cleanups, backups and writes; revision: no retry starts from it on.
Setting == [tasks : SUBSET Tasks, service : {"off", "direct", "coordinated"}, handoff : BOOLEAN,
            claims : Nat, data : Nat, failures : Nat, revision : Nat]

ASSUME TerminationAssumption == Settings \subseteq Setting

VARIABLES
  setting,        \* the backup in use and the bounds, chosen once
  phase, reason,
  owner,          \* _termination_generation
  backup,         \* backup["status"]
  recorded,       \* _backup_state_committed
  ready, releasing,
  cleaned, cleaning,
  stop,           \* _pending_explicit_termination_reason
  failed,         \* _commit_error
  revision, persisted, disk,
  receipt,        \* revision of _natural_handoff, 0 if none
  pending,        \* revision of _pending_natural_handoff, 0 if none
  captured,       \* _pending_natural_backup_job is known
  completion,     \* the turn's natural completion: none, set, delivered
  work, canceled, \* live tasks; those told to cancel
  data, saved,    \* the session's content, and what its backup holds
  ended,          \* the ending its records state: none, natural, explicit
  jobs,           \* coroutines under way
  fresh,          \* those spawned and not begun, in their order
  failures

state == <<phase, reason, owner, backup, cleaned, cleaning, stop, captured, completion>>
commit == <<recorded, failed, revision, receipt, pending>>
release == <<ready, releasing, fresh>>
store == <<persisted, disk>>
session == <<work, canceled, data, saved, ended>>
vars == <<setting, state, commit, release, store, session, jobs, failures>>

Statuses == {"not_requested", "pending", "disabled", "blocked", "committed"}
Released == {"disabled", "committed"}   \* _BACKUP_RELEASE_STATUSES
Reasons == {"none", "natural", "explicit"}
Snapshot == [revision : Nat, phase : {"running", "terminating", "terminated"},
             backup : Statuses, ready : BOOLEAN, receipt : BOOLEAN]

\* A finalizer: who it works for, where it is, the tasks it waits for, whether
\* it took the cleanup, what failed, and the snapshot it is writing.
Job == [kind : {"stop", "natural", "recleanup", "rebackup", "recommit", "release"},
        owner : Nat, why : Reasons, st : STRING, tasks : SUBSET Tasks, cleans : BOOLEAN,
        error : BOOLEAN, locked : BOOLEAN, snap : Snapshot, good : BOOLEAN, then : STRING]

TypeOK ==
  /\ phase \in {"running", "terminating", "terminated"} /\ reason \in Reasons /\ ended \in Reasons
  /\ owner \in 0..setting.claims /\ backup \in Statuses
  /\ {recorded, ready, releasing, cleaned, cleaning, stop, failed, captured} \subseteq BOOLEAN
  /\ revision \in Nat /\ persisted \in 0..revision /\ disk \in Snapshot
  /\ receipt \in 0..revision /\ pending \in 0..revision
  /\ completion \in {"none", "set", "delivered"}
  /\ work \subseteq Tasks /\ canceled \subseteq Tasks
  /\ data \in Nat /\ saved \in 0..data /\ jobs \subseteq Job /\ fresh \in Seq(Job) /\ failures \in Nat
  /\ Cardinality({j \in jobs : j.locked}) <= 1

Snap(p, b, rdy, rec) == [revision |-> 0, phase |-> p, backup |-> b, ready |-> rdy, receipt |-> rec]

Init ==
  /\ setting \in Settings
  /\ phase = "running" /\ reason = "none" /\ owner = 0 /\ backup = "not_requested"
  /\ recorded = FALSE /\ ready = FALSE /\ releasing = FALSE
  /\ cleaned = FALSE /\ cleaning = FALSE /\ stop = FALSE /\ failed = FALSE
  /\ revision = 0 /\ persisted = 0 /\ disk = Snap("running", "not_requested", FALSE, FALSE)
  /\ receipt = 0 /\ pending = 0 /\ captured = FALSE /\ completion = "none"
  /\ work = {} /\ canceled = {} /\ data = 0 /\ saved = 0 /\ ended = "none" /\ jobs = {} /\ fresh = <<>> /\ failures = 0

Service == setting.service
Ending == phase \in {"terminating", "terminated"}

-----------------------------------------------------------------------------
\* Jobs and their moves.
New(kind, g, st) ==
  [kind |-> kind, owner |-> g, why |-> "none", st |-> st, tasks |-> {}, cleans |-> FALSE, error |-> FALSE,
   locked |-> FALSE, snap |-> Snap("running", "not_requested", FALSE, FALSE), good |-> FALSE, then |-> "none"]
Replace(j, js) == (jobs \ {j}) \cup js
Goto(j, st) == Replace(j, {[j EXCEPT !.st = st]})

\* The current state as a snapshot to be written at revision r.
Current(r, p, b, rdy, rec) ==
  [revision |-> r, phase |-> p, backup |-> b, ready |-> rdy, receipt |-> rec]
Writing(j, snap, then) == [j EXCEPT !.st = "write", !.snap = snap, !.then = then]

\* _owns_termination_locked.
Owns(j) == owner = j.owner /\ Ending

\* _spawn: a coroutine begins when the loop comes to it.
Spawn(j) == fresh' = Append(fresh, j)
Starting(j) == fresh # <<>> /\ j = Head(fresh) /\ fresh' = Tail(fresh)

\* _maybe_mark_release_ready_locked, on the state the handler has reached.
MaybeRelease(js) ==
  IF phase' = "terminated" /\ backup' \in Released /\ work' = {} /\ recorded' /\ ~ready' /\ ~releasing
  THEN releasing' = TRUE /\ Spawn(New("release", 0, "start")) /\ jobs' = js
  ELSE UNCHANGED <<releasing, fresh>> /\ jobs' = js

Fault == failures < setting.failures /\ failures' = failures + 1

-----------------------------------------------------------------------------
\* The execution's own tasks.
Attach(t) ==
  /\ phase = "running" /\ t \notin work /\ data < setting.data
  /\ work' = work \cup {t} /\ completion' = "none"
  /\ UNCHANGED <<setting, phase, reason, owner, backup, cleaned, cleaning, stop, captured, commit, release, store, canceled, data, saved, ended, jobs, failures>>

Work(t) ==
  /\ t \in work /\ data < setting.data /\ data' = data + 1 /\ ended' = "none"
  /\ UNCHANGED <<setting, state, commit, release, store, work, canceled, saved, jobs, failures>>

\* detach_task, with or without natural completion.
Detach(t, natural) ==
  /\ t \in work
  /\ work' = work \ {t} /\ canceled' = canceled \ {t}
  /\ completion' = IF natural /\ t \notin canceled THEN "set" ELSE completion
  /\ UNCHANGED <<setting, phase, reason, owner, backup, cleaned, cleaning, stop, captured, commit, ready, store, data, saved, ended, failures>>
  /\ MaybeRelease(jobs)

-----------------------------------------------------------------------------
\* What both claims reset.
Claim(why) ==
  /\ owner < setting.claims /\ owner' = owner + 1
  /\ phase' = "terminating" /\ reason' = why /\ revision' = revision + 1
  /\ backup' = "pending" /\ recorded' = FALSE /\ ready' = FALSE
  /\ cleaned' = FALSE /\ cleaning' = FALSE /\ captured' = FALSE
  /\ completion' = "none" /\ receipt' = 0 /\ pending' = 0 /\ stop' = FALSE

\* _claim_termination_locked and the coroutine it is claimed for.
Stop(js) ==
  /\ Claim("explicit")
  /\ Spawn(New("stop", owner + 1, "start")) /\ jobs' = js
  /\ UNCHANGED <<setting, failed, releasing, store, session, failures>>

\* terminate: a natural finalization in flight is left to hand over; one that
\* has finished is superseded.
TerminateNow ==
  /\ phase = "running" \/ (phase = "terminated" /\ reason = "natural")
  /\ Stop(jobs)
TerminateLater ==
  /\ phase = "terminating" /\ reason = "natural" /\ ~stop
  /\ stop' = TRUE
  /\ UNCHANGED <<setting, phase, reason, owner, backup, cleaned, cleaning, captured, completion, commit, release, store, session, jobs, failures>>

\* finalize_natural_completion: the answer has been delivered.
Deliver ==
  /\ completion = "set" /\ completion' = "delivered"
  /\ UNCHANGED <<setting, phase, reason, owner, backup, cleaned, cleaning, stop, captured, commit, release, store, session, jobs, failures>>

\* _claim_natural_completion_locked, from finalize_natural_completion or a
\* later observe_state; the finalizer first makes the claim durable.
ClaimNatural ==
  /\ phase = "running" /\ completion = "delivered" /\ work = {}
  /\ Claim("natural")
  /\ jobs' = jobs \cup {Writing(New("natural", owner + 1, "write"),
                                Current(revision + 1, "terminating", "pending", FALSE, FALSE), "claim")}
  /\ UNCHANGED <<setting, failed, releasing, fresh, store, session, failures>>

\* _retry_termination_if_needed_locked, from observe_state or a repeated stop.
Retry ==
  /\ phase = "terminated" /\ ~ready /\ revision < setting.revision
  /\ \/ /\ ~cleaned /\ ~cleaning
        /\ cleaning' = TRUE /\ backup' = "pending" /\ recorded' = FALSE
        /\ Spawn(New("recleanup", owner, "start"))
        /\ UNCHANGED <<failed, releasing, jobs>>
     \/ /\ cleaned /\ backup = "blocked"
        /\ backup' = "pending" /\ recorded' = FALSE
        /\ Spawn(New("rebackup", owner, "start"))
        /\ UNCHANGED <<cleaning, failed, releasing, jobs>>
     \/ /\ cleaned /\ backup # "blocked" /\ failed
        /\ failed' = FALSE
        /\ UNCHANGED <<backup, recorded, cleaning, work, ready, phase>>
        /\ IF recorded THEN MaybeRelease(jobs)
           ELSE Spawn(New("recommit", owner, "start")) /\ UNCHANGED <<releasing, jobs>>
  /\ UNCHANGED <<setting, phase, reason, owner, cleaned, stop, captured, completion, revision, receipt, pending, ready, store, session, failures>>

-----------------------------------------------------------------------------
\* _finish_termination, _finish_natural_completion, _retry_termination_cleanup:
\* take the cleanup if nobody has, and remember who is to be canceled.
MayFinish(j) ==
  Owns(j) /\ (j.kind = "natural" => phase = "terminating" /\ reason = "natural")
Begin(j) ==
  /\ j.kind \in {"stop", "natural", "recleanup"} /\ j.st = "start"
  /\ IF j \in jobs THEN fresh' = fresh ELSE Starting(j)
  /\ IF ~MayFinish(j) THEN jobs' = jobs \ {j} /\ cleaning' = cleaning
     ELSE LET takes == j.kind = "recleanup" \/ (~cleaned /\ ~cleaning)
          IN /\ cleaning' = (cleaning \/ takes)
             /\ jobs' = Replace(j, {[j EXCEPT !.st = "clean", !.cleans = takes, !.why = reason,
                                     !.tasks = IF j.kind = "stop" THEN work ELSE {}]})
  /\ UNCHANGED <<setting, phase, reason, owner, backup, cleaned, stop, captured, completion, commit, ready, releasing, store, session, failures>>

\* Only the last cleanup of a finalizer marks it complete: for a stop, the one
\* after its tasks have drained.
Marks(j) == j.kind # "stop" \/ j.st = "clean2"

\* _run_termination_cleanup: once nothing runs, the ending is written into the
\* task's records, unless they state it, or a cancelation, already.
Rank == [w \in Reasons |-> IF w = "none" THEN 0 ELSE IF w = "natural" THEN 1 ELSE 2]
WritesEnding(j) == j.cleans /\ work = {} /\ Rank[j.why] > Rank[ended]
Clean(j) ==
  /\ j \in jobs /\ j.st \in {"clean", "clean2"}
  /\ IF WritesEnding(j) THEN data' = data + 1 /\ ended' = j.why ELSE UNCHANGED <<data, ended>>
  /\ IF j.cleans /\ Owns(j) /\ Marks(j) THEN cleaned' = TRUE /\ cleaning' = FALSE
     ELSE UNCHANGED <<cleaned, cleaning>>
  /\ jobs' = Goto(j, CASE j.kind = "stop" /\ j.st = "clean" -> "cancel"
                       [] j.kind = "recleanup" -> "backup"
                       [] OTHER -> "settle")
  /\ UNCHANGED <<setting, phase, reason, owner, backup, stop, captured, completion, commit, release, store, work, canceled, saved, failures>>

CleanFails(j) ==
  /\ j \in jobs /\ j.st \in {"clean", "clean2"} /\ j.cleans /\ Fault
  /\ jobs' = Replace(j, {[j EXCEPT !.error = TRUE,
                          !.st = CASE j.kind = "stop" /\ j.st = "clean" -> "cancel"
                                   [] j.kind = "recleanup" -> "block" [] OTHER -> "settle"]})
  /\ UNCHANGED <<setting, state, commit, release, store, session>>

Cancel(j) ==
  /\ j \in jobs /\ j.st = "cancel"
  /\ IF Owns(j) THEN canceled' = canceled \cup (j.tasks \cap work) /\ jobs' = Goto(j, "drain")
     ELSE canceled' = canceled /\ jobs' = jobs \ {j}
  /\ UNCHANGED <<setting, state, commit, release, store, work, data, saved, ended, failures>>

\* Every captured task has left; then the cleanup is repeated.  (Mutant: the
\* tasks are canceled and not waited for.)
NotAwaited(j) == TRUE
Drained(j) == j.tasks \cap work = {}
Drain(j) ==
  /\ j \in jobs /\ j.st = "drain" /\ Drained(j)
  /\ jobs' = Goto(j, IF j.error THEN "settle" ELSE "clean2")
  /\ UNCHANGED <<setting, state, commit, release, store, session, failures>>

\* The execution is terminated, or a natural one hands over to the stop
\* request that came in meanwhile.  (Mutant: it forgets the request.)
NoHandover(j) == FALSE
HandsOver(j) == j.kind = "natural" /\ stop
Settle(j) ==
  /\ j \in jobs /\ j.st = "settle"
  /\ \/ /\ ~MayFinish(j) /\ jobs' = jobs \ {j}
        /\ UNCHANGED <<setting, state, commit, release, store, session, failures>>
     \/ /\ MayFinish(j) /\ HandsOver(j) /\ Stop(jobs \ {j})
     \/ /\ MayFinish(j) /\ ~HandsOver(j)
        /\ phase' = "terminated" /\ revision' = revision + 1
        /\ jobs' = Replace(j, {[Writing(j, Current(revision + 1, "terminated", backup, ready, receipt # 0), "terminated")
                                EXCEPT !.error = j.error \/ (j.kind = "natural" /\ work # {})]})
        /\ UNCHANGED <<setting, reason, owner, backup, cleaned, cleaning, stop, captured, completion, recorded, failed, receipt, pending, release, store, session, failures>>

-----------------------------------------------------------------------------
\* _persist_snapshot of a job.  The commit lock is fair, so that writes happen
\* in the order of their snapshots, and the job goes on in the step that gives
\* the lock back.
Before(k, j) ==
  k.snap.revision < j.snap.revision
    \/ (k.snap.revision = j.snap.revision /\ k.kind # "recommit" /\ j.kind = "recommit")
CommitFree(j) ==
  \A k \in jobs : k.st \notin {"written", "unwritten"} /\ ~(k.st = "write" /\ Before(k, j))
Persist(j) ==
  /\ j \in jobs /\ j.st = "write" /\ CommitFree(j)
  /\ IF j.snap.revision <= persisted THEN UNCHANGED store
     ELSE persisted' = j.snap.revision /\ disk' = j.snap
  /\ jobs' = Goto(j, "written")
  /\ UNCHANGED <<setting, state, commit, release, session, failures>>
PersistFails(j) ==
  /\ j \in jobs /\ j.st = "write" /\ CommitFree(j) /\ j.snap.revision > persisted /\ Fault
  /\ ~(setting.handoff /\ j.then = "claim")
  /\ jobs' = Goto(j, "unwritten")
  /\ UNCHANGED <<setting, state, commit, release, store, session>>

\* With a permission handoff the natural claim is written only over the proof the
\* control file still holds.  Another owner, or a failed write, raises: the
\* finalizer ends and its slot keeps the exception.
ClaimRaises(j) ==
  /\ j \in jobs /\ j.st = "write" /\ setting.handoff /\ j.then = "claim" /\ Fault
  /\ jobs' = Goto(j, "raised")
  /\ UNCHANGED <<setting, state, commit, release, store, session>>

Wrote(j, then) == j \in jobs /\ j.then = then /\ j.st \in {"written", "unwritten"}

\* The natural claim was written, or not: the finalizer goes on.
Claimed(j) ==
  /\ Wrote(j, "claim")
  /\ failed' = (failed \/ j.st = "unwritten")
  /\ jobs' = Goto(j, "start")
  /\ UNCHANGED <<setting, state, recorded, revision, receipt, pending, release, store, session, failures>>

\* The terminated state was written, or not.
Terminated(j) ==
  /\ Wrote(j, "terminated")
  /\ failed' = (failed \/ j.st = "unwritten")
  /\ jobs' = Goto(j, IF j.error THEN "block" ELSE IF j.kind = "natural" /\ Service = "coordinated" THEN "handoff" ELSE "backup")
  /\ UNCHANGED <<setting, state, recorded, revision, receipt, pending, release, store, session, failures>>

-----------------------------------------------------------------------------
\* _commit_blocked_backup_state; a failed cleanup is no longer under way.
\* (Mutant: it stays marked so.)
StaysMarked(j) == cleaning
StillCleaning(j) == cleaning /\ ~j.error
Block(j) ==
  /\ j \in jobs /\ j.st = "block"
  /\ IF ~Owns(j) THEN jobs' = jobs \ {j} /\ UNCHANGED <<backup, cleaning, recorded, ready, revision>>
     ELSE /\ backup' = "blocked" /\ cleaning' = StillCleaning(j)
          /\ recorded' = FALSE /\ ready' = FALSE /\ revision' = revision + 1
          /\ jobs' = Replace(j, {Writing(j, Current(revision + 1, phase, "blocked", FALSE, receipt # 0), "blocked")})
  /\ UNCHANGED <<setting, phase, reason, owner, cleaned, stop, captured, completion, failed, receipt, pending, releasing, fresh, store, session, failures>>

Blocked(j) ==
  /\ Wrote(j, "blocked")
  /\ IF Owns(j) /\ revision = j.snap.revision /\ backup = "blocked"
     THEN IF j.st = "written" THEN failed' = FALSE /\ recorded' = TRUE ELSE failed' = TRUE /\ recorded' = recorded
     ELSE UNCHANGED <<failed, recorded>>
  /\ jobs' = jobs \ {j}
  /\ UNCHANGED <<setting, state, revision, receipt, pending, release, store, session, failures>>

\* _retry_backup: a coordinated natural completion resumes its captured job.
Rebackup(j) ==
  /\ j.kind = "rebackup" /\ Starting(j)
  /\ jobs' = IF ~Owns(j) THEN jobs \ {j}
             ELSE Goto(j, IF reason = "natural" /\ Service = "coordinated" THEN "handoff" ELSE "backup")
  /\ UNCHANGED <<setting, state, commit, ready, releasing, store, session, failures>>

\* _perform_backup: one at a time.
Unlocked == \A j \in jobs : ~j.locked
TakeLock(j) ==
  /\ j \in jobs /\ ~j.locked /\ Unlocked
  /\ j.st = "backup" \/ (j.st = "handoff" /\ j.kind = "rebackup")
  /\ jobs' = IF j.st = "backup" /\ ~Owns(j) THEN jobs \ {j} ELSE Replace(j, {[j EXCEPT !.locked = TRUE]})
  /\ UNCHANGED <<setting, state, commit, release, store, session, failures>>

\* _perform_backup_serialized: the copy, ...
Copy(j) ==
  /\ j \in jobs /\ j.st = "backup" /\ j.locked
  /\ saved' = IF Service = "off" THEN saved ELSE data
  /\ jobs' = Replace(j, {[j EXCEPT !.st = "copied", !.good = TRUE]})
  /\ UNCHANGED <<setting, state, commit, release, store, work, canceled, data, ended, failures>>
CopyFails(j) ==
  /\ j \in jobs /\ j.st = "backup" /\ j.locked /\ Service # "off" /\ Fault
  /\ jobs' = Replace(j, {[j EXCEPT !.st = "copied", !.good = FALSE]})
  /\ UNCHANGED <<setting, state, commit, release, store, session>>

\* ... and its outcome, with the receipt of a natural completion.
Outcome(j) == IF ~j.good THEN "blocked" ELSE IF Service = "off" THEN "disabled" ELSE "committed"
Publish(j) ==
  /\ j \in jobs /\ j.st = "copied"
  /\ IF ~Owns(j) THEN jobs' = jobs \ {j} /\ UNCHANGED <<backup, recorded, ready, revision, pending>>
     ELSE LET b == Outcome(j)
              receipted == j.good /\ reason = "natural"
          IN /\ backup' = b /\ recorded' = FALSE /\ ready' = FALSE /\ revision' = revision + 1
             /\ pending' = IF receipted THEN revision + 1 ELSE pending
             /\ jobs' = Replace(j, {Writing(j, Current(revision + 1, phase, b, FALSE, receipted \/ receipt # 0), "backup")})
  /\ UNCHANGED <<setting, phase, reason, owner, cleaned, cleaning, stop, captured, completion, failed, receipt, releasing, fresh, store, session, failures>>

\* _promote_natural_handoff_locked.
Promotes(r) == pending = r /\ persisted >= r /\ revision = r

\* The backup state was written: the receipt counts from now on.
Published(j) ==
  /\ Wrote(j, "backup")
  /\ LET natural == j.good /\ reason = "natural"
         gone == ~Owns(j) \/ (j.st = "written" /\ natural /\ ~Promotes(j.snap.revision))
     IN IF gone THEN jobs' = jobs \ {j} /\ UNCHANGED <<recorded, failed, receipt, pending, releasing, fresh>>
        ELSE IF j.st = "unwritten"
        THEN jobs' = jobs \ {j} /\ failed' = TRUE /\ UNCHANGED <<recorded, receipt, pending, releasing, fresh>>
        ELSE /\ failed' = FALSE /\ recorded' = TRUE
             /\ IF natural THEN receipt' = pending /\ pending' = 0 ELSE UNCHANGED <<receipt, pending>>
             /\ UNCHANGED <<phase, backup, work, ready>>
             /\ IF j.good THEN MaybeRelease(jobs \ {j}) ELSE jobs' = jobs \ {j} /\ UNCHANGED <<releasing, fresh>>
  /\ UNCHANGED <<setting, state, revision, ready, store, session, failures>>

\* _commit_natural_handoff: the coordinator captures the session and owns its
\* publication; a retry needs the job that was captured.
MayHandOff(j) == j.kind = "rebackup" => j.locked /\ captured
HandOff(j) ==
  /\ j \in jobs /\ j.st = "handoff" /\ MayHandOff(j)
  /\ saved' = data
  /\ jobs' = Replace(j, {[j EXCEPT !.st = "copied", !.good = TRUE]})
  /\ UNCHANGED <<setting, state, commit, release, store, work, canceled, data, ended, failures>>

\* The coordinator's failure: before or after the job was persisted.
HandOffFails(j, persistedJob) ==
  /\ j \in jobs /\ j.st = "handoff"
  /\ IF j.kind = "rebackup"
     THEN j.locked /\ ~persistedJob /\ (IF captured THEN Fault ELSE failures' = failures)
     ELSE Fault
  /\ captured' = IF Owns(j) /\ reason = "natural" /\ j.kind # "rebackup" THEN persistedJob ELSE captured
  /\ jobs' = Goto(j, "block")
  /\ UNCHANGED <<setting, phase, reason, owner, backup, cleaned, cleaning, stop, completion, commit, release, store, session>>

\* _retry_backup_state_commit.
Recommit(j) ==
  /\ j.kind = "recommit" /\ Starting(j)
  /\ jobs' = IF ~Owns(j) THEN jobs \ {j}
             ELSE Replace(j, {[Writing(j, Current(revision, phase, backup, ready, receipt # 0 \/ pending # 0), "recommit")
                               EXCEPT !.good = backup \in Released]})
  /\ UNCHANGED <<setting, state, commit, ready, releasing, store, session, failures>>
\* The receipt it took along, if there was one, is the one it promotes.
Recommitted(j) ==
  /\ Wrote(j, "recommit")
  /\ IF ~Owns(j) \/ (j.st = "written" /\ pending # 0 /\ ~Promotes(j.snap.revision))
     THEN jobs' = jobs \ {j} /\ UNCHANGED <<recorded, failed, receipt, pending, releasing, fresh>>
     ELSE IF j.st = "unwritten"
     THEN jobs' = jobs \ {j} /\ failed' = TRUE /\ UNCHANGED <<recorded, receipt, pending, releasing, fresh>>
     ELSE /\ failed' = FALSE /\ recorded' = TRUE
          /\ IF pending # 0 THEN receipt' = pending /\ pending' = 0 ELSE UNCHANGED <<receipt, pending>>
          /\ UNCHANGED <<phase, backup, work, ready>>
          /\ IF j.good THEN MaybeRelease(jobs \ {j}) ELSE jobs' = jobs \ {j} /\ UNCHANGED <<releasing, fresh>>
  /\ UNCHANGED <<setting, state, revision, ready, store, session, failures>>

\* _commit_release_ready.
Release(j) ==
  /\ j.kind = "release" /\ Starting(j)
  /\ IF phase # "terminated" \/ backup \notin Released \/ work # {}
     THEN jobs' = jobs \ {j} /\ releasing' = FALSE /\ revision' = revision
     ELSE /\ revision' = revision + 1 /\ releasing' = TRUE
          /\ jobs' = Replace(j, {Writing(j, Current(revision + 1, phase, backup, TRUE, receipt # 0), "release")})
  /\ UNCHANGED <<setting, state, recorded, failed, receipt, pending, ready, store, session, failures>>

\* The fence of a release commit.
ReleaseCurrent(j) == phase = "terminated" /\ revision = j.snap.revision
ReleaseDone(j) ==
  /\ Wrote(j, "release")
  /\ releasing' = FALSE /\ jobs' = jobs \ {j}
  /\ IF j.st = "written"
     THEN IF ReleaseCurrent(j) THEN ready' = TRUE /\ failed' = FALSE ELSE UNCHANGED <<ready, failed>>
     ELSE ready' = ready /\ failed' = (failed \/ revision = j.snap.revision)
  /\ UNCHANGED <<setting, state, recorded, revision, receipt, pending, fresh, store, session, failures>>

-----------------------------------------------------------------------------
Finalize(j) ==
  \/ Begin(j) \/ Clean(j) \/ CleanFails(j) \/ Cancel(j) \/ Drain(j) \/ Settle(j)
  \/ Persist(j) \/ PersistFails(j) \/ ClaimRaises(j) \/ Claimed(j) \/ Terminated(j) \/ Block(j) \/ Blocked(j)
  \/ Rebackup(j) \/ TakeLock(j) \/ Copy(j) \/ CopyFails(j) \/ Publish(j) \/ Published(j)
  \/ HandOff(j) \/ (\E known \in BOOLEAN : HandOffFails(j, known))
  \/ Recommit(j) \/ Recommitted(j) \/ Release(j) \/ ReleaseDone(j)

Next ==
  \/ \E t \in setting.tasks : Attach(t) \/ Work(t) \/ \E natural \in BOOLEAN : Detach(t, natural)
  \/ TerminateNow \/ TerminateLater \/ Deliver \/ ClaimNatural \/ Retry
  \/ \E j \in jobs \cup Range(fresh) : Finalize(j)

Spec == Init /\ [][Next]_vars

\* Coroutines go on, canceled tasks leave, and the client of an execution that
\* is not released keeps asking for its state.
Fairness ==
  /\ WF_vars(\E j \in jobs \cup Range(fresh) : Finalize(j))
  /\ \A t \in Tasks : WF_vars(t \in canceled /\ Detach(t, FALSE))
  /\ WF_vars(Retry)
FairSpec == Spec /\ Fairness

-----------------------------------------------------------------------------
\* natural_handoff_admits_replacement: the next turn may start.
Admits ==
  /\ receipt # 0 /\ persisted >= receipt /\ recorded /\ ~failed
  /\ reason = "natural" /\ Ending /\ ~stop /\ work = {}

\* An execution is released, or gives way to the next turn, only when nothing
\* of it runs and its backup holds everything it wrote, the cleanup of the
\* stop that superseded a finished turn included.
ReleasedIsBackedUp ==
  ready \/ Admits => work = {} /\ (Service # "off" => saved = data)

\* What the controller calls released, or handed over, control.json says too.
ReleasedIsDurable ==
  (ready => disk.ready /\ disk.phase = "terminated") /\ (Admits => disk.receipt)

\* A stop request that meets a natural finalization is carried out: whatever
\* the finalizer does next, the execution is not left as naturally completed.
StopIsKept ==
  [][stop => reason' = "explicit" \/ (stop' /\ phase' = "terminating")]_vars

\* The slot of a natural finalization holds the exception of its claim.
Raised == \E j \in jobs : j.st = "raised"

\* Once claimed, a termination ends in a release, whatever failed on the way:
\* "observe_state retries a durable finalization that stopped short".  A
\* natural completion whose capture the coordinator never persisted stays
\* blocked until somebody stops it, so this is claimed of direct backups; and a
\* claim that raised is never made again.
ReleaseHappens == (Service # "coordinated" /\ Ending) ~> (ready \/ Admits \/ Raised)

\* Whatever finalizers and stops were under way at once, an execution is called
\* released, or gives way to the next turn, only when nothing of it runs, its
\* backup holds everything it wrote and control.json says so
\* (_commit_release_ready, natural_handoff_admits_replacement).
ReleasedIsSafe == TypeOK /\ ReleasedIsBackedUp /\ ReleasedIsDurable

=============================================================================
