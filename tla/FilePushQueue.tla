----------------------------- MODULE FilePushQueue -----------------------------
(***************************************************************************)
(* The local-file push queue (LocalFileA2APushQueue) of a single server and*)
(* its delivery worker.  The queue's methods never await, so the only thing*)
(* that can come between two of their file operations is a crash.          *)
(***************************************************************************)
EXTENDS Integers, Sequences, FiniteSets, FiniteSetsExt

CONSTANTS
  NJobs,        \* notifications 1..NJobs, in the order of their file names
  MaxAttempts,  \* retry_policy.max_attempts
  MaxCrashes    \* bound: crashes of the server

Notifications == 1..NJobs
Dirs == {"pending", "inflight", "dead"}

\* A job file: missing, truncated, or a job with its attempt and whether its
\* next_attempt_at (retry time, or end of the lease) has passed.
Missing == [st |-> "missing", attempt |-> 0, due |-> FALSE]
Torn == [st |-> "torn", attempt |-> 0, due |-> FALSE]
JobFile(attempt, due) == [st |-> "job", attempt |-> attempt, due |-> due]
File == [st : {"missing", "torn", "job"}, attempt : 0..MaxAttempts, due : BOOLEAN]

VARIABLES
  file,       \* file[d][j]: the file of job j in directory d
  todo,       \* file operations left in the running queue method
  worker,     \* the delivery worker
  accepted, delivered,
  crashes

vars == <<file, todo, worker, accepted, delivered, crashes>>

Op == [do : {"truncate", "fill", "unlink"}, dir : Dirs, job : Notifications, file : File]
      \cup [do : {"rename"}, from : Dirs, dir : Dirs, job : Notifications]

\* recover: about to claim.  sweep: in the loop over the leases.  scan: in the
\* loop over the pending jobs.
WorkerState == [st : {"off", "recover", "sweep", "scan", "post", "ack", "retry", "bury"},
                job : 0..NJobs, attempt : 0..MaxAttempts]
Awake == [st |-> "recover", job |-> 0, attempt |-> 0]
Off == [st |-> "off", job |-> 0, attempt |-> 0]

TypeOK ==
  /\ file \in [Dirs -> [Notifications -> File]]
  /\ todo \in Seq(Op)
  /\ worker \in WorkerState
  /\ accepted \subseteq Notifications /\ delivered \subseteq Notifications
  /\ crashes \in 0..MaxCrashes

Init ==
  /\ file = [d \in Dirs |-> [j \in Notifications |-> Missing]]
  /\ todo = <<>>
  /\ worker = Awake
  /\ accepted = {} /\ delivered = {}
  /\ crashes = 0

\* _write: write_text truncates the file and then fills it.
Write(d, j, f) == << [do |-> "truncate", dir |-> d, job |-> j, file |-> Torn],
                     [do |-> "fill", dir |-> d, job |-> j, file |-> f] >>
Unlink(d, j) == << [do |-> "unlink", dir |-> d, job |-> j, file |-> Missing] >>
Rename(c, d, j) == << [do |-> "rename", from |-> c, dir |-> d, job |-> j] >>

\* The next file operation of the running method.
FileOp ==
  LET op == Head(todo) IN
  /\ todo # <<>>
  /\ file' = IF op.do = "rename"
             THEN [file EXCEPT ![op.dir][op.job] = file[op.from][op.job], ![op.from][op.job] = Missing]
             ELSE [file EXCEPT ![op.dir][op.job] = op.file]
  /\ todo' = Tail(todo)
  /\ UNCHANGED <<worker, accepted, delivered, crashes>>

-----------------------------------------------------------------------------
\* No method of the queue is running: claim is one from its first lease on.
BetweenMethods == todo = <<>> /\ worker.st \notin {"sweep", "scan"}

\* send_notification -> enqueue
Enqueue(j) ==
  /\ BetweenMethods /\ j \notin accepted
  /\ accepted' = accepted \cup {j}
  /\ todo' = Write("pending", j, JobFile(0, TRUE))
  /\ UNCHANGED <<file, worker, delivered, crashes>>

\* A truncated file that the scan of a directory meets raises out of claim,
\* and serve_forever ends.
FirstTorn(d) == Min({j \in Notifications : file[d][j].st = "torn"} \cup {NJobs + 1})

\* claim: _recover_expired_inflight moves each expired lease back to pending,
\* one after the other.
Recovered(j) == Rename("inflight", "pending", j)
                \o Write("pending", j, JobFile(file["inflight"][j].attempt, TRUE))
RecoverExpired ==
  LET torn == FirstTorn("inflight")
      expired == {j \in Notifications : j < torn /\ file["inflight"][j].st = "job" /\ file["inflight"][j].due}
  IN
  /\ todo = <<>> /\ worker.st \in {"recover", "sweep"}
  /\ IF expired # {}
     THEN todo' = Recovered(Min(expired)) /\ worker' = [worker EXCEPT !.st = "sweep"]
     ELSE /\ worker' = IF torn \in Notifications THEN Off ELSE [worker EXCEPT !.st = "scan"]
          /\ UNCHANGED todo
  /\ UNCHANGED <<file, accepted, delivered, crashes>>

\* claim: the first due job is moved to inflight and its lease is written.
Claim ==
  LET torn == FirstTorn("pending")
      due == {j \in Notifications : j < torn /\ file["pending"][j].st = "job" /\ file["pending"][j].due}
      j == Min(due)
      attempt == file["pending"][j].attempt
  IN
  /\ todo = <<>> /\ worker.st = "scan"
  /\ IF due # {}
     THEN /\ todo' = Rename("pending", "inflight", j) \o Write("inflight", j, JobFile(attempt, FALSE))
          /\ worker' = [st |-> "post", job |-> j, attempt |-> attempt]
     ELSE worker' = (IF torn \in Notifications THEN Off ELSE Awake) /\ UNCHANGED todo
  /\ UNCHANGED <<file, accepted, delivered, crashes>>

PostSucceeds ==
  /\ todo = <<>> /\ worker.st = "post"
  /\ delivered' = delivered \cup {worker.job}
  /\ worker' = [worker EXCEPT !.st = "ack"]
  /\ UNCHANGED <<file, todo, accepted, crashes>>

\* _handle_failure: a transient error below the limit is retried, any other
\* is dead-lettered.  (Mutant: the retried job keeps its attempt.)
Retryable(attempt, transient) == transient /\ attempt + 1 < MaxAttempts
SameAttempt(attempt) == attempt
NextAttempt(attempt) == attempt + 1
PostFails(transient) ==
  /\ todo = <<>> /\ worker.st = "post"
  /\ worker' = [worker EXCEPT !.st = IF Retryable(worker.attempt, transient) THEN "retry" ELSE "bury"]
  /\ UNCHANGED <<file, todo, accepted, delivered, crashes>>

\* (Mutant of Ack: the next job's file goes too.)
AckNextToo == Unlink("inflight", worker.job)
              \o (IF worker.job < NJobs THEN Unlink("pending", worker.job + 1) ELSE <<>>)
AckOne == Unlink("inflight", worker.job)
Ack ==
  /\ todo = <<>> /\ worker.st = "ack"
  /\ todo' = AckOne
  /\ worker' = Awake
  /\ UNCHANGED <<file, accepted, delivered, crashes>>

\* retry: the lease is removed before the retry is written.
RetryOps(j, f) == Unlink("inflight", j) \o Write("pending", j, f)
Retry ==
  /\ todo = <<>> /\ worker.st = "retry"
  /\ todo' = RetryOps(worker.job, JobFile(NextAttempt(worker.attempt), FALSE))
  /\ worker' = Awake
  /\ UNCHANGED <<file, accepted, delivered, crashes>>

\* dead_letter
DeadLetter ==
  /\ todo = <<>> /\ worker.st = "bury"
  /\ todo' = Unlink("inflight", worker.job) \o Write("dead", worker.job, JobFile(NextAttempt(worker.attempt), FALSE))
  /\ worker' = Awake
  /\ UNCHANGED <<file, accepted, delivered, crashes>>

\* The server dies between two file operations or while it posts.
Crash ==
  /\ crashes < MaxCrashes /\ crashes' = crashes + 1
  /\ todo' = <<>> /\ worker' = Off
  /\ UNCHANGED <<file, accepted, delivered>>

Start ==
  /\ todo = <<>> /\ worker = Off
  /\ worker' = Awake
  /\ UNCHANGED <<file, todo, accepted, delivered, crashes>>

\* A retry becomes due or a lease runs out.  While the worker posts, its own
\* lease outlives the request's timeout.
TimePasses(d, j) ==
  /\ todo = <<>> /\ d # "dead" /\ file[d][j].st = "job" /\ ~file[d][j].due
  /\ d = "inflight" => worker.job # j
  /\ file' = [file EXCEPT ![d][j].due = TRUE]
  /\ UNCHANGED <<todo, worker, accepted, delivered, crashes>>

Work == RecoverExpired \/ Claim \/ PostSucceeds \/ (\E t \in BOOLEAN : PostFails(t))
        \/ Ack \/ Retry \/ DeadLetter

Next ==
  \/ FileOp \/ Work \/ Crash \/ Start
  \/ \E j \in Notifications : Enqueue(j)
  \/ \E d \in Dirs, j \in Notifications : TimePasses(d, j)

Spec == Init /\ [][Next]_vars

-----------------------------------------------------------------------------
Intact(j) == \E d \in Dirs : file[d][j].st = "job"
\* The running method, or the operation it has in hand, will store job j.
Pending(j) == \E i \in DOMAIN todo : todo[i].do = "fill" /\ todo[i].job = j
Settled(j) == j \in delivered \/ file["dead"][j].st = "job"

\* A job has one file at a time: a retry, a dead letter or a recovered lease
\* never leaves a second copy that would be delivered on its own.
OneCopy == \A j \in Notifications : Cardinality({d \in Dirs : file[d][j].st # "missing"}) <= 1

\* A crash costs at most the one notification whose file was being replaced:
\* every other undelivered job is intact in one of the directories.
Lost == {j \in accepted : ~Settled(j) /\ ~Intact(j) /\ ~Pending(j)}
LossPerCrash == Cardinality(Lost) <= crashes

\* The jobs the queue holds, and those a crash has cost it.
Tracked ==
  {j \in accepted : Intact(j) \/ Pending(j) \/ worker.job = j} \cup (IF crashes > 0 THEN Lost ELSE {})
Dead == {j \in Notifications : file["dead"][j].st = "job"}
=============================================================================
