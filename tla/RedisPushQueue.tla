---------------------------- MODULE RedisPushQueue ----------------------------
(***************************************************************************)
(* The Redis Streams push queue (RedisStreamsA2APushQueue) and the delivery*)
(* workers of the servers that share it (A2APushDeliveryWorker).  Every    *)
(* Redis command is awaited, so a step is one command of one worker.       *)
(***************************************************************************)
EXTENDS Integers, Sequences, FiniteSets

CONSTANTS
  Jobs,         \* notifications: one per event and push configuration
  Workers,      \* server processes with a delivery worker
  MaxAttempts,  \* retry_policy.max_attempts
  MaxEntries,   \* bound: stream entries ever added
  Faults        \* may Redis commands fail and processes die?

ASSUME PushAssumption ==
  MaxAttempts \in Nat \ {0} /\ MaxEntries \in Nat /\ Faults \in BOOLEAN

VARIABLES
  stream,     \* the stream: an append-only log of serialized jobs
  read,       \* last entry the consumer group has handed out
  pel,        \* entries handed out and not acknowledged (XPENDING)
  stale,      \* those idle for longer than lease_timeout_ms
  retries,    \* the sorted set of delayed retries; due: its score has passed
  worker,     \* what each worker's run_once is doing
  accepted, delivered, dead

vars == <<stream, read, pel, stale, retries, worker, accepted, delivered, dead>>

Attempts == 0..MaxAttempts
Copy == [job : Jobs, attempt : Attempts]
Delayed == [job : Jobs, attempt : Attempts, due : BOOLEAN]
Ids == 1..Len(stream)

\* off: the serve_forever task is dead.  promote: about to claim.  move: the
\* due retries in batch are to be put back on the stream.  read: the blocking
\* XREADGROUP.  post: the callback is on the wire.  settle: the job is stored
\* elsewhere and its entry is to be acknowledged.
WorkerStates == {"off", "promote", "move", "read", "post", "ack", "retry", "bury", "settle"}
Holding == {"post", "ack", "retry", "bury", "settle"}
WorkerState == [st : WorkerStates, entry : Nat, batch : SUBSET Delayed]
Awake == [st |-> "promote", entry |-> 0, batch |-> {}]
Off == [st |-> "off", entry |-> 0, batch |-> {}]

TypeOK ==
  /\ stream \in Seq(Copy)
  /\ read \in Nat /\ pel \subseteq Nat /\ stale \subseteq pel
  /\ retries \subseteq Delayed
  /\ worker \in [Workers -> WorkerState]
  /\ accepted \subseteq Jobs /\ delivered \subseteq Jobs /\ dead \subseteq Jobs

Init ==
  /\ stream = <<>> /\ read = 0 /\ pel = {} /\ stale = {} /\ retries = {}
  /\ worker = [w \in Workers |-> Awake]
  /\ accepted = {} /\ delivered = {} /\ dead = {}

\* The job a worker works on is the one its entry holds.
Held(w) == stream[worker[w].entry]

Goto(w, st) == worker' = [worker EXCEPT ![w].st = st]
Hold(w, e) == worker' = [worker EXCEPT ![w] = [st |-> "post", entry |-> e, batch |-> {}]]
Done(w) == worker' = [worker EXCEPT ![w] = Awake]

\* XADD of a job to the stream.
XAdd(job, attempt) ==
  /\ Len(stream) < MaxEntries
  /\ stream' = Append(stream, [job |-> job, attempt |-> attempt])

\* XACK of an entry, whoever holds it.
XAck(e) == pel' = pel \ {e} /\ stale' = stale \ {e}

-----------------------------------------------------------------------------
\* A2APushSender.send_notification -> enqueue, for one configuration.
Enqueue(j) ==
  /\ j \notin accepted
  /\ XAdd(j, 0)
  /\ accepted' = accepted \cup {j}
  /\ UNCHANGED <<read, pel, stale, retries, worker, delivered, dead>>

\* claim: _promote_due_retries lists the due members ...
ListDue(w) ==
  /\ worker[w].st = "promote"
  /\ worker' = [worker EXCEPT ![w] = [st |-> "move", entry |-> 0,
                                      batch |-> {m \in retries : m.due}]]
  /\ UNCHANGED <<stream, read, pel, stale, retries, accepted, delivered, dead>>

\* (Mutant: the member is removed before, and not with, the XADD.)
PromoteRemovesOnly(w, m) ==
  /\ worker[w].st = "move" /\ m \in worker[w].batch
  /\ retries' = retries \ {m}
  /\ worker' = [worker EXCEPT ![w].batch = @ \ {m}]
  /\ UNCHANGED <<stream, read, pel, stale, accepted, delivered, dead>>

\* ... and moves each to the stream in one MULTI, also when another worker
\* has already removed it.
Promote(w, m) ==
  /\ worker[w].st = "move" /\ m \in worker[w].batch
  /\ XAdd(m.job, m.attempt)
  /\ retries' = retries \ {m}
  /\ worker' = [worker EXCEPT ![w].batch = @ \ {m}]
  /\ UNCHANGED <<read, pel, stale, accepted, delivered, dead>>

\* claim: _claim_expired, XAUTOCLAIM of the first entry with an old lease.
ClaimExpired(w) ==
  /\ worker[w].st = "move" /\ worker[w].batch = {}
  /\ IF stale = {}
     THEN Goto(w, "read") /\ UNCHANGED stale
     ELSE LET e == CHOOSE i \in stale : \A k \in stale : i <= k
          IN Hold(w, e) /\ stale' = stale \ {e}
  /\ UNCHANGED <<stream, read, pel, retries, accepted, delivered, dead>>

\* claim: XREADGROUP with block=0, which waits until there is a new entry.
ReadGroup(w) ==
  /\ worker[w].st = "read" /\ read < Len(stream)
  /\ read' = read + 1
  /\ pel' = pel \cup {read + 1}
  /\ Hold(w, read + 1)
  /\ UNCHANGED <<stream, stale, retries, accepted, delivered, dead>>

\* The callback answers 2xx.
PostSucceeds(w) ==
  /\ worker[w].st = "post"
  /\ delivered' = delivered \cup {Held(w).job}
  /\ Goto(w, "ack")
  /\ UNCHANGED <<stream, read, pel, stale, retries, accepted, dead>>

\* _handle_failure: a transient error below the limit is retried, any other
\* is dead-lettered.
Retryable(attempt, transient) == transient /\ attempt + 1 < MaxAttempts
PostFails(w, transient) ==
  /\ worker[w].st = "post"
  /\ Goto(w, IF Retryable(Held(w).attempt, transient) THEN "retry" ELSE "bury")
  /\ UNCHANGED <<stream, read, pel, stale, retries, accepted, delivered, dead>>

\* ack.  An XACK that fails is logged and left to lease recovery.
Ack(w) ==
  /\ worker[w].st = "ack"
  /\ XAck(worker[w].entry)
  /\ Done(w)
  /\ UNCHANGED <<stream, read, retries, accepted, delivered, dead>>

AckFails(w) ==
  /\ Faults /\ worker[w].st = "ack"
  /\ Done(w)
  /\ UNCHANGED <<stream, read, pel, stale, retries, accepted, delivered, dead>>

\* retry: ZADD first, then ack.  (Mutant: ack first.)
RetryAcksFirst(w) ==
  /\ worker[w].st = "retry"
  /\ XAck(worker[w].entry)
  /\ Goto(w, "settle")
  /\ UNCHANGED <<stream, read, retries, accepted, delivered, dead>>
Retry(w) ==
  /\ worker[w].st = "retry"
  /\ retries' = retries \cup {[job |-> Held(w).job, attempt |-> Held(w).attempt + 1, due |-> FALSE]}
  /\ Goto(w, "settle")
  /\ UNCHANGED <<stream, read, pel, stale, accepted, delivered, dead>>

\* dead_letter: XADD to the dead stream, then ack.
DeadLetter(w) ==
  /\ worker[w].st = "bury"
  /\ dead' = dead \cup {Held(w).job}
  /\ Goto(w, "settle")
  /\ UNCHANGED <<stream, read, pel, stale, retries, accepted, delivered>>

Settle(w) ==
  /\ worker[w].st = "settle"
  /\ XAck(worker[w].entry)
  /\ Done(w)
  /\ UNCHANGED <<stream, read, retries, accepted, delivered, dead>>

\* The process dies, or a Redis command outside the guarded ack raises:
\* serve_forever does not catch it and the worker's task ends.
WorkerDies(w) ==
  /\ Faults /\ worker[w].st # "off"
  /\ worker' = [worker EXCEPT ![w] = Off]
  /\ UNCHANGED <<stream, read, pel, stale, retries, accepted, delivered, dead>>

\* The server is started again, under a new consumer name.
WorkerStarts(w) ==
  /\ worker[w].st = "off"
  /\ Done(w)
  /\ UNCHANGED <<stream, read, pel, stale, retries, accepted, delivered, dead>>

\* Time: a retry becomes due, a lease runs out.
RetryDue(m) ==
  /\ m \in retries /\ ~m.due
  /\ retries' = (retries \ {m}) \cup {[m EXCEPT !.due = TRUE]}
  /\ UNCHANGED <<stream, read, pel, stale, worker, accepted, delivered, dead>>

LeaseExpires(e) ==
  /\ e \in pel \ stale
  /\ stale' = stale \cup {e}
  /\ UNCHANGED <<stream, read, pel, retries, worker, accepted, delivered, dead>>

-----------------------------------------------------------------------------
Work(w) ==
  \/ ListDue(w) \/ ClaimExpired(w) \/ ReadGroup(w)
  \/ \E m \in Delayed : Promote(w, m)
  \/ PostSucceeds(w) \/ \E transient \in BOOLEAN : PostFails(w, transient)
  \/ Ack(w) \/ Retry(w) \/ DeadLetter(w) \/ Settle(w)

Next ==
  \/ \E j \in Jobs : Enqueue(j)
  \/ \E w \in Workers : Work(w) \/ AckFails(w) \/ WorkerDies(w) \/ WorkerStarts(w)
  \/ \E m \in Delayed : RetryDue(m)
  \/ \E e \in Ids : LeaseExpires(e)

Spec == Init /\ [][Next]_vars

-----------------------------------------------------------------------------
\* Copies of job j that survive a crash of every worker, of attempt a or later.
StoredFrom(j, a) ==
  \/ \E e \in Ids : (e > read \/ e \in pel) /\ stream[e].job = j /\ stream[e].attempt >= a
  \/ \E m \in retries : m.job = j /\ m.attempt >= a
Settled(j) == j \in delivered \cup dead

\* A notification that is neither confirmed nor dead-lettered is stored in
\* Redis, whatever the workers are doing and wherever one dies: retry and
\* dead_letter store the job before they acknowledge its entry, claim leaves
\* it in the pending list, and the promotion of a retry is one transaction.
NoLostJob == \A j \in accepted : Settled(j) \/ StoredFrom(j, 0)

\* A worker in the middle of retry or dead_letter may acknowledge its entry at
\* any time, also after another worker has taken the same entry over: a later
\* attempt of the job is stored, or the job is settled.
SafeToAck ==
  \A w \in Workers : worker[w].st = "settle" =>
    Settled(Held(w).job) \/ StoredFrom(Held(w).job, Held(w).attempt + 1)

\* The jobs Redis or the memory of a worker holds.
Remembered(w) == (IF worker[w].st \in Holding THEN {Held(w).job} ELSE {}) \cup {m.job : m \in worker[w].batch}
Tracked == {j \in accepted : StoredFrom(j, 0) \/ \E w \in Workers : j \in Remembered(w)}
=============================================================================
