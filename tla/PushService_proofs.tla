-------------------------- MODULE PushService_proofs --------------------------
(***************************************************************************)
(* Proofs about the push queues, for any number of jobs, workers, attempts *)
(* and crashes: the Redis queue loses no job (JobsAreStored), the local    *)
(* one keeps one file per job and loses one job per crash (FilesSurvive),  *)
(* and both implement at-least-once delivery (AtLeastOnce).                *)
(***************************************************************************)
EXTENDS PushService, FiniteSetTheorems, SequenceTheorems, WellFoundedInduction, TLAPS

\* A set of numbers has a least one.
LEMMA NatLeast ==
  ASSUME NEW S \in SUBSET Nat, S # {}
  PROVE  \E x \in S : \A y \in S : x <= y
<1>1. \E x \in S : \A y \in S : ~ (<<y, x>> \in OpToRel(<, Nat))
  BY NatLessThanWellFounded, WFMin
<1>2. \A x, y \in Nat : ~ (<<y, x>> \in OpToRel(<, Nat)) => x <= y
  BY DEF OpToRel
<1> QED BY <1>1, <1>2

-----------------------------------------------------------------------------
(* The Redis queue.                                                        *)

\* Entries handed out exist and stay; a worker that acknowledges has delivered,
\* one that retries may; and everything stored was accepted.
Shape ==
  /\ read <= Len(stream) /\ pel \subseteq 1..read
  /\ \A w \in Workers :
       /\ worker[w].st \in Holding => worker[w].entry \in 1..read
       /\ worker[w].st = "ack" => Held(w).job \in delivered
       /\ worker[w].st = "retry" => Held(w).attempt + 1 < MaxAttempts
       /\ \A m \in worker[w].batch : m.job \in accepted
  /\ \A e \in Ids : stream[e].job \in accepted
  /\ \A m \in retries : m.job \in accepted

RedisInv == TypeOK /\ Shape /\ NoLostJob /\ SafeToAck

\* What a step may do to stored jobs: it settles a job or leaves a copy at
\* least as far on.
KeepsJobs ==
  /\ \A j \in Jobs, a \in Nat : StoredFrom(j, a) => StoredFrom(j, a)' \/ Settled(j)'
  /\ delivered \subseteq delivered' /\ dead \subseteq dead'

LEMMA SameStore ==
  ASSUME UNCHANGED <<stream, read, pel, retries>>
  PROVE  \A j, a : StoredFrom(j, a)' = StoredFrom(j, a)
BY DEF StoredFrom, Ids

\* XADD: the entries there are stay, the new one is the last.
LEMMA XAddAppends ==
  ASSUME TypeOK, NEW j \in Jobs, NEW a \in Attempts, XAdd(j, a)
  PROVE  /\ stream' \in Seq(Copy) /\ Len(stream) \in Nat /\ Len(stream') = Len(stream) + 1
         /\ \A e \in 1..Len(stream) : stream'[e] = stream[e]
         /\ stream'[Len(stream) + 1] = [job |-> j, attempt |-> a]
<1>1. stream \in Seq(Copy) /\ [job |-> j, attempt |-> a] \in Copy
  BY DEF TypeOK, Copy
<1>2. stream' = Append(stream, [job |-> j, attempt |-> a])
  BY DEF XAdd
<1> QED BY <1>1, <1>2

\* XADD keeps the stored copies of the stream and stores its own.
LEMMA XAddStores ==
  ASSUME TypeOK, Shape, NEW j \in Jobs, NEW a \in Attempts, XAdd(j, a), UNCHANGED <<read, pel>>,
         \A m \in retries : m \in retries' \/ (m.job = j /\ m.attempt = a)
  PROVE  /\ \A k \in Jobs, b \in Nat : StoredFrom(k, b) => StoredFrom(k, b)'
         /\ StoredFrom(j, 0)'
<1>a. /\ Len(stream) \in Nat /\ Len(stream') = Len(stream) + 1
      /\ \A e \in 1..Len(stream) : stream'[e] = stream[e]
      /\ stream'[Len(stream) + 1] = [job |-> j, attempt |-> a]
  BY XAddAppends
<1>b. a \in Nat
  BY PushAssumption DEF Attempts
<1>0. read \in Nat /\ Len(stream) \in Nat /\ read <= Len(stream)
  BY <1>a DEF TypeOK, Shape
<1>1. PICK n \in Nat : n = Len(stream) + 1
  BY <1>0
<1>2. n \in Ids' /\ n > read' /\ stream'[n].job = j /\ stream'[n].attempt = a /\ a \in Nat
  BY <1>0, <1>1, <1>a, <1>b DEF Ids
<1>3. \A b \in Nat : a >= b => StoredFrom(j, b)'
  BY <1>2 DEF StoredFrom
<1>4. ASSUME NEW k \in Jobs, NEW b \in Nat, StoredFrom(k, b) PROVE StoredFrom(k, b)'
  <2>1. CASE \E e \in Ids : (e > read \/ e \in pel) /\ stream[e].job = k /\ stream[e].attempt >= b
    <3>1. PICK e \in Ids : (e > read \/ e \in pel) /\ stream[e].job = k /\ stream[e].attempt >= b
      BY <2>1
    <3>2. e \in Ids' /\ stream'[e] = stream[e]
      BY <1>a DEF Ids
    <3> QED BY <3>1, <3>2 DEF StoredFrom
  <2>2. CASE \E m \in retries : m.job = k /\ m.attempt >= b
    <3>1. PICK m \in retries : m.job = k /\ m.attempt >= b
      BY <2>2
    <3>2. CASE m \in retries'
      BY <3>1, <3>2 DEF StoredFrom
    <3>3. CASE m.job = j /\ m.attempt = a
      BY <1>3, <3>1, <3>3
    <3> QED BY <3>2, <3>3
  <2> QED BY <1>4, <2>1, <2>2 DEF StoredFrom
<1> QED BY <1>3, <1>4, <1>2

\* XACK loses only copies of the acknowledged entry.
LEMMA XAckStores ==
  ASSUME TypeOK, NEW e \in Nat, XAck(e), UNCHANGED <<stream, read, retries>>,
         NEW k, NEW b \in Nat, StoredFrom(k, b)
  PROVE  StoredFrom(k, b)' \/ (e \in Ids /\ stream[e].job = k /\ stream[e].attempt >= b)
BY DEF XAck, StoredFrom, Ids

\* From what a step does to single jobs to the two properties.
LEMMA JobsKept ==
  ASSUME TypeOK, TypeOK', NoLostJob, SafeToAck, KeepsJobs,
         \A j \in accepted' \ accepted : StoredFrom(j, 0)',
         \A w \in Workers : worker'[w].st = "settle" =>
           \/ /\ worker[w].st = "settle" /\ Held(w)' = Held(w) /\ Held(w) \in Copy
           \/ Settled(Held(w).job)' \/ StoredFrom(Held(w).job, Held(w).attempt + 1)'
  PROVE  NoLostJob' /\ SafeToAck'
<1>1. NoLostJob'
  BY DEF NoLostJob, KeepsJobs, TypeOK, Settled
<1>2. ASSUME NEW w \in Workers, worker'[w].st = "settle"
      PROVE  Settled(Held(w).job)' \/ StoredFrom(Held(w).job, Held(w).attempt + 1)'
  <2>1. CASE worker[w].st = "settle" /\ Held(w)' = Held(w) /\ Held(w) \in Copy
    <3>1. PICK c \in Copy : c = Held(w) /\ c = Held(w)'
      BY <2>1
    <3>2. c.job \in Jobs /\ c.attempt + 1 \in Nat
      BY PushAssumption DEF Copy, Attempts
    <3>3. Settled(c.job) \/ StoredFrom(c.job, c.attempt + 1)
      BY <2>1, <3>1 DEF SafeToAck
    <3>4. Settled(c.job)' \/ StoredFrom(c.job, c.attempt + 1)'
      BY <3>2, <3>3 DEF KeepsJobs, Settled
    <3> QED BY <3>1, <3>4
  <2> QED BY <1>2, <2>1
<1> QED BY <1>1, <1>2 DEF SafeToAck

\* What moving a worker changes.
LEMMA WorkerMoves ==
  ASSUME TypeOK, NEW w \in Workers
  PROVE  /\ \A st \in WorkerStates : Goto(w, st) =>
              /\ worker' \in [Workers -> WorkerState]
              /\ worker'[w].st = st /\ worker'[w].entry = worker[w].entry
              /\ worker'[w].batch = worker[w].batch
         /\ \A e \in Nat : Hold(w, e) =>
              /\ worker' \in [Workers -> WorkerState]
              /\ worker'[w].st = "post" /\ worker'[w].entry = e /\ worker'[w].batch = {}
         /\ Done(w) => /\ worker' \in [Workers -> WorkerState]
                       /\ worker'[w].st = "promote" /\ worker'[w].batch = {}
         /\ \A v \in Workers \ {w} :
              Done(w) \/ (\E st : Goto(w, st)) \/ (\E e : Hold(w, e)) => worker'[v] = worker[v]
<1>0. worker \in [Workers -> WorkerState]
  BY DEF TypeOK
<1>1. ASSUME NEW st \in WorkerStates, Goto(w, st)
      PROVE  /\ worker' \in [Workers -> WorkerState]
             /\ worker'[w].st = st /\ worker'[w].entry = worker[w].entry
             /\ worker'[w].batch = worker[w].batch
  BY <1>0, <1>1 DEF Goto, WorkerState
<1>2. ASSUME NEW e \in Nat, Hold(w, e)
      PROVE  /\ worker' \in [Workers -> WorkerState]
             /\ worker'[w].st = "post" /\ worker'[w].entry = e /\ worker'[w].batch = {}
  BY <1>0, <1>2 DEF Hold, WorkerState, WorkerStates
<1>3. ASSUME Done(w)
      PROVE  /\ worker' \in [Workers -> WorkerState]
             /\ worker'[w].st = "promote" /\ worker'[w].batch = {}
  BY <1>0, <1>3 DEF Done, WorkerState, WorkerStates, Awake
<1>4. ASSUME NEW v \in Workers \ {w}, Done(w) \/ (\E st : Goto(w, st)) \/ (\E e : Hold(w, e))
      PROVE  worker'[v] = worker[v]
  BY <1>0, <1>4 DEF Done, Goto, Hold
<1> QED BY <1>1, <1>2, <1>3, <1>4

\* The job a worker holds.
LEMMA HeldCopy ==
  ASSUME TypeOK, Shape, NEW w \in Workers, worker[w].st \in Holding
  PROVE  /\ Held(w) \in Copy /\ Held(w).job \in Jobs /\ Held(w).attempt \in Nat
         /\ Held(w).job \in accepted
         /\ worker[w].entry \in Ids /\ worker[w].entry \in Nat /\ worker[w].entry <= read
<1>1. worker[w].entry \in 1..read /\ read \in Nat /\ read <= Len(stream) /\ Len(stream) \in Nat
  BY DEF TypeOK, Shape
<1>2. worker[w].entry \in Ids /\ worker[w].entry \in Nat /\ worker[w].entry <= read
  BY <1>1 DEF Ids
<1>3. Held(w) \in Copy
  BY <1>2 DEF Held, TypeOK, Ids
<1> QED BY <1>2, <1>3, PushAssumption DEF Copy, Attempts, Shape, Held


\* What a step must keep for the worker that takes it.
KeepsWorker(w) ==
  /\ worker' \in [Workers -> WorkerState]
  /\ worker'[w].st \in Holding => worker'[w].entry \in 1..read'
  /\ worker'[w].st = "ack" => Held(w)'.job \in delivered'
  /\ worker'[w].st = "retry" => Held(w)'.attempt + 1 < MaxAttempts
  /\ worker'[w].st = "settle" =>
       Settled(Held(w).job)' \/ StoredFrom(Held(w).job, Held(w).attempt + 1)'
  /\ \A m \in worker'[w].batch : m.job \in accepted'

\* Steps of a worker that touch neither stream, pending list nor retries.
WorkerOnly(w) ==
  \/ ListDue(w) \/ ClaimExpired(w) \/ PostSucceeds(w) \/ AckFails(w) \/ DeadLetter(w)
  \/ WorkerDies(w) \/ WorkerStarts(w) \/ (\E transient \in BOOLEAN : PostFails(w, transient))

LEMMA WorkerOnlyKeeps ==
  ASSUME TypeOK, Shape, NEW w \in Workers, WorkerOnly(w)
  PROVE  /\ UNCHANGED <<stream, read, pel, retries, accepted>>
         /\ \A v \in Workers \ {w} : worker'[v] = worker[v]
         /\ KeepsWorker(w) /\ delivered \subseteq delivered' /\ dead \subseteq dead' /\ stale' \subseteq stale
         /\ delivered' \subseteq Jobs /\ dead' \subseteq Jobs
<1> DEFINE Goal == /\ KeepsWorker(w) /\ delivered \subseteq delivered' /\ dead \subseteq dead' /\ stale' \subseteq stale
                   /\ delivered' \subseteq Jobs /\ dead' \subseteq Jobs
<1>0. /\ worker \in [Workers -> WorkerState] /\ worker[w] \in WorkerState /\ stale \subseteq pel
      /\ pel \subseteq Nat /\ delivered \subseteq Jobs /\ dead \subseteq Jobs /\ retries \subseteq Delayed
      /\ pel \subseteq 1..read
  BY DEF TypeOK, Shape
<1>a. UNCHANGED <<stream, read, pel, retries, accepted>>
  BY DEF WorkerOnly, ListDue, ClaimExpired, PostSucceeds, AckFails, DeadLetter, WorkerDies, WorkerStarts, PostFails
<1>b. \A v \in Workers \ {w} : worker'[v] = worker[v]
  <2>1. Done(w) \/ (\E st : Goto(w, st)) \/ (\E e : Hold(w, e)) \/ (\E x : worker' = [worker EXCEPT ![w] = x])
    BY DEF WorkerOnly, ListDue, ClaimExpired, PostSucceeds, AckFails, DeadLetter, WorkerDies, WorkerStarts, PostFails
  <2> QED BY <1>0, <2>1, WorkerMoves
<1>1. CASE ListDue(w)
  <2>1. worker'[w] = [st |-> "move", entry |-> 0, batch |-> {m \in retries : m.due}]
    BY <1>0, <1>a, <1>1 DEF ListDue
  <2>2. worker'[w] \in WorkerState
    BY <1>0, <1>a, <2>1 DEF WorkerState, WorkerStates
  <2>3. worker' \in [Workers -> WorkerState]
    BY <1>0, <1>a, <1>1, <2>1, <2>2 DEF ListDue
  <2> QED BY <1>0, <1>a, <1>1, <2>1, <2>3 DEF ListDue, Holding, Shape, KeepsWorker
<1>2. CASE ClaimExpired(w)
  <2>1. CASE stale = {}
    <3>1. Goto(w, "read") /\ UNCHANGED <<stale, delivered, dead>>
      BY <1>2, <2>1 DEF ClaimExpired
    <3> QED BY <1>0, <1>a, <3>1, WorkerMoves DEF WorkerStates, Holding, Shape, KeepsWorker
  <2>2. CASE stale # {}
    <3>1. PICK e : e = CHOOSE i \in stale : \A k \in stale : i <= k
      OBVIOUS
    <3>2. Hold(w, e) /\ stale' = stale \ {e} /\ UNCHANGED <<read, delivered, dead>>
      BY <1>2, <2>2, <3>1 DEF ClaimExpired
    <3>3. \E i \in stale : \A k \in stale : i <= k
      BY <1>0, <1>a, <2>2, NatLeast
    <3>4. e \in stale
      BY <3>1, <3>3
    <3>5. e \in Nat /\ e \in 1..read
      BY <1>0, <1>a, <3>4
    <3> QED BY <1>0, <1>a, <3>2, <3>5, WorkerMoves DEF KeepsWorker
  <2> QED BY <2>1, <2>2
<1>3. CASE PostSucceeds(w)
  <2>1. Goto(w, "ack") /\ worker[w].st = "post" /\ delivered' = delivered \cup {Held(w).job} /\ UNCHANGED <<read, stale, dead>>
    BY <1>3 DEF PostSucceeds
  <2>2. "ack" \in WorkerStates /\ "post" \in Holding
    BY DEF WorkerStates, Holding
  <2> QED BY <1>0, <1>a, <2>1, <2>2, WorkerMoves, HeldCopy DEF Shape, Held, Settled, KeepsWorker
<1>4. CASE AckFails(w) \/ WorkerStarts(w)
  BY <1>0, <1>a, <1>4, WorkerMoves DEF AckFails, WorkerStarts, Holding, KeepsWorker
<1>5. CASE DeadLetter(w)
  <2>1. Goto(w, "settle") /\ worker[w].st = "bury" /\ dead' = dead \cup {Held(w).job} /\ UNCHANGED <<read, stale, delivered>>
    BY <1>5 DEF DeadLetter
  <2>2. "settle" \in WorkerStates /\ "bury" \in Holding
    BY DEF WorkerStates, Holding
  <2> QED BY <1>0, <1>a, <2>1, <2>2, WorkerMoves, HeldCopy DEF Shape, Held, Settled, KeepsWorker
<1>6. CASE WorkerDies(w)
  <2>1. worker' \in [Workers -> WorkerState] /\ worker'[w].st = "off" /\ worker'[w].batch = {}
    BY <1>0, <1>a, <1>6 DEF WorkerDies, WorkerState, WorkerStates, Off
  <2> QED BY <1>0, <1>a, <1>6, <2>1 DEF WorkerDies, Holding, KeepsWorker
<1>7. ASSUME NEW transient \in BOOLEAN, PostFails(w, transient)
      PROVE  Goal
  <2>1. PICK st \in {"retry", "bury"} : Goto(w, st) /\ (st = "retry" => Held(w).attempt + 1 < MaxAttempts)
    BY <1>7 DEF PostFails, Retryable
  <2>2. st \in WorkerStates /\ "post" \in Holding /\ worker[w].st = "post" /\ UNCHANGED <<read, stale, delivered, dead>>
    BY <1>7 DEF PostFails, WorkerStates, Holding
  <2> QED BY <1>0, <1>a, <2>1, <2>2, WorkerMoves, HeldCopy DEF Shape, Held, Settled, KeepsWorker
<1> QED BY <1>a, <1>b, <1>1, <1>2, <1>3, <1>4, <1>5, <1>6, <1>7 DEF WorkerOnly

\* What a step must keep in Redis.
KeepsRedis ==
  /\ stream' \in Seq(Copy) /\ \A e \in Ids : e \in Ids' /\ stream'[e] = stream[e]
  /\ \A e \in Ids' : stream'[e].job \in accepted'
  /\ read' \in Nat /\ read <= read' /\ read' <= Len(stream')
  /\ pel' \subseteq 1..read' /\ stale' \subseteq pel'
  /\ retries' \subseteq Delayed /\ \A m \in retries' : m.job \in accepted'
  /\ accepted \subseteq accepted' /\ accepted' \subseteq Jobs
  /\ delivered' \subseteq Jobs /\ dead' \subseteq Jobs
  /\ KeepsJobs
  /\ \A j \in accepted' \ accepted : StoredFrom(j, 0)'

LEMMA RedisKept ==
  ASSUME RedisInv, KeepsRedis,
         \/ UNCHANGED worker
         \/ \E w \in Workers : KeepsWorker(w) /\ \A v \in Workers \ {w} : worker'[v] = worker[v]
  PROVE  RedisInv'
<1>0. /\ TypeOK /\ Shape /\ NoLostJob /\ SafeToAck
      /\ worker \in [Workers -> WorkerState] /\ read \in Nat /\ stream \in Seq(Copy)
  BY DEF RedisInv, TypeOK
<1>1. worker' \in [Workers -> WorkerState]
  BY <1>0 DEF KeepsWorker
<1>2. TypeOK'
  BY <1>0, <1>1 DEF TypeOK, KeepsRedis
<1>3. \A e \in 1..read : e \in 1..read' /\ e \in Ids /\ stream'[e] = stream[e]
  BY <1>0 DEF KeepsRedis, Ids, Shape
<1>4. ASSUME NEW v \in Workers, worker'[v] = worker[v]
      PROVE  /\ worker'[v].st \in Holding => worker'[v].entry \in 1..read' /\ Held(v)' = Held(v)
             /\ worker'[v].st = "ack" => Held(v)'.job \in delivered'
             /\ worker'[v].st = "retry" => Held(v)'.attempt + 1 < MaxAttempts
             /\ \A m \in worker'[v].batch : m.job \in accepted'
  <2>1. worker[v].st \in Holding => worker[v].entry \in 1..read
    BY <1>0 DEF Shape
  <2>2. worker[v].st \in Holding => Held(v)' = Held(v)
    BY <1>3, <1>4, <2>1 DEF Held
  <2>3. "ack" \in Holding /\ "retry" \in Holding /\ "settle" \in Holding
    BY DEF Holding
  <2> QED BY <1>0, <1>3, <1>4, <2>1, <2>2, <2>3 DEF Shape, KeepsRedis, KeepsJobs
<1>5. Shape'
  <2>1. \A v \in Workers :
          /\ worker'[v].st \in Holding => worker'[v].entry \in 1..read'
          /\ worker'[v].st = "ack" => Held(v)'.job \in delivered'
          /\ worker'[v].st = "retry" => Held(v)'.attempt + 1 < MaxAttempts
          /\ \A m \in worker'[v].batch : m.job \in accepted'
    BY <1>4 DEF KeepsWorker
  <2> QED BY <2>1 DEF Shape, KeepsRedis
<1>6. ASSUME NEW v \in Workers, worker'[v].st = "settle"
      PROVE  \/ /\ worker[v].st = "settle" /\ Held(v)' = Held(v) /\ Held(v) \in Copy
             \/ Settled(Held(v).job)' \/ StoredFrom(Held(v).job, Held(v).attempt + 1)'
  <2>1. CASE worker'[v] = worker[v]
    BY <1>0, <1>4, <1>6, <2>1, HeldCopy DEF Holding
  <2>2. CASE KeepsWorker(v)
    BY <1>6, <2>2 DEF KeepsWorker
  <2> QED BY <2>1, <2>2
<1>7. NoLostJob' /\ SafeToAck'
  BY <1>0, <1>2, <1>6, JobsKept DEF KeepsRedis
<1> QED BY <1>2, <1>5, <1>7 DEF RedisInv

LEMMA RedisInit == Init => RedisInv
<1>1. Init => TypeOK
  BY PushAssumption DEF Init, TypeOK, WorkerState, WorkerStates, Awake
<1>2. Init => Shape
  BY DEF Init, Shape, Ids, Awake, Holding
<1>3. Init => NoLostJob /\ SafeToAck
  BY DEF Init, NoLostJob, SafeToAck, Awake
<1> QED BY <1>1, <1>2, <1>3 DEF RedisInv

\* Every step of the Redis queue keeps the invariant.
LEMMA RedisStep == ASSUME RedisInv, Next PROVE RedisInv' /\ KeepsRedis
<1>0. /\ TypeOK /\ Shape /\ NoLostJob /\ SafeToAck
      /\ worker \in [Workers -> WorkerState] /\ read \in Nat /\ stream \in Seq(Copy) /\ stale \subseteq pel
      /\ pel \subseteq Nat /\ retries \subseteq Delayed /\ accepted \subseteq Jobs
      /\ delivered \subseteq Jobs /\ dead \subseteq Jobs
  BY DEF RedisInv, TypeOK
<1>1. ASSUME NEW w \in Workers, WorkerOnly(w) PROVE RedisInv' /\ KeepsRedis
  <2>1. /\ UNCHANGED <<stream, read, pel, retries, accepted>>
        /\ \A v \in Workers \ {w} : worker'[v] = worker[v]
        /\ KeepsWorker(w) /\ delivered \subseteq delivered' /\ dead \subseteq dead' /\ stale' \subseteq stale
        /\ delivered' \subseteq Jobs /\ dead' \subseteq Jobs
    BY <1>0, <1>1, WorkerOnlyKeeps
  <2>2. \A j, a : StoredFrom(j, a)' = StoredFrom(j, a)
    BY <2>1, SameStore
  <2>3. KeepsJobs
    BY <2>1, <2>2 DEF KeepsJobs
  <2>4. KeepsRedis
    BY <1>0, <2>1, <2>3 DEF KeepsRedis, Shape, Ids
  <2> QED BY <2>1, <2>4, RedisKept
<1>2. ASSUME NEW j \in Jobs, Enqueue(j) PROVE RedisInv' /\ KeepsRedis
  <2>1. 0 \in Attempts /\ XAdd(j, 0) /\ accepted' = accepted \cup {j}
        /\ UNCHANGED <<read, pel, stale, retries, worker, delivered, dead>>
    BY <1>2, PushAssumption DEF Enqueue, Attempts
  <2>2. /\ stream' \in Seq(Copy) /\ Len(stream) \in Nat /\ Len(stream') = Len(stream) + 1
        /\ \A e \in 1..Len(stream) : stream'[e] = stream[e]
        /\ stream'[Len(stream) + 1] = [job |-> j, attempt |-> 0]
    BY <1>0, <2>1, XAddAppends
  <2>3. KeepsJobs /\ StoredFrom(j, 0)'
    BY <1>0, <2>1, XAddStores DEF KeepsJobs
  <2>4. \A e \in Ids' : stream'[e].job \in accepted'
    BY <1>0, <2>1, <2>2 DEF Shape, Ids
  <2>5. KeepsRedis
    BY <1>0, <2>1, <2>2, <2>3, <2>4 DEF KeepsRedis, Shape, Ids
  <2> QED BY <2>1, <2>5, RedisKept
<1>3. ASSUME NEW w \in Workers, NEW m \in Delayed, Promote(w, m) PROVE RedisInv' /\ KeepsRedis
  <2>1. /\ m.job \in Jobs /\ m.attempt \in Attempts /\ XAdd(m.job, m.attempt) /\ retries' = retries \ {m}
        /\ worker[w].st = "move" /\ m \in worker[w].batch /\ worker' = [worker EXCEPT ![w].batch = @ \ {m}]
        /\ UNCHANGED <<read, pel, stale, accepted, delivered, dead>>
    BY <1>3 DEF Promote, Delayed
  <2>2. /\ stream' \in Seq(Copy) /\ Len(stream) \in Nat /\ Len(stream') = Len(stream) + 1
        /\ \A e \in 1..Len(stream) : stream'[e] = stream[e]
        /\ stream'[Len(stream) + 1] = [job |-> m.job, attempt |-> m.attempt]
    BY <1>0, <2>1, XAddAppends
  <2>3. KeepsJobs
    BY <1>0, <2>1, XAddStores DEF KeepsJobs
  <2>4. m.job \in accepted
    BY <1>0, <2>1 DEF Shape
  <2>5. \A e \in Ids' : stream'[e].job \in accepted'
    BY <1>0, <2>1, <2>2, <2>4 DEF Shape, Ids
  <2>6. KeepsRedis
    BY <1>0, <2>1, <2>2, <2>3, <2>5 DEF KeepsRedis, Shape, Ids
  <2>7. /\ worker' \in [Workers -> WorkerState] /\ worker'[w].st = "move"
        /\ worker'[w].batch = worker[w].batch \ {m} /\ \A v \in Workers \ {w} : worker'[v] = worker[v]
    BY <1>0, <2>1 DEF WorkerState
  <2>8. KeepsWorker(w)
    BY <1>0, <2>1, <2>7 DEF KeepsWorker, Holding, Shape
  <2> QED BY <2>6, <2>7, <2>8, RedisKept
<1>4. ASSUME NEW w \in Workers, ReadGroup(w) PROVE RedisInv' /\ KeepsRedis
  <2>1. /\ read < Len(stream) /\ read' = read + 1 /\ pel' = pel \cup {read + 1} /\ Hold(w, read + 1)
        /\ UNCHANGED <<stream, stale, retries, accepted, delivered, dead>>
    BY <1>4 DEF ReadGroup
  <2>2. KeepsJobs
    BY <1>0, <2>1 DEF KeepsJobs, StoredFrom, Ids
  <2>3. KeepsRedis
    BY <1>0, <2>1, <2>2 DEF KeepsRedis, Shape, Ids
  <2>4. KeepsWorker(w) /\ \A v \in Workers \ {w} : worker'[v] = worker[v]
    BY <1>0, <2>1, WorkerMoves DEF KeepsWorker
  <2> QED BY <2>3, <2>4, RedisKept
<1>5. ASSUME NEW w \in Workers, Ack(w) \/ Settle(w) PROVE RedisInv' /\ KeepsRedis
  <2>1. /\ worker[w].st \in {"ack", "settle"} /\ XAck(worker[w].entry) /\ Done(w)
        /\ UNCHANGED <<stream, read, retries, accepted, delivered, dead>>
    BY <1>5 DEF Ack, Settle
  <2>2. /\ Held(w).job \in Jobs /\ Held(w).attempt \in Nat /\ worker[w].entry \in Nat
        /\ worker[w].st = "ack" => Held(w).job \in delivered
    BY <1>0, <2>1, HeldCopy DEF Holding, Shape
  <2>a. PICK e \in Nat, n \in Nat : e = worker[w].entry /\ n = Held(w).attempt
    BY <2>2
  <2>b. XAck(e) /\ Held(w) = stream[e]
    BY <2>1, <2>a DEF Held
  <2>3. Settled(Held(w).job) \/ StoredFrom(Held(w).job, n + 1)
    BY <1>0, <2>1, <2>2, <2>a DEF SafeToAck, Settled
  <2>4. ASSUME NEW k \in Jobs, NEW b \in Nat, StoredFrom(k, b) PROVE StoredFrom(k, b)' \/ Settled(k)'
    <3>1. StoredFrom(k, b)' \/ (stream[e].job = k /\ stream[e].attempt >= b)
      BY <1>0, <2>1, <2>b, <2>4, XAckStores
    <3>2. ASSUME stream[e].job = k, stream[e].attempt >= b, ~Settled(k) PROVE StoredFrom(k, b)'
      <4>1. StoredFrom(k, n + 1) /\ n + 1 \in Nat /\ n = stream[e].attempt /\ n >= b
        BY <2>a, <2>b, <2>3, <3>2
      <4>2. StoredFrom(k, n + 1)' \/ stream[e].attempt >= n + 1
        BY <1>0, <2>1, <2>b, <4>1, XAckStores
      <4>3. StoredFrom(k, n + 1)'
        BY <2>a, <4>1, <4>2
      <4>4. /\ \A i \in Ids' : stream'[i].attempt \in Nat
            /\ \A m \in retries' : m.attempt \in Nat
        <5>1. (\A c \in Copy : c.attempt \in Nat) /\ (\A m \in Delayed : m.attempt \in Nat)
          BY PushAssumption DEF Copy, Delayed, Attempts
        <5>2. (\A i \in Ids' : stream'[i] \in Copy) /\ retries' \subseteq Delayed
          BY <1>0, <2>1 DEF Ids
        <5> QED BY <5>1, <5>2
      <4> QED BY <4>1, <4>3, <4>4 DEF StoredFrom
    <3> QED BY <2>1, <3>1, <3>2 DEF Settled
  <2>5. KeepsJobs
    BY <2>1, <2>4 DEF KeepsJobs
  <2>c. pel' = pel \ {e} /\ stale' = stale \ {e} /\ pel \subseteq 1..read /\ read <= Len(stream)
    BY <1>0, <2>b DEF XAck, Shape
  <2>6. KeepsRedis
    BY <1>0, <2>1, <2>5, <2>c DEF KeepsRedis, Shape, Ids
  <2>7. KeepsWorker(w) /\ \A v \in Workers \ {w} : worker'[v] = worker[v]
    BY <1>0, <2>1, WorkerMoves DEF KeepsWorker, Holding
  <2> QED BY <2>6, <2>7, RedisKept
<1>6. ASSUME NEW w \in Workers, Retry(w) PROVE RedisInv' /\ KeepsRedis
  <2>0. worker[w].st = "retry" /\ Goto(w, "settle") /\ UNCHANGED <<stream, read, pel, stale, accepted, delivered, dead>>
    BY <1>6 DEF Retry
  <2>1. /\ Held(w).job \in accepted /\ Held(w).job \in Jobs /\ Held(w).attempt \in Nat
        /\ Held(w).attempt + 1 < MaxAttempts /\ worker[w].entry \in 1..read
    BY <1>0, <2>0, HeldCopy DEF Shape, Holding
  <2>2. PICK d : d = [job |-> Held(w).job, attempt |-> Held(w).attempt + 1, due |-> FALSE]
    OBVIOUS
  <2>3. retries' = retries \cup {d} /\ d \in Delayed /\ d.job = Held(w).job /\ d.attempt = Held(w).attempt + 1
    BY <1>6, <2>1, <2>2, PushAssumption DEF Retry, Delayed, Attempts
  <2>4. KeepsJobs
    BY <2>0, <2>3 DEF KeepsJobs, StoredFrom, Ids
  <2>5. KeepsRedis
    BY <1>0, <2>0, <2>1, <2>3, <2>4 DEF KeepsRedis, Shape, Ids
  <2>6. Held(w)' = Held(w) /\ worker'[w].st = "settle" /\ worker' \in [Workers -> WorkerState]
        /\ worker'[w].entry = worker[w].entry /\ worker'[w].batch = worker[w].batch
        /\ \A v \in Workers \ {w} : worker'[v] = worker[v]
    BY <1>0, <2>0, WorkerMoves DEF Held, WorkerStates
  <2>7. StoredFrom(Held(w).job, Held(w).attempt + 1)'
    BY <2>1, <2>3, <2>6 DEF StoredFrom
  <2>8. KeepsWorker(w)
    BY <1>0, <2>0, <2>1, <2>6, <2>7 DEF KeepsWorker, Shape
  <2> QED BY <2>5, <2>6, <2>8, RedisKept
<1>7. ASSUME NEW m \in Delayed, RetryDue(m) PROVE RedisInv' /\ KeepsRedis
  <2>1. PICK d : d = [m EXCEPT !.due = TRUE]
    OBVIOUS
  <2>a. d \in Delayed /\ d.job = m.job /\ d.attempt = m.attempt
    BY <2>1 DEF Delayed
  <2>2. /\ m \in retries /\ retries' = (retries \ {m}) \cup {d}
        /\ UNCHANGED <<stream, read, pel, stale, worker, accepted, delivered, dead>>
    BY <1>7, <2>1 DEF RetryDue
  <2>3. KeepsJobs
    BY <2>a, <2>2 DEF KeepsJobs, StoredFrom, Ids
  <2>4. KeepsRedis
    BY <1>0, <2>a, <2>2, <2>3 DEF KeepsRedis, Shape, Ids
  <2> QED BY <2>2, <2>4, RedisKept
<1>8. ASSUME NEW e \in Ids, LeaseExpires(e) PROVE RedisInv' /\ KeepsRedis
  <2>1. KeepsRedis /\ UNCHANGED worker
    BY <1>0, <1>8, SameStore DEF LeaseExpires, KeepsRedis, KeepsJobs, Shape, Ids
  <2> QED BY <2>1, RedisKept
<1> QED BY <1>1, <1>2, <1>3, <1>4, <1>5, <1>6, <1>7, <1>8 DEF Next, Work, WorkerOnly

LEMMA RedisStutter == ASSUME RedisInv, UNCHANGED vars PROVE RedisInv'
<1>1. TypeOK'
  BY DEF RedisInv, TypeOK, vars
<1>2. Shape'
  BY DEF RedisInv, Shape, Held, Ids, vars
<1>3. NoLostJob' /\ SafeToAck'
  BY DEF RedisInv, NoLostJob, SafeToAck, Held, Settled, StoredFrom, Ids, vars
<1> QED BY <1>1, <1>2, <1>3 DEF RedisInv

-----------------------------------------------------------------------------
(* The local-file queue.                                                   *)

N == FileQueue!Notifications
Dirs == FileQueue!Dirs
\* The worker has claimed a job and has not settled it.
Claimed == fileWorker.st \in {"post", "ack", "retry", "bury"}
\* Job j has a file in directory d at most.
OnlyIn(d, j) == \A c \in Dirs : c # d => file[c][j].st = "missing"

\* A job has one file; what is stored or posted was accepted; attempts stay
\* below the limit until the job is buried.
FileShape ==
  /\ \A j \in N, c, d \in Dirs : file[c][j].st # "missing" /\ file[d][j].st # "missing" => c = d
  /\ \A j \in N, d \in Dirs : file[d][j].st # "missing" => j \in fileAccepted
  /\ \A j \in N, d \in Dirs : d # "dead" => file[d][j].attempt < MaxAttempts

\* A job the worker has claimed is in no directory but inflight, or claim is
\* about to move it there.
WorkerShape ==
  /\ ~Claimed => fileWorker.job = 0
  /\ Claimed =>
       /\ fileWorker.job \in fileAccepted /\ fileWorker.attempt < MaxAttempts
       /\ fileWorker.st = "retry" => fileWorker.attempt + 1 < MaxAttempts
       /\ fileWorker.st = "ack" => fileWorker.job \in fileDelivered
       /\ \A i \in DOMAIN todo : todo[i].job = fileWorker.job => todo[i].dir = "inflight"
       /\ \A d \in Dirs : d # "inflight" /\ file[d][fileWorker.job].st # "missing" =>
            /\ todo # <<>> /\ todo[1].do = "rename"
            /\ todo[1].from = d /\ todo[1].job = fileWorker.job

\* What is left of a method of the queue: all of it is about one job, which has
\* its file in the directory the next operation is about.
Filling(d, j, f) ==
  /\ d \in Dirs /\ j \in fileAccepted /\ j \in N
  /\ f \in FileQueue!File /\ f.st = "job" /\ (d # "dead" => f.attempt < MaxAttempts)
Truncate(d, j) == [do |-> "truncate", dir |-> d, job |-> j, file |-> FileQueue!Torn]
Fill(d, j, f) == [do |-> "fill", dir |-> d, job |-> j, file |-> f]
Remove(d, j) == [do |-> "unlink", dir |-> d, job |-> j, file |-> FileQueue!Missing]
Move(c, d, j) == [do |-> "rename", from |-> c, dir |-> d, job |-> j]

IsFill(d, j, f) == todo = <<Fill(d, j, f)>> /\ OnlyIn(d, j)
IsWrite(d, j, f) == todo = <<Truncate(d, j), Fill(d, j, f)>> /\ OnlyIn(d, j)
IsReplace(d, j, f) ==
  todo = <<Remove("inflight", j), Truncate(d, j), Fill(d, j, f)>> /\ OnlyIn("inflight", j)
IsMove(c, d, j, f) ==
  /\ todo = <<Move(c, d, j), Truncate(d, j), Fill(d, j, f)>> /\ OnlyIn(c, j)
  /\ c \in {"pending", "inflight"} /\ d \in {"pending", "inflight"} /\ c # d
IsAck(j) == todo = <<Remove("inflight", j)>> /\ j \in fileAccepted /\ j \in fileDelivered

Method ==
  \/ todo = <<>>
  \/ \E j \in N : IsAck(j)
  \/ \E j \in N, d \in Dirs, f \in FileQueue!File :
       /\ Filling(d, j, f)
       /\ \/ /\ IsFill(d, j, f) \/ IsWrite(d, j, f)
             /\ d = "dead" => file[d][j].st # "job"
          \/ IsReplace(d, j, f)
          \/ \E c \in Dirs : IsMove(c, d, j, f)

FileInv ==
  FileQueue!TypeOK /\ FileShape /\ WorkerShape /\ Method /\ FileQueue!LossPerCrash

\* The least of a set of numbers is one of them.
LEMMA MinIsMember ==
  ASSUME NEW S \in SUBSET Nat, S # {}
  PROVE  FileQueue!Min(S) \in S
BY NatLeast DEF FileQueue!Min

LEMMA ThreeOps ==
  ASSUME NEW S, NEW a \in S, NEW b \in S, NEW c \in S
  PROVE  <<a>> \o <<b, c>> = <<a, b, c>>
<1>0. <<a>> \in Seq(S) /\ <<b, c>> \in Seq(S) /\ <<a, b, c>> \in Seq(S)
  OBVIOUS
<1>1. PICK s \in Seq(S), t \in Seq(S), v \in Seq(S) : s = <<a>> /\ t = <<b, c>> /\ v = <<a, b, c>>
  BY <1>0
<1>2. /\ Len(s) = 1 /\ s[1] = a /\ Len(t) = 2 /\ t[1] = b /\ t[2] = c
      /\ Len(v) = 3 /\ v[1] = a /\ v[2] = b /\ v[3] = c
  BY <1>1
<1>3. /\ s \o t \in Seq(S) /\ Len(s \o t) = Len(s) + Len(t)
      /\ \A i \in 1..Len(s) + Len(t) : (s \o t)[i] = IF i <= Len(s) THEN s[i] ELSE t[i - Len(s)]
  BY ConcatProperties
<1>4. s \o t = v
  BY <1>2, <1>3, SeqEqual, SMTT(60)
<1> QED BY <1>1, <1>4

\* Writing or removing one file, and moving one.
LEMMA PutIn ==
  ASSUME NEW D, NEW J, NEW F, NEW g \in [D -> [J -> F]], NEW d \in D, NEW j \in J, NEW f \in F
  PROVE  /\ [g EXCEPT ![d][j] = f] \in [D -> [J -> F]]
         /\ \A x \in D, k \in J : [g EXCEPT ![d][j] = f][x][k] = IF x = d /\ k = j THEN f ELSE g[x][k]
OBVIOUS

LEMMA PutFile ==
  ASSUME FileQueue!TypeOK, NEW d \in Dirs, NEW j \in N, NEW f \in FileQueue!File,
         file' = [file EXCEPT ![d][j] = f]
  PROVE  /\ file' \in [Dirs -> [N -> FileQueue!File]]
         /\ \A x \in Dirs, k \in N : file'[x][k] = IF x = d /\ k = j THEN f ELSE file[x][k]
<1>1. file \in [Dirs -> [N -> FileQueue!File]]
  BY DEF FileQueue!TypeOK, Dirs, N
<1> QED BY <1>1, PutIn

\* A rename of job j's file from c to d, and what it makes of every file.
Renames(c, d, j) == file' = [file EXCEPT ![d][j] = file[c][j], ![c][j] = FileQueue!Missing]

Renamed(c, d, j) ==
  /\ file' \in [Dirs -> [N -> FileQueue!File]]
  /\ \A x \in Dirs, k \in N :
       file'[x][k] = IF k # j THEN file[x][k] ELSE IF x = d THEN file[c][j]
                     ELSE IF x = c THEN FileQueue!Missing ELSE file[x][k]

LEMMA MoveFile ==
  ASSUME FileQueue!TypeOK, NEW c \in Dirs, NEW d \in Dirs, NEW j \in N, c # d, Renames(c, d, j)
  PROVE  Renamed(c, d, j)
<1>1. file \in [Dirs -> [N -> FileQueue!File]]
  BY DEF FileQueue!TypeOK, Dirs, N
<1>2. FileQueue!Missing \in FileQueue!File
  BY PushAssumption DEF FileQueue!Missing, FileQueue!File
<1>3. PICK g : g = [file EXCEPT ![d][j] = file[c][j]]
  OBVIOUS
<1>a. /\ g \in [Dirs -> [N -> FileQueue!File]]
      /\ \A x \in Dirs, k \in N : g[x][k] = IF x = d /\ k = j THEN file[c][j] ELSE file[x][k]
  BY <1>1, <1>3, PutIn, SMTT(60)
<1>b. PICK h : h = [g EXCEPT ![c][j] = FileQueue!Missing]
  OBVIOUS
<1>c. /\ h \in [Dirs -> [N -> FileQueue!File]]
      /\ \A x \in Dirs, k \in N : h[x][k] = IF x = c /\ k = j THEN FileQueue!Missing ELSE g[x][k]
  BY <1>2, <1>a, <1>b, PutIn
<1>4. \A x \in Dirs, k \in N :
        h[x][k] = IF k # j THEN file[x][k] ELSE IF x = d THEN file[c][j]
                  ELSE IF x = c THEN FileQueue!Missing ELSE file[x][k]
  BY <1>a, <1>c
<1>5. file' = h
  BY <1>3, <1>b DEF Renames
<1> QED BY <1>c, <1>4, <1>5 DEF Renamed

LEMMA SameCardinality == \A S : FileQueue!Cardinality(S) = Cardinality(S)
BY DEF FileQueue!Cardinality, Cardinality

\* The jobs there are, and what a queue lost, are finite sets.
LEMMA LossBound ==
  ASSUME FileInv, fileAccepted' \subseteq N, crashes' = crashes, FileQueue!Lost' \subseteq FileQueue!Lost
  PROVE  FileQueue!LossPerCrash'
<1>1. FileQueue!Lost \subseteq 1..NJobs
  BY DEF FileInv, FileQueue!Lost, FileQueue!TypeOK, FileQueue!Notifications
<1>2. IsFiniteSet(FileQueue!Lost)
  <2>1. IsFiniteSet(1..NJobs)
    BY FS_Interval, FileQueueAssumption
  <2> QED BY <1>1, <2>1, FS_Subset
<1>3. Cardinality(FileQueue!Lost') <= Cardinality(FileQueue!Lost) /\ Cardinality(FileQueue!Lost) \in Nat
      /\ Cardinality(FileQueue!Lost') \in Nat
  BY <1>2, FS_Subset, FS_CardinalityType
<1>4. Cardinality(FileQueue!Lost) <= crashes /\ crashes \in Nat
  BY FileQueueAssumption, SameCardinality DEF FileInv, FileQueue!LossPerCrash, FileQueue!TypeOK
<1> QED BY <1>3, <1>4, SameCardinality DEF FileQueue!LossPerCrash

\* A file operation about job j keeps the invariant when it keeps what the
\* other jobs have, leaves j one file, and stores j or has still to store it.
LEMMA OpKeeps ==
  ASSUME FileInv, NEW j \in N, j \in fileAccepted, todo # <<>>,
         UNCHANGED <<fileWorker, fileAccepted, fileDelivered, crashes>>,
         file' \in [Dirs -> [N -> FileQueue!File]], todo' \in Seq(FileQueue!Op),
         \A x \in Dirs, k \in N : k # j => file'[x][k] = file[x][k],
         \A i \in DOMAIN todo : todo[i].job = j,
         \A i \in DOMAIN todo' : \E h \in DOMAIN todo : todo'[i] = todo[h],
         \A c, d \in Dirs : file'[c][j].st # "missing" /\ file'[d][j].st # "missing" => c = d,
         \A d \in Dirs : d # "dead" => file'[d][j].attempt < MaxAttempts,
         Claimed /\ fileWorker.job = j => OnlyIn("inflight", j)',
         FileQueue!Intact(j)' \/ FileQueue!Pending(j)' \/ j \in fileDelivered,
         Method'
  PROVE  FileInv'
<1>0. /\ FileQueue!TypeOK /\ FileShape /\ WorkerShape
      /\ fileAccepted \subseteq N /\ fileAccepted' \subseteq N
  BY DEF FileInv, FileQueue!TypeOK, N
<1>1. FileQueue!TypeOK'
  BY <1>0 DEF FileQueue!TypeOK, Dirs, N
<1>2. FileShape'
  <2>1. \A k \in N, c, d \in Dirs : file'[c][k].st # "missing" /\ file'[d][k].st # "missing" => c = d
    BY <1>0 DEF FileShape
  <2>2. \A k \in N, d \in Dirs : file'[d][k].st # "missing" => k \in fileAccepted'
    BY <1>0 DEF FileShape
  <2>3. \A k \in N, d \in Dirs : d # "dead" => file'[d][k].attempt < MaxAttempts
    BY <1>0 DEF FileShape
  <2> QED BY <2>1, <2>2, <2>3 DEF FileShape
<1>3. WorkerShape'
  <2>1. CASE ~Claimed
    BY <1>0, <2>1 DEF WorkerShape, Claimed
  <2>2. CASE Claimed
    <3>1. /\ fileWorker.job \in fileAccepted /\ fileWorker.attempt < MaxAttempts
          /\ fileWorker.st = "retry" => fileWorker.attempt + 1 < MaxAttempts
          /\ fileWorker.st = "ack" => fileWorker.job \in fileDelivered
      BY <1>0, <2>2 DEF WorkerShape
    <3>2. \A i \in DOMAIN todo' : todo'[i].job = fileWorker.job => todo'[i].dir = "inflight"
      BY <1>0, <2>2 DEF WorkerShape
    <3>3. ASSUME NEW d \in Dirs, d # "inflight" PROVE file'[d][fileWorker.job].st = "missing"
      <4>1. CASE fileWorker.job = j
        BY <2>2, <3>3, <4>1 DEF OnlyIn
      <4>2. CASE fileWorker.job # j
        <5>1. 1 \in DOMAIN todo
          BY <1>0 DEF FileQueue!TypeOK
        <5>2. todo[1].job # fileWorker.job
          BY <4>2, <5>1
        <5>3. file[d][fileWorker.job].st = "missing"
          BY <1>0, <2>2, <3>3, <5>2 DEF WorkerShape
        <5> QED BY <1>0, <3>1, <4>2, <5>3
      <4> QED BY <4>1, <4>2
    <3> QED BY <2>2, <3>1, <3>2, <3>3 DEF WorkerShape, Claimed
  <2> QED BY <2>1, <2>2
<1>4. FileQueue!Lost' \subseteq FileQueue!Lost
  <2> SUFFICES ASSUME NEW k \in FileQueue!Lost' PROVE k \in FileQueue!Lost
    OBVIOUS
  <2>1. /\ k \in fileAccepted /\ k \in N /\ k \notin fileDelivered
        /\ file'["dead"][k].st # "job" /\ ~FileQueue!Intact(k)' /\ ~FileQueue!Pending(k)'
    BY <1>0 DEF FileQueue!Lost, FileQueue!Settled
  <2>2. k # j
    BY <2>1
  <2>3. \A d \in Dirs : file'[d][k] = file[d][k]
    BY <2>1, <2>2
  <2>4. ~FileQueue!Intact(k) /\ ~FileQueue!Settled(k)
    BY <2>1, <2>3 DEF FileQueue!Intact, FileQueue!Settled, Dirs, FileQueue!Dirs
  <2>5. ~FileQueue!Pending(k)
    BY <2>2 DEF FileQueue!Pending
  <2> QED BY <2>1, <2>4, <2>5 DEF FileQueue!Lost
<1>5. FileQueue!LossPerCrash'
  BY <1>0, <1>4, LossBound
<1> QED BY <1>1, <1>2, <1>3, <1>5 DEF FileInv

\* The operations of a method and the files they write are typed.
LEMMA OpTypes ==
  /\ \A d \in Dirs, j \in N : Truncate(d, j) \in FileQueue!Op /\ Remove(d, j) \in FileQueue!Op
  /\ \A d \in Dirs, j \in N, f \in FileQueue!File : Fill(d, j, f) \in FileQueue!Op
  /\ \A c, d \in Dirs, j \in N : Move(c, d, j) \in FileQueue!Op
  /\ FileQueue!Missing \in FileQueue!File /\ FileQueue!Torn \in FileQueue!File
<1>1. FileQueue!Missing \in FileQueue!File /\ FileQueue!Torn \in FileQueue!File
  BY PushAssumption DEF FileQueue!File, FileQueue!Missing, FileQueue!Torn
<1>2. /\ \A d \in Dirs, j \in N, f \in FileQueue!File :
           [do |-> "fill", dir |-> d, job |-> j, file |-> f] \in FileQueue!Op
      /\ \A d \in Dirs, j \in N, f \in FileQueue!File :
           [do |-> "truncate", dir |-> d, job |-> j, file |-> f] \in FileQueue!Op
      /\ \A d \in Dirs, j \in N, f \in FileQueue!File :
           [do |-> "unlink", dir |-> d, job |-> j, file |-> f] \in FileQueue!Op
  BY DEF FileQueue!Op, Dirs, N
<1>3. \A c, d \in Dirs, j \in N : Move(c, d, j) \in FileQueue!Op
  BY DEF FileQueue!Op, Dirs, N, Move
<1>4. \A d \in Dirs, j \in N : Truncate(d, j) \in FileQueue!Op
  BY <1>1, <1>2 DEF Truncate
<1>5. \A d \in Dirs, j \in N : Remove(d, j) \in FileQueue!Op
  BY <1>1, <1>2 DEF Remove
<1>6. \A d \in Dirs, j \in N, f \in FileQueue!File : Fill(d, j, f) \in FileQueue!Op
  BY <1>2 DEF Fill
<1> QED BY <1>1, <1>3, <1>4, <1>5, <1>6

\* What is left of a method after its first operation.
LEMMA NextOps ==
  ASSUME NEW a, NEW b, NEW c
  PROVE  /\ Head(<<a>>) = a /\ Tail(<<a>>) = <<>> /\ <<a>> # <<>>
         /\ Head(<<a, b>>) = a /\ Tail(<<a, b>>) = <<b>> /\ <<a, b>> # <<>>
         /\ Head(<<a, b, c>>) = a /\ Tail(<<a, b, c>>) = <<b, c>> /\ <<a, b, c>> # <<>>
OBVIOUS

\* Each operation of a method keeps the invariant.
LEMMA FillKeeps ==
  ASSUME FileInv, NEW d \in Dirs, NEW j \in N, NEW f \in FileQueue!File, Filling(d, j, f),
         IsFill(d, j, f), FileQueue!FileOp
  PROVE  FileInv' /\ file' = [file EXCEPT ![d][j] = f] /\ todo' = <<>>
<1>0. FileQueue!TypeOK /\ FileShape /\ WorkerShape
  BY DEF FileInv
<1>1. Head(todo) = Fill(d, j, f) /\ Tail(todo) = <<>> /\ todo # <<>>
  BY NextOps, SMTT(60) DEF IsFill
<1>2. file' = [file EXCEPT ![d][j] = f] /\ todo' = <<>>
      /\ UNCHANGED <<fileWorker, fileAccepted, fileDelivered, crashes>>
  <2>1. Head(todo).do = "fill" /\ Head(todo).dir = d /\ Head(todo).job = j /\ Head(todo).file = f
    BY <1>1 DEF Fill
  <2> QED BY <1>1, <2>1 DEF FileQueue!FileOp
<1>3. /\ file' \in [Dirs -> [N -> FileQueue!File]]
      /\ \A x \in Dirs, k \in N : file'[x][k] = IF x = d /\ k = j THEN f ELSE file[x][k]
  BY <1>0, <1>2, PutFile, ZenonT(60)
<1>4. /\ \A i \in DOMAIN todo : todo[i].job = j
      /\ 1 \in DOMAIN todo /\ todo[1].dir = d /\ todo[1].job = j /\ todo[1].do # "rename"
      /\ \A i \in DOMAIN todo' : FALSE
  BY <1>2 DEF IsFill, Fill
<1>5. OnlyIn(d, j)'
  BY <1>3 DEF IsFill, OnlyIn
<1>6. \A x, y \in Dirs : file'[x][j].st # "missing" /\ file'[y][j].st # "missing" => x = y
  BY <1>5 DEF OnlyIn
<1>7. \A x \in Dirs : x # "dead" => file'[x][j].attempt < MaxAttempts
  BY <1>0, <1>3 DEF Filling, FileShape
<1>8. Claimed /\ fileWorker.job = j => OnlyIn("inflight", j)'
  BY <1>0, <1>4, <1>5 DEF WorkerShape
<1>9. FileQueue!Intact(j)'
  BY <1>3 DEF FileQueue!Intact, Filling, Dirs
<1>10. Method' /\ todo' \in Seq(FileQueue!Op)
  BY <1>2 DEF Method
<1>11. FileInv'
  BY <1>1, <1>2, <1>3, <1>4, <1>6, <1>7, <1>8, <1>9, <1>10, OpKeeps DEF Filling
<1> QED BY <1>2, <1>11

LEMMA TruncateKeeps ==
  ASSUME FileInv, NEW d \in Dirs, NEW j \in N, NEW f \in FileQueue!File, Filling(d, j, f),
         IsWrite(d, j, f), d = "dead" => file[d][j].st # "job", FileQueue!FileOp
  PROVE  FileInv' /\ file' = [file EXCEPT ![d][j] = FileQueue!Torn] /\ todo' = <<Fill(d, j, f)>>
<1>0. FileQueue!TypeOK /\ FileShape /\ WorkerShape
  BY DEF FileInv
<1>1. Head(todo) = Truncate(d, j) /\ Tail(todo) = <<Fill(d, j, f)>> /\ todo # <<>>
  BY NextOps, SMTT(60) DEF IsWrite
<1>2. file' = [file EXCEPT ![d][j] = FileQueue!Torn] /\ todo' = <<Fill(d, j, f)>>
      /\ UNCHANGED <<fileWorker, fileAccepted, fileDelivered, crashes>>
  <2>1. Head(todo).do = "truncate" /\ Head(todo).dir = d /\ Head(todo).job = j /\ Head(todo).file = FileQueue!Torn
    BY <1>1 DEF Truncate
  <2> QED BY <1>1, <2>1 DEF FileQueue!FileOp
<1>3. /\ file' \in [Dirs -> [N -> FileQueue!File]]
      /\ \A x \in Dirs, k \in N : file'[x][k] = IF x = d /\ k = j THEN FileQueue!Torn ELSE file[x][k]
  BY <1>0, <1>2, PutFile, OpTypes, ZenonT(60)
<1>4. /\ \A i \in DOMAIN todo : todo[i].job = j
      /\ 1 \in DOMAIN todo /\ todo[1].dir = d /\ todo[1].job = j /\ todo[1].do # "rename"
      /\ \A i \in DOMAIN todo' : \E h \in DOMAIN todo : todo'[i] = todo[h]
  BY <1>2 DEF IsWrite, Fill, Truncate
<1>5. OnlyIn(d, j)'
  BY <1>3 DEF IsWrite, OnlyIn
<1>6. \A x, y \in Dirs : file'[x][j].st # "missing" /\ file'[y][j].st # "missing" => x = y
  BY <1>5 DEF OnlyIn
<1>7. \A x \in Dirs : x # "dead" => file'[x][j].attempt < MaxAttempts
  BY <1>0, <1>3, PushAssumption DEF FileShape, FileQueue!Torn
<1>8. Claimed /\ fileWorker.job = j => OnlyIn("inflight", j)'
  BY <1>0, <1>4, <1>5 DEF WorkerShape
<1>9. FileQueue!Pending(j)'
  BY <1>2 DEF FileQueue!Pending, Fill
<1>10. Method' /\ todo' \in Seq(FileQueue!Op)
  <2>1. Filling(d, j, f)' /\ IsFill(d, j, f)'
    BY <1>2, <1>5 DEF Filling, IsFill
  <2>2. file'[d][j].st # "job"
    BY <1>3 DEF FileQueue!Torn
  <2> QED BY <1>2, <2>1, <2>2, OpTypes DEF Method
<1>11. FileInv'
  BY <1>1, <1>2, <1>3, <1>4, <1>6, <1>7, <1>8, <1>9, <1>10, OpKeeps DEF Filling
<1> QED BY <1>2, <1>11

LEMMA RemoveKeeps ==
  ASSUME FileInv, NEW d \in Dirs, NEW j \in N, NEW f \in FileQueue!File, Filling(d, j, f),
         IsReplace(d, j, f), FileQueue!FileOp
  PROVE  /\ FileInv' /\ file' = [file EXCEPT !["inflight"][j] = FileQueue!Missing]
         /\ todo' = <<Truncate(d, j), Fill(d, j, f)>>
<1>0. FileQueue!TypeOK /\ FileShape /\ WorkerShape /\ "inflight" \in Dirs
  BY DEF FileInv, Dirs, FileQueue!Dirs
<1>1. Head(todo) = Remove("inflight", j) /\ Tail(todo) = <<Truncate(d, j), Fill(d, j, f)>> /\ todo # <<>>
  BY NextOps DEF IsReplace
<1>2. file' = [file EXCEPT !["inflight"][j] = FileQueue!Missing] /\ todo' = <<Truncate(d, j), Fill(d, j, f)>>
      /\ UNCHANGED <<fileWorker, fileAccepted, fileDelivered, crashes>>
  <2>1. /\ Head(todo).do = "unlink" /\ Head(todo).dir = "inflight" /\ Head(todo).job = j
        /\ Head(todo).file = FileQueue!Missing
    BY <1>1 DEF Remove
  <2> QED BY <1>1, <2>1 DEF FileQueue!FileOp
<1>3. /\ file' \in [Dirs -> [N -> FileQueue!File]]
      /\ \A x \in Dirs, k \in N :
           file'[x][k] = IF x = "inflight" /\ k = j THEN FileQueue!Missing ELSE file[x][k]
  <2>1. FileQueue!Missing \in FileQueue!File
    BY OpTypes
  <2>2. file' = [file EXCEPT !["inflight"][j] = FileQueue!Missing]
    BY <1>2
  <2> QED BY <1>0, <2>1, <2>2, PutFile, ZenonT(60)
<1>4. /\ \A i \in DOMAIN todo : todo[i].job = j
      /\ \A i \in DOMAIN todo' : \E h \in DOMAIN todo : todo'[i] = todo[h]
  BY <1>2 DEF IsReplace, Fill, Truncate, Remove
<1>5. \A x \in Dirs : file'[x][j].st = "missing"
  BY <1>3 DEF IsReplace, OnlyIn, FileQueue!Missing
<1>6. \A x, y \in Dirs : file'[x][j].st # "missing" /\ file'[y][j].st # "missing" => x = y
  BY <1>5
<1>7. \A x \in Dirs : x # "dead" => file'[x][j].attempt < MaxAttempts
  BY <1>0, <1>3, PushAssumption DEF FileShape, FileQueue!Missing
<1>8. OnlyIn("inflight", j)' /\ OnlyIn(d, j)'
  BY <1>5 DEF OnlyIn
<1>9. FileQueue!Pending(j)'
  BY <1>2 DEF FileQueue!Pending, Fill
<1>10. Method' /\ todo' \in Seq(FileQueue!Op)
  <2>1. Filling(d, j, f)' /\ IsWrite(d, j, f)'
    BY <1>2, <1>8 DEF Filling, IsWrite
  <2>2. file'[d][j].st # "job"
    BY <1>5
  <2> QED BY <1>2, <2>1, <2>2, OpTypes DEF Method
<1>11. FileInv'
  BY <1>1, <1>2, <1>3, <1>4, <1>6, <1>7, <1>8, <1>9, <1>10, OpKeeps DEF Filling
<1> QED BY <1>2, <1>11

LEMMA MoveKeeps ==
  ASSUME FileInv, NEW c \in Dirs, NEW d \in Dirs, NEW j \in N, NEW f \in FileQueue!File, Filling(d, j, f),
         IsMove(c, d, j, f), FileQueue!FileOp
  PROVE  /\ FileInv' /\ file' = [file EXCEPT ![d][j] = file[c][j], ![c][j] = FileQueue!Missing]
         /\ todo' = <<Truncate(d, j), Fill(d, j, f)>>
<1>0. /\ FileQueue!TypeOK /\ FileShape /\ WorkerShape
      /\ c \in {"pending", "inflight"} /\ d \in {"pending", "inflight"} /\ c # d /\ OnlyIn(c, j)
  BY DEF FileInv, IsMove
<1>1. Head(todo) = Move(c, d, j) /\ Tail(todo) = <<Truncate(d, j), Fill(d, j, f)>> /\ todo # <<>>
  BY NextOps DEF IsMove
<1>2. file' = [file EXCEPT ![d][j] = file[c][j], ![c][j] = FileQueue!Missing]
      /\ todo' = <<Truncate(d, j), Fill(d, j, f)>>
      /\ UNCHANGED <<fileWorker, fileAccepted, fileDelivered, crashes>>
  <2>1. /\ Head(todo).do = "rename" /\ Head(todo).dir = d /\ Head(todo).job = j
        /\ Head(todo).from = c
    BY <1>1 DEF Move
  <2> QED BY <1>1, <2>1 DEF FileQueue!FileOp
<1>3. /\ file' \in [Dirs -> [N -> FileQueue!File]]
      /\ \A x \in Dirs, k \in N :
           file'[x][k] = IF k # j THEN file[x][k] ELSE IF x = d THEN file[c][j]
                         ELSE IF x = c THEN FileQueue!Missing ELSE file[x][k]
  <2>1. FileQueue!TypeOK /\ c # d
    BY <1>0
  <2>2. Renames(c, d, j)
    BY <1>2 DEF Renames
  <2>3. Renamed(c, d, j)
    BY <2>1, <2>2, MoveFile
  <2> QED BY <2>3 DEF Renamed
<1>4. /\ \A i \in DOMAIN todo : todo[i].job = j
      /\ 1 \in DOMAIN todo /\ todo[1].dir = d /\ todo[1].job = j
      /\ \A i \in DOMAIN todo' : \E h \in DOMAIN todo : todo'[i] = todo[h]
  BY <1>2 DEF IsMove, Fill, Truncate, Move
<1>5. OnlyIn(d, j)'
  <2>1. \A x \in Dirs : x # d => file'[x][j] = IF x = c THEN FileQueue!Missing ELSE file[x][j]
    BY <1>3
  <2> SUFFICES ASSUME NEW x \in Dirs, x # d PROVE file'[x][j].st = "missing"
    BY DEF OnlyIn
  <2>2. CASE x = c
    BY <2>1, <2>2 DEF FileQueue!Missing
  <2>3. CASE x # c
    BY <1>0, <2>1, <2>3 DEF OnlyIn
  <2> QED BY <2>2, <2>3
<1>6. \A x, y \in Dirs : file'[x][j].st # "missing" /\ file'[y][j].st # "missing" => x = y
  BY <1>5 DEF OnlyIn
<1>7. \A x \in Dirs : x # "dead" => file'[x][j].attempt < MaxAttempts
  <2>1. \A x \in Dirs : file'[x][j] = IF x = d THEN file[c][j] ELSE IF x = c THEN FileQueue!Missing ELSE file[x][j]
    BY <1>3
  <2>2. FileQueue!Missing.attempt < MaxAttempts /\ file[c][j].attempt < MaxAttempts
    BY <1>0, PushAssumption DEF FileShape, FileQueue!Missing
  <2> QED BY <1>0, <2>1, <2>2 DEF FileShape
<1>8. Claimed /\ fileWorker.job = j => OnlyIn("inflight", j)'
  BY <1>0, <1>4, <1>5 DEF WorkerShape
<1>9. FileQueue!Pending(j)'
  BY <1>2 DEF FileQueue!Pending, Fill
<1>10. Method' /\ todo' \in Seq(FileQueue!Op)
  <2>1. Filling(d, j, f)' /\ IsWrite(d, j, f)'
    BY <1>2, <1>5 DEF Filling, IsWrite
  <2>2. d # "dead"
    BY <1>0
  <2> QED BY <1>2, <2>1, <2>2, OpTypes DEF Method
<1>11. FileInv'
  <2>1. UNCHANGED <<fileWorker, fileAccepted, fileDelivered, crashes>> /\ j \in fileAccepted
    BY <1>2 DEF Filling
  <2>2. \A x \in Dirs, k \in N : k # j => file'[x][k] = file[x][k]
    BY <1>3
  <2>3. file' \in [Dirs -> [N -> FileQueue!File]] /\ todo # <<>>
    BY <1>1, <1>3
  <2> QED BY <1>4, <1>6, <1>7, <1>8, <1>9, <1>10, <2>1, <2>2, <2>3, OpKeeps
<1> QED BY <1>2, <1>11

LEMMA AckKeeps ==
  ASSUME FileInv, NEW j \in N, IsAck(j), FileQueue!FileOp
  PROVE  FileInv' /\ file' = [file EXCEPT !["inflight"][j] = FileQueue!Missing] /\ todo' = <<>>
<1>0. FileQueue!TypeOK /\ FileShape /\ WorkerShape /\ "inflight" \in Dirs
  BY DEF FileInv, Dirs, FileQueue!Dirs
<1>1. Head(todo) = Remove("inflight", j) /\ Tail(todo) = <<>> /\ todo # <<>>
  BY NextOps DEF IsAck
<1>2. file' = [file EXCEPT !["inflight"][j] = FileQueue!Missing] /\ todo' = <<>>
      /\ UNCHANGED <<fileWorker, fileAccepted, fileDelivered, crashes>>
  <2>1. /\ Head(todo).do = "unlink" /\ Head(todo).dir = "inflight" /\ Head(todo).job = j
        /\ Head(todo).file = FileQueue!Missing
    BY <1>1 DEF Remove
  <2> QED BY <1>1, <2>1 DEF FileQueue!FileOp
<1>3. /\ file' \in [Dirs -> [N -> FileQueue!File]]
      /\ \A x \in Dirs, k \in N :
           file'[x][k] = IF x = "inflight" /\ k = j THEN FileQueue!Missing ELSE file[x][k]
  BY <1>0, <1>2, PutFile, OpTypes, ZenonT(60)
<1>4. /\ \A i \in DOMAIN todo : todo[i].job = j
      /\ todo[1].do # "rename"
      /\ \A i \in DOMAIN todo' : \E h \in DOMAIN todo : todo'[i] = todo[h]
  BY <1>2 DEF IsAck, Remove
<1>6. \A x, y \in Dirs : file'[x][j].st # "missing" /\ file'[y][j].st # "missing" => x = y
  BY <1>0, <1>3 DEF FileQueue!Missing, FileShape
<1>7. \A x \in Dirs : x # "dead" => file'[x][j].attempt < MaxAttempts
  BY <1>0, <1>3, PushAssumption DEF FileShape, FileQueue!Missing
<1>8. Claimed /\ fileWorker.job = j => OnlyIn("inflight", j)'
  BY <1>0, <1>3, <1>4 DEF WorkerShape, OnlyIn
<1>9. j \in fileDelivered /\ j \in fileAccepted
  BY DEF IsAck
<1>10. Method' /\ todo' \in Seq(FileQueue!Op)
  BY <1>2 DEF Method
<1>11. FileInv'
  BY <1>1, <1>2, <1>3, <1>4, <1>6, <1>7, <1>8, <1>9, <1>10, OpKeeps
<1> QED BY <1>2, <1>11

LEMMA FileOpKeeps == ASSUME FileInv, FileQueue!FileOp PROVE FileInv'
<1>1. Method /\ todo # <<>>
  BY DEF FileInv, FileQueue!FileOp
<1>2. ASSUME NEW j \in N, IsAck(j) PROVE FileInv'
  BY <1>2, AckKeeps
<1>3. ASSUME NEW j \in N, NEW d \in Dirs, NEW f \in FileQueue!File, Filling(d, j, f),
             \/ /\ IsFill(d, j, f) \/ IsWrite(d, j, f)
                /\ d = "dead" => file[d][j].st # "job"
             \/ IsReplace(d, j, f)
             \/ \E c \in Dirs : IsMove(c, d, j, f)
      PROVE  FileInv'
  BY <1>3, FillKeeps, TruncateKeeps, RemoveKeeps, MoveKeeps
<1> QED BY <1>1, <1>2, <1>3 DEF Method

\* A step between two file operations keeps the invariant when the method it
\* starts, if any, and the worker fit the files.
LEMMA StartKeeps ==
  ASSUME FileInv, UNCHANGED <<file, crashes>>, todo = <<>>, todo' \in Seq(FileQueue!Op),
         fileAccepted \subseteq fileAccepted', fileAccepted' \subseteq N,
         fileDelivered \subseteq fileDelivered', fileDelivered' \subseteq N,
         \A j \in fileAccepted' \ fileAccepted : FileQueue!Pending(j)',
         fileWorker' \in FileQueue!WorkerState, WorkerShape', Method'
  PROVE  FileInv'
<1>0. FileQueue!TypeOK /\ FileShape
  BY DEF FileInv
<1>1. FileQueue!TypeOK'
  BY <1>0 DEF FileQueue!TypeOK, N
<1>2. FileShape'
  BY <1>0 DEF FileShape
<1>3. FileQueue!Lost' \subseteq FileQueue!Lost
  <2>1. \A k : ~FileQueue!Pending(k)
    BY DEF FileQueue!Pending
  <2>2. \A k : FileQueue!Intact(k)' = FileQueue!Intact(k)
    BY DEF FileQueue!Intact
  <2>3. \A k : FileQueue!Settled(k) => FileQueue!Settled(k)'
    BY DEF FileQueue!Settled
  <2> QED BY <2>1, <2>2, <2>3 DEF FileQueue!Lost
<1>4. FileQueue!LossPerCrash'
  BY <1>3, LossBound
<1> QED BY <1>1, <1>2, <1>4 DEF FileInv

\* What the methods do, operation by operation.
LEMMA MethodOps ==
  ASSUME NEW j \in N, NEW d \in Dirs, NEW f \in FileQueue!File
  PROVE  /\ FileQueue!Write(d, j, f) = <<Truncate(d, j), Fill(d, j, f)>>
         /\ FileQueue!Unlink("inflight", j) \o FileQueue!Write(d, j, f)
              = <<Remove("inflight", j), Truncate(d, j), Fill(d, j, f)>>
         /\ \A c \in Dirs : FileQueue!Rename(c, d, j) \o FileQueue!Write(d, j, f)
                              = <<Move(c, d, j), Truncate(d, j), Fill(d, j, f)>>
<1>1. FileQueue!Write(d, j, f) = <<Truncate(d, j), Fill(d, j, f)>>
  BY DEF FileQueue!Write, Truncate, Fill
<1>2. FileQueue!Unlink("inflight", j) = <<Remove("inflight", j)>>
  BY DEF FileQueue!Unlink, Remove
<1>3. \A c \in Dirs : FileQueue!Rename(c, d, j) = <<Move(c, d, j)>>
  BY DEF FileQueue!Rename, Move
<1>4. /\ Truncate(d, j) \in FileQueue!Op /\ Fill(d, j, f) \in FileQueue!Op
      /\ Remove("inflight", j) \in FileQueue!Op /\ \A c \in Dirs : Move(c, d, j) \in FileQueue!Op
  BY OpTypes DEF Dirs, FileQueue!Dirs
<1> QED BY <1>1, <1>2, <1>3, <1>4, ThreeOps

\* The files a method writes.
LEMMA JobFiles ==
  ASSUME NEW a \in 0..MaxAttempts, NEW b \in BOOLEAN
  PROVE  /\ FileQueue!JobFile(a, b) \in FileQueue!File
         /\ FileQueue!JobFile(a, b).st = "job" /\ FileQueue!JobFile(a, b).attempt = a
BY DEF FileQueue!JobFile, FileQueue!File

LEMMA FillingNext ==
  ASSUME NEW d \in Dirs, NEW j \in N, NEW f \in FileQueue!File, j \in fileAccepted', f.st = "job",
         d # "dead" => f.attempt < MaxAttempts
  PROVE  Filling(d, j, f)'
BY DEF Filling, Dirs, N, FileQueue!Dirs, FileQueue!Notifications, FileQueue!File

\* A job the worker has claimed, between two methods.
LEMMA ClaimedAlone ==
  ASSUME FileInv, todo = <<>>, Claimed
  PROVE  /\ fileWorker.job \in N /\ fileWorker.job \in fileAccepted
         /\ fileWorker.attempt \in 0..MaxAttempts /\ fileWorker.attempt < MaxAttempts
         /\ fileWorker.attempt + 1 \in 0..MaxAttempts
         /\ fileWorker.st = "retry" => fileWorker.attempt + 1 < MaxAttempts
         /\ fileWorker.st = "ack" => fileWorker.job \in fileDelivered
         /\ OnlyIn("inflight", fileWorker.job)
<1>1. WorkerShape /\ FileQueue!TypeOK
  BY DEF FileInv
<1>2. fileWorker.job \in N /\ fileWorker.attempt \in 0..MaxAttempts
  BY <1>1 DEF WorkerShape, FileQueue!TypeOK, FileQueue!WorkerState, N
<1>3. OnlyIn("inflight", fileWorker.job)
  BY <1>1 DEF WorkerShape, OnlyIn
<1> QED BY <1>1, <1>2, <1>3, PushAssumption DEF WorkerShape

\* Steps of the worker that touch no file.
LEMMA PostKeeps ==
  ASSUME FileInv, FileQueue!PostSucceeds \/ \E t \in BOOLEAN : FileQueue!PostFails(t)
  PROVE  FileInv'
<1>0. /\ todo = <<>> /\ Claimed /\ FileQueue!TypeOK /\ fileWorker \in FileQueue!WorkerState
      /\ UNCHANGED <<file, todo, fileAccepted, crashes>>
  BY DEF FileInv, FileQueue!TypeOK, FileQueue!PostSucceeds, FileQueue!PostFails, Claimed
<1>1. /\ fileWorker.job \in N /\ fileWorker.job \in fileAccepted
      /\ fileWorker.attempt < MaxAttempts /\ OnlyIn("inflight", fileWorker.job)
  BY <1>0, ClaimedAlone
<1>2. PICK st \in {"ack", "retry", "bury"} :
        /\ fileWorker' = [fileWorker EXCEPT !.st = st]
        /\ st = "retry" => fileWorker.attempt + 1 < MaxAttempts
        /\ st = "ack" => fileDelivered' = fileDelivered \cup {fileWorker.job}
        /\ fileDelivered' = fileDelivered \/ fileDelivered' = fileDelivered \cup {fileWorker.job}
  BY DEF FileQueue!PostSucceeds, FileQueue!PostFails, FileQueue!Retryable
<1>3. /\ fileWorker' \in FileQueue!WorkerState /\ fileWorker'.st = st
      /\ fileWorker'.job = fileWorker.job /\ fileWorker'.attempt = fileWorker.attempt
  BY <1>0, <1>2 DEF FileQueue!WorkerState
<1>4. WorkerShape'
  BY <1>0, <1>1, <1>2, <1>3 DEF WorkerShape, Claimed, OnlyIn
<1>5. Method' /\ todo' \in Seq(FileQueue!Op)
  BY <1>0 DEF Method
<1>6. fileDelivered' \subseteq N /\ fileDelivered \subseteq fileDelivered' /\ fileAccepted' \subseteq N
  BY <1>0, <1>1, <1>2 DEF FileQueue!TypeOK, N
<1> QED BY <1>0, <1>3, <1>4, <1>5, <1>6, StartKeeps

\* enqueue: the job is new, so that it has no file.
LEMMA EnqueueKeeps ==
  ASSUME FileInv, NEW j \in N, FileQueue!Enqueue(j)
  PROVE  FileInv'
<1>a. 0 \in 0..MaxAttempts /\ TRUE \in BOOLEAN /\ 0 < MaxAttempts
  BY PushAssumption
<1>1. PICK f \in FileQueue!File : f = FileQueue!JobFile(0, TRUE) /\ f.st = "job" /\ f.attempt = 0
  BY <1>a, JobFiles
<1>0. /\ FileQueue!TypeOK /\ FileShape /\ WorkerShape /\ todo = <<>> /\ j \notin fileAccepted
      /\ fileAccepted' = fileAccepted \cup {j} /\ todo' = FileQueue!Write("pending", j, f)
      /\ UNCHANGED <<file, fileWorker, fileDelivered, crashes>> /\ "pending" \in Dirs
  BY <1>1 DEF FileInv, FileQueue!Enqueue, FileQueue!BetweenMethods, Dirs, FileQueue!Dirs
<1>2. todo' = <<Truncate("pending", j), Fill("pending", j, f)>>
  BY <1>0, <1>1, MethodOps
<1>3. OnlyIn("pending", j)' /\ OnlyIn("pending", j)
  BY <1>0 DEF FileShape, OnlyIn
<1>4. Filling("pending", j, f)' /\ IsWrite("pending", j, f)'
  <2>0. j \in fileAccepted'
    BY <1>0
  <2>1. f.attempt < MaxAttempts
    BY <1>a, <1>1
  <2>2. Filling("pending", j, f)'
    BY <1>0, <1>1, <2>0, <2>1, FillingNext
  <2>3. IsWrite("pending", j, f)'
    BY <1>2, <1>3 DEF IsWrite, Truncate, Fill
  <2> QED BY <2>2, <2>3
<1>5. Method' /\ todo' \in Seq(FileQueue!Op)
  <2>1. PICK d \in Dirs : d = "pending"
    BY <1>0
  <2>2. Filling(d, j, f)' /\ IsWrite(d, j, f)' /\ d # "dead"
    BY <1>4, <2>1
  <2>3. Method'
    BY <2>2 DEF Method
  <2>4. Truncate(d, j) \in FileQueue!Op /\ Fill(d, j, f) \in FileQueue!Op
    BY OpTypes
  <2> QED BY <1>2, <2>1, <2>3, <2>4
<1>6. FileQueue!Pending(j)'
  BY <1>2 DEF FileQueue!Pending, Fill
<1>7. WorkerShape'
  <2>1. CASE ~Claimed
    BY <1>0, <2>1 DEF WorkerShape, Claimed
  <2>2. CASE Claimed
    <3>1. fileWorker.job # j /\ OnlyIn("inflight", fileWorker.job) /\ fileWorker.job \in fileAccepted
      BY <1>0, <2>2, ClaimedAlone
    <3>2. \A i \in DOMAIN todo' : todo'[i].job = j
      BY <1>2 DEF Truncate, Fill
    <3> QED BY <1>0, <2>2, <3>1, <3>2 DEF WorkerShape, Claimed, OnlyIn
  <2> QED BY <2>1, <2>2
<1>8. /\ fileWorker' \in FileQueue!WorkerState /\ fileAccepted' \subseteq N /\ fileDelivered' \subseteq N
      /\ \A k \in fileAccepted' \ fileAccepted : k = j
  BY <1>0 DEF FileQueue!TypeOK, N
<1> QED BY <1>0, <1>5, <1>6, <1>7, <1>8, StartKeeps

\* The worker turns to the next job: nothing is claimed.
LEMMA AwakeShape ==
  ASSUME ~Claimed', fileWorker'.job = 0
  PROVE  WorkerShape'
BY DEF WorkerShape

LEMMA IdleWorkers ==
  /\ FileQueue!Awake \in FileQueue!WorkerState /\ FileQueue!Off \in FileQueue!WorkerState
  /\ FileQueue!Awake.st = "recover" /\ FileQueue!Awake.job = 0
  /\ FileQueue!Off.st = "off" /\ FileQueue!Off.job = 0
BY PushAssumption, FileQueueAssumption DEF FileQueue!Awake, FileQueue!Off, FileQueue!WorkerState

\* ack, retry and dead_letter begin with the job in inflight only.
LEMMA SettleKeeps ==
  ASSUME FileInv, FileQueue!Ack \/ FileQueue!Retry \/ FileQueue!DeadLetter
  PROVE  FileInv'
<1>0. /\ todo = <<>> /\ Claimed /\ FileQueue!TypeOK
      /\ fileWorker' = FileQueue!Awake /\ UNCHANGED <<file, fileAccepted, fileDelivered, crashes>>
  BY DEF FileInv, FileQueue!Ack, FileQueue!Retry, FileQueue!DeadLetter, Claimed
<1>1. PICK j \in N, a \in 0..MaxAttempts :
        /\ j = fileWorker.job /\ a = fileWorker.attempt + 1 /\ j \in fileAccepted
        /\ fileWorker.st = "retry" => a < MaxAttempts
        /\ fileWorker.st = "ack" => j \in fileDelivered
        /\ OnlyIn("inflight", j)
  BY <1>0, ClaimedAlone
<1>2. PICK f \in FileQueue!File : f = FileQueue!JobFile(a, FALSE) /\ f.st = "job" /\ f.attempt = a
  BY JobFiles
<1>3. OnlyIn("inflight", j)' /\ j \in fileAccepted'
  BY <1>0, <1>1 DEF OnlyIn
<1>4. WorkerShape' /\ fileWorker' \in FileQueue!WorkerState
  BY <1>0, IdleWorkers, AwakeShape DEF Claimed
<1>5. Method' /\ todo' \in Seq(FileQueue!Op)
  <2>1. CASE FileQueue!Ack
    <3>1. todo' = <<Remove("inflight", j)>> /\ j \in fileDelivered' /\ "inflight" \in Dirs
      BY <1>0, <1>1, <2>1 DEF FileQueue!Ack, FileQueue!AckOne, FileQueue!Unlink, Remove, Dirs, FileQueue!Dirs
    <3>2. IsAck(j)'
      BY <1>3, <3>1 DEF IsAck, Remove
    <3>3. Remove("inflight", j) \in FileQueue!Op
      BY <3>1, OpTypes
    <3> QED BY <3>1, <3>2, <3>3 DEF Method
  <2>2. ASSUME NEW d \in Dirs, todo' = FileQueue!Unlink("inflight", j) \o FileQueue!Write(d, j, f),
               d # "dead" => a < MaxAttempts
        PROVE  Method' /\ todo' \in Seq(FileQueue!Op)
    <3>1. todo' = <<Remove("inflight", j), Truncate(d, j), Fill(d, j, f)>>
      BY <2>2, MethodOps
    <3>2. Filling(d, j, f)'
      BY <1>2, <1>3, <2>2, FillingNext
    <3>3. IsReplace(d, j, f)'
      BY <1>3, <3>1 DEF IsReplace, Remove, Truncate, Fill
    <3>4. Method'
      BY <3>2, <3>3 DEF Method
    <3>5. "inflight" \in Dirs
      BY DEF Dirs, FileQueue!Dirs
    <3>6. Remove("inflight", j) \in FileQueue!Op /\ Truncate(d, j) \in FileQueue!Op /\ Fill(d, j, f) \in FileQueue!Op
      BY <3>5, OpTypes
    <3> QED BY <3>1, <3>4, <3>6
  <2>3. CASE FileQueue!Retry
    <3>1. todo' = FileQueue!Unlink("inflight", j) \o FileQueue!Write("pending", j, f) /\ a < MaxAttempts
      BY <1>1, <1>2, <2>3 DEF FileQueue!Retry, FileQueue!RetryOps, FileQueue!NextAttempt
    <3>2. "pending" \in Dirs
      BY DEF Dirs, FileQueue!Dirs
    <3> QED BY <2>2, <3>1, <3>2
  <2>4. CASE FileQueue!DeadLetter
    <3>1. todo' = FileQueue!Unlink("inflight", j) \o FileQueue!Write("dead", j, f)
      BY <1>1, <1>2, <2>4 DEF FileQueue!DeadLetter, FileQueue!NextAttempt
    <3>2. "dead" \in Dirs
      BY DEF Dirs, FileQueue!Dirs
    <3> QED BY <2>2, <3>1, <3>2
  <2> QED BY <2>1, <2>3, <2>4
<1>6. fileDelivered' \subseteq N /\ fileAccepted' \subseteq N
  BY <1>0, SMTT(60) DEF FileQueue!TypeOK, N
<1> QED BY <1>0, <1>4, <1>5, <1>6, StartKeeps

\* claim: a lease or a pending job that is due is moved; it has one file.
LEMMA MoveStarts ==
  ASSUME FileInv, todo = <<>>, UNCHANGED <<file, fileAccepted, fileDelivered>>,
         NEW c \in {"pending", "inflight"}, NEW d \in {"pending", "inflight"}, c # d,
         NEW j \in N, file[c][j].st = "job", NEW due \in BOOLEAN,
         todo' = FileQueue!Rename(c, d, j) \o FileQueue!Write(d, j, FileQueue!JobFile(file[c][j].attempt, due))
  PROVE  /\ Method' /\ todo' \in Seq(FileQueue!Op) /\ OnlyIn(c, j) /\ j \in fileAccepted
         /\ file[c][j].attempt \in 0..MaxAttempts /\ file[c][j].attempt < MaxAttempts
         /\ \A i \in DOMAIN todo' : todo'[i].job = j /\ todo'[i].dir = d
         /\ todo' # <<>> /\ todo'[1].do = "rename" /\ todo'[1].from = c
<1>0. FileQueue!TypeOK /\ FileShape /\ c \in Dirs /\ d \in Dirs /\ d # "dead" /\ c # "dead"
  BY DEF FileInv, Dirs, FileQueue!Dirs
<1>1. file[c][j] \in FileQueue!File
  BY <1>0 DEF FileQueue!TypeOK, Dirs, N
<1>2. PICK a \in 0..MaxAttempts : a = file[c][j].attempt /\ a < MaxAttempts
  BY <1>0, <1>1 DEF FileQueue!File, FileShape
<1>3. PICK f \in FileQueue!File : f = FileQueue!JobFile(a, due) /\ f.st = "job" /\ f.attempt = a
  BY JobFiles
<1>4. OnlyIn(c, j) /\ j \in fileAccepted
  BY <1>0 DEF FileShape, OnlyIn
<1>5. todo' = <<Move(c, d, j), Truncate(d, j), Fill(d, j, f)>>
  BY <1>0, <1>2, <1>3, MethodOps
<1>6. Filling(d, j, f)'
  <2>1. j \in fileAccepted' /\ f.attempt < MaxAttempts
    BY <1>2, <1>3, <1>4
  <2> QED BY <1>0, <1>3, <2>1, FillingNext
<1>7. IsMove(c, d, j, f)'
  BY <1>4, <1>5 DEF IsMove, OnlyIn, Move, Truncate, Fill
<1>8. Method'
  BY <1>0, <1>6, <1>7 DEF Method
<1>9. Move(c, d, j) \in FileQueue!Op /\ Truncate(d, j) \in FileQueue!Op /\ Fill(d, j, f) \in FileQueue!Op
  BY <1>0, OpTypes
<1>10. todo' \in Seq(FileQueue!Op)
  BY <1>5, <1>9
<1>11. /\ \A i \in DOMAIN todo' : todo'[i].job = j /\ todo'[i].dir = d
       /\ todo' # <<>> /\ todo'[1].do = "rename" /\ todo'[1].from = c
  BY <1>5 DEF Move, Truncate, Fill
<1> QED BY <1>2, <1>4, <1>8, <1>10, <1>11

LEMMA RecoverKeeps ==
  ASSUME FileInv, FileQueue!RecoverExpired
  PROVE  FileInv'
<1> DEFINE expired == {j \in N : j < FileQueue!FirstTorn("inflight") /\ file["inflight"][j].st = "job"
                                 /\ file["inflight"][j].due}
<1>0. /\ todo = <<>> /\ fileWorker.st \in {"recover", "sweep"} /\ FileQueue!TypeOK /\ WorkerShape
      /\ UNCHANGED <<file, fileAccepted, fileDelivered, crashes>>
      /\ fileAccepted' \subseteq N /\ fileDelivered' \subseteq N /\ N \subseteq Nat
  BY FileQueueAssumption DEF FileInv, FileQueue!RecoverExpired, FileQueue!TypeOK, N, FileQueue!Notifications
<1>1. ~Claimed /\ fileWorker.job = 0 /\ fileWorker \in FileQueue!WorkerState
  BY <1>0 DEF WorkerShape, Claimed, FileQueue!TypeOK
<1>2. CASE expired # {}
  <2>1. PICK j \in expired : j = FileQueue!Min(expired)
    <3>1. expired \in SUBSET Nat
      BY <1>0
    <3> QED BY <1>2, <3>1, MinIsMember
  <2>2. /\ todo' = FileQueue!Recovered(j) /\ fileWorker' = [fileWorker EXCEPT !.st = "sweep"]
        /\ j \in N /\ file["inflight"][j].st = "job"
    BY <1>2, <2>1 DEF FileQueue!RecoverExpired, N
  <2>3. todo' = FileQueue!Rename("inflight", "pending", j)
                \o FileQueue!Write("pending", j, FileQueue!JobFile(file["inflight"][j].attempt, TRUE))
    BY <2>2, SMTT(60) DEF FileQueue!Recovered
  <2>4. Method' /\ todo' \in Seq(FileQueue!Op)
    BY <1>0, <2>2, <2>3, MoveStarts
  <2>5. fileWorker' \in FileQueue!WorkerState /\ fileWorker'.st = "sweep" /\ fileWorker'.job = 0
    BY <1>1, <2>2 DEF FileQueue!WorkerState
  <2>6. WorkerShape'
    BY <2>5, AwakeShape DEF Claimed
  <2> QED BY <1>0, <2>4, <2>5, <2>6, StartKeeps
<1>3. CASE expired = {}
  <2>1. todo' = todo /\ fileWorker' \in {FileQueue!Off, [fileWorker EXCEPT !.st = "scan"]}
    BY <1>3 DEF FileQueue!RecoverExpired, N
  <2>2. fileWorker' \in FileQueue!WorkerState /\ fileWorker'.st \in {"off", "scan"} /\ fileWorker'.job = 0
    BY <1>1, <2>1, IdleWorkers DEF FileQueue!WorkerState
  <2>3. WorkerShape'
    BY <2>2, AwakeShape DEF Claimed
  <2>4. Method' /\ todo' \in Seq(FileQueue!Op)
    BY <1>0, <2>1 DEF Method
  <2> QED BY <1>0, <2>2, <2>3, <2>4, StartKeeps
<1> QED BY <1>2, <1>3

LEMMA ClaimKeeps ==
  ASSUME FileInv, FileQueue!Claim
  PROVE  FileInv'
<1> DEFINE due == {j \in N : j < FileQueue!FirstTorn("pending") /\ file["pending"][j].st = "job"
                             /\ file["pending"][j].due}
<1>0. /\ todo = <<>> /\ fileWorker.st = "scan" /\ FileQueue!TypeOK /\ WorkerShape
      /\ UNCHANGED <<file, fileAccepted, fileDelivered, crashes>>
      /\ fileAccepted' \subseteq N /\ fileDelivered' \subseteq N /\ N \subseteq Nat
  <2>1. FileQueue!TypeOK /\ WorkerShape
    BY Zenon DEF FileInv
  <2>2. /\ todo = <<>> /\ fileWorker.st = "scan"
        /\ UNCHANGED <<file, fileAccepted, fileDelivered, crashes>>
    BY DEF FileQueue!Claim
  <2>3. fileAccepted \subseteq N /\ fileDelivered \subseteq N
    BY <2>1 DEF FileQueue!TypeOK, N
  <2>4. N \subseteq Nat
    BY FileQueueAssumption DEF N, FileQueue!Notifications
  <2> QED BY <2>1, <2>2, <2>3, <2>4
<1>2. CASE due # {}
  <2>1. PICK j \in due : j = FileQueue!Min(due)
    <3>1. due \in SUBSET Nat
      BY <1>0
    <3> QED BY <1>2, <3>1, MinIsMember
  <2>2. PICK a : a = file["pending"][j].attempt
    OBVIOUS
  <2>3. /\ todo' = FileQueue!Rename("pending", "inflight", j)
                   \o FileQueue!Write("inflight", j, FileQueue!JobFile(file["pending"][j].attempt, FALSE))
        /\ fileWorker' = [st |-> "post", job |-> j, attempt |-> a]
        /\ j \in N /\ file["pending"][j].st = "job"
    BY <1>2, <2>1, <2>2, ZenonT(60) DEF FileQueue!Claim, N
  <2>4. /\ Method' /\ todo' \in Seq(FileQueue!Op) /\ OnlyIn("pending", j) /\ j \in fileAccepted
        /\ file["pending"][j].attempt \in 0..MaxAttempts /\ file["pending"][j].attempt < MaxAttempts
        /\ \A i \in DOMAIN todo' : todo'[i].job = j /\ todo'[i].dir = "inflight"
        /\ todo' # <<>> /\ todo'[1].do = "rename" /\ todo'[1].from = "pending"
    BY <1>0, <2>3, MoveStarts
  <2>5. fileWorker' \in FileQueue!WorkerState
    BY <2>2, <2>3, <2>4 DEF FileQueue!WorkerState, N, FileQueue!Notifications
  <2>6. fileWorker'.st = "post" /\ fileWorker'.job = j /\ fileWorker'.attempt = a
    BY <2>3
  <2>7. todo'[1].job = j
    <3>1. 1 \in DOMAIN todo'
      BY <2>4
    <3> QED BY <2>4, <3>1
  <2>8. WorkerShape'
    BY <1>0, <2>2, <2>4, <2>6, <2>7 DEF WorkerShape, Claimed, OnlyIn
  <2> QED BY <1>0, <2>4, <2>5, <2>8, StartKeeps
<1>3. CASE due = {}
  <2>1. todo' = todo /\ fileWorker' \in {FileQueue!Off, FileQueue!Awake}
    BY <1>3 DEF FileQueue!Claim, N
  <2>2. fileWorker' \in FileQueue!WorkerState /\ fileWorker'.st \in {"off", "recover"} /\ fileWorker'.job = 0
    BY <2>1, IdleWorkers
  <2>3. WorkerShape'
    BY <2>2, AwakeShape DEF Claimed
  <2>4. Method' /\ todo' \in Seq(FileQueue!Op)
    BY <1>0, <2>1 DEF Method
  <2> QED BY <1>0, <2>2, <2>3, <2>4, StartKeeps, SMTT(60)
<1> QED BY <1>2, <1>3

LEMMA ServerStarts ==
  ASSUME FileInv, FileQueue!Start
  PROVE  FileInv'
<1>0. /\ todo = <<>> /\ FileQueue!TypeOK /\ fileWorker' = FileQueue!Awake
      /\ UNCHANGED <<file, todo, fileAccepted, fileDelivered, crashes>>
  BY DEF FileInv, FileQueue!Start
<1>1. WorkerShape' /\ fileWorker' \in FileQueue!WorkerState
  BY <1>0, IdleWorkers, AwakeShape DEF Claimed
<1>2. Method' /\ todo' \in Seq(FileQueue!Op) /\ fileDelivered' \subseteq N /\ fileAccepted' \subseteq N
  BY <1>0 DEF Method, FileQueue!TypeOK, N
<1> QED BY <1>0, <1>1, <1>2, StartKeeps

\* Time passes for one file, which keeps its contents.
LEMMA TimeKeeps ==
  ASSUME FileInv, NEW d \in Dirs, NEW j \in N, FileQueue!TimePasses(d, j)
  PROVE  /\ FileInv' /\ file' \in [Dirs -> [N -> FileQueue!File]]
         /\ \A x \in Dirs, k \in N : file'[x][k].st = file[x][k].st
<1>0. /\ FileQueue!TypeOK /\ FileShape /\ WorkerShape /\ todo = <<>>
      /\ UNCHANGED <<todo, fileWorker, fileAccepted, fileDelivered, crashes>>
      /\ file \in [Dirs -> [N -> FileQueue!File]]
  BY DEF FileInv, FileQueue!TimePasses, FileQueue!TypeOK, Dirs, N
<1>1. PICK f : f = [file[d][j] EXCEPT !.due = TRUE]
  OBVIOUS
<1>2. f \in FileQueue!File /\ f.st = file[d][j].st /\ f.attempt = file[d][j].attempt
  <2>1. \A r \in FileQueue!File : LET q == [r EXCEPT !.due = TRUE] IN
          q \in FileQueue!File /\ q.st = r.st /\ q.attempt = r.attempt
    BY DEF FileQueue!File
  <2>2. file[d][j] \in FileQueue!File
    BY <1>0
  <2> QED BY <1>1, <2>1, <2>2
<1>3. file' = [file EXCEPT ![d][j] = f]
  BY <1>1 DEF FileQueue!TimePasses
<1>4. /\ file' \in [Dirs -> [N -> FileQueue!File]]
      /\ \A x \in Dirs, k \in N : file'[x][k] = IF x = d /\ k = j THEN f ELSE file[x][k]
  BY <1>0, <1>2, <1>3, PutFile
<1>5. \A x \in Dirs, k \in N : file'[x][k].st = file[x][k].st /\ file'[x][k].attempt = file[x][k].attempt
  BY <1>2, <1>4
<1>6. FileQueue!TypeOK'
  BY <1>0, <1>4 DEF FileQueue!TypeOK, Dirs, N
<1>7. FileShape'
  BY <1>0, <1>5, SMTT(60) DEF FileShape
<1>8. WorkerShape'
  <2>1. Claimed => fileWorker.job \in N
    BY <1>0, ClaimedAlone
  <2> QED BY <1>0, <1>5, <2>1 DEF WorkerShape, Claimed
<1>9. Method'
  BY <1>0 DEF Method
<1>10. FileQueue!Lost' \subseteq FileQueue!Lost
  <2>1. fileAccepted \subseteq N
    BY <1>0 DEF FileQueue!TypeOK, N
  <2>2. \A k \in N : FileQueue!Settled(k) => FileQueue!Settled(k)'
    BY <1>0, <1>5 DEF FileQueue!Settled, Dirs, FileQueue!Dirs
  <2>4. \A k \in N : FileQueue!Intact(k) => FileQueue!Intact(k)'
    BY <1>5 DEF FileQueue!Intact, Dirs
  <2>3. \A k \in N : FileQueue!Pending(k)' = FileQueue!Pending(k)
    BY <1>0 DEF FileQueue!Pending
  <2> QED BY <1>0, <2>1, <2>2, <2>3, <2>4 DEF FileQueue!Lost
<1>11. FileQueue!LossPerCrash'
  BY <1>0, <1>10, LossBound DEF FileQueue!TypeOK, N
<1> QED BY <1>4, <1>5, <1>6, <1>7, <1>8, <1>9, <1>11 DEF FileInv

\* A running method is about one job.
LEMMA OneJobMethod ==
  ASSUME Method
  PROVE  \E j : \A i \in DOMAIN todo : todo[i].job = j
<1>1. CASE todo = <<>>
  BY <1>1
<1>2. ASSUME NEW j \in N, IsAck(j) PROVE \A i \in DOMAIN todo : todo[i].job = j
  BY <1>2 DEF IsAck, Remove
<1>3. ASSUME NEW j \in N, NEW d \in Dirs, NEW f \in FileQueue!File,
             IsFill(d, j, f) \/ IsWrite(d, j, f) \/ IsReplace(d, j, f) \/ \E c \in Dirs : IsMove(c, d, j, f)
      PROVE  \A i \in DOMAIN todo : todo[i].job = j
  <2>1. CASE IsFill(d, j, f)
    BY <2>1 DEF IsFill, Fill
  <2>2. CASE IsWrite(d, j, f)
    BY <2>2 DEF IsWrite, Fill, Truncate
  <2>3. CASE IsReplace(d, j, f)
    BY <2>3 DEF IsReplace, Fill, Truncate, Remove
  <2>4. ASSUME NEW c \in Dirs, IsMove(c, d, j, f) PROVE \A i \in DOMAIN todo : todo[i].job = j
    BY <2>4 DEF IsMove, Fill, Truncate, Move
  <2> QED BY <1>3, <2>1, <2>2, <2>3, <2>4
<1> QED BY <1>1, <1>2, <1>3 DEF Method

\* A crash costs the job of the running method, if any.
LEMMA CrashKeeps ==
  ASSUME FileInv, FileQueue!Crash
  PROVE  FileInv'
<1>0. /\ FileQueue!TypeOK /\ FileShape /\ Method /\ todo' = <<>> /\ fileWorker' = FileQueue!Off
      /\ UNCHANGED <<file, fileAccepted, fileDelivered>> /\ crashes < MaxCrashes /\ crashes' = crashes + 1
      /\ crashes \in Nat /\ FileQueue!LossPerCrash
  BY FileQueueAssumption DEF FileInv, FileQueue!Crash, FileQueue!TypeOK
<1>1. WorkerShape' /\ fileWorker' \in FileQueue!WorkerState
  BY <1>0, IdleWorkers, AwakeShape DEF Claimed
<1>2. crashes' \in 0..MaxCrashes
  BY <1>0, FileQueueAssumption
<1>3. FileQueue!TypeOK'
  BY <1>0, <1>1, <1>2 DEF FileQueue!TypeOK
<1>4. FileShape' /\ Method'
  BY <1>0 DEF FileShape, Method
<1>5. PICK j : \A i \in DOMAIN todo : todo[i].job = j
  BY <1>0, OneJobMethod
<1>6. FileQueue!Lost' \subseteq FileQueue!Lost \cup {j}
  <2>1. \A k : FileQueue!Pending(k) => k = j
    BY <1>5 DEF FileQueue!Pending
  <2>2. \A k : (FileQueue!Intact(k) => FileQueue!Intact(k)') /\ (FileQueue!Settled(k) => FileQueue!Settled(k)')
    BY <1>0 DEF FileQueue!Intact, FileQueue!Settled
  <2> QED BY <1>0, <2>1, <2>2 DEF FileQueue!Lost
<1>7. FileQueue!LossPerCrash'
  <2> DEFINE L == FileQueue!Lost
  <2>1. L \subseteq 1..NJobs
    BY <1>0 DEF FileQueue!Lost, FileQueue!TypeOK, FileQueue!Notifications
  <2>2. IsFiniteSet(1..NJobs)
    BY FS_Interval, FileQueueAssumption
  <2>3. IsFiniteSet(L)
    BY <2>1, <2>2, FS_Subset
  <2>4. Cardinality(L) \in Nat /\ Cardinality(L) <= crashes
    BY <1>0, <2>3, FS_CardinalityType, SameCardinality DEF FileQueue!LossPerCrash
  <2>5. IsFiniteSet(L \cup {j}) /\ (Cardinality(L \cup {j}) = Cardinality(L) \/ Cardinality(L \cup {j}) = Cardinality(L) + 1)
    BY <2>3, FS_AddElement
  <2>6. IsFiniteSet(L') /\ Cardinality(L') <= Cardinality(L \cup {j})
    BY <1>6, <2>5, FS_Subset
  <2>7. Cardinality(L') \in Nat
    BY <2>6, FS_CardinalityType
  <2>8. Cardinality(L') <= crashes'
    BY <1>0, <2>4, <2>5, <2>6, <2>7
  <2> QED BY <2>8, SameCardinality DEF FileQueue!LossPerCrash
<1> QED BY <1>1, <1>3, <1>4, <1>7 DEF FileInv

LEMMA FileInit == FileQueue!Init => FileInv
<1> SUFFICES ASSUME FileQueue!Init PROVE FileInv
  OBVIOUS
<1>0. FileQueue!Missing \in FileQueue!File /\ FileQueue!Missing.st = "missing" /\ FileQueue!Missing.attempt = 0
  BY OpTypes DEF FileQueue!Missing
<1>1. /\ file = [d \in Dirs |-> [j \in N |-> FileQueue!Missing]] /\ todo = <<>> /\ fileWorker = FileQueue!Awake
      /\ fileAccepted = {} /\ fileDelivered = {} /\ crashes = 0
  BY DEF FileQueue!Init, Dirs, N
<1>2. FileQueue!TypeOK
  BY <1>0, <1>1, IdleWorkers, FileQueueAssumption DEF FileQueue!TypeOK, Dirs, N
<1>3. FileShape
  BY <1>0, <1>1, PushAssumption DEF FileShape
<1>4. WorkerShape /\ Method
  BY <1>1, IdleWorkers DEF WorkerShape, Method, Claimed
<1>5. FileQueue!Lost = {}
  BY <1>1 DEF FileQueue!Lost
<1>6. FileQueue!LossPerCrash
  BY <1>1, <1>5, FS_EmptySet, SameCardinality DEF FileQueue!LossPerCrash
<1> QED BY <1>2, <1>3, <1>4, <1>6 DEF FileInv

\* Every step of the local queue keeps the invariant.
LEMMA FileStep == ASSUME FileInv, FileQueue!Next PROVE FileInv'
<1>1. CASE FileQueue!Work
  BY <1>1, RecoverKeeps, ClaimKeeps, PostKeeps, SettleKeeps DEF FileQueue!Work
<1> QED BY <1>1, FileOpKeeps, CrashKeeps, ServerStarts, EnqueueKeeps, TimeKeeps DEF FileQueue!Next, Dirs, N

LEMMA FileStutter == ASSUME FileInv, UNCHANGED fileVars PROVE FileInv'
<1>0. UNCHANGED <<file, todo, fileWorker, fileAccepted, fileDelivered, crashes>>
  BY DEF fileVars
<1>1. FileQueue!TypeOK' /\ FileShape' /\ WorkerShape'
  BY <1>0 DEF FileInv, FileQueue!TypeOK, FileShape, WorkerShape, Claimed
<1>2. Method'
  BY <1>0 DEF FileInv, Method, IsAck, Filling, IsFill, IsWrite, IsReplace, IsMove, OnlyIn
<1>3. FileQueue!LossPerCrash'
  BY <1>0 DEF FileInv, FileQueue!LossPerCrash, FileQueue!Lost, FileQueue!Settled, FileQueue!Intact, FileQueue!Pending
<1> QED BY <1>1, <1>2, <1>3 DEF FileInv

-----------------------------------------------------------------------------
(* The service: the queue in use keeps its invariant, the other one stays  *)
(* empty.                                                                  *)

ServiceInv ==
  /\ RedisInv /\ FileInv /\ queue \in {"redis-streams", "local-file"}
  /\ (Local => Init) /\ (Redis => FileQueue!Init)

LEMMA ServiceKeeps == ServiceSpec => []ServiceInv
<1>1. ServiceInit => ServiceInv
  BY RedisInit, FileInit DEF ServiceInit, ServiceInv
<1>2. ServiceInv /\ [ServiceNext]_serviceVars => ServiceInv'
  <2> SUFFICES ASSUME ServiceInv, [ServiceNext]_serviceVars PROVE ServiceInv'
    OBVIOUS
  <2>0. /\ UNCHANGED queue
        /\ \/ Redis /\ Next /\ UNCHANGED fileVars
           \/ Local /\ FileQueue!Next /\ UNCHANGED vars
           \/ UNCHANGED <<fileVars, vars>>
    BY DEF ServiceNext, serviceVars
  <2>1. RedisInv'
    BY <2>0, RedisStep, RedisStutter DEF ServiceInv
  <2>2. FileInv'
    BY <2>0, FileStep, FileStutter DEF ServiceInv
  <2>3. Local' => Init'
    <3>1. Local' => Local /\ UNCHANGED vars
      BY <2>0 DEF Local, Redis
    <3> QED BY <3>1 DEF ServiceInv, Init, vars
  <2>4. Redis' => FileQueue!Init'
    <3>1. Redis' => Redis /\ UNCHANGED fileVars
      BY <2>0 DEF Local, Redis
    <3> QED BY <3>1 DEF ServiceInv, FileQueue!Init, fileVars
  <2> QED BY <2>0, <2>1, <2>2, <2>3, <2>4 DEF ServiceInv
<1> QED BY <1>1, <1>2, PTL DEF ServiceSpec

\* RedisStreamsA2APushQueue loses no job: whatever the interleaving of workers,
\* wherever they die and whoever takes an entry over, a notification that is
\* neither confirmed nor dead-lettered is stored in the stream, its pending
\* list or the delayed retries, and a worker that has stored a retry or a dead
\* letter may acknowledge its entry.
THEOREM RedisLosesNoJob == ServiceSpec => []JobsAreStored
<1>1. ServiceInv => JobsAreStored
  BY DEF ServiceInv, RedisInv, JobsAreStored
<1> QED BY <1>1, ServiceKeeps, PTL

\* LocalFileA2APushQueue keeps one file of a job at a time, and a crash costs it
\* at most one notification, for any number of notifications, attempts and
\* crashes and wherever in enqueue, claim, ack, retry or dead_letter it comes.
THEOREM LocalFilesSurvive == ServiceSpec => []FilesSurvive
<1>1. ServiceInv => FilesSurvive
  <2> SUFFICES ASSUME ServiceInv PROVE FilesSurvive
    OBVIOUS
  <2>1. ServiceTypeOK /\ FileQueue!LossPerCrash
    BY DEF ServiceInv, RedisInv, FileInv, ServiceTypeOK
  <2>2. ASSUME NEW j \in N
        PROVE  Cardinality({d \in Dirs : file[d][j].st # "missing"}) <= 1
    <3> DEFINE D == {d \in Dirs : file[d][j].st # "missing"}
    <3>1. \A c, d \in D : c = d
      BY DEF ServiceInv, FileInv, FileShape
    <3>2. CASE D = {}
      <4>1. Cardinality(D) = 0
        BY <3>2, FS_EmptySet
      <4> QED BY <4>1
    <3>3. ASSUME NEW d \in D PROVE Cardinality(D) <= 1
      <4>1. D = {d}
        BY <3>1
      <4>2. Cardinality(D) = 1
        BY <4>1, FS_Singleton
      <4> QED BY <4>2
    <3> QED BY <3>2, <3>3
  <2>3. FileQueue!OneCopy
    <3>1. \A j \in N : FileQueue!Cardinality({d \in Dirs : file[d][j].st # "missing"}) <= 1
      BY <2>2, SameCardinality
    <3> QED BY <3>1 DEF FileQueue!OneCopy, N, Dirs
  <2> QED BY <2>1, <2>3 DEF FilesSurvive
<1> QED BY <1>1, ServiceKeeps, PTL

-----------------------------------------------------------------------------
(* At-least-once delivery.                                                 *)

Acc == accepted \cup fileAccepted
Del == delivered \cup fileDelivered
Trk == Tracked \cup FileQueue!Tracked
Ded == dead \cup FileQueue!Dead

\* Jobs may disappear once they are settled.
LEMMA Forgets ==
  ASSUME UNCHANGED <<Acc, Del, Ded>>, Trk \subseteq 1..NJobs, Trk' \subseteq Trk,
         Trk \ Trk' \subseteq Del \cup Ded
  PROVE  Delivery!Next
<1>1. PICK gone \in SUBSET (1..NJobs) : gone = Trk \ Trk'
  OBVIOUS
<1>2. gone \subseteq Trk /\ gone \subseteq Del \cup Ded /\ Trk' = Trk \ gone
  BY <1>1
<1>3. Delivery!Forget(gone)
  BY <1>2 DEF Delivery!Forget, Acc, Del, Trk, Ded
<1> QED BY <1>3 DEF Delivery!Next

\* A job that is confirmed or buried was tracked and still is.
LEMMA Settles ==
  ASSUME NEW j \in 1..NJobs, j \in Trk, Trk' = Trk, Acc' = Acc,
         \/ Del' = Del \cup {j} /\ Ded' = Ded
         \/ Ded' = Ded \cup {j} /\ Del' = Del
  PROVE  Delivery!Next
<1>1. CASE Del' = Del \cup {j} /\ Ded' = Ded
  <2>1. Delivery!Confirm(j)
    BY <1>1 DEF Delivery!Confirm, Acc, Del, Trk, Ded
  <2> QED BY <2>1 DEF Delivery!Next
<1>2. CASE Ded' = Ded \cup {j} /\ Del' = Del
  <2>1. Delivery!Bury(j)
    BY <1>2 DEF Delivery!Bury, Acc, Del, Trk, Ded
  <2> QED BY <2>1 DEF Delivery!Next
<1> QED BY <1>1, <1>2

LEMMA Accepts ==
  ASSUME NEW j \in 1..NJobs, j \notin Acc, Acc' = Acc \cup {j}, Trk' = Trk \cup {j},
         Del' = Del, Ded' = Ded
  PROVE  Delivery!Next
<1>1. Delivery!Accept(j)
  BY DEF Delivery!Accept, Acc, Del, Trk, Ded
<1> QED BY <1>1 DEF Delivery!Next

\* The queue that is not in use holds nothing.
LEMMA EmptyRedis == Init => Tracked = {} /\ accepted = {} /\ delivered = {} /\ dead = {}
BY DEF Init, Tracked
LEMMA EmptyFiles ==
  FileQueue!Init => /\ FileQueue!Tracked = {} /\ FileQueue!Dead = {}
                    /\ fileAccepted = {} /\ fileDelivered = {}
<1>1. FileQueue!Init => FileQueue!Lost = {} /\ fileAccepted = {} /\ fileDelivered = {}
  BY DEF FileQueue!Init, FileQueue!Lost
<1>2. FileQueue!Init => FileQueue!Tracked = {}
  BY <1>1 DEF FileQueue!Tracked
<1>3. FileQueue!Init => FileQueue!Dead = {}
  BY DEF FileQueue!Init, FileQueue!Dead, FileQueue!Missing, FileQueue!Dirs
<1> QED BY <1>1, <1>2, <1>3

\* What a worker does not touch it still remembers.
LEMMA SameRemembered ==
  ASSUME RedisInv, KeepsRedis, NEW v \in Workers, worker'[v] = worker[v]
  PROVE  Remembered(v)' = Remembered(v)
<1>1. worker[v].st \in Holding => worker[v].entry \in Ids
  BY HeldCopy DEF RedisInv
<1>2. worker[v].st \in Holding => Held(v)' = Held(v)
  BY <1>1 DEF KeepsRedis, Held
<1> QED BY <1>2 DEF Remembered

\* A job in the hands of a worker that moves on.
LEMMA StillHeld ==
  ASSUME RedisInv, NEW w \in Workers, NEW st \in WorkerStates, Goto(w, st), stream' = stream
  PROVE  /\ Remembered(w)' \subseteq Remembered(w) \cup {Held(w).job}
         /\ worker[w].st \in Holding => Remembered(w)' \subseteq Remembered(w)
         /\ worker[w].st \in Holding /\ st \in Holding => Remembered(w)' = Remembered(w)
<1>1. worker'[w].st = st /\ worker'[w].entry = worker[w].entry /\ worker'[w].batch = worker[w].batch
  BY WorkerMoves DEF RedisInv
<1>2. Held(w)' = Held(w)
  BY <1>1 DEF Held
<1> QED BY <1>1, <1>2 DEF Remembered

\* No step but enqueue brings in a job.
LEMMA TrackedFrom ==
  ASSUME RedisInv, KeepsRedis, accepted' = accepted, NEW w \in Workers,
         \A v \in Workers \ {w} : worker'[v] = worker[v],
         \A j \in accepted : StoredFrom(j, 0)' => j \in Tracked,
         \A j \in accepted : j \in Remembered(w)' => j \in Tracked
  PROVE  Tracked' \subseteq Tracked
<1> SUFFICES ASSUME NEW j \in Tracked' PROVE j \in Tracked
  OBVIOUS
<1>1. j \in accepted /\ (StoredFrom(j, 0)' \/ \E v \in Workers : j \in Remembered(v)')
  BY DEF Tracked
<1>2. ASSUME NEW v \in Workers, j \in Remembered(v)' PROVE j \in Tracked
  <2>1. CASE v = w
    BY <1>1, <1>2, <2>1
  <2>2. CASE v # w
    <3>1. Remembered(v)' = Remembered(v)
      BY <2>2, SameRemembered
    <3> QED BY <1>1, <1>2, <3>1 DEF Tracked
  <2> QED BY <2>1, <2>2
<1> QED BY <1>1, <1>2

\* A stored copy, of whatever attempt, is tracked.
LEMMA StoredTracked ==
  ASSUME RedisInv
  PROVE  /\ \A e \in Ids : (e > read \/ e \in pel) /\ stream[e].job \in accepted => stream[e].job \in Tracked
         /\ \A m \in retries : m.job \in Tracked
         /\ \A j \in accepted : StoredFrom(j, 0) => j \in Tracked
         /\ \A w \in Workers, j \in accepted : j \in Remembered(w) => j \in Tracked
         /\ \A w \in Workers : worker[w].st \in Holding => Held(w).job \in Tracked
         /\ \A w \in Workers : \A m \in worker[w].batch : m.job \in Tracked
<1>0. TypeOK /\ Shape /\ stream \in Seq(Copy) /\ retries \subseteq Delayed
  BY DEF RedisInv, TypeOK
<1>1. (\A c \in Copy : c.attempt >= 0) /\ (\A m \in Delayed : m.attempt >= 0)
  BY PushAssumption DEF Copy, Delayed, Attempts
<1>2. \A j \in accepted : StoredFrom(j, 0) => j \in Tracked
  BY DEF Tracked
<1>3. \A w \in Workers, j \in accepted : j \in Remembered(w) => j \in Tracked
  BY DEF Tracked
<1>4. \A e \in Ids : stream[e] \in Copy
  BY <1>0 DEF Ids
<1>5. \A e \in Ids : (e > read \/ e \in pel) => StoredFrom(stream[e].job, 0)
  BY <1>1, <1>4 DEF StoredFrom
<1>6. \A m \in retries : StoredFrom(m.job, 0) /\ m.job \in accepted
  BY <1>0, <1>1 DEF StoredFrom, Shape
<1>7. ASSUME NEW w \in Workers, worker[w].st \in Holding PROVE Held(w).job \in Tracked
  <2>1. Held(w).job \in accepted
    BY <1>0, <1>7, HeldCopy
  <2> QED BY <1>3, <1>7, <2>1 DEF Remembered
<1>8. ASSUME NEW w \in Workers, NEW m \in worker[w].batch PROVE m.job \in Tracked
  <2>1. m.job \in accepted
    BY <1>0 DEF Shape
  <2> QED BY <1>3, <2>1 DEF Remembered
<1> QED BY <1>2, <1>3, <1>5, <1>6, <1>7, <1>8

\* A settled job may disappear, no other one does.
LEMMA DropsSettled ==
  ASSUME RedisInv', accepted' = accepted
  PROVE  Tracked \ Tracked' \subseteq delivered' \cup dead'
BY DEF RedisInv, NoLostJob, Tracked, Settled

\* No step but enqueue brings in a job.
LEMMA RedisTracks ==
  ASSUME RedisInv, Next, KeepsRedis, \A j \in Jobs : ~Enqueue(j)
  PROVE  Tracked' \subseteq Tracked /\ accepted' = accepted
<1>0. /\ TypeOK /\ Shape /\ read \in Nat /\ stream \in Seq(Copy) /\ pel \subseteq 1..read
      /\ read <= Len(stream) /\ stale \subseteq pel /\ worker \in [Workers -> WorkerState]
  BY DEF RedisInv, TypeOK, Shape
<1>a. /\ \A e \in Ids : e > read \/ e \in pel => stream[e].job \in Tracked
      /\ \A m \in retries : m.job \in Tracked
      /\ \A j \in accepted : StoredFrom(j, 0) => j \in Tracked
      /\ \A w \in Workers, j \in accepted : j \in Remembered(w) => j \in Tracked
      /\ \A w \in Workers : worker[w].st \in Holding => Held(w).job \in Tracked
      /\ \A w \in Workers : \A m \in worker[w].batch : m.job \in Tracked
  BY <1>0, StoredTracked DEF Shape
<1>1. ASSUME NEW w \in Workers, WorkerOnly(w) PROVE Tracked' \subseteq Tracked /\ accepted' = accepted
  <2>1. UNCHANGED <<stream, read, pel, retries, accepted>> /\ \A v \in Workers \ {w} : worker'[v] = worker[v]
    BY <1>0, <1>1, WorkerOnlyKeeps
  <2>2. \A j, a : StoredFrom(j, a)' = StoredFrom(j, a)
    BY <2>1, SameStore
  <2>3. \A j \in accepted : j \in Remembered(w)' => j \in Tracked
    <3>1. CASE ListDue(w)
      <4>1. worker'[w] = [st |-> "move", entry |-> 0, batch |-> {m \in retries : m.due}]
        BY <1>0, <3>1 DEF ListDue
      <4>2. Remembered(w)' = {m.job : m \in {m \in retries : m.due}}
        BY <4>1 DEF Remembered, Holding
      <4> QED BY <1>a, <4>2
    <3>2. CASE AckFails(w) \/ WorkerStarts(w) \/ WorkerDies(w)
      <4>1. worker'[w].batch = {} /\ worker'[w].st \in {"promote", "off"}
        BY <1>0, <3>2 DEF AckFails, WorkerStarts, WorkerDies, Done, Awake, Off
      <4> QED BY <4>1 DEF Remembered, Holding
    <3>3. CASE PostSucceeds(w) \/ DeadLetter(w) \/ \E t \in BOOLEAN : PostFails(w, t)
      <4>1. PICK st \in WorkerStates : Goto(w, st)
        BY <3>3 DEF PostSucceeds, DeadLetter, PostFails, WorkerStates
      <4>2. worker[w].st \in Holding
        BY <3>3 DEF PostSucceeds, DeadLetter, PostFails, Holding
      <4>3. Remembered(w)' \subseteq Remembered(w)
        BY <2>1, <4>1, <4>2, StillHeld
      <4> QED BY <1>a, <4>3
    <3>4. CASE ClaimExpired(w)
      <4>1. CASE stale = {}
        <5>1. Goto(w, "read") /\ "read" \in WorkerStates /\ worker[w].batch = {}
          BY <3>4, <4>1 DEF ClaimExpired, WorkerStates
        <5>2. worker'[w].st = "read" /\ worker'[w].batch = {}
          BY <1>0, <5>1, WorkerMoves
        <5> QED BY <5>2 DEF Remembered, Holding
      <4>2. CASE stale # {}
        <5>1. PICK e : e = CHOOSE i \in stale : \A k \in stale : i <= k
          OBVIOUS
        <5>2. Hold(w, e)
          BY <3>4, <4>2, <5>1 DEF ClaimExpired
        <5>3. stale \in SUBSET Nat
          BY <1>0
        <5>4. \E i \in stale : \A k \in stale : i <= k
          BY <4>2, <5>3, NatLeast
        <5>5. e \in stale
          BY <5>1, <5>4
        <5>6. e \in Nat /\ e \in Ids /\ e \in pel
          BY <1>0, <5>5 DEF Ids
        <5>7. worker'[w].entry = e /\ worker'[w].batch = {}
          BY <1>0, <5>2, <5>6, WorkerMoves
        <5>8. Remembered(w)' \subseteq {stream[e].job}
          BY <2>1, <5>7 DEF Remembered, Held
        <5> QED BY <1>a, <5>6, <5>8
      <4> QED BY <4>1, <4>2
    <3> QED BY <1>1, <3>1, <3>2, <3>3, <3>4 DEF WorkerOnly
  <2> QED BY <1>a, <2>1, <2>2, <2>3, TrackedFrom
<1>3. ASSUME NEW w \in Workers, NEW m \in Delayed, Promote(w, m)
      PROVE  Tracked' \subseteq Tracked /\ accepted' = accepted
  <2>1. /\ m.job \in Jobs /\ m.attempt \in Attempts /\ XAdd(m.job, m.attempt) /\ retries' = retries \ {m}
        /\ worker[w].st = "move" /\ m \in worker[w].batch /\ worker' = [worker EXCEPT ![w].batch = @ \ {m}]
        /\ UNCHANGED <<read, pel, stale, accepted, delivered, dead>>
    BY <1>3 DEF Promote, Delayed
  <2>2. /\ stream' \in Seq(Copy) /\ Len(stream) \in Nat /\ Len(stream') = Len(stream) + 1
        /\ \A e \in 1..Len(stream) : stream'[e] = stream[e]
        /\ stream'[Len(stream) + 1] = [job |-> m.job, attempt |-> m.attempt]
    BY <1>0, <2>1, XAddAppends
  <2>3. worker'[w].st = "move" /\ worker'[w].batch = worker[w].batch \ {m}
        /\ \A v \in Workers \ {w} : worker'[v] = worker[v]
    BY <1>0, <2>1 DEF WorkerState
  <2>4. Remembered(w)' \subseteq Remembered(w)
    BY <2>3 DEF Remembered, Holding
  <2>5. m.job \in Tracked
    BY <1>a, <2>1
  <2>6. ASSUME NEW j \in accepted, StoredFrom(j, 0)' PROVE j \in Tracked
    <3>1. CASE \E e \in Ids' : (e > read' \/ e \in pel') /\ stream'[e].job = j
      <4>1. PICK e \in Ids' : (e > read \/ e \in pel) /\ stream'[e].job = j
        BY <2>1, <3>1
      <4>2. e \in Ids \/ e = Len(stream) + 1
        BY <2>2 DEF Ids
      <4>3. CASE e \in Ids
        BY <1>a, <2>2, <4>1, <4>3 DEF Ids
      <4>4. CASE e = Len(stream) + 1
        <5>1. stream'[e].job = m.job
          BY <2>2, <4>4
        <5> QED BY <2>5, <4>1, <5>1
      <4> QED BY <4>2, <4>3, <4>4
    <3>2. CASE \E n \in retries' : n.job = j
      BY <1>a, <2>1, <3>2
    <3> QED BY <2>6, <3>1, <3>2 DEF StoredFrom
  <2> QED BY <1>a, <2>1, <2>3, <2>4, <2>6, TrackedFrom
<1>4. ASSUME NEW w \in Workers, ReadGroup(w) PROVE Tracked' \subseteq Tracked /\ accepted' = accepted
  <2>1. /\ read < Len(stream) /\ read' = read + 1 /\ pel' = pel \cup {read + 1} /\ Hold(w, read + 1)
        /\ UNCHANGED <<stream, stale, retries, accepted, delivered, dead>>
    BY <1>4 DEF ReadGroup
  <2>2. \A j : StoredFrom(j, 0)' => StoredFrom(j, 0)
    BY <1>0, <2>1 DEF StoredFrom, Ids
  <2>3. PICK e \in Nat : e = read + 1
    BY <1>0
  <2>4. Hold(w, e) /\ e \in Ids /\ e > read
    BY <1>0, <2>1, <2>3 DEF Ids
  <2>5. worker'[w].entry = e /\ worker'[w].batch = {} /\ \A v \in Workers \ {w} : worker'[v] = worker[v]
    BY <1>0, <2>4, WorkerMoves
  <2>6. Remembered(w)' \subseteq {stream[e].job}
    BY <2>1, <2>5 DEF Remembered, Held
  <2> QED BY <1>a, <2>1, <2>2, <2>4, <2>5, <2>6, TrackedFrom
<1>5. ASSUME NEW w \in Workers, Ack(w) \/ Settle(w) PROVE Tracked' \subseteq Tracked /\ accepted' = accepted
  <2>1. /\ XAck(worker[w].entry) /\ Done(w) /\ UNCHANGED <<stream, read, retries, accepted, delivered, dead>>
    BY <1>5 DEF Ack, Settle
  <2>2. \A j : StoredFrom(j, 0)' => StoredFrom(j, 0)
    BY <2>1 DEF StoredFrom, Ids, XAck
  <2>3. /\ worker'[w].st = "promote" /\ worker'[w].batch = {} /\ \A v \in Workers \ {w} : worker'[v] = worker[v]
    BY <1>0, <2>1, WorkerMoves
  <2>4. Remembered(w)' = {}
    BY <2>3 DEF Remembered, Holding
  <2> QED BY <1>a, <2>1, <2>2, <2>3, <2>4, TrackedFrom
<1>6. ASSUME NEW w \in Workers, Retry(w) PROVE Tracked' \subseteq Tracked /\ accepted' = accepted
  <2>1. /\ worker[w].st = "retry" /\ Goto(w, "settle") /\ UNCHANGED <<stream, read, pel, stale, accepted, delivered, dead>>
        /\ "settle" \in WorkerStates /\ "retry" \in Holding
    BY <1>6 DEF Retry, WorkerStates, Holding
  <2>2. PICK d : d = [job |-> Held(w).job, attempt |-> Held(w).attempt + 1, due |-> FALSE]
    OBVIOUS
  <2>3. retries' = retries \cup {d} /\ d.job = Held(w).job
    BY <1>6, <2>2 DEF Retry
  <2>4. Held(w).job \in Tracked
    BY <1>a, <2>1
  <2>5. \A j \in accepted : StoredFrom(j, 0)' => j \in Tracked
    BY <1>a, <2>1, <2>3, <2>4 DEF StoredFrom, Ids
  <2>6. Remembered(w)' \subseteq Remembered(w)
    BY <2>1, StillHeld
  <2>7. \A v \in Workers \ {w} : worker'[v] = worker[v]
    BY <1>0, <2>1, WorkerMoves
  <2> QED BY <1>a, <2>1, <2>5, <2>6, <2>7, TrackedFrom
<1>7. ASSUME UNCHANGED <<stream, read, pel, worker, accepted>>,
             \A m \in retries' : \E n \in retries : m.job = n.job
      PROVE  Tracked' \subseteq Tracked /\ accepted' = accepted
  <2>1. \A j \in accepted : StoredFrom(j, 0)' => j \in Tracked
    BY <1>a, <1>7 DEF StoredFrom, Ids
  <2>2. \A w \in Workers : Remembered(w)' = Remembered(w)
    BY <1>7 DEF Remembered, Held
  <2> QED BY <1>a, <1>7, <2>1, <2>2 DEF Tracked
<1>8. ASSUME NEW m \in Delayed, RetryDue(m) PROVE Tracked' \subseteq Tracked /\ accepted' = accepted
  <2>1. PICK d : d = [m EXCEPT !.due = TRUE]
    OBVIOUS
  <2>a. d.job = m.job
    BY <2>1 DEF Delayed
  <2>2. /\ m \in retries /\ retries' = (retries \ {m}) \cup {d} /\ UNCHANGED <<stream, read, pel, worker, accepted>>
    BY <1>8, <2>1 DEF RetryDue
  <2> QED BY <1>7, <2>a, <2>2
<1>9. ASSUME NEW e \in Ids, LeaseExpires(e) PROVE Tracked' \subseteq Tracked /\ accepted' = accepted
  BY <1>7, <1>9 DEF LeaseExpires
<1> QED BY <1>1, <1>3, <1>4, <1>5, <1>6, <1>8, <1>9 DEF Next, Work, WorkerOnly

\* Every step of the Redis queue is one of at-least-once delivery.
LEMMA RedisDelivers ==
  ASSUME RedisInv, RedisInv', Next, FileQueue!Init, FileQueue!Init'
  PROVE  Delivery!Next
<1>0. /\ TypeOK /\ Shape /\ TypeOK' /\ KeepsRedis /\ worker \in [Workers -> WorkerState]
      /\ read \in Nat /\ stream \in Seq(Copy)
  BY RedisStep DEF RedisInv, TypeOK
<1>1. /\ Acc = accepted /\ Del = delivered /\ Trk = Tracked /\ Ded = dead
      /\ Acc' = accepted' /\ Del' = delivered' /\ Trk' = Tracked' /\ Ded' = dead'
  <2>1. /\ FileQueue!Tracked = {} /\ FileQueue!Dead = {} /\ fileAccepted = {} /\ fileDelivered = {}
    BY EmptyFiles
  <2>2. (FileQueue!Tracked = {} /\ FileQueue!Dead = {} /\ fileAccepted = {} /\ fileDelivered = {})'
    BY EmptyFiles, PTL
  <2> QED BY <2>1, <2>2 DEF Acc, Del, Trk, Ded
<1>2. Tracked \subseteq 1..NJobs /\ Jobs \subseteq 1..NJobs
  BY <1>0, FileQueueAssumption DEF Tracked, TypeOK
<1>3. ASSUME NEW j \in Jobs, Enqueue(j) PROVE Delivery!Next
  <2>1. /\ 0 \in Attempts /\ XAdd(j, 0) /\ j \notin accepted /\ accepted' = accepted \cup {j}
        /\ UNCHANGED <<read, pel, stale, retries, worker, delivered, dead>>
    BY <1>3, PushAssumption DEF Enqueue, Attempts
  <2>2. /\ \A k \in Jobs, b \in Nat : StoredFrom(k, b) => StoredFrom(k, b)'
        /\ StoredFrom(j, 0)'
    BY <1>0, <2>1, XAddStores
  <2>3. /\ Len(stream) \in Nat /\ Len(stream') = Len(stream) + 1
        /\ \A e \in 1..Len(stream) : stream'[e] = stream[e]
        /\ stream'[Len(stream) + 1] = [job |-> j, attempt |-> 0]
    BY <1>0, <2>1, XAddAppends
  <2>4. \A v \in Workers : Remembered(v)' = Remembered(v)
    BY <1>0, <2>1, SameRemembered
  <2>5. ASSUME NEW k, k # j, StoredFrom(k, 0)' PROVE StoredFrom(k, 0)
    <3>1. CASE \E m \in retries' : m.job = k /\ m.attempt >= 0
      BY <2>1, <3>1 DEF StoredFrom
    <3>2. CASE \E e \in Ids' : (e > read' \/ e \in pel') /\ stream'[e].job = k /\ stream'[e].attempt >= 0
      <4>1. PICK e \in Ids' : (e > read \/ e \in pel) /\ stream'[e].job = k /\ stream'[e].attempt >= 0
        BY <2>1, <3>2
      <4>2. e # Len(stream) + 1
        BY <2>3, <2>5, <4>1
      <4>3. e \in Ids
        BY <2>3, <4>2 DEF Ids
      <4>4. stream'[e] = stream[e]
        BY <2>3, <4>3 DEF Ids
      <4> QED BY <4>1, <4>3, <4>4 DEF StoredFrom
    <3> QED BY <2>5, <3>1, <3>2 DEF StoredFrom
  <2>6. Tracked' = Tracked \cup {j}
    <3>1. Tracked' \subseteq Tracked \cup {j}
      BY <2>1, <2>4, <2>5 DEF Tracked
    <3>2. Tracked \subseteq Tracked'
      BY <1>0, <2>1, <2>2, <2>4 DEF Tracked, TypeOK
    <3>3. j \in Tracked'
      BY <2>1, <2>2 DEF Tracked
    <3> QED BY <3>1, <3>2, <3>3
  <2> QED BY <1>1, <1>2, <2>1, <2>6, Accepts
<1>4. ASSUME NEW w \in Workers, PostSucceeds(w) \/ DeadLetter(w) PROVE Delivery!Next
  <2>1. PICK st \in WorkerStates : Goto(w, st) /\ st \in Holding /\ worker[w].st \in Holding
    BY <1>4 DEF PostSucceeds, DeadLetter, WorkerStates, Holding
  <2>2. /\ UNCHANGED <<stream, read, pel, retries, accepted>>
        /\ \/ delivered' = delivered \cup {Held(w).job} /\ dead' = dead
           \/ dead' = dead \cup {Held(w).job} /\ delivered' = delivered
    BY <1>4 DEF PostSucceeds, DeadLetter
  <2>3. Remembered(w)' = Remembered(w)
    BY <2>1, <2>2, StillHeld
  <2>4. \A v \in Workers \ {w} : Remembered(v)' = Remembered(v)
    BY <1>0, <2>1, WorkerMoves, SameRemembered
  <2>5. \A j, a : StoredFrom(j, a)' = StoredFrom(j, a)
    BY <2>2, SameStore
  <2>6. Tracked' = Tracked
    BY <2>2, <2>3, <2>4, <2>5 DEF Tracked
  <2>7. Held(w).job \in Tracked
    BY <2>1, StoredTracked
  <2> QED BY <1>1, <1>2, <2>2, <2>6, <2>7, Settles
<1>5. ASSUME \A j \in Jobs : ~Enqueue(j), \A w \in Workers : ~PostSucceeds(w) /\ ~DeadLetter(w)
      PROVE  Delivery!Next
  <2>1. UNCHANGED <<delivered, dead>>
    BY <1>5 DEF Next, Work, ListDue, ClaimExpired, ReadGroup, Promote, PostFails, Ack, Retry, Settle,
                AckFails, WorkerDies, WorkerStarts, RetryDue, LeaseExpires
  <2>2. Tracked' \subseteq Tracked /\ accepted' = accepted
    BY <1>0, <1>5, RedisTracks
  <2>3. Tracked \ Tracked' \subseteq delivered' \cup dead'
    BY <2>2, DropsSettled
  <2> QED BY <1>1, <1>2, <2>1, <2>2, <2>3, Forgets
<1> QED BY <1>3, <1>4, <1>5

\* Until the first crash the local queue loses nothing.
LEMMA NoCrashNoLoss == FileInv /\ crashes = 0 => FileQueue!Lost = {}
<1> SUFFICES ASSUME FileInv, crashes = 0 PROVE FileQueue!Lost = {}
  OBVIOUS
<1>1. FileQueue!Lost \subseteq 1..NJobs
  BY DEF FileInv, FileQueue!Lost, FileQueue!TypeOK, FileQueue!Notifications
<1>2. IsFiniteSet(1..NJobs)
  BY FS_Interval, FileQueueAssumption
<1>3. IsFiniteSet(FileQueue!Lost)
  BY <1>1, <1>2, FS_Subset
<1>4. Cardinality(FileQueue!Lost) \in Nat /\ Cardinality(FileQueue!Lost) <= 0
  BY <1>3, FS_CardinalityType, SameCardinality DEF FileInv, FileQueue!LossPerCrash
<1>5. Cardinality(FileQueue!Lost) = 0
  BY <1>4
<1> QED BY <1>3, <1>5, FS_EmptySet

\* The local queue, too, forgets settled jobs only.
LEMMA FileDropsSettled ==
  ASSUME FileInv', fileAccepted' = fileAccepted, FileQueue!TypeOK, crashes <= crashes'
  PROVE  FileQueue!Tracked \ FileQueue!Tracked' \subseteq fileDelivered' \cup FileQueue!Dead'
<1> SUFFICES ASSUME NEW k \in FileQueue!Tracked, k \notin FileQueue!Tracked'
             PROVE  k \in fileDelivered' \cup FileQueue!Dead'
  OBVIOUS
<1>0. k \in fileAccepted /\ k \in N /\ crashes' \in Nat
  BY FileQueueAssumption DEF FileQueue!Tracked, FileQueue!Lost, FileQueue!TypeOK, N, FileInv
<1>1. ~FileQueue!Intact(k)' /\ ~FileQueue!Pending(k)'
  BY <1>0 DEF FileQueue!Tracked
<1>2. k \notin FileQueue!Lost'
  <2>1. CASE crashes' > 0
    BY <2>1 DEF FileQueue!Tracked
  <2>2. CASE crashes' = 0
    <3>0. (crashes = 0)'
      BY <2>2
    <3>1. (FileQueue!Lost = {})'
      BY <3>0, NoCrashNoLoss, PTL
    <3> QED BY <3>1
  <2> QED BY <1>0, <2>1, <2>2
<1>3. FileQueue!Settled(k)'
  BY <1>0, <1>1, <1>2 DEF FileQueue!Lost
<1> QED BY <1>0, <1>3 DEF FileQueue!Settled, FileQueue!Dead, N, FileQueue!Notifications

\* A file operation on job j leaves the others where they were.
LEMMA OthersTracked ==
  ASSUME FileInv, NEW j \in N,
         UNCHANGED <<fileWorker, fileAccepted, fileDelivered, crashes>>,
         \A x \in Dirs, k \in N : k # j => file'[x][k] = file[x][k],
         \A i \in DOMAIN todo : todo[i].job = j, \A i \in DOMAIN todo' : todo'[i].job = j
  PROVE  \A k : k # j => (k \in FileQueue!Tracked' <=> k \in FileQueue!Tracked)
<1> SUFFICES ASSUME NEW k, k # j PROVE k \in FileQueue!Tracked' <=> k \in FileQueue!Tracked
  OBVIOUS
<1>0. fileAccepted \subseteq N
  BY DEF FileInv, FileQueue!TypeOK, N
<1>1. ~FileQueue!Pending(k) /\ ~FileQueue!Pending(k)'
  BY DEF FileQueue!Pending
<1>2. k \in N => (FileQueue!Intact(k)' <=> FileQueue!Intact(k))
  BY DEF FileQueue!Intact, Dirs
<1>3. k \in N => (FileQueue!Settled(k)' <=> FileQueue!Settled(k))
  <2>1. "dead" \in Dirs
    BY DEF Dirs, FileQueue!Dirs
  <2> QED BY <2>1 DEF FileQueue!Settled
<1>4. k \in FileQueue!Lost' <=> k \in FileQueue!Lost
  BY <1>0, <1>1, <1>2, <1>3 DEF FileQueue!Lost
<1> QED BY <1>0, <1>1, <1>2, <1>4 DEF FileQueue!Tracked

LEMMA SameDead ==
  ASSUME FileQueue!TypeOK,
         \A k \in N : file'["dead"][k].st = "job" <=> file["dead"][k].st = "job"
  PROVE  FileQueue!Dead' = FileQueue!Dead
BY DEF FileQueue!Dead, N, FileQueue!Notifications

\* What a step of the local queue does to the jobs it tracks.
FileForgets ==
  /\ UNCHANGED <<fileAccepted, fileDelivered>> /\ FileQueue!Dead' = FileQueue!Dead
  /\ FileQueue!Tracked' \subseteq FileQueue!Tracked
FileBuries(j) ==
  /\ UNCHANGED <<fileAccepted, fileDelivered>> /\ FileQueue!Dead' = FileQueue!Dead \cup {j}
  /\ FileQueue!Tracked' = FileQueue!Tracked /\ j \in FileQueue!Tracked

LEMMA FillTracks ==
  ASSUME FileInv, NEW d \in Dirs, NEW j \in N, NEW f \in FileQueue!File, Filling(d, j, f),
         IsFill(d, j, f), FileQueue!FileOp
  PROVE  FileForgets \/ FileBuries(j)
<1>0. /\ FileQueue!TypeOK /\ "dead" \in Dirs /\ j \in fileAccepted /\ f.st = "job"
      /\ UNCHANGED <<fileWorker, fileAccepted, fileDelivered, crashes>>
  BY DEF FileInv, Filling, FileQueue!FileOp, Dirs, FileQueue!Dirs
<1>1. file' = [file EXCEPT ![d][j] = f] /\ todo' = <<>>
  BY FillKeeps
<1>2. \A x \in Dirs, k \in N : file'[x][k] = IF x = d /\ k = j THEN f ELSE file[x][k]
  BY <1>0, <1>1, PutFile, ZenonT(60)
<1>3. (\A i \in DOMAIN todo : todo[i].job = j) /\ (\A i \in DOMAIN todo' : todo'[i].job = j)
  BY <1>1 DEF IsFill, Fill
<1>4. \A k : k # j => (k \in FileQueue!Tracked' <=> k \in FileQueue!Tracked)
  BY <1>0, <1>2, <1>3, OthersTracked
<1>5. FileQueue!Pending(j)
  BY DEF FileQueue!Pending, IsFill, Fill
<1>6. FileQueue!Intact(j)'
  BY <1>0, <1>2 DEF FileQueue!Intact, Dirs
<1>7. j \in FileQueue!Tracked /\ j \in FileQueue!Tracked'
  BY <1>0, <1>5, <1>6 DEF FileQueue!Tracked
<1>8. FileQueue!Tracked' = FileQueue!Tracked
  BY <1>4, <1>7
<1>9. CASE d = "dead"
  <2>1. FileQueue!Dead' = FileQueue!Dead \cup {j}
    BY <1>0, <1>2, <1>9 DEF FileQueue!Dead, N, FileQueue!Notifications
  <2> QED BY <1>0, <1>7, <1>8, <2>1 DEF FileBuries
<1>10. CASE d # "dead"
  <2>1. FileQueue!Dead' = FileQueue!Dead
    BY <1>0, <1>2, <1>10, SameDead
  <2> QED BY <1>0, <1>8, <2>1 DEF FileForgets
<1> QED BY <1>9, <1>10

\* The other operations replace a file of a job the method stores again.
LEMMA OtherOpTracks ==
  ASSUME FileInv, NEW j \in N, FileQueue!FileOp,
         \A x \in Dirs, k \in N : k # j => file'[x][k] = file[x][k],
         file'["dead"][j].st = "job" <=> file["dead"][j].st = "job",
         \A i \in DOMAIN todo : todo[i].job = j, \A i \in DOMAIN todo' : todo'[i].job = j,
         j \in FileQueue!Tracked' => j \in FileQueue!Tracked
  PROVE  FileForgets
<1>0. /\ FileQueue!TypeOK /\ "dead" \in Dirs
      /\ UNCHANGED <<fileWorker, fileAccepted, fileDelivered, crashes>>
  BY DEF FileInv, FileQueue!FileOp, Dirs, FileQueue!Dirs
<1>1. \A k : k # j => (k \in FileQueue!Tracked' <=> k \in FileQueue!Tracked)
  BY <1>0, OthersTracked
<1>2. FileQueue!Dead' = FileQueue!Dead
  <2>1. \A k \in N : file'["dead"][k].st = "job" <=> file["dead"][k].st = "job"
    BY <1>0
  <2> QED BY <1>0, <2>1, SameDead
<1> QED BY <1>0, <1>1, <1>2, SMTT(60) DEF FileForgets

LEMMA FileOpTracks ==
  ASSUME FileInv, FileQueue!FileOp
  PROVE  FileForgets \/ \E j \in N : FileBuries(j)
<1>0. /\ FileQueue!TypeOK /\ Method /\ todo # <<>> /\ "dead" \in Dirs /\ "inflight" \in Dirs
      /\ UNCHANGED <<fileWorker, fileAccepted, fileDelivered, crashes>>
      /\ FileQueue!Missing \in FileQueue!File /\ FileQueue!Torn \in FileQueue!File
      /\ FileQueue!Missing.st = "missing" /\ FileQueue!Torn.st = "torn"
  BY OpTypes DEF FileInv, FileQueue!FileOp, Dirs, FileQueue!Dirs, FileQueue!Missing, FileQueue!Torn
<1>1. ASSUME NEW j \in N, IsAck(j) PROVE FileForgets
  <2>1. file' = [file EXCEPT !["inflight"][j] = FileQueue!Missing] /\ todo' = <<>>
    BY <1>1, AckKeeps
  <2>2. \A x \in Dirs, k \in N : file'[x][k] = IF x = "inflight" /\ k = j THEN FileQueue!Missing ELSE file[x][k]
    BY <1>0, <2>1, PutFile
  <2>3. (\A i \in DOMAIN todo : todo[i].job = j) /\ (\A i \in DOMAIN todo' : todo'[i].job = j)
        /\ j \in fileDelivered
    BY <1>1, <2>1 DEF IsAck, Remove
  <2>4. FileQueue!Intact(j)' => FileQueue!Intact(j)
    BY <1>0, <2>2 DEF FileQueue!Intact, Dirs
  <2>5. ~FileQueue!Pending(j)' /\ j \notin FileQueue!Lost'
    BY <1>0, <2>1, <2>3 DEF FileQueue!Pending, FileQueue!Lost, FileQueue!Settled
  <2>6. j \in FileQueue!Tracked' => j \in FileQueue!Tracked
    BY <1>0, <2>4, <2>5 DEF FileQueue!Tracked
  <2> QED BY <1>0, <2>2, <2>3, <2>6, OtherOpTracks
<1>2. ASSUME NEW j \in N, NEW d \in Dirs, NEW f \in FileQueue!File, Filling(d, j, f), IsWrite(d, j, f),
             d = "dead" => file[d][j].st # "job"
      PROVE  FileForgets
  <2>1. file' = [file EXCEPT ![d][j] = FileQueue!Torn] /\ todo' = <<Fill(d, j, f)>>
    BY <1>2, TruncateKeeps
  <2>2. \A x \in Dirs, k \in N : file'[x][k] = IF x = d /\ k = j THEN FileQueue!Torn ELSE file[x][k]
    BY <1>0, <2>1, PutFile, ZenonT(60)
  <2>3. (\A i \in DOMAIN todo : todo[i].job = j) /\ (\A i \in DOMAIN todo' : todo'[i].job = j)
    BY <1>2, <2>1 DEF IsWrite, Truncate, Fill
  <2>4. j \in FileQueue!Tracked
    <3>1. FileQueue!Pending(j)
      BY <1>2 DEF FileQueue!Pending, IsWrite, Fill
    <3> QED BY <1>2, <3>1 DEF FileQueue!Tracked, Filling
  <2>5. file'["dead"][j].st = "job" <=> file["dead"][j].st = "job"
    BY <1>0, <1>2, <2>2
  <2> QED BY <2>2, <2>3, <2>4, <2>5, OtherOpTracks
<1>3. ASSUME NEW j \in N, NEW d \in Dirs, NEW f \in FileQueue!File, Filling(d, j, f), IsReplace(d, j, f)
      PROVE  FileForgets
  <2>1. file' = [file EXCEPT !["inflight"][j] = FileQueue!Missing] /\ todo' = <<Truncate(d, j), Fill(d, j, f)>>
    BY <1>3, RemoveKeeps
  <2>2. \A x \in Dirs, k \in N : file'[x][k] = IF x = "inflight" /\ k = j THEN FileQueue!Missing ELSE file[x][k]
    BY <1>0, <2>1, PutFile, ZenonT(60)
  <2>3. (\A i \in DOMAIN todo : todo[i].job = j) /\ (\A i \in DOMAIN todo' : todo'[i].job = j)
    BY <1>3, <2>1 DEF IsReplace, Remove, Truncate, Fill
  <2>4. j \in FileQueue!Tracked
    <3>1. FileQueue!Pending(j)
      BY <1>3 DEF FileQueue!Pending, IsReplace, Fill
    <3> QED BY <1>3, <3>1 DEF FileQueue!Tracked, Filling
  <2> QED BY <1>0, <2>2, <2>3, <2>4, OtherOpTracks
<1>4. ASSUME NEW j \in N, NEW c \in Dirs, NEW d \in Dirs, NEW f \in FileQueue!File, Filling(d, j, f),
             IsMove(c, d, j, f)
      PROVE  FileForgets
  <2>0. c # d /\ c # "dead" /\ d # "dead"
    BY <1>4 DEF IsMove
  <2>1. todo' = <<Truncate(d, j), Fill(d, j, f)>>
    BY <1>4, MoveKeeps
  <2>a. file' = [file EXCEPT ![d][j] = file[c][j], ![c][j] = FileQueue!Missing]
    BY <1>4, MoveKeeps
  <2>2. \A x \in Dirs, k \in N :
           file'[x][k] = IF k # j THEN file[x][k] ELSE IF x = d THEN file[c][j]
                         ELSE IF x = c THEN FileQueue!Missing ELSE file[x][k]
    <3>1. Renames(c, d, j)
      BY <2>a DEF Renames
    <3>2. Renamed(c, d, j)
      BY <1>0, <2>0, <3>1, MoveFile
    <3> QED BY <3>2 DEF Renamed
  <2>3. (\A i \in DOMAIN todo : todo[i].job = j) /\ (\A i \in DOMAIN todo' : todo'[i].job = j)
    BY <1>4, <2>1 DEF IsMove, Move, Truncate, Fill
  <2>4. j \in FileQueue!Tracked
    <3>1. FileQueue!Pending(j)
      BY <1>4 DEF FileQueue!Pending, IsMove, Fill
    <3> QED BY <1>4, <3>1 DEF FileQueue!Tracked, Filling
  <2>5. file'["dead"][j] = file["dead"][j]
    BY <1>0, <2>0, <2>2
  <2>6. \A x \in Dirs, k \in N : k # j => file'[x][k] = file[x][k]
    BY <2>2
  <2> QED BY <2>3, <2>4, <2>5, <2>6, OtherOpTracks
<1> QED BY <1>0, <1>1, <1>2, <1>3, <1>4, FillTracks DEF Method

\* A step that starts a method, or none, stores no job that is not there.
LEMMA StartTracks ==
  ASSUME FileInv, todo = <<>>, UNCHANGED <<file, crashes, fileAccepted>>, fileDelivered \subseteq fileDelivered',
         \A k \in fileAccepted : FileQueue!Pending(k)' \/ fileWorker'.job = k => k \in FileQueue!Tracked
  PROVE  FileQueue!Tracked' \subseteq FileQueue!Tracked /\ FileQueue!Dead' = FileQueue!Dead
<1>1. \A k : FileQueue!Intact(k)' = FileQueue!Intact(k)
  BY DEF FileQueue!Intact
<1>2. \A k : ~FileQueue!Pending(k)
  BY DEF FileQueue!Pending
<1>3. \A k : FileQueue!Settled(k) => FileQueue!Settled(k)'
  BY DEF FileQueue!Settled
<1>4. FileQueue!Lost' \subseteq FileQueue!Lost
  BY <1>1, <1>2, <1>3 DEF FileQueue!Lost
<1>5. FileQueue!Tracked' \subseteq FileQueue!Tracked
  BY <1>1, <1>4 DEF FileQueue!Tracked
<1>6. FileQueue!Dead' = FileQueue!Dead
  BY DEF FileQueue!Dead
<1> QED BY <1>5, <1>6

\* Every step of the local queue is one of at-least-once delivery.
LEMMA FileDelivers ==
  ASSUME FileInv, FileInv', FileQueue!Next, Init, Init'
  PROVE  Delivery!Next
<1>0. /\ FileQueue!TypeOK /\ fileAccepted \subseteq N /\ N = 1..NJobs /\ crashes \in Nat
  BY FileQueueAssumption DEF FileInv, FileQueue!TypeOK, N, FileQueue!Notifications
<1>1. /\ Acc = fileAccepted /\ Del = fileDelivered /\ Trk = FileQueue!Tracked /\ Ded = FileQueue!Dead
      /\ Acc' = fileAccepted' /\ Del' = fileDelivered' /\ Trk' = FileQueue!Tracked' /\ Ded' = FileQueue!Dead'
  <2>1. Tracked = {} /\ accepted = {} /\ delivered = {} /\ dead = {}
    BY EmptyRedis
  <2>2. (Tracked = {} /\ accepted = {} /\ delivered = {} /\ dead = {})'
    BY EmptyRedis, PTL
  <2> QED BY <2>1, <2>2 DEF Acc, Del, Trk, Ded
<1>2. FileQueue!Tracked \subseteq 1..NJobs
  BY <1>0 DEF FileQueue!Tracked, FileQueue!Lost
<1>3. ASSUME FileForgets, crashes <= crashes' PROVE Delivery!Next
  <2>1. FileQueue!Tracked \ FileQueue!Tracked' \subseteq fileDelivered' \cup FileQueue!Dead'
    BY <1>0, <1>3, FileDropsSettled DEF FileForgets
  <2> QED BY <1>1, <1>2, <1>3, <2>1, Forgets DEF FileForgets
<1>4. CASE FileQueue!FileOp
  <2>1. crashes' = crashes
    BY <1>4 DEF FileQueue!FileOp
  <2>2. ASSUME NEW j \in N, FileBuries(j) PROVE Delivery!Next
    BY <1>0, <1>1, <2>2, Settles DEF FileBuries
  <2> QED BY <1>0, <1>3, <1>4, <2>1, <2>2, FileOpTracks
<1>5. ASSUME todo = <<>>, UNCHANGED <<file, crashes, fileAccepted, fileDelivered>>,
             \A k \in fileAccepted : FileQueue!Pending(k)' \/ fileWorker'.job = k => k \in FileQueue!Tracked
      PROVE  Delivery!Next
  <2>1. FileQueue!Tracked' \subseteq FileQueue!Tracked /\ FileQueue!Dead' = FileQueue!Dead
    BY <1>5, StartTracks
  <2>2. crashes <= crashes'
    BY <1>0, <1>5
  <2> QED BY <1>3, <1>5, <2>1, <2>2 DEF FileForgets
<1>6. \A k \in fileAccepted : FileQueue!Intact(k) \/ fileWorker.job = k => k \in FileQueue!Tracked
  BY DEF FileQueue!Tracked
<1>7. \A k \in fileAccepted : k # 0
  BY <1>0
<1>8. CASE FileQueue!RecoverExpired
  <2> DEFINE expired == {j \in N : j < FileQueue!FirstTorn("inflight") /\ file["inflight"][j].st = "job"
                                   /\ file["inflight"][j].due}
  <2>0. /\ todo = <<>> /\ fileWorker.st \in {"recover", "sweep"} /\ fileWorker \in FileQueue!WorkerState
        /\ UNCHANGED <<file, fileAccepted, fileDelivered, crashes>>
    BY <1>0, <1>8 DEF FileQueue!RecoverExpired, FileQueue!TypeOK
  <2>1. CASE expired # {}
    <3>1. PICK j \in expired : j = FileQueue!Min(expired)
      <4>1. expired \in SUBSET Nat
        BY <1>0, FileQueueAssumption
      <4> QED BY <2>1, <4>1, MinIsMember
    <3>2. /\ todo' = FileQueue!Recovered(j) /\ fileWorker' = [fileWorker EXCEPT !.st = "sweep"]
          /\ j \in N /\ file["inflight"][j].st = "job"
      BY <1>8, <2>1, <3>1 DEF FileQueue!RecoverExpired, N
    <3>3. todo' = FileQueue!Rename("inflight", "pending", j)
                  \o FileQueue!Write("pending", j, FileQueue!JobFile(file["inflight"][j].attempt, TRUE))
      BY <3>2 DEF FileQueue!Recovered
    <3>4. \A i \in DOMAIN todo' : todo'[i].job = j
      BY <2>0, <3>2, <3>3, MoveStarts
    <3>5. FileQueue!Intact(j)
      BY <3>2 DEF FileQueue!Intact, FileQueue!Dirs
    <3>6. \A k : FileQueue!Pending(k)' => k = j
      BY <3>4 DEF FileQueue!Pending
    <3>7. fileWorker'.job = fileWorker.job
      BY <2>0, <3>2 DEF FileQueue!WorkerState
    <3> QED BY <1>5, <1>6, <2>0, <3>5, <3>6, <3>7
  <2>2. CASE expired = {}
    <3>1. todo' = todo /\ fileWorker' \in {FileQueue!Off, [fileWorker EXCEPT !.st = "scan"]}
      BY <1>8, <2>2 DEF FileQueue!RecoverExpired, N
    <3>2. fileWorker'.job = fileWorker.job \/ fileWorker'.job = 0
      BY <2>0, <3>1, IdleWorkers DEF FileQueue!WorkerState
    <3>3. \A k : ~FileQueue!Pending(k)'
      BY <2>0, <3>1 DEF FileQueue!Pending
    <3> QED BY <1>5, <1>6, <1>7, <2>0, <3>2, <3>3
  <2> QED BY <2>1, <2>2
<1>9. CASE FileQueue!Claim
  <2> DEFINE due == {j \in N : j < FileQueue!FirstTorn("pending") /\ file["pending"][j].st = "job"
                               /\ file["pending"][j].due}
  <2>0. todo = <<>> /\ UNCHANGED <<file, fileAccepted, fileDelivered, crashes>>
    BY <1>9 DEF FileQueue!Claim
  <2>1. CASE due # {}
    <3>1. PICK j \in due : j = FileQueue!Min(due)
      <4>1. due \in SUBSET Nat
        BY <1>0, FileQueueAssumption
      <4> QED BY <2>1, <4>1, MinIsMember
    <3>a. PICK a : a = file["pending"][j].attempt
      OBVIOUS
    <3>2. /\ todo' = FileQueue!Rename("pending", "inflight", j)
                     \o FileQueue!Write("inflight", j, FileQueue!JobFile(file["pending"][j].attempt, FALSE))
          /\ fileWorker' = [st |-> "post", job |-> j, attempt |-> a]
          /\ j \in N /\ file["pending"][j].st = "job"
      BY <1>9, <2>1, <3>1, <3>a DEF FileQueue!Claim, N
    <3>b. fileWorker'.job = j
      BY <3>2, SMTT(60)
    <3>3. \A i \in DOMAIN todo' : todo'[i].job = j /\ todo'[i].dir = "inflight"
      BY <2>0, <3>2, MoveStarts
    <3>4. FileQueue!Intact(j)
      BY <3>2 DEF FileQueue!Intact, FileQueue!Dirs
    <3>5. \A k : FileQueue!Pending(k)' => k = j
      BY <3>3 DEF FileQueue!Pending
    <3> QED BY <1>5, <1>6, <2>0, <3>b, <3>4, <3>5
  <2>2. CASE due = {}
    <3>1. todo' = todo /\ fileWorker' \in {FileQueue!Off, FileQueue!Awake}
      BY <1>9, <2>2 DEF FileQueue!Claim, N
    <3>2. fileWorker'.job = 0
      BY <3>1, IdleWorkers
    <3>3. \A k : ~FileQueue!Pending(k)'
      BY <2>0, <3>1 DEF FileQueue!Pending
    <3> QED BY <1>5, <1>7, <2>0, <3>2, <3>3, SMTT(60)
  <2> QED BY <2>1, <2>2
<1>10. CASE FileQueue!PostSucceeds
  <2>0. /\ todo = <<>> /\ Claimed /\ fileDelivered' = fileDelivered \cup {fileWorker.job}
        /\ fileWorker \in FileQueue!WorkerState /\ fileWorker' = [fileWorker EXCEPT !.st = "ack"]
        /\ UNCHANGED <<file, todo, fileAccepted, crashes>>
    BY <1>0, <1>10 DEF FileQueue!PostSucceeds, Claimed, FileQueue!TypeOK
  <2>1. PICK j \in fileAccepted : j = fileWorker.job
    BY <2>0, ClaimedAlone
  <2>2. fileWorker'.job = j /\ j \in FileQueue!Tracked /\ j \in N
    BY <1>0, <1>6, <2>0, <2>1 DEF FileQueue!WorkerState
  <2>3. \A k : ~FileQueue!Pending(k) /\ ~FileQueue!Pending(k)'
    BY <2>0 DEF FileQueue!Pending
  <2>4. FileQueue!Tracked' \subseteq FileQueue!Tracked /\ FileQueue!Dead' = FileQueue!Dead
    BY <2>0, <2>2, <2>3, StartTracks
  <2>5. FileQueue!Tracked \subseteq FileQueue!Tracked'
    <3>1. \A k : FileQueue!Intact(k)' = FileQueue!Intact(k)
      BY <2>0 DEF FileQueue!Intact
    <3>2. \A k : k # j => (FileQueue!Settled(k)' => FileQueue!Settled(k))
      BY <2>0, <2>1 DEF FileQueue!Settled
    <3>3. \A k \in FileQueue!Lost : k # j => k \in FileQueue!Lost'
      BY <2>0, <2>3, <3>1, <3>2 DEF FileQueue!Lost
    <3>4. j \in FileQueue!Tracked'
      BY <2>0, <2>2 DEF FileQueue!Tracked
    <3>5. ASSUME NEW k \in FileQueue!Tracked, k # j PROVE k \in FileQueue!Tracked'
      BY <2>0, <2>1, <2>3, <3>1, <3>3, <3>5 DEF FileQueue!Tracked
    <3> QED BY <3>4, <3>5
  <2>6. FileQueue!Tracked' = FileQueue!Tracked
    BY <2>4, <2>5
  <2> QED BY <1>0, <1>1, <2>0, <2>1, <2>2, <2>4, <2>6, Settles
<1>11. ASSUME NEW t \in BOOLEAN, FileQueue!PostFails(t) PROVE Delivery!Next
  <2>0. todo = <<>> /\ fileWorker \in FileQueue!WorkerState /\ UNCHANGED <<file, todo, fileAccepted, fileDelivered, crashes>>
    BY <1>0, <1>11 DEF FileQueue!PostFails, FileQueue!TypeOK
  <2>1. fileWorker'.job = fileWorker.job
    BY <1>11, <2>0 DEF FileQueue!PostFails, FileQueue!WorkerState
  <2>2. \A k : ~FileQueue!Pending(k)'
    BY <2>0 DEF FileQueue!Pending
  <2> QED BY <1>5, <1>6, <2>0, <2>1, <2>2
<1>12. CASE FileQueue!Ack \/ FileQueue!Retry \/ FileQueue!DeadLetter
  <2>0. /\ todo = <<>> /\ Claimed /\ fileWorker' = FileQueue!Awake
        /\ UNCHANGED <<file, fileAccepted, fileDelivered, crashes>>
    BY <1>12 DEF FileQueue!Ack, FileQueue!Retry, FileQueue!DeadLetter, Claimed
  <2>1. PICK j \in N, a \in 0..MaxAttempts : j = fileWorker.job /\ a = fileWorker.attempt + 1 /\ j \in fileAccepted
    BY <2>0, ClaimedAlone
  <2>2. PICK f \in FileQueue!File : f = FileQueue!JobFile(a, FALSE)
    BY JobFiles
  <2>3. \A k : FileQueue!Pending(k)' => k = j
    <3>1. CASE FileQueue!Ack
      <4>1. todo' = <<Remove("inflight", j)>>
        BY <2>1, <3>1 DEF FileQueue!Ack, FileQueue!AckOne, FileQueue!Unlink, Remove
      <4> QED BY <4>1 DEF FileQueue!Pending, Remove
    <3>2. CASE FileQueue!Retry \/ FileQueue!DeadLetter
      <4>1. PICK d \in Dirs : todo' = FileQueue!Unlink("inflight", j) \o FileQueue!Write(d, j, f)
        <5>1. todo' \in {FileQueue!Unlink("inflight", j) \o FileQueue!Write("pending", j, f),
                        FileQueue!Unlink("inflight", j) \o FileQueue!Write("dead", j, f)}
          BY <2>1, <2>2, <3>2 DEF FileQueue!Retry, FileQueue!RetryOps, FileQueue!NextAttempt, FileQueue!DeadLetter
        <5>2. "pending" \in Dirs /\ "dead" \in Dirs
          BY DEF Dirs, FileQueue!Dirs
        <5> QED BY <5>1, <5>2
      <4>2. todo' = <<Remove("inflight", j), Truncate(d, j), Fill(d, j, f)>>
        BY <4>1, MethodOps
      <4>3. \A i \in DOMAIN todo' : todo'[i].job = j
        BY <4>2 DEF Remove, Truncate, Fill
      <4> QED BY <4>3 DEF FileQueue!Pending
    <3> QED BY <1>12, <3>1, <3>2
  <2>4. fileWorker'.job = 0 /\ j \in FileQueue!Tracked
    BY <1>6, <2>0, <2>1, IdleWorkers
  <2> QED BY <1>5, <1>7, <2>0, <2>3, <2>4
<1>13. CASE FileQueue!Start
  <2>0. todo = <<>> /\ UNCHANGED <<file, todo, fileAccepted, fileDelivered, crashes>> /\ fileWorker' = FileQueue!Awake
    BY <1>13 DEF FileQueue!Start
  <2>1. fileWorker'.job = 0 /\ \A k : ~FileQueue!Pending(k)'
    BY <2>0, IdleWorkers DEF FileQueue!Pending
  <2> QED BY <1>5, <1>7, <2>0, <2>1
<1>14. CASE FileQueue!Crash
  <2>0. /\ todo' = <<>> /\ fileWorker' = FileQueue!Off /\ crashes' = crashes + 1
        /\ UNCHANGED <<file, fileAccepted, fileDelivered>>
    BY <1>14 DEF FileQueue!Crash
  <2>1. fileWorker'.job = 0 /\ \A k : ~FileQueue!Pending(k)'
    BY <2>0, IdleWorkers DEF FileQueue!Pending
  <2>2. \A k : FileQueue!Intact(k)' = FileQueue!Intact(k)
    BY <2>0 DEF FileQueue!Intact
  <2>3. \A k : FileQueue!Settled(k)' = FileQueue!Settled(k)
    BY <2>0 DEF FileQueue!Settled
  <2>4. \A k \in FileQueue!Lost' : k \in fileAccepted /\ (k \in FileQueue!Lost \/ FileQueue!Pending(k))
    BY <2>0, <2>2, <2>3 DEF FileQueue!Lost
  <2>5. FileQueue!Lost \subseteq FileQueue!Tracked
    <3>1. CASE crashes = 0
      BY <3>1, NoCrashNoLoss
    <3>2. CASE crashes > 0
      BY <3>2 DEF FileQueue!Tracked
    <3> QED BY <1>0, <3>1, <3>2
  <2>6. \A k \in FileQueue!Lost' : k \in FileQueue!Tracked
    BY <2>4, <2>5 DEF FileQueue!Tracked
  <2>7. FileQueue!Tracked' \subseteq FileQueue!Tracked
    <3> SUFFICES ASSUME NEW k \in FileQueue!Tracked' PROVE k \in FileQueue!Tracked
      OBVIOUS
    <3>1. k \in FileQueue!Lost' \/ (k \in fileAccepted /\ FileQueue!Intact(k))
      BY <1>7, <2>0, <2>1, <2>2 DEF FileQueue!Tracked
    <3> QED BY <1>6, <2>6, <3>1
  <2>8. FileQueue!Dead' = FileQueue!Dead
    BY <2>0 DEF FileQueue!Dead
  <2>9. crashes <= crashes'
    BY <1>0, <2>0
  <2> QED BY <1>3, <2>0, <2>7, <2>8, <2>9 DEF FileForgets
<1>15. ASSUME NEW j \in N, FileQueue!Enqueue(j) PROVE Delivery!Next
  <2>0. /\ todo = <<>> /\ j \notin fileAccepted /\ fileAccepted' = fileAccepted \cup {j}
        /\ todo' = FileQueue!Write("pending", j, FileQueue!JobFile(0, TRUE))
        /\ UNCHANGED <<file, fileWorker, fileDelivered, crashes>>
    BY <1>15 DEF FileQueue!Enqueue, FileQueue!BetweenMethods
  <2>1. \A k : FileQueue!Pending(k)' <=> k = j
    BY <2>0 DEF FileQueue!Pending, FileQueue!Write
  <2>2. \A k : ~FileQueue!Pending(k)
    BY <2>0 DEF FileQueue!Pending
  <2>3. \A k : FileQueue!Intact(k)' = FileQueue!Intact(k)
    BY <2>0 DEF FileQueue!Intact
  <2>4. \A k : FileQueue!Settled(k)' = FileQueue!Settled(k)
    BY <2>0 DEF FileQueue!Settled
  <2>5. FileQueue!Lost' = FileQueue!Lost
    BY <2>0, <2>1, <2>2, <2>3, <2>4 DEF FileQueue!Lost
  <2>6. FileQueue!Tracked' = FileQueue!Tracked \cup {j}
    BY <2>0, <2>1, <2>2, <2>3, <2>5 DEF FileQueue!Tracked
  <2>7. FileQueue!Dead' = FileQueue!Dead
    BY <2>0 DEF FileQueue!Dead
  <2> QED BY <1>0, <1>1, <2>0, <2>6, <2>7, Accepts
<1>16. ASSUME NEW d \in Dirs, NEW j \in N, FileQueue!TimePasses(d, j) PROVE Delivery!Next
  <2>0. todo = <<>> /\ UNCHANGED <<todo, fileWorker, fileAccepted, fileDelivered, crashes>>
    BY <1>16 DEF FileQueue!TimePasses
  <2>1. \A x \in Dirs, k \in N : file'[x][k].st = file[x][k].st
    BY <1>16, TimeKeeps
  <2>2. \A k \in N : FileQueue!Intact(k)' <=> FileQueue!Intact(k)
    BY <2>1 DEF FileQueue!Intact, Dirs
  <2>3. \A k : ~FileQueue!Pending(k) /\ ~FileQueue!Pending(k)'
    BY <2>0 DEF FileQueue!Pending
  <2>a. \A k \in N : file'["dead"][k].st = file["dead"][k].st
    BY <2>1 DEF Dirs, FileQueue!Dirs
  <2>4. \A k \in N : FileQueue!Settled(k)' <=> FileQueue!Settled(k)
    BY <2>0, <2>a DEF FileQueue!Settled
  <2>5. FileQueue!Lost' \subseteq FileQueue!Lost
    BY <1>0, <2>0, <2>2, <2>3, <2>4 DEF FileQueue!Lost
  <2>6. FileQueue!Tracked' \subseteq FileQueue!Tracked
    BY <1>0, <2>0, <2>2, <2>3, <2>5 DEF FileQueue!Tracked
  <2>7. FileQueue!Dead' = FileQueue!Dead
    BY <1>0, <2>a, SameDead
  <2>8. crashes <= crashes'
    BY <1>0, <2>0
  <2> QED BY <1>3, <2>0, <2>6, <2>7, <2>8 DEF FileForgets
<1> QED BY <1>4, <1>8, <1>9, <1>10, <1>11, <1>12, <1>13, <1>14, <1>15, <1>16
        DEF FileQueue!Next, FileQueue!Work, Dirs, N

LEMMA ServiceDelivers ==
  ServiceInv /\ ServiceInv' /\ [ServiceNext]_serviceVars => [Delivery!Next]_Delivery!vars
<1> SUFFICES ASSUME ServiceInv, ServiceInv', [ServiceNext]_serviceVars
             PROVE  [Delivery!Next]_Delivery!vars
  OBVIOUS
<1>1. CASE Redis /\ Next /\ UNCHANGED <<queue, fileVars>>
  <2>1. FileQueue!Init /\ FileQueue!Init' /\ RedisInv /\ RedisInv'
    BY <1>1 DEF ServiceInv, Redis
  <2> QED BY <1>1, <2>1, RedisDelivers
<1>2. CASE Local /\ FileQueue!Next /\ UNCHANGED <<queue, vars>>
  <2>1. Init /\ Init' /\ FileInv /\ FileInv'
    BY <1>2 DEF ServiceInv, Local
  <2> QED BY <1>2, <2>1, FileDelivers
<1>3. CASE UNCHANGED serviceVars
  <2>1. UNCHANGED <<file, todo, fileWorker, fileAccepted, fileDelivered, crashes>>
        /\ UNCHANGED <<stream, read, pel, stale, retries, worker, accepted, delivered, dead>>
    BY <1>3 DEF serviceVars, fileVars, vars
  <2>2. Tracked' = Tracked
    BY <2>1 DEF Tracked, StoredFrom, Ids, Remembered, Held
  <2>3. FileQueue!Lost' = FileQueue!Lost
    BY <2>1 DEF FileQueue!Lost, FileQueue!Settled, FileQueue!Intact, FileQueue!Pending
  <2>4. FileQueue!Tracked' = FileQueue!Tracked /\ FileQueue!Dead' = FileQueue!Dead
    BY <2>1, <2>3 DEF FileQueue!Tracked, FileQueue!Intact, FileQueue!Pending, FileQueue!Dead
  <2> QED BY <2>1, <2>2, <2>4 DEF Delivery!vars
<1> QED BY <1>1, <1>2, <1>3 DEF ServiceNext

\* Both push queues implement at-least-once delivery (PushDelivery): a
\* notification enqueue returned for stays in the store or in the hands of a
\* worker until the receiver confirmed it, or it was dead-lettered, or a crash
\* of the server that keeps it in files has cost it.
THEOREM QueuesDeliver == ServiceSpec => AtLeastOnce
<1>1. ServiceInit => Delivery!Init
  BY EmptyRedis, EmptyFiles DEF ServiceInit, Delivery!Init, Init
<1> QED BY <1>1, ServiceKeeps, ServiceDelivers, PTL DEF ServiceSpec, AtLeastOnce, Delivery!Spec
=============================================================================
