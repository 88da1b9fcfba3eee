---------------------- MODULE PipelineOutbound_proofs ----------------------
(***************************************************************************)
(* Proofs about the outbound queue: each source's events go out in their   *)
(* order, each exactly once, callbacks, flushes and closes divide the      *)
(* stream, and nobody waits for a worker that has ended.                   *)
(***************************************************************************)
EXTENDS PipelineOutbound, FiniteSetTheorems, TLAPS

----------------------------------------------------------------------------
(* The inductive invariant.  What it says of the collected work is said of *)
(* a box b, the events e, and the permission request h the worker holds.   *)

Numbers(b) == {p.no : p \in b.perms}

\* What is where.
Sorted(e, b) ==
  /\ \A s \in Sources : \A a \in b.queue[s] : e[a].kind = "event" /\ e[a].src = s
  /\ \A f \in b.batches : \A a \in f.items : e[a].kind = "event" /\ a <= f.at
  /\ \A n \in b.bounds : e[n].kind \in Boundaries
  /\ \A p \in b.perms :
       /\ e[p.no].kind = "permission"
       /\ \A a \in p.prefix : e[a].kind = "event" /\ e[a].src = e[p.no].src /\ a < p.no

\* The batches of a source stand in its order, and before what is still collected.
Batched(e, b) ==
  /\ \A s \in Sources, f \in b.batches : \A a \in f.items : e[a].src = s => \A c \in b.queue[s] : f.at < c
  /\ \A f, g \in b.batches : f # g =>
       \A a \in f.items, c \in g.items : e[a].src = e[c].src => f.at # g.at /\ (f.at < g.at => a < c)

\* A permission request is before what is still collected of its source, before later requests
\* and their prefixes, and behind earlier ones.
Requested(e, b, h) ==
  /\ \A s \in Sources, q \in Numbers(b) \union h : e[q].src = s => \A a \in b.queue[s] : q < a
  /\ \A p \in b.perms, q \in Numbers(b) \union h :
       e[q].src = e[p.no].src /\ q < p.no => \A a \in p.prefix : q < a
  /\ \A p, q \in b.perms : p.no = q.no => p = q
  /\ \A p \in b.perms, q \in h : p.no # q /\ (e[q].src = e[p.no].src => q < p.no)

\* A batch that was not given to a request of its source is before a boundary before it.
Fronted(e, b, h) ==
  /\ \A p \in b.perms, f \in b.batches : \A a \in f.items : e[a].src = e[p.no].src =>
       (\E n \in b.bounds : f.at < n /\ n < p.no) /\ \A c \in p.prefix : a < c
  /\ \A q \in h, f \in b.batches : \A a \in f.items : e[a].src # e[q].src

Blocks(e, b, h) == \A q \in Numbers(b) \union h, s \in Sources : e[q].src = s => b.blocked[s] # 0

\* What is held back beyond a boundary submitted after it waited behind a permission request then.
Fences(e, b) ==
  /\ \A s \in Sources, n \in b.bounds : \A a \in b.queue[s] : a < n => a \in e[n].held
  /\ \A f \in b.batches, n \in b.bounds : \A a \in f.items : a < n /\ n <= f.at => a \in e[n].held
  /\ \A p \in b.perms, n \in b.bounds : \A a \in p.prefix : a < n /\ n < p.no => a \in e[n].held

Good(e, b, h) ==
  Sorted(e, b) /\ Batched(e, b) /\ Requested(e, b, h) /\ Fronted(e, b, h) /\ Blocks(e, b, h) /\ Fences(e, b)

\* The permission request the worker executes.
Held == IF cur # None /\ cur.kind = "permission" THEN {cur.no} ELSE {}

\* The requests of s that are not over.
Requests(e, b, h, s) == {q \in Numbers(b) \union h : e[q].src = s}

\* A source is blocked as often as it has permission requests that are not over.
Counted ==
  worker # "ended" =>
    \A s \in Sources : box.blocked[s] = Cardinality(Requests(evs, box, Held, s))

\* Boundaries have no source; nothing arrives after a close.
Arrivals(e) ==
  \A a \in 1..Len(e) :
    /\ e[a].kind \in Boundaries => e[a].src = None
    /\ e[a].kind \notin Boundaries => e[a].src \in Sources

Closes == \A a \in Items : evs[a].kind = "close" => closing /\ a = Len(evs)

Permitted == CountOf({"permission"}) <= MaxPermissions

Operating ==
  /\ cur # None =>
       /\ cur.kind = "batch" => \A a \in cur.items : evs[a].kind = "event"
       /\ cur.kind # "batch" => evs[cur.no].kind = cur.kind
       /\ cur.kind \in Boundaries => \A n \in box.bounds \union Numbers(box) : cur.no < n
  /\ \A a \in Sent : evs[a].kind \notin Boundaries
  /\ \A a \in done : evs[a].kind \in Boundaries
  /\ failed # {} => worker = "ended"
  /\ worker = "ended" => closing \/ broken

\* What the worker publishes or completes.
Publishing == IF cur # None /\ cur.kind \notin Boundaries THEN Contents(cur) ELSE {}
Completing == IF cur # None /\ cur.kind \in Boundaries THEN Contents(cur) ELSE {}

\* What the worker took is before what it left, and behind what went out; the boundaries before
\* it are over.
Passing ==
  /\ \A a \in Sent, c \in Publishing : evs[a].src = evs[c].src => a < c
  /\ \A a \in Sent \union Publishing, c \in Pending(box) : evs[a].src = evs[c].src => a < c
  /\ \A a \in Sent \union Publishing, n \in Items :
       evs[n].kind \in Boundaries /\ n < a => n \in done \union failed

Fencing == \A n \in done \union Completing : \A a \in Items : a < n => a \in Sent \union done \/ a \in evs[n].held

\* Conserved, place by place.
Accounted ==
  /\ Items = Sent \union done \union failed \union Pending(box) \union Contents(cur)
  /\ \A a \in Sent : a \notin done /\ a \notin failed /\ a \notin Pending(box) /\ a \notin Contents(cur)
  /\ \A a \in done : a \notin failed /\ a \notin Pending(box) /\ a \notin Contents(cur)
  /\ \A a \in failed : a \notin Pending(box) /\ a \notin Contents(cur)
  /\ \A a \in Pending(box) : a \notin Contents(cur)
  /\ \A i, j \in DOMAIN sent : i # j => sent[i] \intersect sent[j] = {}

IInv ==
  /\ TypeOK /\ Good(evs, box, Held) /\ Counted
  /\ Arrivals(evs) /\ Closes /\ Permitted
  /\ SourceOrder /\ Accounted /\ Operating /\ Passing /\ Fencing /\ NoneLeftWaiting

----------------------------------------------------------------------------
(* Operations on the collected work                                        *)

LEMMA Parameters ==
  /\ MaxBatch \in Nat /\ MaxArrivals \in Nat /\ MaxPermissions \in Nat /\ MaxFails \in Nat
  /\ None \notin Sources /\ None \notin Operation
BY OutboundAssumption

LEMMA BoxFields ==
  ASSUME NEW k \in Nat, NEW b \in Box(k)
  PROVE  /\ b.queue \in [Sources -> SUBSET (1..k)] /\ b.bounds \subseteq 1..k
         /\ b.blocked \in [Sources -> 0..MaxPermissions] /\ b.timer \in BOOLEAN
         /\ \A f \in b.batches : f.items \subseteq 1..k /\ f.at \in 0..k
         /\ \A p \in b.perms : p.no \in 1..k /\ p.decision \in Decisions /\ p.prefix \subseteq 1..k
BY DEF Box

\* What an operation that only takes away leaves is as it was.
Shrinks(b, c, h, i) ==
  /\ \A s \in Sources : c.queue[s] \subseteq b.queue[s]
  /\ c.batches \subseteq b.batches /\ c.bounds \subseteq b.bounds
  /\ \A p \in c.perms : \E q \in b.perms : p.no = q.no /\ p.prefix \subseteq q.prefix
  /\ \A p, q \in c.perms : p.no = q.no => p = q
  /\ i \subseteq Numbers(b) \union h
  /\ c.blocked = b.blocked

LEMMA ShrinkKeeps ==
  ASSUME NEW e, NEW b, NEW c, NEW h, NEW i, Good(e, b, h), Shrinks(b, c, h, i), Fronted(e, c, i),
         \A p \in c.perms, q \in i : p.no # q /\ (e[q].src = e[p.no].src => q < p.no)
  PROVE  Good(e, c, i)
<1>1. Numbers(c) \union i \subseteq Numbers(b) \union h
  BY DEF Shrinks, Numbers
<1>2. Sorted(e, c)
  BY DEF Good, Shrinks, Sorted
<1>3. Batched(e, c)
  BY DEF Good, Shrinks, Batched
<1>4. Requested(e, c, i)
  BY <1>1 DEF Good, Shrinks, Requested
<1>5. Blocks(e, c, i)
  BY <1>1 DEF Good, Shrinks, Blocks
<1>6. Fences(e, c)
  BY DEF Good, Shrinks, Fences
<1> QED BY <1>2, <1>3, <1>4, <1>5, <1>6 DEF Good

\* With the boundaries and the worker's request untouched.
LEMMA ShrinkFronts ==
  ASSUME NEW e, NEW b, NEW c, NEW h, Good(e, b, h), Shrinks(b, c, h, h), c.bounds = b.bounds
  PROVE  Good(e, c, h)
<1>1. Fronted(e, c, h)
  BY DEF Good, Shrinks, Fronted
<1>2. \A p \in c.perms, q \in h : p.no # q /\ (e[q].src = e[p.no].src => q < p.no)
  BY DEF Good, Shrinks, Requested
<1> QED BY <1>1, <1>2, ShrinkKeeps

\* What is active is of sources that no request blocks.
LEMMA ActiveFacts ==
  ASSUME NEW e, NEW k \in Nat, NEW b \in Box(k), NEW h, Sorted(e, b), Blocks(e, b, h)
  PROVE  /\ Active(b) \subseteq 1..k
         /\ \A a \in Active(b) : /\ e[a].kind = "event" /\ e[a].src \in Sources /\ a \in b.queue[e[a].src]
                                 /\ b.blocked[e[a].src] = 0
                                 /\ \A q \in Numbers(b) \union h : e[q].src # e[a].src
         /\ \A s \in Sources : IF b.blocked[s] = 0 THEN b.queue[s] \subseteq Active(b)
                               ELSE b.queue[s] \intersect Active(b) = {}
<1>1. Active(b) \subseteq 1..k
  BY BoxFields DEF Active
<1>2. ASSUME NEW a \in Active(b)
      PROVE  /\ e[a].kind = "event" /\ e[a].src \in Sources /\ a \in b.queue[e[a].src]
             /\ b.blocked[e[a].src] = 0
             /\ \A q \in Numbers(b) \union h : e[q].src # e[a].src
  <2>1. PICK s \in Sources : b.blocked[s] = 0 /\ a \in b.queue[s]
    BY DEF Active
  <2>2. e[a].kind = "event" /\ e[a].src = s
    BY <2>1 DEF Sorted
  <2> QED BY <2>1, <2>2 DEF Blocks
<1>3. ASSUME NEW s \in Sources
      PROVE  IF b.blocked[s] = 0 THEN b.queue[s] \subseteq Active(b) ELSE b.queue[s] \intersect Active(b) = {}
  <2>1. \A a \in b.queue[s] : e[a].src = s
    BY DEF Sorted
  <2>2. CASE b.blocked[s] = 0
    BY <2>2 DEF Active
  <2>3. CASE b.blocked[s] # 0
    BY <1>2, <2>1, <2>3
  <2> QED BY <2>2, <2>3
<1> QED BY <1>1, <1>2, <1>3

\* A box with another timer, and the parts of a box with items taken from its queues.
LEMMA RescheduleIs ==
  ASSUME NEW k \in Nat, NEW b \in Box(k)
  PROVE  LET c == Reschedule(b)
         IN /\ c \in Box(k) /\ c.queue = b.queue /\ c.batches = b.batches /\ c.bounds = b.bounds
            /\ c.perms = b.perms /\ c.blocked = b.blocked
BY DEF Reschedule, Box

LEMMA TakeIs ==
  ASSUME NEW k \in Nat, NEW b \in Box(k), NEW items
  PROVE  LET c == Take(b, items)
         IN /\ c \in Box(k) /\ c.batches = b.batches /\ c.bounds = b.bounds
            /\ c.perms = b.perms /\ c.blocked = b.blocked /\ c.timer = b.timer
            /\ \A s \in Sources : c.queue[s] = b.queue[s] \ items
<1>1. [s \in Sources |-> b.queue[s] \ items] \in [Sources -> SUBSET (1..k)]
  BY BoxFields
<1> QED BY <1>1 DEF Take, Box

LEMMA FreezeIs ==
  ASSUME NEW k \in Nat, NEW b \in Box(k), Active(b) # {}, Active(b) \subseteq 1..k
  PROVE  LET c == Freeze(b, k)
         IN /\ c \in Box(k) /\ c.bounds = b.bounds /\ c.perms = b.perms /\ c.blocked = b.blocked
            /\ c.batches = b.batches \union {[items |-> Active(b), at |-> k]}
            /\ \A s \in Sources : c.queue[s] = b.queue[s] \ Active(b)
<1> DEFINE t == Take(b, Active(b))
           u == [t EXCEPT !.batches = @ \union {InLine(Active(b), k)}]
<1>1. /\ t \in Box(k) /\ t.batches = b.batches /\ t.bounds = b.bounds
      /\ t.perms = b.perms /\ t.blocked = b.blocked /\ t.timer = b.timer
      /\ \A s \in Sources : t.queue[s] = b.queue[s] \ Active(b)
  BY TakeIs
<1>2. Freeze(b, k) = Reschedule(u)
  BY DEF Freeze
<1> HIDE DEF t
<1>3. InLine(Active(b), k) \in [items : SUBSET (1..k), at : 0..k]
  BY DEF InLine
<1>4. /\ u \in Box(k) /\ u.batches = t.batches \union {InLine(Active(b), k)} /\ u.bounds = t.bounds
      /\ u.perms = t.perms /\ u.blocked = t.blocked /\ u.queue = t.queue
  BY <1>1, <1>3 DEF Box
<1> HIDE DEF u
<1> QED BY <1>1, <1>2, <1>4, RescheduleIs DEF InLine

\* Membership in Pending, place by place.
Within(b, x) ==
  \/ \E s \in Sources : x \in b.queue[s]
  \/ \E f \in b.batches : x \in f.items
  \/ x \in b.bounds
  \/ \E p \in b.perms : x \in p.prefix \/ x = p.no

LEMMA PendingIs ==
  ASSUME NEW b, NEW x
  PROVE  x \in Pending(b) <=> Within(b, x)
<1> DEFINE U == UNION {b.queue[s] : s \in Sources}
           V == UNION {f.items : f \in b.batches}
           W == UNION {p.prefix \union {p.no} : p \in b.perms}
<1>1. x \in U <=> \E s \in Sources : x \in b.queue[s]
  OBVIOUS
<1>2. x \in V <=> \E f \in b.batches : x \in f.items
  OBVIOUS
<1>3. x \in W <=> \E p \in b.perms : x \in p.prefix \/ x = p.no
  OBVIOUS
<1>4. x \in Pending(b) <=> x \in U \/ x \in V \/ x \in b.bounds \/ x \in W
  BY DEF Pending
<1> HIDE DEF U, V, W
<1> QED BY <1>1, <1>2, <1>3, <1>4 DEF Within

\* Freezing moves what is active behind all boundaries and loses nothing.
LEMMA FreezeKeeps ==
  ASSUME NEW e, NEW k \in Nat, NEW b \in Box(k), NEW h, Good(e, b, h)
  PROVE  LET c == Freeze(b, k)
         IN /\ c \in Box(k) /\ Good(e, c, h) /\ Pending(c) = Pending(b)
            /\ c.bounds = b.bounds /\ c.perms = b.perms /\ c.blocked = b.blocked
            /\ \A s \in Sources : c.queue[s] \subseteq b.queue[s] /\ (b.blocked[s] = 0 => c.queue[s] = {})
<1> DEFINE c == Freeze(b, k)
           A == Active(b)
           new == [items |-> A, at |-> k]
<1>0. /\ A \subseteq 1..k
      /\ \A a \in A : /\ e[a].kind = "event" /\ e[a].src \in Sources /\ a \in b.queue[e[a].src]
                      /\ b.blocked[e[a].src] = 0
                      /\ \A q \in Numbers(b) \union h : e[q].src # e[a].src
      /\ \A s \in Sources : IF b.blocked[s] = 0 THEN b.queue[s] \subseteq A ELSE b.queue[s] \intersect A = {}
  BY ZenonT(60), ActiveFacts DEF Good
<1>1. CASE A = {}
  <2>1. c = Reschedule(b)
    BY <1>1 DEF Freeze
  <2>2. /\ c \in Box(k) /\ c.queue = b.queue /\ c.batches = b.batches /\ c.bounds = b.bounds
        /\ c.perms = b.perms /\ c.blocked = b.blocked
    BY <2>1, RescheduleIs
  <2> HIDE DEF c, A
  <2>3. Shrinks(b, c, h, h)
    BY <2>2 DEF Shrinks, Good, Requested
  <2>4. Good(e, c, h)
    BY <2>2, <2>3, ShrinkFronts
  <2>5. Pending(c) = Pending(b)
    BY <2>2 DEF Pending
  <2>6. \A s \in Sources : c.queue[s] \subseteq b.queue[s] /\ (b.blocked[s] = 0 => c.queue[s] = {})
    BY <1>0, <1>1, <2>2
  <2> QED BY <2>2, <2>4, <2>5, <2>6 DEF c
<1>2. CASE A # {}
  <2>1. /\ c \in Box(k) /\ c.bounds = b.bounds /\ c.perms = b.perms /\ c.blocked = b.blocked
        /\ c.batches = b.batches \union {new}
        /\ \A s \in Sources : c.queue[s] = b.queue[s] \ A
    BY <1>0, <1>2, FreezeIs
  <2>2. new.items = A /\ new.at = k
    OBVIOUS
  <2>3. \A s \in Sources : c.queue[s] \subseteq b.queue[s] /\ (b.blocked[s] = 0 => c.queue[s] = {})
    BY <1>0, <2>1
  <2>4. \A a \in A : \A s \in Sources : e[a].src = s => c.queue[s] = {}
    BY <1>0, <2>3
  <2> HIDE DEF c, A, new
  <2>5. Sorted(e, c)
    <3>1. ASSUME NEW a \in A PROVE e[a].kind = "event" /\ a <= k
      <4>1. a \in 1..k
        BY <1>0
      <4> QED BY <1>0, <4>1
    <3> QED BY <2>1, <2>2, <3>1 DEF Good, Sorted
  <2>6. Batched(e, c)
    <3>1. \A s \in Sources, f \in c.batches : \A a \in f.items : e[a].src = s => \A x \in c.queue[s] : f.at < x
      BY <2>1, <2>2, <2>4 DEF Good, Batched
    <3>2. ASSUME NEW f \in b.batches, NEW a \in f.items, NEW x \in A, e[a].src = e[x].src
          PROVE  f.at < k /\ a < x
      <4>1. f.at < x /\ a <= f.at /\ x \in 1..k
        BY <1>0, <3>2 DEF Good, Batched, Sorted
      <4>2. f.at \in 0..k /\ a \in 1..k
        BY BoxFields
      <4> QED BY <4>1, <4>2
    <3>3. ASSUME NEW f \in c.batches, NEW g \in c.batches, f # g, NEW a \in f.items, NEW x \in g.items, e[a].src = e[x].src
          PROVE  f.at # g.at /\ (f.at < g.at => a < x)
      <4>1. \A r \in b.batches : r.at \in 0..k
        BY BoxFields
      <4>2. CASE f \in b.batches /\ g \in b.batches
        BY <3>3, <4>2 DEF Good, Batched
      <4>3. CASE f \in b.batches /\ g = new
        BY <2>2, <3>2, <3>3, <4>1, <4>3
      <4>4. CASE f = new /\ g \in b.batches
        BY <2>2, <3>2, <3>3, <4>1, <4>4
      <4> QED BY <2>1, <3>3, <4>2, <4>3, <4>4
    <3> QED BY <3>1, <3>3 DEF Batched
  <2>7. Numbers(c) = Numbers(b)
    BY <2>1 DEF Numbers
  <2>8. Requested(e, c, h)
    BY <2>1, <2>7 DEF Good, Requested
  <2>9. Fronted(e, c, h)
    <3>1. \A p \in c.perms : \A a \in A : e[a].src # e[p.no].src
      BY <1>0, <2>1 DEF Numbers
    <3>2. \A q \in h : \A a \in A : e[a].src # e[q].src
      BY <1>0
    <3> QED BY <2>1, <2>2, <3>1, <3>2 DEF Good, Fronted
  <2>10. Blocks(e, c, h)
    BY <2>1, <2>7 DEF Good, Blocks
  <2>11. Fences(e, c)
    <3>1. \A n \in b.bounds : \A a \in A : a < n => a \in e[n].held
      BY <1>0 DEF Good, Fences
    <3> QED BY <2>1, <2>2, <3>1 DEF Good, Fences
  <2>12. Pending(c) = Pending(b)
    <3>1. ASSUME NEW x PROVE x \in Pending(c) <=> x \in Pending(b)
      <4>0. \A a \in A : e[a].src \in Sources /\ a \in b.queue[e[a].src]
        BY <1>0
      <4>1. (\E s \in Sources : x \in b.queue[s]) <=> x \in A \/ \E s \in Sources : x \in c.queue[s]
        BY <2>1, <4>0
      <4>2. (\E f \in c.batches : x \in f.items) <=> x \in A \/ \E f \in b.batches : x \in f.items
        BY <2>1, <2>2
      <4>3. (x \in Pending(b) <=> Within(b, x)) /\ (x \in Pending(c) <=> Within(c, x))
        BY PendingIs
      <4> QED BY <2>1, <4>1, <4>2, <4>3 DEF Within
    <3> QED BY <3>1
  <2> QED BY <2>1, <2>3, <2>5, <2>6, <2>8, <2>9, <2>10, <2>11, <2>12 DEF Good, c
<1> QED BY <1>1, <1>2

\* _freeze_if_triggered_locked freezes or not.
LEMMA FreezeOrNotKeeps ==
  ASSUME NEW e, NEW k \in Nat, NEW b \in Box(k), NEW h, Good(e, b, h), NEW c, c = Freeze(b, k) \/ c = Reschedule(b)
  PROVE  /\ c \in Box(k) /\ Good(e, c, h) /\ Pending(c) = Pending(b)
         /\ c.bounds = b.bounds /\ c.perms = b.perms /\ c.blocked = b.blocked
<1>1. CASE c = Freeze(b, k)
  BY <1>1, FreezeKeeps
<1>2. CASE c = Reschedule(b)
  <2>1. /\ c \in Box(k) /\ c.queue = b.queue /\ c.batches = b.batches /\ c.bounds = b.bounds
        /\ c.perms = b.perms /\ c.blocked = b.blocked
    BY <1>2, RescheduleIs
  <2>2. Shrinks(b, c, h, h)
    BY <2>1 DEF Shrinks, Good, Requested
  <2>3. Good(e, c, h)
    BY <2>1, <2>2, ShrinkFronts
  <2> QED BY <2>1, <2>3 DEF Pending
<1> QED BY <1>1, <1>2

\* Another arrival changes nothing that is said of the earlier ones.
Longer(d, e, k) == \A a \in 1..k : e[a] = d[a]

LEMMA GoodLonger ==
  ASSUME NEW d, NEW e, NEW k \in Nat, Longer(d, e, k), NEW b \in Box(k), NEW h, h \subseteq 1..k, Good(d, b, h)
  PROVE  Good(e, b, h) /\ b \in Box(k + 1)
<1>1. /\ \A s \in Sources : \A a \in b.queue[s] : a \in 1..k
      /\ b.bounds \subseteq 1..k /\ Numbers(b) \union h \subseteq 1..k
      /\ \A f \in b.batches : \A a \in f.items : a \in 1..k
      /\ \A p \in b.perms : p.no \in 1..k /\ \A a \in p.prefix : a \in 1..k
  BY BoxFields DEF Numbers
<1>2. Sorted(e, b)
  BY <1>1 DEF Good, Sorted, Longer
<1>3. Batched(e, b)
  BY <1>1 DEF Good, Batched, Longer
<1>4. Requested(e, b, h)
  <2>1. \A q \in Numbers(b) \union h : e[q] = d[q]
    BY <1>1 DEF Longer
  <2>2. \A p \in b.perms : e[p.no] = d[p.no]
    BY <1>1 DEF Longer
  <2> QED BY <2>1, <2>2 DEF Good, Requested
<1>5. Fronted(e, b, h)
  BY <1>1 DEF Good, Fronted, Longer
<1>6. Blocks(e, b, h)
  BY <1>1 DEF Good, Blocks, Longer
<1>7. Fences(e, b)
  BY <1>1 DEF Good, Fences, Longer
<1>8. b \in Box(k + 1)
  <2>1. 1..k \subseteq 1..(k + 1) /\ 0..k \subseteq 0..(k + 1)
    OBVIOUS
  <2> QED BY <2>1 DEF Box
<1> QED BY <1>2, <1>3, <1>4, <1>5, <1>6, <1>7, <1>8 DEF Good

\* An event is collected.
LEMMA CollectKeeps ==
  ASSUME NEW e, NEW k \in Nat, NEW b \in Box(k), NEW h, h \subseteq 1..k, Good(e, b, h),
         NEW s \in Sources, e[k + 1].kind = "event", e[k + 1].src = s
  PROVE  LET c == [b EXCEPT !.queue[s] = @ \union {k + 1}]
         IN /\ c \in Box(k + 1) /\ Good(e, c, h) /\ Pending(c) = Pending(b) \union {k + 1}
            /\ c.perms = b.perms /\ c.blocked = b.blocked /\ c.bounds = b.bounds
<1> DEFINE c == [b EXCEPT !.queue[s] = @ \union {k + 1}]
<1>0. Longer(e, e, k)
  BY DEF Longer
<1>1. b \in Box(k + 1)
  BY <1>0, GoodLonger
<1>2. /\ c \in Box(k + 1) /\ c.batches = b.batches /\ c.bounds = b.bounds /\ c.perms = b.perms
      /\ c.blocked = b.blocked
      /\ \A t \in Sources : c.queue[t] = IF t = s THEN b.queue[s] \union {k + 1} ELSE b.queue[t]
  BY SMTT(60), <1>1 DEF Box
<1>3. /\ \A f \in b.batches : f.at < k + 1
      /\ \A q \in Numbers(b) \union h : q < k + 1
      /\ \A n \in b.bounds : ~(k + 1 < n)
  <2>1. Numbers(b) \union h \subseteq 1..k
    BY BoxFields DEF Numbers
  <2>2. \A f \in b.batches : f.at \in 0..k
    BY BoxFields
  <2>3. b.bounds \subseteq 1..k
    BY BoxFields
  <2> QED BY <2>1, <2>2, <2>3
<1>4. Numbers(c) = Numbers(b)
  BY <1>2 DEF Numbers
<1> HIDE DEF c
<1>5. Sorted(e, c)
  BY <1>2 DEF Good, Sorted
<1>6. Batched(e, c)
  BY <1>2, <1>3 DEF Good, Batched
<1>7. Requested(e, c, h)
  BY <1>2, <1>3, <1>4 DEF Good, Requested
<1>8. Fronted(e, c, h)
  BY <1>2, <1>4 DEF Good, Fronted
<1>9. Blocks(e, c, h)
  BY <1>2, <1>4 DEF Good, Blocks
<1>10. Fences(e, c)
  BY <1>2, <1>3 DEF Good, Fences
<1>11. Pending(c) = Pending(b) \union {k + 1}
  <2>1. ASSUME NEW x PROVE x \in Pending(c) <=> x \in Pending(b) \/ x = k + 1
    <3>1. (x \in Pending(b) <=> Within(b, x)) /\ (x \in Pending(c) <=> Within(c, x))
      BY PendingIs
    <3>2. (\E t \in Sources : x \in c.queue[t]) <=> x = k + 1 \/ \E t \in Sources : x \in b.queue[t]
      BY <1>2
    <3> QED BY <1>2, <3>1, <3>2 DEF Within
  <2> QED BY <2>1
<1> QED BY <1>2, <1>5, <1>6, <1>7, <1>8, <1>9, <1>10, <1>11 DEF Good, c

\* A boundary is put in line when nothing is active.
LEMMA BoundKeeps ==
  ASSUME NEW e, NEW k \in Nat, NEW b \in Box(k), NEW h, h \subseteq 1..k, Good(e, b, h),
         e[k + 1].kind \in Boundaries,
         \A s \in Sources : \A a \in b.queue[s] : a \in e[k + 1].held
  PROVE  LET c == [b EXCEPT !.bounds = @ \union {k + 1}]
         IN /\ c \in Box(k + 1) /\ Good(e, c, h) /\ Pending(c) = Pending(b) \union {k + 1}
            /\ c.perms = b.perms /\ c.blocked = b.blocked /\ c.bounds = b.bounds \union {k + 1}
<1> DEFINE c == [b EXCEPT !.bounds = @ \union {k + 1}]
<1>0. Longer(e, e, k)
  BY DEF Longer
<1>1. b \in Box(k + 1)
  BY <1>0, GoodLonger
<1>2. /\ c \in Box(k + 1) /\ c.batches = b.batches /\ c.bounds = b.bounds \union {k + 1} /\ c.perms = b.perms
      /\ c.blocked = b.blocked /\ c.queue = b.queue
  BY <1>1 DEF Box
<1>3. /\ \A f \in b.batches : ~(k + 1 <= f.at)
      /\ \A p \in b.perms : ~(k + 1 < p.no)
  <2>1. \A p \in b.perms : p.no \in 1..k
    BY BoxFields
  <2>2. \A f \in b.batches : f.at \in 0..k
    BY BoxFields
  <2> QED BY <2>1, <2>2
<1>4. Numbers(c) = Numbers(b)
  BY <1>2 DEF Numbers
<1> HIDE DEF c
<1>5. Sorted(e, c)
  BY <1>2 DEF Good, Sorted
<1>6. Batched(e, c)
  BY <1>2 DEF Good, Batched
<1>7. Requested(e, c, h)
  BY <1>2, <1>4 DEF Good, Requested
<1>8. Fronted(e, c, h)
  BY <1>2, <1>4 DEF Good, Fronted
<1>9. Blocks(e, c, h)
  BY <1>2, <1>4 DEF Good, Blocks
<1>10. Fences(e, c)
  BY <1>2, <1>3 DEF Good, Fences
<1>11. Pending(c) = Pending(b) \union {k + 1}
  <2>1. ASSUME NEW x PROVE x \in Pending(c) <=> x \in Pending(b) \/ x = k + 1
    <3>1. (x \in Pending(b) <=> Within(b, x)) /\ (x \in Pending(c) <=> Within(c, x))
      BY PendingIs
    <3> QED BY <1>2, <3>1 DEF Within
  <2> QED BY <2>1
<1> QED BY <1>2, <1>5, <1>6, <1>7, <1>8, <1>9, <1>10, <1>11 DEF Good, c

\* A permission request takes what it must wait for out of the queue and the batches.
LEMMA PrefixFacts ==
  ASSUME NEW e, NEW k \in Nat, Longer(evs, e, k), NEW b \in Box(k), NEW h, Good(e, b, h), NEW s \in Sources
  PROVE  /\ WithoutPrefix(b, s) \in Box(k) /\ Prefix(b, s) \subseteq 1..k
         /\ \A a \in Prefix(b, s) :
              a \in b.queue[s] \/ \E f \in Reachable(b) : a \in f.items /\ e[a].src = s
         /\ \A f \in WithoutPrefix(b, s).batches : \E g \in b.batches :
              /\ f.items \subseteq g.items /\ f.at = g.at
              /\ IF g \in Reachable(b) THEN f.items = {a \in g.items : e[a].src # s} ELSE f = g
         /\ \A g \in b.batches : \A a \in g.items :
              a \in Prefix(b, s) \/ \E f \in WithoutPrefix(b, s).batches : a \in f.items
         /\ LET c == WithoutPrefix(b, s)
            IN /\ \A t \in Sources : c.queue[t] = IF t = s THEN {} ELSE b.queue[t]
               /\ c.bounds = b.bounds /\ c.perms = b.perms /\ c.blocked = b.blocked /\ c.timer = b.timer
<1> DEFINE Left(g) == [g EXCEPT !.items = @ \ FromSource(s, g.items)]
           R == Reachable(b)
           L == {f \in {Left(g) : g \in R} : f.items # {}}
           c == WithoutPrefix(b, s)
<1>1. /\ b.queue \in [Sources -> SUBSET (1..k)]
      /\ b.batches \subseteq [items : SUBSET (1..k), at : 0..k]
  BY DEF Box
<1>2. R \subseteq b.batches
  BY DEF Reachable
<1>3. ASSUME NEW g \in b.batches PROVE FromSource(s, g.items) = {a \in g.items : e[a].src = s}
  <2>1. \A a \in g.items : evs[a] = e[a]
    BY <1>1 DEF Longer
  <2> QED BY <2>1 DEF FromSource
<1>4. ASSUME NEW g \in b.batches
      PROVE  /\ Left(g).items = {a \in g.items : e[a].src # s} /\ Left(g).at = g.at
             /\ Left(g) \in [items : SUBSET (1..k), at : 0..k]
  BY <1>1, <1>3
<1>5. L = Retained(b, s)
  BY DEF Retained
<1>6. c = [b EXCEPT !.queue[s] = {}, !.batches = (@ \ R) \union L]
  BY <1>5 DEF WithoutPrefix
<1> HIDE DEF L
<1>7. L \subseteq [items : SUBSET (1..k), at : 0..k]
  BY <1>2, <1>4 DEF L
<1>8. /\ c \in Box(k) /\ c.batches = (b.batches \ R) \union L
      /\ \A t \in Sources : c.queue[t] = IF t = s THEN {} ELSE b.queue[t]
      /\ c.bounds = b.bounds /\ c.perms = b.perms /\ c.blocked = b.blocked /\ c.timer = b.timer
  BY ZenonT(60), <1>1, <1>6, <1>7 DEF Box
<1>9. ASSUME NEW a \in Prefix(b, s)
      PROVE  a \in b.queue[s] \/ \E f \in R : a \in f.items /\ e[a].src = s
  BY <1>2, <1>3 DEF Prefix
<1>10. Prefix(b, s) \subseteq 1..k
  BY <1>1, <1>2, <1>9
<1>11. ASSUME NEW f \in c.batches
       PROVE  \E g \in b.batches :
                /\ f.items \subseteq g.items /\ f.at = g.at
                /\ IF g \in R THEN f.items = {a \in g.items : e[a].src # s} ELSE f = g
  <2>1. CASE f \in b.batches \ R
    BY <2>1
  <2>2. CASE f \in L
    <3>1. PICK g \in R : f = Left(g)
      BY <2>2 DEF L
    <3> QED BY <1>2, <1>4, <3>1
  <2> QED BY <1>8, <2>1, <2>2
<1>12. ASSUME NEW g \in b.batches, NEW a \in g.items
       PROVE  a \in Prefix(b, s) \/ \E f \in c.batches : a \in f.items
  <2>1. CASE g \notin R
    BY <1>8, <2>1
  <2>2. CASE g \in R /\ e[a].src = s
    <3>1. a \in FromSource(s, g.items)
      BY <1>3, <2>2
    <3> QED BY <2>2, <3>1 DEF Prefix
  <2>3. CASE g \in R /\ e[a].src # s
    <3>1. a \in Left(g).items
      BY <1>4, <2>3
    <3>2. Left(g) \in L
      BY <2>3, <3>1 DEF L
    <3> QED BY <1>8, <3>1, <3>2
  <2> QED BY <2>1, <2>2, <2>3
<1> HIDE DEF c, R
<1> QED BY <1>8, <1>9, <1>10, <1>11, <1>12 DEF c, R

\* A permission request arrives: e are the events with it, w the box without its prefix.
Asked(b, s, no) ==
  [WithoutPrefix(b, s) EXCEPT !.perms = @ \union {[no |-> no, decision |-> "open", prefix |-> Prefix(b, s)]},
                              !.blocked[s] = @ + 1]

Known(h, k) == h \subseteq 1..k

Asks(e, no, s) == e[no].kind = "permission" /\ e[no].src = s

Room(b, s) == b.blocked[s] < MaxPermissions

OneMore(b, c, s) ==
  c.bounds = b.bounds /\ \A t \in Sources : c.blocked[t] = IF t = s THEN b.blocked[s] + 1 ELSE b.blocked[t]

LEMMA AskKeeps ==
  ASSUME NEW e, NEW k \in Nat, Longer(evs, e, k), NEW b \in Box(k), NEW h, Known(h, k), Good(e, b, h),
         NEW s \in Sources, NEW no, no = k + 1, Asks(e, no, s), Room(b, s)
  PROVE  LET c == Asked(b, s, no)
         IN /\ c \in Box(no) /\ Good(e, c, h) /\ Pending(c) = Pending(b) \union {no}
            /\ Numbers(c) = Numbers(b) \union {no} /\ OneMore(b, c, s)
<1> DEFINE w == WithoutPrefix(b, s)
           P == Prefix(b, s)
           new == [no |-> k + 1, decision |-> "open", prefix |-> P]
           c == Asked(b, s, k + 1)
           R == Reachable(b)
<1>0. e[k + 1].kind = "permission" /\ e[k + 1].src = s /\ h \subseteq 1..k
  BY DEF Asks, Known
<1>1. w \in Box(k) /\ P \subseteq 1..k
  BY PrefixFacts
<1>2. /\ \A t \in Sources : w.queue[t] = IF t = s THEN {} ELSE b.queue[t]
      /\ w.bounds = b.bounds /\ w.perms = b.perms /\ w.blocked = b.blocked
  BY PrefixFacts
<1>3. \A a \in P : a \in b.queue[s] \/ \E f \in R : a \in f.items /\ e[a].src = s
  BY PrefixFacts
<1>4. \A f \in w.batches : \E g \in b.batches :
        /\ f.items \subseteq g.items /\ f.at = g.at
        /\ IF g \in R THEN f.items = {a \in g.items : e[a].src # s} ELSE f = g
  BY PrefixFacts
<1>5. \A g \in b.batches : \A a \in g.items : a \in P \/ \E f \in w.batches : a \in f.items
  BY PrefixFacts
<1>6. w \in Box(k + 1)
  <2>1. 1..k \subseteq 1..(k + 1) /\ 0..k \subseteq 0..(k + 1)
    OBVIOUS
  <2> QED BY <1>1, <2>1 DEF Box
<1>7. /\ R \subseteq b.batches /\ \A f \in R, n \in b.bounds : n <= f.at
      /\ \A f \in b.batches : f \notin R => \E n \in b.bounds : ~(n <= f.at)
  BY DEF Reachable
<1>8. new \in [no : 1..(k + 1), decision : Decisions, prefix : SUBSET (1..(k + 1))]
  <2>1. P \subseteq 1..(k + 1) /\ k + 1 \in 1..(k + 1)
    BY <1>1
  <2> QED BY <2>1 DEF Decisions
<1> HIDE DEF w, P, R
<1>9. b.blocked \in [Sources -> 0..MaxPermissions]
  BY BoxFields
<1>10. /\ c.queue = w.queue /\ c.batches = w.batches /\ c.bounds = w.bounds /\ c.perms = w.perms \union {new}
       /\ c.timer = w.timer /\ c.blocked = [w.blocked EXCEPT ![s] = @ + 1]
       /\ c = [queue |-> c.queue, batches |-> c.batches, bounds |-> c.bounds, perms |-> c.perms,
               blocked |-> c.blocked, timer |-> c.timer]
  <2>1. c = [w EXCEPT !.perms = @ \union {new}, !.blocked[s] = @ + 1]
    BY DEF Asked, w, P
  <2> HIDE DEF c, new
  <2> QED BY <1>6, <2>1 DEF Box
<1>11. /\ c.blocked \in [Sources -> 0..MaxPermissions]
       /\ \A t \in Sources : c.blocked[t] = IF t = s THEN b.blocked[s] + 1 ELSE b.blocked[t]
  <2>1. b.blocked[s] + 1 \in 0..MaxPermissions
    BY <1>9, Parameters DEF Room
  <2> QED BY <1>2, <1>9, <1>10, <2>1
<1>12. c \in Box(k + 1)
  <2> HIDE DEF c
  <2> QED BY <1>6, <1>8, <1>10, <1>11 DEF Box
<1>13. new.no = k + 1 /\ new.prefix = P
  OBVIOUS
<1>14. /\ \A t \in Sources : c.queue[t] = IF t = s THEN {} ELSE b.queue[t]
       /\ c.bounds = b.bounds /\ c.perms = b.perms \union {new} /\ c.batches = w.batches
  BY <1>2, <1>10
<1> HIDE DEF c, new
<1>15. Numbers(c) = Numbers(b) \union {k + 1}
  BY <1>13, <1>14 DEF Numbers
<1>16. /\ \A q \in Numbers(b) \union h : q \in 1..k
       /\ \A p \in b.perms : p.no \in 1..k
       /\ \A f \in b.batches : f.at \in 0..k /\ f.items \subseteq 1..k
       /\ b.bounds \subseteq 1..k
  BY <1>0, BoxFields DEF Numbers
<1>17. \A a \in P : e[a].kind = "event" /\ e[a].src = s /\ a \in 1..k
  <2>1. \A a \in b.queue[s] : e[a].kind = "event" /\ e[a].src = s
    BY DEF Good, Sorted
  <2>2. \A f \in b.batches : \A a \in f.items : e[a].kind = "event"
    BY DEF Good, Sorted
  <2> QED BY <1>1, <1>3, <1>7, <2>1, <2>2
<1>18. Sorted(e, c)
  <2>1. \A a \in P : a < k + 1
    BY <1>17
  <2>2. e[k + 1].kind = "permission" /\ e[k + 1].src = s
    BY <1>0
  <2>3. \A p \in c.perms :
          /\ e[p.no].kind = "permission"
          /\ \A a \in p.prefix : e[a].kind = "event" /\ e[a].src = e[p.no].src /\ a < p.no
    BY <1>13, <1>14, <1>17, <2>1, <2>2 DEF Good, Sorted
  <2>4. \A f \in c.batches : \A a \in f.items : e[a].kind = "event" /\ a <= f.at
    BY <1>4, <1>14 DEF Good, Sorted
  <2>5. \A t \in Sources : \A a \in c.queue[t] : e[a].kind = "event" /\ e[a].src = t
    BY <1>14 DEF Good, Sorted
  <2>6. \A n \in c.bounds : e[n].kind \in Boundaries
    BY <1>14 DEF Good, Sorted
  <2> QED BY <2>3, <2>4, <2>5, <2>6 DEF Sorted
<1>19. Batched(e, c)
  <2>1. \A t \in Sources, f \in c.batches : \A a \in f.items : e[a].src = t => \A x \in c.queue[t] : f.at < x
    BY <1>4, <1>14 DEF Good, Batched
  <2>2. ASSUME NEW f \in c.batches, NEW g \in c.batches, f # g, NEW a \in f.items, NEW x \in g.items, e[a].src = e[x].src
        PROVE  f.at # g.at /\ (f.at < g.at => a < x)
    <3>1. PICK f0 \in b.batches :
            /\ f.items \subseteq f0.items /\ f.at = f0.at
            /\ IF f0 \in R THEN f.items = {y \in f0.items : e[y].src # s} ELSE f = f0
      BY <1>4, <1>14
    <3>2. PICK g0 \in b.batches :
            /\ g.items \subseteq g0.items /\ g.at = g0.at
            /\ IF g0 \in R THEN g.items = {y \in g0.items : e[y].src # s} ELSE g = g0
      BY <1>4, <1>14
    <3>3. f0 # g0
      <4>1. f \in [items : SUBSET (1..(k + 1)), at : 0..(k + 1)] /\ g \in [items : SUBSET (1..(k + 1)), at : 0..(k + 1)]
        BY <1>12 DEF Box
      <4>2. SUFFICES ASSUME f0 = g0 PROVE f.items = g.items /\ f.at = g.at
        BY <2>2, <4>1
      <4> QED BY <3>1, <3>2, <4>2
    <3> QED BY <2>2, <3>1, <3>2, <3>3 DEF Good, Batched
  <2> QED BY <2>1, <2>2 DEF Batched
<1>20. Requested(e, c, h)
  <2>1. \A t \in Sources, q \in Numbers(c) \union h : e[q].src = t => \A a \in c.queue[t] : q < a
    BY <1>0, <1>14, <1>15 DEF Good, Requested
  <2>2. ASSUME NEW q \in Numbers(b) \union h, e[q].src = s, NEW a \in P PROVE q < a
    <3>1. CASE a \in b.queue[s]
      BY <2>2, <3>1 DEF Good, Requested
    <3>2. ASSUME NEW f \in R, a \in f.items, e[a].src = s PROVE FALSE
      <4>1. CASE q \in h
        BY <1>7, <2>2, <3>2, <4>1 DEF Good, Fronted
      <4>2. CASE q \in Numbers(b)
        <5>1. PICK p \in b.perms : q = p.no
          BY <4>2 DEF Numbers
        <5>2. PICK n \in b.bounds : f.at < n
          BY <1>7, <2>2, <3>2, <5>1 DEF Good, Fronted
        <5> QED BY <1>7, <1>16, <5>2
      <4> QED BY <4>1, <4>2
    <3> QED BY <1>3, <3>1, <3>2
  <2>3. \A p \in c.perms, q \in Numbers(c) \union h :
          e[q].src = e[p.no].src /\ q < p.no => \A a \in p.prefix : q < a
    <3>1. ASSUME NEW p \in b.perms, NEW q \in Numbers(c) \union h, e[q].src = e[p.no].src, q < p.no, NEW a \in p.prefix
          PROVE  q < a
      <4>1. q # k + 1
        BY <1>16, <3>1
      <4> QED BY <1>15, <3>1, <4>1 DEF Good, Requested
    <3>2. ASSUME NEW q \in Numbers(c) \union h, e[q].src = e[new.no].src, q < new.no, NEW a \in new.prefix
          PROVE  q < a
      <4>1. q # k + 1
        BY <1>13, <3>2
      <4>2. e[q].src = s
        BY <1>0, <1>13, <3>2
      <4> QED BY <1>13, <1>15, <2>2, <3>2, <4>1, <4>2
    <3> QED BY <1>14, <3>1, <3>2
  <2>4. \A p, q \in c.perms : p.no = q.no => p = q
    BY <1>13, <1>14, <1>16 DEF Good, Requested
  <2>5. \A p \in c.perms, q \in h : p.no # q /\ (e[q].src = e[p.no].src => q < p.no)
    BY <1>13, <1>14, <1>16 DEF Good, Requested
  <2> QED BY <2>1, <2>3, <2>4, <2>5 DEF Requested
<1>21. Fronted(e, c, h)
  <2>1. ASSUME NEW f \in c.batches, NEW a \in f.items, e[a].src = s
        PROVE  (\E n \in b.bounds : f.at < n /\ n < k + 1) /\ \A x \in P : a < x
    <3>1. PICK g \in b.batches :
            /\ f.items \subseteq g.items /\ f.at = g.at
            /\ IF g \in R THEN f.items = {y \in g.items : e[y].src # s} ELSE f = g
      BY <1>4, <1>14
    <3>2. g \notin R /\ f = g
      BY <2>1, <3>1
    <3>3. PICK n \in b.bounds : f.at < n /\ n < k + 1
      BY <1>7, <1>16, <3>2
    <3>4. a <= f.at /\ a \in 1..k /\ f.at \in 0..k
      BY <1>16, <3>2 DEF Good, Sorted
    <3>5. ASSUME NEW x \in b.queue[s] PROVE a < x
      <4>1. f.at < x /\ x \in 1..k
        BY <2>1, <3>2, BoxFields DEF Good, Batched
      <4> QED BY <3>4, <4>1
    <3>6. ASSUME NEW x \in P, NEW r \in R, x \in r.items, e[x].src = s PROVE a < x
      <4>1. r \in b.batches /\ r # g /\ n <= r.at /\ r.at \in 0..k /\ n \in 1..k
        BY <1>7, <1>16, <3>2
      <4>2. f.at < r.at
        BY <3>3, <3>4, <4>1
      <4> QED BY <2>1, <3>2, <3>6, <4>1, <4>2 DEF Good, Batched
    <3> QED BY <1>3, <3>3, <3>5, <3>6
  <2>2. \A p \in c.perms, f \in c.batches : \A a \in f.items : e[a].src = e[p.no].src =>
          (\E n \in c.bounds : f.at < n /\ n < p.no) /\ \A x \in p.prefix : a < x
    <3>1. ASSUME NEW p \in b.perms, NEW f \in c.batches, NEW a \in f.items, e[a].src = e[p.no].src
          PROVE  (\E n \in b.bounds : f.at < n /\ n < p.no) /\ \A x \in p.prefix : a < x
      BY <1>4, <1>14, <3>1 DEF Good, Fronted
    <3>2. e[k + 1].src = s
      BY <1>0
    <3> QED BY <1>13, <1>14, <2>1, <3>1, <3>2
  <2>3. \A q \in h, f \in c.batches : \A a \in f.items : e[a].src # e[q].src
    BY <1>4, <1>14 DEF Good, Fronted
  <2> QED BY <2>2, <2>3 DEF Fronted
<1>22. Blocks(e, c, h)
  <2>1. \A t \in Sources : b.blocked[t] \in Nat
    BY <1>9
  <2>2. e[k + 1].src = s
    BY <1>0
  <2> QED BY <1>11, <1>15, <2>1, <2>2 DEF Good, Blocks
<1>23. Fences(e, c)
  <2>1. \A t \in Sources, n \in c.bounds : \A a \in c.queue[t] : a < n => a \in e[n].held
    BY <1>14 DEF Good, Fences
  <2>2. \A f \in c.batches, n \in c.bounds : \A a \in f.items : a < n /\ n <= f.at => a \in e[n].held
    BY <1>4, <1>14 DEF Good, Fences
  <2>3. ASSUME NEW n \in b.bounds, NEW a \in P, a < n PROVE a \in e[n].held
    <3>1. CASE a \in b.queue[s]
      BY <2>3, <3>1 DEF Good, Fences
    <3>2. ASSUME NEW f \in R, a \in f.items PROVE a \in e[n].held
      BY <1>7, <2>3, <3>2 DEF Good, Fences
    <3> QED BY <1>3, <3>1, <3>2
  <2>4. \A p \in c.perms, n \in c.bounds : \A a \in p.prefix : a < n /\ n < p.no => a \in e[n].held
    BY <1>13, <1>14, <2>3 DEF Good, Fences
  <2> QED BY <2>1, <2>2, <2>4 DEF Fences
<1>24. Pending(c) = Pending(b) \union {k + 1}
  <2>1. ASSUME NEW x PROVE Within(c, x) <=> Within(b, x) \/ x = k + 1
    <3>1. (\E f \in c.batches : x \in f.items) => \E f \in b.batches : x \in f.items
      BY <1>4, <1>14
    <3>2. (\E f \in b.batches : x \in f.items) => x \in P \/ \E f \in c.batches : x \in f.items
      BY <1>5, <1>14
    <3>3. (\E t \in Sources : x \in c.queue[t]) => \E t \in Sources : x \in b.queue[t]
      BY <1>14
    <3>4. ASSUME NEW t \in Sources, x \in b.queue[t] PROVE x \in c.queue[t] \/ x \in P
      <4>1. \A a \in b.queue[s] : a \in P
        BY DEF P, Prefix
      <4> QED BY <1>14, <3>4, <4>1
    <3>5. x \in P => Within(b, x)
      BY <1>3, <1>7 DEF Within
    <3>6. (\E p \in c.perms : x \in p.prefix \/ x = p.no) <=>
            x \in P \/ x = k + 1 \/ \E p \in b.perms : x \in p.prefix \/ x = p.no
      BY <1>13, <1>14
    <3> QED BY <1>14, <3>1, <3>2, <3>3, <3>4, <3>5, <3>6 DEF Within
  <2> QED BY <2>1, PendingIs
<1>25. c.bounds = b.bounds /\ OneMore(b, c, s)
  BY <1>11, <1>14 DEF OneMore
<1> QED BY <1>12, <1>15, <1>18, <1>19, <1>20, <1>21, <1>22, <1>23, <1>24, <1>25 DEF Good, c, new, w, P

\* What the worker takes is of no source's past: it is before all that is left of its source, and
\* before every boundary.
Leads(e, b, c, items) ==
  /\ items \subseteq Pending(b) /\ Pending(c) = Pending(b) \ items
  /\ \A a \in items, x \in Pending(c) : e[a].src = e[x].src => a < x
  /\ \A a \in items, n \in b.bounds : a < n

LEMMA SelectPrefixKeeps ==
  ASSUME NEW k \in Nat, box \in Box(k), Good(evs, box, {}), NEW p, IsFirst(p, Deliverable(box)),
         Arrivals(evs), Len(evs) = k
  PROVE  LET c == Replace(p, [p EXCEPT !.prefix = {}])
         IN /\ c \in Box(k) /\ Good(evs, c, {}) /\ Leads(evs, box, c, p.prefix)
            /\ Numbers(c) = Numbers(box) /\ c.bounds = box.bounds /\ c.blocked = box.blocked
<1> DEFINE new == [p EXCEPT !.prefix = {}]
           P == (box.perms \ {p}) \union {new}
           c == Replace(p, new)
<1>1. /\ p \in box.perms
      /\ \A n \in box.bounds : p.no < n
      /\ \A q \in box.perms : q.no < p.no => evs[q.no].src # evs[p.no].src
  BY DEF IsFirst, Deliverable, Ahead
<1>2. /\ box.perms \subseteq [no : 1..k, decision : Decisions, prefix : SUBSET (1..k)]
      /\ p \in [no : 1..k, decision : Decisions, prefix : SUBSET (1..k)]
      /\ new \in [no : 1..k, decision : Decisions, prefix : SUBSET (1..k)]
      /\ new.no = p.no /\ new.prefix = {}
  BY SMTT(60), <1>1 DEF Box
<1>3. /\ c \in Box(k) /\ c.queue = box.queue /\ c.batches = box.batches /\ c.bounds = box.bounds
      /\ c.perms = P /\ c.blocked = box.blocked
  <2>1. P \subseteq [no : 1..k, decision : Decisions, prefix : SUBSET (1..k)]
    BY <1>2
  <2>2. c = [box EXCEPT !.perms = P]
    BY DEF Replace
  <2> HIDE DEF P, c
  <2> QED BY <2>1, <2>2 DEF Box
<1> HIDE DEF c
<1>4. Numbers(c) = Numbers(box)
  BY <1>1, <1>2, <1>3 DEF Numbers
<1>5. \A q, r \in box.perms : q.no = r.no => q = r
  BY DEF Good, Requested
<1>6. Good(evs, c, {})
  <2>1. \A q, r \in c.perms : q.no = r.no => q = r
    BY <1>1, <1>2, <1>3, <1>5
  <2>2. \A q \in c.perms : \E r \in box.perms : q.no = r.no /\ q.prefix \subseteq r.prefix
    BY <1>1, <1>2, <1>3
  <2>3. Shrinks(box, c, {}, {})
    BY <1>3, <2>1, <2>2 DEF Shrinks
  <2> QED BY <1>3, <2>3, ShrinkFronts
<1>7. \A a \in p.prefix : evs[a].kind = "event" /\ evs[a].src = evs[p.no].src /\ a < p.no /\ a \in 1..k
  BY <1>1, <1>2 DEF Good, Sorted
<1>8. p.no \in 1..k /\ evs[p.no].kind = "permission" /\ evs[p.no].src \in Sources
  BY <1>1, <1>2 DEF Good, Sorted, Arrivals, Boundaries
<1>9. /\ \A s \in Sources : c.queue[s] \subseteq 1..k
      /\ \A f \in c.batches : f.items \subseteq 1..k
      /\ \A q \in c.perms : q.no \in 1..k /\ q.prefix \subseteq 1..k
      /\ box.bounds \subseteq 1..k
  BY <1>3, BoxFields
<1>10. ASSUME NEW a \in p.prefix, NEW x, Within(c, x), evs[a].src = evs[x].src
       PROVE  a < x
  <2>1. ASSUME NEW s \in Sources, x \in c.queue[s] PROVE a < x
    <3>1. evs[x].src = s /\ evs[p.no].src = s
      BY <1>3, <1>7, <1>10, <2>1 DEF Good, Sorted
    <3>2. p.no < x
      BY <1>1, <1>3, <2>1, <3>1 DEF Good, Requested, Numbers
    <3> QED BY <1>7, <1>8, <1>9, <2>1, <3>2
  <2>2. ASSUME NEW f \in c.batches, x \in f.items PROVE FALSE
    <3>1. PICK n \in box.bounds : f.at < n /\ n < p.no
      BY <1>1, <1>3, <1>7, <1>10, <2>2 DEF Good, Fronted
    <3> QED BY <1>1, <1>8, <1>9, <3>1
  <2>3. ASSUME x \in c.bounds PROVE FALSE
    <3>1. evs[x].kind \in Boundaries /\ x \in 1..k
      BY <1>3, <1>9, <2>3 DEF Good, Sorted
    <3>2. evs[x].src = None
      BY <3>1 DEF Arrivals
    <3> QED BY <1>7, <1>8, <1>10, <3>2, Parameters
  <2>4. ASSUME NEW q \in c.perms, x \in q.prefix \/ x = q.no PROVE a < x
    <3>1. CASE q = new
      BY <1>2, <1>7, <2>4, <3>1
    <3>2. CASE q \in box.perms /\ q # p
      <4>1. evs[x].src = evs[q.no].src
        BY <2>4, <3>2 DEF Good, Sorted
      <4>2. q.no # p.no /\ ~(q.no < p.no)
        BY <1>1, <1>5, <1>7, <1>10, <3>2, <4>1
      <4>3. p.no < q.no
        BY <1>8, <1>9, <2>4, <4>2
      <4>4. x \in q.prefix => p.no < x
        BY <1>1, <1>7, <1>10, <3>2, <4>1, <4>3 DEF Good, Requested, Numbers
      <4>5. p.no < x /\ x \in 1..k
        BY <1>9, <2>4, <4>3, <4>4
      <4> QED BY <1>7, <1>8, <4>5
    <3> QED BY <1>3, <2>4, <3>1, <3>2
  <2> QED BY <1>10, <2>1, <2>2, <2>3, <2>4 DEF Within
<1>11. ASSUME NEW x PROVE Within(c, x) <=> Within(box, x) /\ x \notin p.prefix
  <2>1. Within(c, x) => x \notin p.prefix
    BY <1>7, <1>10
  <2>2. Within(c, x) => Within(box, x)
    BY <1>1, <1>2, <1>3 DEF Within
  <2>3. (\E q \in box.perms : x \in q.prefix \/ x = q.no) /\ x \notin p.prefix =>
          \E q \in c.perms : x \in q.prefix \/ x = q.no
    BY <1>1, <1>2, <1>3
  <2>4. Within(box, x) /\ x \notin p.prefix => Within(c, x)
    BY <1>3, <2>3 DEF Within
  <2> QED BY <2>1, <2>2, <2>4
<1>12. p.prefix \subseteq Pending(box)
  BY <1>1, PendingIs DEF Within
<1>13. \A a \in p.prefix, n \in box.bounds : a < n
  BY <1>1, <1>7, <1>8, <1>9
<1>14. Leads(evs, box, c, p.prefix)
  BY <1>10, <1>11, <1>12, <1>13, PendingIs DEF Leads
<1> QED BY <1>3, <1>4, <1>6, <1>14 DEF c

\* The worker takes a request itself; the request blocks its source until it is over.
LEMMA SelectPermissionKeeps ==
  ASSUME NEW k \in Nat, box \in Box(k), Good(evs, box, {}), NEW p, IsFirst(p, Deliverable(box)), p.prefix = {},
         Arrivals(evs), Len(evs) = k
  PROVE  LET c == [box EXCEPT !.perms = @ \ {p}]
         IN /\ c \in Box(k) /\ Good(evs, c, {p.no}) /\ Leads(evs, box, c, {p.no})
            /\ Numbers(c) \union {p.no} = Numbers(box) /\ c.bounds = box.bounds /\ c.blocked = box.blocked
            /\ evs[p.no].kind = "permission"
<1> DEFINE c == [box EXCEPT !.perms = @ \ {p}]
<1>1. /\ p \in box.perms
      /\ \A n \in box.bounds : p.no < n
      /\ \A q \in box.perms : q.no < p.no => evs[q.no].src # evs[p.no].src
  BY DEF IsFirst, Deliverable, Ahead
<1>2. /\ c \in Box(k) /\ c.queue = box.queue /\ c.batches = box.batches /\ c.bounds = box.bounds
      /\ c.perms = box.perms \ {p} /\ c.blocked = box.blocked
  BY DEF Box
<1> HIDE DEF c
<1>3. /\ \A s \in Sources : c.queue[s] \subseteq 1..k
      /\ \A f \in c.batches : f.items \subseteq 1..k /\ f.at \in 0..k
      /\ \A q \in box.perms : q.no \in 1..k /\ q.prefix \subseteq 1..k
      /\ box.bounds \subseteq 1..k
  BY <1>2, BoxFields
<1>4. /\ p.no \in 1..k /\ evs[p.no].kind = "permission" /\ evs[p.no].src \in Sources
  BY <1>1, <1>3 DEF Good, Sorted, Arrivals, Boundaries
<1>5. \A q, r \in box.perms : q.no = r.no => q = r
  BY DEF Good, Requested
<1>6. Numbers(c) \union {p.no} = Numbers(box)
  BY <1>1, <1>2 DEF Numbers
<1>7. \A f \in c.batches : \A a \in f.items : evs[a].src # evs[p.no].src
  <2>1. SUFFICES ASSUME NEW f \in c.batches, NEW a \in f.items, evs[a].src = evs[p.no].src PROVE FALSE
    OBVIOUS
  <2>2. PICK n \in box.bounds : f.at < n /\ n < p.no
    BY <1>1, <1>2, <2>1 DEF Good, Fronted
  <2> QED BY <1>1, <1>3, <1>4, <2>2
<1>8. \A q \in c.perms : q.no # p.no /\ (evs[q.no].src = evs[p.no].src => p.no < q.no)
  <2>1. SUFFICES ASSUME NEW q \in c.perms
                 PROVE  q.no # p.no /\ (evs[q.no].src = evs[p.no].src => p.no < q.no)
    OBVIOUS
  <2>2. q.no # p.no
    BY <1>1, <1>2, <1>5
  <2>3. evs[q.no].src = evs[p.no].src => ~(q.no < p.no)
    BY <1>1, <1>2
  <2> QED BY <1>2, <1>3, <1>4, <2>2, <2>3
<1>9. Good(evs, c, {p.no})
  <2>1. \A q \in c.perms : \E r \in box.perms : q.no = r.no /\ q.prefix \subseteq r.prefix
    BY <1>2
  <2>2. Shrinks(box, c, {}, {p.no})
    BY <1>2, <1>5, <1>6, <2>1 DEF Shrinks
  <2>3. Fronted(evs, c, {p.no})
    BY <1>2, <1>7 DEF Good, Fronted
  <2>4. \A r \in c.perms, q \in {p.no} : r.no # q /\ (evs[q].src = evs[r.no].src => q < r.no)
    BY <1>8
  <2> QED BY <2>2, <2>3, <2>4, ShrinkKeeps
<1>10. ASSUME NEW x, Within(c, x), evs[p.no].src = evs[x].src
       PROVE  p.no < x
  <2>1. ASSUME NEW s \in Sources, x \in c.queue[s] PROVE p.no < x
    BY <1>1, <1>2, <1>10, <2>1 DEF Good, Requested, Sorted, Numbers
  <2>2. ASSUME NEW f \in c.batches, x \in f.items PROVE FALSE
    BY <1>7, <1>10, <2>2
  <2>3. ASSUME x \in c.bounds PROVE FALSE
    <3>1. evs[x].kind \in Boundaries /\ x \in 1..k
      BY <1>2, <1>3, <2>3 DEF Good, Sorted
    <3> QED BY <1>4, <1>10, <3>1, Parameters DEF Arrivals
  <2>4. ASSUME NEW q \in c.perms, x \in q.prefix \/ x = q.no PROVE p.no < x
    <3>1. evs[x].src = evs[q.no].src
      BY <1>2, <2>4 DEF Good, Sorted
    <3>2. p.no < q.no
      BY <1>8, <1>10, <3>1
    <3>3. x \in q.prefix => p.no < x
      BY <1>1, <1>2, <1>10, <3>1, <3>2 DEF Good, Requested, Numbers
    <3> QED BY <2>4, <3>2, <3>3
  <2> QED BY <1>10, <2>1, <2>2, <2>3, <2>4 DEF Within
<1>11. ASSUME NEW x PROVE Within(c, x) <=> Within(box, x) /\ x # p.no
  <2>1. Within(c, x) => x # p.no
    BY <1>4, <1>10
  <2>2. Within(c, x) => Within(box, x)
    BY <1>2 DEF Within
  <2>3. (\E q \in box.perms : x \in q.prefix \/ x = q.no) /\ x # p.no =>
          \E q \in c.perms : x \in q.prefix \/ x = q.no
    BY <1>1, <1>2
  <2>4. Within(box, x) /\ x # p.no => Within(c, x)
    BY <1>2, <2>3 DEF Within
  <2> QED BY <2>1, <2>2, <2>4
<1>12. {p.no} \subseteq Pending(box)
  BY <1>1, PendingIs DEF Within
<1>13. Leads(evs, box, c, {p.no})
  BY <1>1, <1>10, <1>11, <1>12, PendingIs DEF Leads
<1> QED BY <1>2, <1>4, <1>6, <1>9, <1>13 DEF c

\* The worker takes all that can go out at once: it is only called when no request does.
LEMMA SelectBatchKeeps ==
  ASSUME NEW k \in Nat, box \in Box(k), Good(evs, box, {}), Arrivals(evs), Len(evs) = k
  PROVE  LET c == Reschedule([Take(box, Due(box)) EXCEPT !.batches = @ \ LeadingBatches(box)])
         IN /\ c \in Box(k) /\ Good(evs, c, {}) /\ Leads(evs, box, c, Due(box))
            /\ Numbers(c) = Numbers(box) /\ c.bounds = box.bounds /\ c.blocked = box.blocked
            /\ \A a \in Due(box) : evs[a].kind = "event"
<1> DEFINE D == Due(box)
           L == LeadingBatches(box)
           t == Take(box, D)
           u == [t EXCEPT !.batches = @ \ L]
           c == Reschedule(u)
<1>1. /\ t \in Box(k) /\ t.batches = box.batches /\ t.bounds = box.bounds
      /\ t.perms = box.perms /\ t.blocked = box.blocked
      /\ \A s \in Sources : t.queue[s] = box.queue[s] \ D
  BY TakeIs
<1> HIDE DEF t
<1>2. /\ u \in Box(k) /\ u.batches = box.batches \ L /\ u.bounds = box.bounds
      /\ u.perms = box.perms /\ u.blocked = box.blocked
      /\ \A s \in Sources : u.queue[s] = box.queue[s] \ D
  BY ZenonT(60), <1>1 DEF Box
<1> HIDE DEF u
<1>3. /\ c \in Box(k) /\ c.batches = box.batches \ L /\ c.bounds = box.bounds
      /\ c.perms = box.perms /\ c.blocked = box.blocked
      /\ \A s \in Sources : c.queue[s] = box.queue[s] \ D
  BY <1>2, RescheduleIs
<1> HIDE DEF c
<1>4. /\ L \subseteq box.batches
      /\ \A f \in L, n \in box.bounds : f.at < n
      /\ \A f \in box.batches : f \notin L => \E n \in box.bounds : ~(f.at < n)
  BY DEF LeadingBatches, Ahead
<1>5. \A a : a \in D <=> (\E f \in L : a \in f.items) \/ (a \in Active(box) /\ \A n \in box.bounds : a < n)
  BY DEF Due, Ahead
<1>6. /\ Active(box) \subseteq 1..k
      /\ \A a \in Active(box) : /\ evs[a].kind = "event" /\ evs[a].src \in Sources /\ a \in box.queue[evs[a].src]
                                /\ \A q \in Numbers(box) : evs[q].src # evs[a].src
      /\ \A s \in Sources : IF box.blocked[s] = 0 THEN box.queue[s] \subseteq Active(box)
                            ELSE box.queue[s] \intersect Active(box) = {}
  <2>1. Sorted(evs, box) /\ Blocks(evs, box, {})
    BY DEF Good
  <2> QED BY <2>1, ActiveFacts
<1> HIDE DEF D, L
<1>7. /\ \A s \in Sources : box.queue[s] \subseteq 1..k
      /\ \A f \in box.batches : f.items \subseteq 1..k /\ f.at \in 0..k
      /\ \A q \in box.perms : q.no \in 1..k /\ q.prefix \subseteq 1..k
      /\ box.bounds \subseteq 1..k
  BY BoxFields
<1>8. ASSUME NEW a \in D PROVE evs[a].kind = "event" /\ evs[a].src \in Sources /\ a \in 1..k
  <2>1. ASSUME NEW f \in L, a \in f.items PROVE evs[a].kind = "event" /\ a \in 1..k
    BY <1>4, <1>7, <2>1 DEF Good, Sorted
  <2>2. evs[a].kind = "event" /\ a \in 1..k
    BY <1>5, <1>6, <2>1
  <2> QED BY <2>2 DEF Arrivals, Boundaries
<1>9. Numbers(c) = Numbers(box)
  BY <1>3 DEF Numbers
<1>10. Good(evs, c, {})
  <2>1. \A q \in c.perms : \E r \in box.perms : q.no = r.no /\ q.prefix \subseteq r.prefix
    BY <1>3
  <2>2. \A q, r \in c.perms : q.no = r.no => q = r
    BY <1>3 DEF Good, Requested
  <2>3. Shrinks(box, c, {}, {})
    BY <1>3, <2>1, <2>2 DEF Shrinks
  <2> QED BY <1>3, <2>3, ShrinkFronts
<1>11. ASSUME NEW a \in D, NEW x, Within(c, x), evs[a].src = evs[x].src
       PROVE  a < x
  <2>1. CASE \E g \in L : a \in g.items
    <3>1. PICK g \in L : a \in g.items
      BY <2>1
    <3>2. g \in box.batches /\ a <= g.at /\ g.at \in 0..k /\ a \in 1..k
      BY <1>4, <1>7, <3>1 DEF Good, Sorted
    <3>3. ASSUME NEW s \in Sources, x \in c.queue[s] PROVE a < x
      <4>1. x \in box.queue[s] /\ x \in 1..k
        BY <1>3, <1>7, <3>3
      <4>2. g.at < x
        BY <1>11, <3>1, <3>2, <4>1 DEF Good, Batched, Sorted
      <4> QED BY <3>2, <4>1, <4>2
    <3>4. ASSUME NEW f \in c.batches, x \in f.items PROVE a < x
      <4>1. PICK n \in box.bounds : ~(f.at < n)
        BY <1>3, <1>4, <3>4
      <4>2. g.at < n /\ f \in box.batches
        BY <1>3, <1>4, <3>4
      <4>3. g.at < f.at /\ g # f
        BY <1>7, <3>2, <4>1, <4>2
      <4> QED BY <1>11, <3>1, <3>2, <3>4, <4>2, <4>3 DEF Good, Batched
    <3>5. ASSUME NEW q \in box.perms, x \in q.prefix \/ x = q.no PROVE a < x
      <4>1. evs[x].src = evs[q.no].src
        BY <3>5 DEF Good, Sorted
      <4>2. PICK n \in box.bounds : g.at < n /\ n < q.no
        BY <1>11, <3>1, <3>2, <4>1 DEF Good, Fronted
      <4>3. \A y \in q.prefix : a < y
        BY <1>11, <3>1, <3>2, <4>1 DEF Good, Fronted
      <4> QED BY <1>7, <3>2, <3>5, <4>2, <4>3
    <3>6. ASSUME x \in box.bounds PROVE a < x
      BY <1>4, <1>7, <3>1, <3>2, <3>6
    <3> QED BY <1>3, <1>11, <3>3, <3>4, <3>5, <3>6 DEF Within
  <2>2. CASE a \in Active(box) /\ \A n \in box.bounds : a < n
    <3>1. a \in box.queue[evs[a].src] /\ evs[a].src \in Sources /\ a \in 1..k
      BY <1>6, <2>2
    <3>2. ASSUME NEW s \in Sources, x \in c.queue[s] PROVE a < x
      <4>1. x \in box.queue[s] /\ x \notin D /\ x \in 1..k
        BY <1>3, <1>7, <3>2
      <4>2. evs[x].src = s
        BY <4>1 DEF Good, Sorted
      <4>3. x \in Active(box)
        BY <1>6, <1>11, <2>2, <3>1, <4>1, <4>2
      <4>4. PICK n \in box.bounds : ~(x < n)
        BY <1>5, <4>1, <4>3
      <4> QED BY <1>7, <2>2, <3>1, <4>1, <4>4
    <3>3. ASSUME NEW f \in c.batches, x \in f.items PROVE FALSE
      <4>1. PICK n \in box.bounds : ~(f.at < n)
        BY <1>3, <1>4, <3>3
      <4>2. f \in box.batches /\ f.at < a
        BY <1>3, <1>11, <3>1, <3>3 DEF Good, Batched
      <4> QED BY <1>7, <2>2, <3>1, <4>1, <4>2
    <3>4. ASSUME NEW q \in box.perms, x \in q.prefix \/ x = q.no PROVE FALSE
      <4>1. evs[x].src = evs[q.no].src
        BY <3>4 DEF Good, Sorted
      <4> QED BY <1>6, <1>11, <2>2, <4>1 DEF Numbers
    <3>5. ASSUME x \in box.bounds PROVE a < x
      BY <2>2, <3>5
    <3> QED BY <1>3, <1>11, <3>2, <3>3, <3>4, <3>5 DEF Within
  <2> QED BY <1>5, <2>1, <2>2
<1>12. ASSUME NEW x PROVE Within(c, x) <=> Within(box, x) /\ x \notin D
  <2>1. Within(c, x) => x \notin D
    BY <1>8, <1>11
  <2>2. Within(c, x) => Within(box, x)
    BY <1>3 DEF Within
  <2>3. Within(box, x) /\ x \notin D => Within(c, x)
    BY <1>3, <1>5 DEF Within
  <2> QED BY <2>1, <2>2, <2>3
<1>13. D \subseteq Pending(box)
  <2>1. \A a \in D : Within(box, a)
    BY <1>4, <1>5, <1>6 DEF Within
  <2> QED BY <2>1, PendingIs
<1>14. ASSUME NEW a \in D, NEW n \in box.bounds PROVE a < n
  <2>1. ASSUME NEW g \in L, a \in g.items PROVE a < n
    <3>1. a <= g.at /\ g.at < n
      BY <1>4, <2>1 DEF Good, Sorted
    <3> QED BY <1>4, <1>7, <1>8, <3>1
  <2> QED BY <1>5, <2>1
<1>15. Leads(evs, box, c, D)
  BY <1>11, <1>12, <1>13, <1>14, PendingIs DEF Leads
<1> QED BY <1>3, <1>8, <1>9, <1>10, <1>15 DEF c, u, t, D, L

\* A boundary completes when nothing is due before it: what stays behind is behind a request.
LEMMA SelectBoundaryKeeps ==
  ASSUME NEW k \in Nat, box \in Box(k), Good(evs, box, {}), Due(box) = {}, NEW no \in Completable(box)
  PROVE  LET c == [box EXCEPT !.bounds = @ \ {no}]
         IN /\ c \in Box(k) /\ Good(evs, c, {})
            /\ no \in Pending(box) /\ Pending(c) = Pending(box) \ {no}
            /\ Numbers(c) = Numbers(box) /\ c.blocked = box.blocked /\ c.bounds = box.bounds \ {no}
            /\ evs[no].kind \in Boundaries
            /\ \A n \in c.bounds \union Numbers(c) : no < n
            /\ \A a \in Pending(c) : a < no => a \in evs[no].held
<1> DEFINE c == [box EXCEPT !.bounds = @ \ {no}]
<1>1. /\ no \in box.bounds /\ \A n \in box.bounds : no <= n
      /\ \A p \in box.perms : no < p.no
  BY DEF Completable
<1>2. /\ c \in Box(k) /\ c.queue = box.queue /\ c.batches = box.batches /\ c.bounds = box.bounds \ {no}
      /\ c.perms = box.perms /\ c.blocked = box.blocked
  BY DEF Box
<1> HIDE DEF c
<1>3. /\ \A f \in box.batches : f.items \subseteq 1..k /\ f.at \in 0..k
      /\ \A q \in box.perms : q.no \in 1..k /\ q.prefix \subseteq 1..k
      /\ box.bounds \subseteq 1..k
  BY BoxFields
<1>4. Numbers(c) = Numbers(box)
  BY <1>2 DEF Numbers
<1>5. evs[no].kind \in Boundaries
  BY <1>1 DEF Good, Sorted
<1>6. ASSUME NEW f \in box.batches, f.items # {} PROVE no <= f.at
  <2>1. f \notin LeadingBatches(box)
    BY <1>6 DEF Due
  <2>2. PICK n \in box.bounds : ~(f.at < n)
    BY <2>1 DEF LeadingBatches, Ahead
  <2> QED BY <1>1, <1>3, <2>2
<1>7. Fronted(evs, c, {})
  <2>1. ASSUME NEW p \in box.perms, NEW f \in box.batches, NEW a \in f.items, evs[a].src = evs[p.no].src
        PROVE  (\E n \in c.bounds : f.at < n /\ n < p.no) /\ \A x \in p.prefix : a < x
    <3>1. PICK n \in box.bounds : f.at < n /\ n < p.no
      BY <2>1 DEF Good, Fronted
    <3>2. n # no
      BY <1>1, <1>3, <1>6, <2>1, <3>1
    <3>3. \A x \in p.prefix : a < x
      BY <2>1 DEF Good, Fronted
    <3> QED BY <1>2, <3>1, <3>2, <3>3
  <2> QED BY <1>2, <2>1 DEF Fronted
<1>8. Good(evs, c, {})
  <2>1. \A q \in c.perms : \E r \in box.perms : q.no = r.no /\ q.prefix \subseteq r.prefix
    BY <1>2
  <2>2. \A q, r \in c.perms : q.no = r.no => q = r
    BY <1>2 DEF Good, Requested
  <2>3. Shrinks(box, c, {}, {})
    BY <1>2, <2>1, <2>2 DEF Shrinks
  <2> QED BY <1>7, <2>3, ShrinkKeeps
<1>9. ASSUME NEW x PROVE Within(c, x) <=> Within(box, x) /\ x # no
  <2>1. Within(c, x) => x # no
    <3>1. \A s \in Sources : no \notin box.queue[s]
      BY <1>5 DEF Good, Sorted, Boundaries
    <3>2. \A f \in box.batches : no \notin f.items
      BY <1>5 DEF Good, Sorted, Boundaries
    <3>3. \A p \in box.perms : no # p.no /\ no \notin p.prefix
      BY <1>5 DEF Good, Sorted, Boundaries
    <3> QED BY <1>2, <3>1, <3>2, <3>3 DEF Within
  <2> QED BY <1>2, <2>1 DEF Within
<1>10. \A n \in c.bounds \union Numbers(c) : no < n
  <2>1. \A n \in c.bounds : no < n
    BY <1>1, <1>2, <1>3
  <2> QED BY <1>1, <1>4, <2>1 DEF Numbers
<1>11. ASSUME NEW a, Within(c, a), a < no PROVE a \in evs[no].held
  <2>1. ASSUME NEW s \in Sources, a \in c.queue[s] PROVE a \in evs[no].held
    BY <1>1, <1>2, <1>11, <2>1 DEF Good, Fences
  <2>2. ASSUME NEW f \in c.batches, a \in f.items PROVE a \in evs[no].held
    BY <1>1, <1>2, <1>6, <1>11, <2>2 DEF Good, Fences
  <2>3. a \notin c.bounds
    BY <1>1, <1>2, <1>3, <1>11
  <2>4. ASSUME NEW p \in c.perms, a \in p.prefix PROVE a \in evs[no].held
    BY <1>1, <1>2, <1>11, <2>4 DEF Good, Fences
  <2>5. \A p \in c.perms : a # p.no
    BY <1>1, <1>2, <1>3, <1>11
  <2> QED BY <1>11, <2>1, <2>2, <2>3, <2>4, <2>5 DEF Within
<1>12. no \in Pending(box)
  BY <1>1, PendingIs DEF Within
<1>13. Pending(c) = Pending(box) \ {no}
  BY <1>9, PendingIs
<1>14. \A a \in Pending(c) : a < no => a \in evs[no].held
  BY <1>11, PendingIs
<1> QED BY <1>2, <1>4, <1>5, <1>8, <1>10, <1>12, <1>13, <1>14 DEF c

\* The worker's request is over: its source goes on.
Released(b, s) == [b EXCEPT !.blocked[s] = @ - 1]

From(e, q, s) == e[q].src = s

Last(e, b, s) == b.blocked[s] - 1 = 0 => \A r \in Numbers(b) : e[r].src # s

OneLess(b, c, s) ==
  /\ c.perms = b.perms /\ c.bounds = b.bounds
  /\ \A t \in Sources : c.blocked[t] = IF t = s THEN b.blocked[s] - 1 ELSE b.blocked[t]

LEMMA UnblockKeeps ==
  ASSUME NEW e, NEW k \in Nat, NEW b \in Box(k), NEW q, Good(e, b, {q}), NEW s \in Sources, From(e, q, s), Last(e, b, s)
  PROVE  LET c == Released(b, s)
         IN c \in Box(k) /\ Good(e, c, {}) /\ Pending(c) = Pending(b) /\ OneLess(b, c, s)
<1> DEFINE c == [b EXCEPT !.blocked[s] = @ - 1]
<1>0. /\ c = Released(b, s) /\ e[q].src = s
      /\ b.blocked[s] - 1 = 0 => \A r \in Numbers(b) : e[r].src # s
  BY DEF Released, From, Last
<1>1. b.blocked \in [Sources -> 0..MaxPermissions] /\ b.blocked[s] # 0
  BY <1>0, BoxFields DEF Good, Blocks
<1>2. b.blocked[s] - 1 \in 0..MaxPermissions
  BY <1>1, Parameters
<1>3. /\ c.queue = b.queue /\ c.batches = b.batches /\ c.bounds = b.bounds /\ c.perms = b.perms
      /\ c.timer = b.timer /\ c.blocked = [b.blocked EXCEPT ![s] = @ - 1]
  BY DEF Box
<1>4. /\ c.blocked \in [Sources -> 0..MaxPermissions]
      /\ \A t \in Sources : c.blocked[t] = IF t = s THEN b.blocked[s] - 1 ELSE b.blocked[t]
  BY <1>1, <1>2, <1>3
<1>5. c \in Box(k)
  BY <1>3, <1>4 DEF Box
<1> HIDE DEF c
<1>6. Numbers(c) = Numbers(b)
  BY <1>3 DEF Numbers
<1>7. Sorted(e, c) /\ Batched(e, c) /\ Fences(e, c)
  BY <1>3 DEF Good, Sorted, Batched, Fences
<1>8. Requested(e, c, {})
  BY <1>3, <1>6 DEF Good, Requested
<1>9. Fronted(e, c, {})
  BY <1>3 DEF Good, Fronted
<1>10. Blocks(e, c, {})
  BY ZenonT(60), <1>0, <1>4, <1>6 DEF Good, Blocks
<1>11. Pending(c) = Pending(b)
  BY <1>3 DEF Pending
<1> QED BY <1>0, <1>3, <1>4, <1>5, <1>7, <1>8, <1>9, <1>10, <1>11 DEF Good, OneLess

\* Nothing is pending in a box that failed.
LEMMA FailKeeps ==
  ASSUME NEW e, NEW k \in Nat, NEW b \in Box(k)
  PROVE  LET c == FailPending(b)
         IN c \in Box(k) /\ Good(e, c, {}) /\ Pending(c) = {} /\ Numbers(c) = {} /\ c.perms = {} /\ c.bounds = {}
<1> DEFINE c == FailPending(b)
<1>1. InitBox \in Box(k) /\ \A s \in Sources : InitBox.queue[s] = {}
  BY Parameters DEF InitBox, Box
<1>2. /\ c.batches = {} /\ c.bounds = {} /\ c.perms = {} /\ \A s \in Sources : c.queue[s] = {}
  BY <1>1 DEF FailPending, InitBox
<1>3. c \in Box(k)
  BY <1>1, BoxFields DEF FailPending, Box
<1> HIDE DEF c
<1>4. Numbers(c) = {}
  BY <1>2 DEF Numbers
<1>5. \A x : ~Within(c, x)
  BY <1>2 DEF Within
<1>6. Pending(c) = {}
  BY <1>5, PendingIs
<1>7. Good(e, c, {})
  BY <1>2, <1>4 DEF Good, Sorted, Batched, Requested, Fronted, Blocks, Fences
<1> QED BY <1>2, <1>3, <1>4, <1>6, <1>7 DEF c

----------------------------------------------------------------------------
(* The steps                                                               *)

\* What the invariant says of the numbers in use.
LEMMA State ==
  ASSUME IInv
  PROVE  /\ Len(evs) \in Nat /\ Items = 1..Len(evs) /\ evs \in Seq(Event) /\ DOMAIN evs = Items
         /\ box \in Box(Len(evs)) /\ Held \subseteq Items /\ Numbers(box) \subseteq Items
         /\ Sent \subseteq Items /\ done \subseteq Items /\ failed \subseteq Items
         /\ Pending(box) \subseteq Items /\ Contents(cur) \subseteq Items
<1>1. evs \in Seq(Event) /\ Len(evs) \in Nat /\ Items = 1..Len(evs) /\ DOMAIN evs = Items
  BY DEF IInv, TypeOK, Items
<1>2. Contents(cur) \subseteq Items
  BY DEF IInv, TypeOK
<1>3. Held \subseteq Items
  BY <1>2 DEF Held, Contents
<1>4. box \in Box(Len(evs)) /\ Numbers(box) \subseteq Items
  BY <1>1, BoxFields DEF IInv, TypeOK, Numbers
<1>5. /\ Sent \subseteq Items /\ done \subseteq Items /\ failed \subseteq Items /\ Pending(box) \subseteq Items
  BY DEF IInv, Accounted
<1> QED BY <1>1, <1>2, <1>3, <1>4, <1>5

\* The requests that are not over are finitely many, and no more than were submitted.
LEMMA RequestsFinite ==
  ASSUME NEW k \in Nat, NEW S, S \subseteq 1..k
  PROVE  IsFiniteSet(S) /\ Cardinality(S) \in Nat
<1>1. IsFiniteSet(1..k)
  BY FS_Interval
<1> QED BY <1>1, FS_Subset, FS_CardinalityType

LEMMA BlockedByFew ==
  ASSUME IInv, worker # "ended", NEW s \in Sources
  PROVE  box.blocked[s] <= CountOf({"permission"})
<1> DEFINE R == Requests(evs, box, Held, s)
           P == {a \in DOMAIN evs : evs[a].kind \in {"permission"}}
<1>1. \A q \in Numbers(box) \union Held : evs[q].kind = "permission" /\ q \in DOMAIN evs
  <2>1. \A q \in Numbers(box) : evs[q].kind = "permission"
    BY DEF IInv, Good, Sorted, Numbers
  <2>2. \A q \in Held : evs[q].kind = "permission"
    BY DEF Held, IInv, Operating
  <2> QED BY <2>1, <2>2, State
<1>2. R \subseteq P
  BY <1>1 DEF Requests
<1>3. P \subseteq 1..Len(evs) /\ Len(evs) \in Nat
  BY State
<1>4. IsFiniteSet(P)
  BY <1>3, RequestsFinite
<1>5. Cardinality(R) <= Cardinality(P)
  BY <1>2, <1>4, FS_Subset
<1>6. box.blocked[s] = Cardinality(R)
  BY DEF IInv, Counted
<1> QED BY <1>5, <1>6 DEF CountOf

\* Something arrives and is collected, put in line or made to wait.
LEMMA ArrivalKeeps ==
  ASSUME IInv, Accepts, NEW x \in Event, evs' = Append(evs, x),
         x.kind \in Boundaries => x.src = None, x.kind \notin Boundaries => x.src \in Sources,
         box' \in Box(Now), Good(evs', box', Held), Pending(box') = Pending(box) \union {Now},
         box'.bounds \union Numbers(box') \subseteq box.bounds \union Numbers(box) \union {Now},
         Counted', Permitted',
         closing' \in BOOLEAN, x.kind = "close" => closing', wake' \in BOOLEAN,
         UNCHANGED <<worker, cur, abort, broken, sent, done, failed, fails>>
  PROVE  IInv'
<1> DEFINE k == Len(evs)
<1>1. /\ k \in Nat /\ Items = 1..k /\ evs \in Seq(Event) /\ Now = k + 1
      /\ Sent \subseteq Items /\ done \subseteq Items /\ failed \subseteq Items
      /\ Pending(box) \subseteq Items /\ Contents(cur) \subseteq Items
  BY State DEF Now
<1>2. /\ evs' \in Seq(Event) /\ Len(evs') = k + 1 /\ Items' = 1..(k + 1)
      /\ \A a \in Items : evs'[a] = evs[a]
      /\ evs'[k + 1] = x
  BY <1>1 DEF Items
<1>3. Items' = Items \union {k + 1} /\ k + 1 \notin Items
  BY <1>1, <1>2
<1>4. worker # "ended" /\ ~closing
  BY DEF IInv, Operating, Accepts
<1>5. failed = {}
  BY <1>4 DEF IInv, Operating
<1>6. /\ Sent' = Sent /\ Held' = Held /\ Contents(cur)' = Contents(cur) /\ Publishing' = Publishing
      /\ Completing' = Completing
  BY DEF Sent, Held, Contents, Publishing, Completing
<1>7. /\ Publishing \subseteq Items /\ Completing \subseteq Items
  BY <1>1 DEF Publishing, Completing
<1> HIDE DEF k
<1>8. TypeOK'
  <2>1. cur' \in Operation \union {None} /\ Contents(cur)' \subseteq Items'
    BY <1>1, <1>3, <1>6 DEF IInv, TypeOK
  <2>2. sent' \in Seq(SUBSET Items')
    <3>1. sent \in Seq(SUBSET Items)
      BY DEF IInv, TypeOK
    <3>2. SUBSET Items \subseteq SUBSET Items'
      BY <1>3
    <3> QED BY <3>1, <3>2
  <2>3. done' \subseteq Items' /\ failed' \subseteq Items' /\ fails' \in 0..MaxFails
    BY <1>1, <1>3 DEF IInv, TypeOK
  <2>4. box' \in Box(Len(evs'))
    BY <1>1, <1>2
  <2>5. /\ worker' \in {"select", "wait", "busy", "ended"} /\ (worker' = "busy" <=> cur' # None)
        /\ {wake', closing', broken'} \subseteq BOOLEAN /\ abort' \in {"none", "begun", "over"}
    BY DEF IInv, TypeOK
  <2> QED BY <1>2, <2>1, <2>2, <2>3, <2>4, <2>5 DEF TypeOK
<1>9. Arrivals(evs')
  BY <1>1, <1>2, <1>3 DEF IInv, Arrivals
<1>10. Closes'
  <2>1. \A a \in Items : evs'[a].kind # "close"
    BY <1>2, <1>4 DEF IInv, Closes
  <2>2. \A a \in Items' : evs'[a].kind = "close" => closing' /\ a = Len(evs')
    BY <1>2, <1>3, <2>1
  <2> QED BY <2>2 DEF Closes
<1>11. SourceOrder'
  <2>1. \A i \in DOMAIN sent : sent[i] \subseteq Items
    BY <1>1 DEF Sent
  <2>2. \A i, j \in DOMAIN sent : i < j =>
          \A a \in sent[i], c \in sent[j] : evs'[a].src = evs'[c].src => a < c
    BY <1>2, <2>1 DEF IInv, SourceOrder
  <2>3. sent' = sent
    OBVIOUS
  <2> QED BY ONLY <2>2, <2>3 DEF SourceOrder
<1>12. Accounted'
  <2>1. Items' = Sent' \union done' \union failed' \union Pending(box') \union Contents(cur)'
    BY <1>1, <1>3, <1>6 DEF IInv, Accounted
  <2>2. /\ \A a \in Sent : a \notin done /\ a \notin failed /\ a \notin Pending(box') /\ a \notin Contents(cur)
        /\ \A a \in done : a \notin failed /\ a \notin Pending(box') /\ a \notin Contents(cur)
        /\ \A a \in failed : a \notin Pending(box') /\ a \notin Contents(cur)
        /\ \A a \in Pending(box') : a \notin Contents(cur)
    BY <1>1, <1>3 DEF IInv, Accounted
  <2>3. \A i, j \in DOMAIN sent : i # j => sent[i] \intersect sent[j] = {}
    BY DEF IInv, Accounted
  <2> QED BY <1>6, <2>1, <2>2, <2>3 DEF Accounted
<1>13. Operating'
  <2>1. cur # None => /\ cur.kind = "batch" => \A a \in cur.items : evs'[a].kind = "event"
                      /\ cur.kind # "batch" => evs'[cur.no].kind = cur.kind
                      /\ cur.kind \in Boundaries => \A n \in box'.bounds \union Numbers(box') : cur.no < n
    <3>1. SUFFICES ASSUME cur # None
                   PROVE  /\ cur.kind = "batch" => \A a \in cur.items : evs'[a].kind = "event"
                          /\ cur.kind # "batch" => evs'[cur.no].kind = cur.kind
                          /\ cur.kind \in Boundaries => \A n \in box'.bounds \union Numbers(box') : cur.no < n
      OBVIOUS
    <3>2. cur.kind = "batch" => cur.items \subseteq Items
      BY <1>1, <3>1 DEF Contents
    <3>3. cur.kind # "batch" => cur.no \in Items
      BY <1>1, <3>1 DEF Contents
    <3>4. cur.kind \in Boundaries => cur.no < k + 1
      BY <1>1, <3>3 DEF Boundaries, k
    <3> QED BY <1>1, <1>2, <3>1, <3>2, <3>3, <3>4 DEF IInv, Operating
  <2>2. \A a \in Sent : evs'[a].kind \notin Boundaries
    BY <1>1, <1>2 DEF IInv, Operating
  <2>3. \A a \in done : evs'[a].kind \in Boundaries
    BY <1>1, <1>2 DEF IInv, Operating
  <2> QED BY <1>4, <1>5, <1>6, <2>1, <2>2, <2>3 DEF Operating
<1>14. Passing'
  <2>1. \A a \in Sent, c \in Publishing : evs'[a].src = evs'[c].src => a < c
    BY <1>1, <1>2, <1>7 DEF IInv, Passing
  <2>2. \A a \in Sent \union Publishing, c \in Pending(box') : evs'[a].src = evs'[c].src => a < c
    <3>1. \A a \in Items : a < k + 1
      BY <1>1 DEF k
    <3> QED BY <1>1, <1>2, <1>7, <3>1 DEF IInv, Passing
  <2>3. \A a \in Sent \union Publishing, n \in Items' :
          evs'[n].kind \in Boundaries /\ n < a => n \in done \union failed
    <3>1. \A a \in Items : ~(k + 1 < a)
      BY <1>1 DEF k
    <3> QED BY <1>1, <1>2, <1>3, <1>7, <3>1 DEF IInv, Passing
  <2> QED BY <1>6, <2>1, <2>2, <2>3 DEF Passing
<1>15. Fencing'
  <2>1. \A n \in done \union Completing : evs'[n] = evs[n]
    BY <1>1, <1>2, <1>7
  <2>2. \A n \in done \union Completing : \A a \in Items' : a < n => a \in Items
    <3>1. \A a \in Items : ~(k + 1 < a)
      BY <1>1 DEF k
    <3> QED BY <1>1, <1>3, <1>7, <3>1
  <2>3. \A n \in done \union Completing : \A a \in Items' : a < n => a \in Sent \union done \/ a \in evs'[n].held
    BY <2>1, <2>2 DEF IInv, Fencing
  <2> QED BY <1>6, <2>3 DEF Fencing
<1>16. NoneLeftWaiting'
  BY <1>4 DEF NoneLeftWaiting
<1>17. Good(evs, box, Held)'
  BY <1>6
<1> QED BY <1>8, <1>9, <1>10, <1>11, <1>12, <1>13, <1>14, <1>15, <1>16, <1>17 DEF IInv

\* What an arrival leaves as it is.
LEMMA Appended ==
  ASSUME IInv, NEW x \in Event, evs' = Append(evs, x)
  PROVE  /\ Len(evs) \in Nat /\ Now = Len(evs) + 1 /\ Len(evs') = Now /\ evs'[Now] = x
         /\ Longer(evs, evs', Len(evs)) /\ Good(evs', box, Held) /\ Held \subseteq 1..Len(evs)
         /\ Numbers(box) \subseteq 1..Len(evs)
         /\ \A q \in Numbers(box) \union Held : evs'[q] = evs[q] /\ q # Now
         /\ CountOf({"permission"})' = CountOf({"permission"}) + IF x.kind = "permission" THEN 1 ELSE 0
<1> DEFINE k == Len(evs)
           P == {a \in DOMAIN evs : evs[a].kind \in {"permission"}}
           Q == {a \in DOMAIN evs' : evs'[a].kind \in {"permission"}}
<1>1. /\ k \in Nat /\ evs \in Seq(Event) /\ Items = 1..k /\ DOMAIN evs = Items
      /\ box \in Box(k) /\ Held \subseteq 1..k /\ Numbers(box) \subseteq 1..k
  BY State
<1>2. /\ Now = k + 1 /\ Len(evs') = k + 1 /\ evs'[k + 1] = x /\ DOMAIN evs' = 1..(k + 1)
      /\ \A a \in 1..k : evs'[a] = evs[a]
  BY <1>1 DEF Now
<1>3. Longer(evs, evs', k)
  BY <1>2 DEF Longer
<1>4. Good(evs, box, Held)
  BY DEF IInv
<1>5. Good(evs', box, Held)
  BY <1>1, <1>3, <1>4, GoodLonger
<1>6. \A q \in Numbers(box) \union Held : evs'[q] = evs[q] /\ q # k + 1
  <2>1. \A q \in 1..k : evs'[q] = evs[q] /\ q # k + 1
    BY <1>1, <1>2
  <2> QED BY <1>1, <2>1
<1>7. IsFiniteSet(P) /\ Cardinality(P) \in Nat /\ k + 1 \notin P
  <2>1. P \subseteq 1..k
    BY <1>1
  <2> QED BY <1>1, <2>1, RequestsFinite
<1>8. Q = IF x.kind = "permission" THEN P \union {k + 1} ELSE P
  BY <1>1, <1>2
<1>9. Cardinality(Q) = Cardinality(P) + IF x.kind = "permission" THEN 1 ELSE 0
  <2> HIDE DEF P, Q
  <2>1. CASE x.kind = "permission"
    BY <1>7, <1>8, <2>1, FS_AddElement
  <2>2. CASE x.kind # "permission"
    BY <1>7, <1>8, <2>2
  <2> QED BY <2>1, <2>2
<1>10. CountOf({"permission"})' = Cardinality(Q) /\ CountOf({"permission"}) = Cardinality(P)
  BY DEF CountOf
<1> HIDE DEF P, Q
<1> QED BY <1>1, <1>2, <1>3, <1>5, <1>6, <1>9, <1>10

LEMMA SubmitKeeps ==
  ASSUME IInv, NEW s \in Sources, NEW due \in BOOLEAN, Submit(s, due)
  PROVE  IInv'
<1> DEFINE x == [kind |-> "event", src |-> s, held |-> {}]
           k == Len(evs)
           b == [box EXCEPT !.queue[s] = @ \union {k + 1}]
<1>1. x \in Event /\ evs' = Append(evs, x)
  BY DEF Submit, Arrival, Event
<1>2. /\ Len(evs) \in Nat /\ Now = Len(evs) + 1 /\ evs'[Now] = x
      /\ Good(evs', box, Held) /\ Held \subseteq 1..Len(evs)
      /\ \A q \in Numbers(box) \union Held : evs'[q] = evs[q]
      /\ CountOf({"permission"})' = CountOf({"permission"})
  <2>1. CountOf({"permission"}) \in Nat
    BY State, RequestsFinite DEF CountOf
  <2>2. x.kind # "permission"
    OBVIOUS
  <2> HIDE DEF x
  <2> QED BY <1>1, <2>1, <2>2, Appended
<1>3. box \in Box(Len(evs))
  BY State
<1>4. /\ b \in Box(Now) /\ Good(evs', b, Held) /\ Pending(b) = Pending(box) \union {Now}
      /\ b.perms = box.perms /\ b.blocked = box.blocked /\ b.bounds = box.bounds
  <2>1. evs'[k + 1].kind = "event" /\ evs'[k + 1].src = s
    BY <1>2
  <2>2. k \in Nat /\ box \in Box(k) /\ Good(evs', box, Held) /\ Held \subseteq 1..k /\ Now = k + 1
    BY <1>2, <1>3
  <2> HIDE DEF k
  <2>3. /\ b \in Box(k + 1) /\ Good(evs', b, Held) /\ Pending(b) = Pending(box) \union {k + 1}
        /\ b.perms = box.perms /\ b.blocked = box.blocked /\ b.bounds = box.bounds
    BY <2>1, <2>2, CollectKeeps
  <2> HIDE DEF b
  <2> QED BY <2>2, <2>3
<1>5. box' = Freeze(b, Now) \/ box' = Reschedule(b)
  BY <1>2 DEF Submit, FreezeIfTriggered
<1> HIDE DEF b
<1>6. /\ box' \in Box(Now) /\ Good(evs', box', Held) /\ Pending(box') = Pending(b)
      /\ box'.bounds = b.bounds /\ box'.perms = b.perms /\ box'.blocked = b.blocked
  <2>1. Now \in Nat
    BY <1>2
  <2> QED BY <1>4, <1>5, <2>1, FreezeOrNotKeeps
<1>7. Numbers(box') = Numbers(box)
  BY <1>4, <1>6 DEF Numbers
<1>8. /\ Accepts /\ UNCHANGED <<worker, cur, abort, broken, sent, done, failed, fails>>
      /\ closing' = closing /\ wake' = TRUE
  BY DEF Submit, Rest
<1>9. Held' = Held
  BY <1>8 DEF Held
<1>10. Counted'
  <2>1. \A t \in Sources : Requests(evs', box', Held', t) = Requests(evs, box, Held, t)
    BY <1>2, <1>7, <1>9 DEF Requests
  <2> QED BY <1>4, <1>6, <1>8, <2>1 DEF IInv, Counted
<1>11. Permitted'
  BY <1>2 DEF IInv, Permitted
<1>12. closing' \in BOOLEAN
  BY <1>8 DEF IInv, TypeOK
<1>13. /\ Pending(box') = Pending(box) \union {Now}
       /\ box'.bounds \union Numbers(box') \subseteq box.bounds \union Numbers(box) \union {Now}
  BY <1>4, <1>6, <1>7
<1>14. /\ x.kind \in Boundaries => x.src = None
       /\ x.kind \notin Boundaries => x.src \in Sources
       /\ x.kind # "close"
  BY DEF Boundaries
<1> HIDE DEF x
<1> QED BY <1>1, <1>6, <1>8, <1>10, <1>11, <1>12, <1>13, <1>14, ArrivalKeeps

LEMMA SubmitPermissionKeeps ==
  ASSUME IInv, NEW s \in Sources, SubmitPermission(s)
  PROVE  IInv'
<1> DEFINE x == [kind |-> "permission", src |-> s, held |-> {}]
           k == Len(evs)
           c == Asked(box, s, Now)
<1>1. x \in Event /\ evs' = Append(evs, x)
  BY DEF SubmitPermission, Arrival, Event
<1>2. /\ Len(evs) \in Nat /\ Now = Len(evs) + 1 /\ evs'[Now] = x
      /\ Longer(evs, evs', Len(evs)) /\ Good(evs', box, Held) /\ Held \subseteq 1..Len(evs)
      /\ Numbers(box) \subseteq 1..Len(evs)
      /\ \A q \in Numbers(box) \union Held : evs'[q] = evs[q] /\ q # Now
      /\ CountOf({"permission"})' = CountOf({"permission"}) + 1
  BY <1>1, Appended
<1>3. box \in Box(Len(evs))
  BY State
<1>4. /\ Accepts /\ UNCHANGED <<worker, cur, abort, broken, sent, done, failed, fails>>
      /\ closing' = closing /\ wake' = TRUE /\ CountOf({"permission"}) < MaxPermissions
      /\ box' = Reschedule(c)
  BY DEF SubmitPermission, Rest, Now, Asked
<1>5. worker # "ended"
  BY <1>4 DEF IInv, Operating, Accepts
<1>6. CountOf({"permission"}) \in Nat
  BY State, RequestsFinite DEF CountOf
<1>7. Room(box, s)
  <2>1. box.blocked[s] <= CountOf({"permission"}) /\ box.blocked[s] \in Nat
    BY <1>2, <1>3, <1>5, BlockedByFew, BoxFields
  <2> QED BY <1>4, <1>6, <2>1, Parameters DEF Room
<1>8. /\ c \in Box(Now) /\ Good(evs', c, Held) /\ Pending(c) = Pending(box) \union {Now}
      /\ Numbers(c) = Numbers(box) \union {Now} /\ c.bounds = box.bounds
      /\ \A t \in Sources : c.blocked[t] = IF t = s THEN box.blocked[s] + 1 ELSE box.blocked[t]
  <2>1. Asks(evs', Now, s)
    BY <1>2 DEF Asks
  <2>2. k \in Nat /\ Longer(evs, evs', k) /\ box \in Box(k) /\ Known(Held, k) /\ Now = k + 1
        /\ Good(evs', box, Held)
    BY <1>2, <1>3 DEF Known
  <2> HIDE DEF k
  <2>3. /\ c \in Box(Now) /\ Good(evs', c, Held) /\ Pending(c) = Pending(box) \union {Now}
        /\ Numbers(c) = Numbers(box) \union {Now} /\ OneMore(box, c, s)
    BY <1>7, <2>1, <2>2, AskKeeps
  <2> HIDE DEF c
  <2> QED BY <2>3 DEF OneMore
<1> HIDE DEF c
<1>9. /\ box' \in Box(Now) /\ box'.queue = c.queue /\ box'.batches = c.batches /\ box'.bounds = c.bounds
      /\ box'.perms = c.perms /\ box'.blocked = c.blocked
  <2>1. Now \in Nat
    BY <1>2
  <2> QED BY <1>4, <1>8, <2>1, RescheduleIs
<1>10. Good(evs', box', Held)
  <2>1. Shrinks(c, box', Held, Held)
    BY <1>8, <1>9 DEF Shrinks, Good, Requested
  <2> QED BY <1>8, <1>9, <2>1, ShrinkFronts
<1>11. Pending(box') = Pending(c) /\ Numbers(box') = Numbers(c)
  BY <1>9 DEF Pending, Numbers
<1>12. Held' = Held
  BY <1>4 DEF Held
<1>13. Counted'
  <2>1. SUFFICES ASSUME NEW t \in Sources
                 PROVE  box'.blocked[t] = Cardinality(Requests(evs', box', Held', t))
    BY DEF Counted
  <2> DEFINE R == Requests(evs, box, Held, t)
  <2>2. box.blocked[t] = Cardinality(R)
    BY <1>5 DEF IInv, Counted
  <2>3. IsFiniteSet(R) /\ Now \notin R
    <3>1. R \subseteq 1..Len(evs)
      BY <1>2 DEF Requests
    <3> QED BY <1>2, <3>1, RequestsFinite DEF Requests
  <2>4. CASE t = s
    <3>1. Requests(evs', box', Held', t) = R \union {Now}
      BY <1>2, <1>8, <1>11, <1>12, <2>4 DEF Requests
    <3> HIDE DEF R
    <3>2. Cardinality(R \union {Now}) = Cardinality(R) + 1
      BY <2>3, FS_AddElement
    <3> QED BY <1>8, <1>9, <2>2, <2>4, <3>1, <3>2
  <2>5. CASE t # s
    <3>1. Requests(evs', box', Held', t) = R
      BY <1>2, <1>8, <1>11, <1>12, <2>5 DEF Requests
    <3> QED BY <1>8, <1>9, <2>2, <2>5, <3>1
  <2> QED BY <2>4, <2>5
<1>14. Permitted'
  BY <1>2, <1>4, <1>6, Parameters DEF Permitted
<1>15. closing' \in BOOLEAN
  BY <1>4 DEF IInv, TypeOK
<1>16. /\ Pending(box') = Pending(box) \union {Now}
       /\ box'.bounds \union Numbers(box') \subseteq box.bounds \union Numbers(box) \union {Now}
  BY <1>8, <1>9, <1>11
<1>17. /\ x.kind \in Boundaries => x.src = None
       /\ x.kind \notin Boundaries => x.src \in Sources
       /\ x.kind # "close"
  BY DEF Boundaries
<1> HIDE DEF x
<1> QED BY <1>1, <1>4, <1>9, <1>10, <1>13, <1>14, <1>15, <1>16, <1>17, ArrivalKeeps

LEMMA SubmitBoundaryKeeps ==
  ASSUME IInv, NEW kind \in Boundaries, SubmitBoundary(kind)
  PROVE  IInv'
<1> DEFINE x == [kind |-> kind, src |-> None, held |-> HeldBack(box)]
           b == Freeze(box, Len(evs))
<1>1. x \in Event /\ evs' = Append(evs, x)
  <2>1. HeldBack(box) \subseteq Nat
    BY State DEF HeldBack, Box
  <2> QED BY <2>1 DEF SubmitBoundary, Arrival, Event
<1>2. /\ Len(evs) \in Nat /\ Now = Len(evs) + 1 /\ evs'[Now] = x
      /\ Longer(evs, evs', Len(evs)) /\ Good(evs', box, Held) /\ Held \subseteq 1..Len(evs)
      /\ \A q \in Numbers(box) \union Held : evs'[q] = evs[q]
      /\ CountOf({"permission"})' = CountOf({"permission"})
  <2>1. CountOf({"permission"}) \in Nat
    BY State, RequestsFinite DEF CountOf
  <2>2. x.kind # "permission"
    BY DEF Boundaries
  <2> HIDE DEF x
  <2> QED BY <1>1, <2>1, <2>2, Appended
<1>3. box \in Box(Len(evs))
  BY State
<1>4. /\ Accepts /\ UNCHANGED <<worker, cur, abort, broken, sent, done, failed, fails>>
      /\ closing' = (kind = "close") /\ wake' = TRUE
      /\ box' = [b EXCEPT !.bounds = @ \union {Now}]
  BY DEF SubmitBoundary
<1>5. worker # "ended"
  BY <1>4 DEF IInv, Operating, Accepts
<1>6. /\ b \in Box(Len(evs)) /\ Good(evs', b, Held) /\ Pending(b) = Pending(box)
      /\ b.bounds = box.bounds /\ b.perms = box.perms /\ b.blocked = box.blocked
      /\ \A s \in Sources : b.queue[s] \subseteq box.queue[s] /\ (box.blocked[s] = 0 => b.queue[s] = {})
  BY <1>2, <1>3, FreezeKeeps
<1> HIDE DEF b
<1>7. ASSUME NEW s \in Sources, NEW a \in b.queue[s] PROVE a \in evs'[Now].held
  <2>1. box.blocked[s] # 0 /\ a \in box.queue[s]
    BY <1>6, <1>7
  <2>2. a \in HeldBack(box)
    BY <2>1 DEF HeldBack
  <2> QED BY <1>2, <2>2
<1>8. /\ box' \in Box(Now) /\ Good(evs', box', Held) /\ Pending(box') = Pending(b) \union {Now}
      /\ box'.perms = b.perms /\ box'.blocked = b.blocked /\ box'.bounds = b.bounds \union {Now}
  <2> DEFINE k == Len(evs)
             c == [b EXCEPT !.bounds = @ \union {k + 1}]
  <2>1. k \in Nat /\ b \in Box(k) /\ Held \subseteq 1..k /\ evs'[k + 1].kind \in Boundaries
    BY <1>2, <1>6
  <2>2. Now = k + 1 /\ box' = c
    BY <1>2, <1>4
  <2> HIDE DEF k
  <2>3. /\ c \in Box(k + 1) /\ Good(evs', c, Held) /\ Pending(c) = Pending(b) \union {k + 1}
        /\ c.perms = b.perms /\ c.blocked = b.blocked /\ c.bounds = b.bounds \union {k + 1}
    BY <1>6, <1>7, <2>1, <2>2, BoundKeeps
  <2> HIDE DEF c
  <2> QED BY <2>2, <2>3
<1>9. Numbers(box') = Numbers(box)
  BY <1>6, <1>8 DEF Numbers
<1>10. Held' = Held
  BY <1>4 DEF Held
<1>11. Counted'
  <2>1. \A t \in Sources : Requests(evs', box', Held', t) = Requests(evs, box, Held, t)
    BY <1>2, <1>9, <1>10 DEF Requests
  <2> QED BY <1>4, <1>6, <1>8, <2>1 DEF IInv, Counted
<1>12. Permitted'
  BY <1>2 DEF IInv, Permitted
<1>13. closing' \in BOOLEAN /\ (x.kind = "close" => closing')
  BY <1>4
<1>14. /\ Pending(box') = Pending(box) \union {Now}
       /\ box'.bounds \union Numbers(box') \subseteq box.bounds \union Numbers(box) \union {Now}
  BY <1>6, <1>8, <1>9
<1>15. /\ x.kind \in Boundaries => x.src = None
       /\ x.kind \notin Boundaries => x.src \in Sources
  OBVIOUS
<1> HIDE DEF x
<1> QED BY <1>1, <1>4, <1>8, <1>11, <1>12, <1>13, <1>14, <1>15, ArrivalKeeps

\* Nothing is taken, and nothing is added.
LEMMA ShuffleKeeps ==
  ASSUME IInv, box' \in Box(Len(evs)), Good(evs, box', Held), Pending(box') = Pending(box),
         Numbers(box') = Numbers(box), box'.bounds = box.bounds, box'.blocked = box.blocked,
         UNCHANGED <<evs, worker, cur, sent, done, failed, fails>>,
         closing => closing', broken => broken',
         {wake', closing', broken'} \subseteq BOOLEAN, abort' \in {"none", "begun", "over"}
  PROVE  IInv'
<1>1. /\ Items' = Items /\ Sent' = Sent /\ Held' = Held /\ Contents(cur)' = Contents(cur)
      /\ Publishing' = Publishing /\ Completing' = Completing
      /\ evs' = evs /\ worker' = worker /\ cur' = cur /\ sent' = sent /\ done' = done /\ failed' = failed
  BY DEF Items, Sent, Held, Contents, Publishing, Completing
<1>2. TypeOK'
  BY <1>1 DEF IInv, TypeOK
<1>3. Good(evs, box, Held)'
  BY <1>1
<1>4. Counted'
  <2>1. \A s \in Sources : Requests(evs', box', Held', s) = Requests(evs, box, Held, s)
    BY <1>1 DEF Requests
  <2> QED BY <1>1, <2>1 DEF IInv, Counted
<1>5. Arrivals(evs') /\ Closes' /\ Permitted' /\ SourceOrder'
  BY <1>1 DEF IInv, Arrivals, Closes, Permitted, CountOf, SourceOrder
<1>6. Accounted'
  BY <1>1 DEF IInv, Accounted
<1>7. Operating'
  BY <1>1 DEF IInv, Operating
<1>8. Passing' /\ Fencing'
  BY <1>1 DEF IInv, Passing, Fencing
<1>9. NoneLeftWaiting'
  <2>1. box.perms = {} => box'.perms = {}
    BY ZenonT(60) DEF Numbers
  <2> QED BY <1>1, <2>1 DEF IInv, NoneLeftWaiting
<1> QED BY <1>2, <1>3, <1>4, <1>5, <1>6, <1>7, <1>8, <1>9 DEF IInv


\* A request is answered, or the open ones are cancelled.
Same(p, q) == p.no = q.no /\ p.prefix = q.prefix

LEMMA RelabelKeeps ==
  ASSUME NEW e, NEW b, NEW c, NEW h, Good(e, b, h),
         c.queue = b.queue, c.batches = b.batches, c.bounds = b.bounds, c.blocked = b.blocked,
         \A p \in c.perms : \E q \in b.perms : Same(p, q),
         \A q \in b.perms : \E p \in c.perms : Same(p, q),
         \A p, q \in c.perms : p.no = q.no => p = q
  PROVE  Good(e, c, h) /\ Pending(c) = Pending(b) /\ Numbers(c) = Numbers(b)
<1>1. Shrinks(b, c, h, h)
  BY DEF Shrinks, Same
<1>2. Good(e, c, h)
  BY <1>1, ShrinkFronts
<1>3. Numbers(c) = Numbers(b)
  BY DEF Numbers, Same
<1>4. ASSUME NEW x PROVE Within(c, x) <=> Within(b, x)
  <2>1. (\E p \in c.perms : x \in p.prefix \/ x = p.no) <=> \E q \in b.perms : x \in q.prefix \/ x = q.no
    BY DEF Same
  <2> QED BY <2>1 DEF Within
<1>5. Pending(c) = Pending(b)
  BY <1>4, PendingIs
<1> QED BY <1>2, <1>3, <1>5

LEMMA DecideKeeps ==
  ASSUME IInv, NEW p \in box.perms, NEW decision \in {"made", "raised"}, Decide(p, decision)
  PROVE  IInv'
<1> DEFINE k == Len(evs)
           q == [p EXCEPT !.decision = decision]
           P == (box.perms \ {p}) \union {q}
<1>1. /\ box' = [box EXCEPT !.perms = P] /\ wake' = TRUE
      /\ UNCHANGED <<evs, worker, cur, closing, abort, broken, sent, done, failed, fails>>
  BY DEF Decide, Replace, DecisionWakes, Rest
<1>2. k \in Nat /\ box \in Box(k) /\ Good(evs, box, Held)
  BY State DEF IInv
<1> HIDE DEF k
<1>3. /\ box.perms \subseteq [no : 1..k, decision : Decisions, prefix : SUBSET (1..k)]
      /\ q \in [no : 1..k, decision : Decisions, prefix : SUBSET (1..k)]
      /\ q.no = p.no /\ q.prefix = p.prefix
  BY <1>2 DEF Box, Decisions
<1> HIDE DEF q
<1>4. P \subseteq [no : 1..k, decision : Decisions, prefix : SUBSET (1..k)]
  BY <1>3
<1> HIDE DEF P
<1>5. /\ box' \in Box(k) /\ box'.queue = box.queue /\ box'.batches = box.batches /\ box'.bounds = box.bounds
      /\ box'.perms = P /\ box'.blocked = box.blocked
  BY <1>1, <1>2, <1>4 DEF Box
<1>6. \A r, t \in box.perms : r.no = t.no => r = t
  BY <1>2 DEF Good, Requested
<1>7. /\ \A r \in box'.perms : \E t \in box.perms : Same(r, t)
      /\ \A t \in box.perms : \E r \in box'.perms : Same(r, t)
      /\ \A r, t \in box'.perms : r.no = t.no => r = t
  BY <1>3, <1>5, <1>6 DEF P, Same
<1>8. Good(evs, box', Held) /\ Pending(box') = Pending(box) /\ Numbers(box') = Numbers(box)
  BY <1>2, <1>5, <1>7, RelabelKeeps
<1>9. {wake', closing', broken'} \subseteq BOOLEAN /\ abort' \in {"none", "begun", "over"}
  BY <1>1 DEF IInv, TypeOK
<1> QED BY <1>1, <1>5, <1>8, <1>9, ShuffleKeeps DEF k

LEMMA AbortBeginsKeeps ==
  ASSUME IInv, AbortBegins
  PROVE  IInv'
<1> DEFINE k == Len(evs)
           P == {Cancelled(p) : p \in box.perms}
<1>1. /\ box' = [box EXCEPT !.perms = P, !.timer = FALSE] /\ wake' = TRUE /\ closing' = TRUE /\ broken' = TRUE
      /\ abort' = "begun" /\ UNCHANGED <<evs, worker, cur, sent, done, failed, fails>>
  BY DEF AbortBegins
<1>2. k \in Nat /\ box \in Box(k) /\ Good(evs, box, Held)
  BY State DEF IInv
<1> HIDE DEF k
<1>3. ASSUME NEW p \in box.perms
      PROVE  /\ Cancelled(p) \in [no : 1..k, decision : Decisions, prefix : SUBSET (1..k)]
             /\ Cancelled(p).no = p.no /\ Cancelled(p).prefix = p.prefix
  BY <1>2 DEF Box, Decisions, Cancelled
<1>4. P \subseteq [no : 1..k, decision : Decisions, prefix : SUBSET (1..k)]
  BY <1>3
<1>5. /\ \A r \in P : \E t \in box.perms : Same(r, t) /\ r = Cancelled(t)
      /\ \A t \in box.perms : \E r \in P : Same(r, t)
  BY <1>3 DEF Same
<1> HIDE DEF P
<1>6. /\ box' \in Box(k) /\ box'.queue = box.queue /\ box'.batches = box.batches /\ box'.bounds = box.bounds
      /\ box'.perms = P /\ box'.blocked = box.blocked
  BY <1>1, <1>2, <1>4 DEF Box
<1>7. \A r, t \in box.perms : r.no = t.no => r = t
  BY <1>2 DEF Good, Requested
<1>8. \A r, t \in P : r.no = t.no => r = t
  BY <1>5, <1>7 DEF Same
<1>9. Good(evs, box', Held) /\ Pending(box') = Pending(box) /\ Numbers(box') = Numbers(box)
  BY <1>2, <1>5, <1>6, <1>8, RelabelKeeps
<1> QED BY <1>1, <1>6, <1>9, ShuffleKeeps DEF k

LEMMA DelayFiresKeeps ==
  ASSUME IInv, DelayFires
  PROVE  IInv'
<1>1. /\ box' = Freeze(box, Len(evs)) /\ wake' = TRUE
      /\ UNCHANGED <<evs, worker, cur, closing, abort, broken, sent, done, failed, fails>>
  BY DEF DelayFires, Rest
<1>2. Len(evs) \in Nat /\ box \in Box(Len(evs)) /\ Good(evs, box, Held)
  BY State DEF IInv
<1>3. /\ box' \in Box(Len(evs)) /\ Good(evs, box', Held) /\ Pending(box') = Pending(box)
      /\ box'.bounds = box.bounds /\ box'.perms = box.perms /\ box'.blocked = box.blocked
  BY <1>1, <1>2, FreezeKeeps
<1>4. Numbers(box') = Numbers(box)
  BY <1>3 DEF Numbers
<1>5. {wake', closing', broken'} \subseteq BOOLEAN /\ abort' \in {"none", "begun", "over"}
  BY <1>1 DEF IInv, TypeOK
<1> QED BY <1>1, <1>3, <1>4, <1>5, ShuffleKeeps

\* The worker goes to sleep.
LEMMA WaitKeeps ==
  ASSUME IInv, Wait
  PROVE  IInv'
<1>1. /\ worker \in {"select", "wait"} /\ worker' = "wait" /\ wake' = FALSE
      /\ UNCHANGED <<evs, box, cur, closing, abort, broken, sent, done, failed, fails>>
  BY DEF Wait, Selects
<1>2. TypeOK'
  BY <1>1 DEF IInv, TypeOK, Items
<1>3. Good(evs, box, Held)' /\ Counted' /\ Arrivals(evs)' /\ Closes' /\ Permitted' /\ SourceOrder'
  <2>1. Held' = Held /\ Items' = Items
    BY <1>1 DEF Held, Items
  <2>2. \A s \in Sources : Requests(evs', box', Held', s) = Requests(evs, box, Held, s)
    BY <1>1, <2>1 DEF Requests
  <2> QED BY <1>1, <2>1, <2>2 DEF IInv, Counted, Arrivals, Closes, Permitted, CountOf, SourceOrder
<1>4. /\ Items' = Items /\ Sent' = Sent /\ Contents(cur)' = Contents(cur)
      /\ Publishing' = Publishing /\ Completing' = Completing
  BY <1>1 DEF Items, Sent, Contents, Publishing, Completing
<1>5. Accounted' /\ Passing' /\ Fencing'
  BY <1>1, <1>4 DEF IInv, Accounted, Passing, Fencing
<1>6. Operating'
  BY <1>1, <1>4 DEF IInv, Operating
<1>7. NoneLeftWaiting'
  BY <1>1 DEF NoneLeftWaiting
<1> QED BY <1>2, <1>3, <1>5, <1>6, <1>7 DEF IInv

LEMMA PendingBoundary ==
  ASSUME NEW e, NEW b, NEW h, Good(e, b, h), NEW n \in Pending(b), e[n].kind \in Boundaries
  PROVE  n \in b.bounds
<1>1. Within(b, n)
  BY PendingIs
<1>2. Sorted(e, b)
  BY DEF Good
<1> QED BY <1>1, <1>2 DEF Within, Sorted, Boundaries

\* The worker takes an operation.
Taken(op, b) ==
  /\ b \in Box(Len(evs)) /\ b.blocked = box.blocked
  /\ Contents(op) \subseteq Pending(box) /\ Pending(b) = Pending(box) \ Contents(op)
  /\ op.kind = "batch" => \A a \in op.items : evs[a].kind = "event"
  /\ op.kind # "batch" => evs[op.no].kind = op.kind
  /\ op.kind \notin Boundaries =>
       /\ \A a \in Contents(op), x \in Pending(b) : evs[a].src = evs[x].src => a < x
       /\ \A a \in Contents(op), n \in box.bounds : a < n
  /\ op.kind \in Boundaries =>
       /\ \A n \in b.bounds \union Numbers(b) : op.no < n
       /\ \A a \in Pending(b) : a < op.no => a \in evs[op.no].held

LEMMA ExecutesKeeps ==
  ASSUME IInv, NEW op \in Operation, Executes(op, box'), Taken(op, box'), Good(evs, box', Held'),
         Numbers(box') \union Held' = Numbers(box)
  PROVE  IInv'
<1>1. /\ worker \in {"select", "wait"} /\ worker' = "busy" /\ cur' = op
      /\ UNCHANGED <<evs, wake, closing, abort, broken, sent, done, failed, fails>>
  BY DEF Executes, Selects
<1>2. cur = None /\ worker # "ended" /\ worker # "busy"
  BY <1>1 DEF IInv, TypeOK
<1>3. Held = {} /\ Contents(cur) = {} /\ Publishing = {} /\ Completing = {}
  BY <1>2 DEF Held, Contents, Publishing, Completing
<1>4. op # None
  BY Parameters
<1>5. /\ Items' = Items /\ Sent' = Sent /\ Contents(cur)' = Contents(op)
      /\ Publishing' = (IF op.kind \notin Boundaries THEN Contents(op) ELSE {})
      /\ Completing' = (IF op.kind \in Boundaries THEN Contents(op) ELSE {})
  BY <1>1, <1>4 DEF Items, Sent, Contents, Publishing, Completing
<1>6. op.kind \in Boundaries => Contents(op) = {op.no}
  BY <1>4 DEF Contents, Boundaries
<1>7. /\ Len(evs) \in Nat /\ Items = 1..Len(evs) /\ Sent \subseteq Items /\ done \subseteq Items
      /\ Pending(box) \subseteq Items /\ box.bounds \subseteq Items
  BY State, BoxFields
<1>8. failed = {}
  BY <1>2 DEF IInv, Operating
<1>9. Contents(op) \subseteq Items
  BY <1>7 DEF Taken
<1>10. TypeOK'
  <2>1. box' \in Box(Len(evs))
    BY DEF Taken
  <2> QED BY <1>1, <1>4, <1>5, <1>9, <2>1 DEF IInv, TypeOK
<1>11. Good(evs, box, Held)'
  BY <1>1
<1>12. Counted'
  <2>1. \A s \in Sources : Requests(evs', box', Held', s) = Requests(evs, box, Held, s)
    BY <1>1, <1>3 DEF Requests
  <2> QED BY <1>1, <1>2, <2>1 DEF IInv, Counted, Taken
<1>13. Arrivals(evs)' /\ Closes' /\ Permitted' /\ SourceOrder'
  BY <1>1, <1>5 DEF IInv, Arrivals, Closes, Permitted, CountOf, SourceOrder
<1>14. Accounted'
  <2>1. Items = Sent \union done \union failed \union Pending(box') \union Contents(op)
    BY <1>3 DEF IInv, Accounted, Taken
  <2>2. /\ \A a \in Sent : a \notin done /\ a \notin failed /\ a \notin Pending(box') /\ a \notin Contents(op)
        /\ \A a \in done : a \notin failed /\ a \notin Pending(box') /\ a \notin Contents(op)
        /\ \A a \in failed : a \notin Pending(box') /\ a \notin Contents(op)
        /\ \A a \in Pending(box') : a \notin Contents(op)
    BY DEF IInv, Accounted, Taken
  <2>3. \A i, j \in DOMAIN sent : i # j => sent[i] \intersect sent[j] = {}
    BY DEF IInv, Accounted
  <2> QED BY <1>1, <1>5, <2>1, <2>2, <2>3 DEF Accounted
<1>15. Operating'
  <2>1. /\ op.kind = "batch" => \A a \in op.items : evs[a].kind = "event"
        /\ op.kind # "batch" => evs[op.no].kind = op.kind
        /\ op.kind \in Boundaries => \A n \in box'.bounds \union Numbers(box') : op.no < n
    BY DEF Taken
  <2>2. (\A a \in Sent : evs[a].kind \notin Boundaries) /\ \A a \in done : evs[a].kind \in Boundaries
    BY DEF IInv, Operating
  <2> QED BY <1>1, <1>5, <1>8, <2>1, <2>2 DEF Operating
<1>16. Passing'
  <2>1. \A a \in Sent, c \in Publishing' : evs[a].src = evs[c].src => a < c
    BY <1>5 DEF IInv, Passing, Taken
  <2>2. \A a \in Sent \union Publishing', c \in Pending(box') : evs[a].src = evs[c].src => a < c
    BY <1>5 DEF IInv, Passing, Taken
  <2>3. ASSUME NEW a \in Sent \union Publishing', NEW n \in Items, evs[n].kind \in Boundaries, n < a
        PROVE  n \in done \union failed
    <3>1. CASE a \in Sent
      BY <2>3, <3>1 DEF IInv, Passing
    <3>2. CASE a \in Publishing'
      <4>1. op.kind \notin Boundaries /\ a \in Contents(op)
        BY <1>5, <3>2
      <4>2. n \notin Pending(box)
        <5>1. SUFFICES ASSUME n \in Pending(box) PROVE FALSE
          OBVIOUS
        <5>2. n \in box.bounds
          BY <2>3, <5>1, PendingBoundary DEF IInv
        <5>3. a < n
          BY <4>1, <5>2 DEF Taken
        <5> QED BY <1>7, <1>9, <2>3, <4>1, <5>3
      <4>3. n \notin Sent
        BY <2>3 DEF IInv, Operating
      <4> QED BY <1>3, <4>2, <4>3 DEF IInv, Accounted
    <3> QED BY <3>1, <3>2
  <2> QED BY <1>1, <1>5, <2>1, <2>2, <2>3 DEF Passing
<1>17. Fencing'
  <2>1. ASSUME NEW n \in done \union Completing', NEW a \in Items, a < n
        PROVE  a \in Sent \union done \/ a \in evs[n].held
    <3>1. CASE n \in done
      BY <2>1, <3>1 DEF IInv, Fencing
    <3>2. CASE n \in Completing'
      <4>1. op.kind \in Boundaries /\ n = op.no /\ Contents(op) = {n}
        BY <1>5, <1>6, <3>2
      <4>2. a # n
        BY <1>7, <1>9, <2>1, <4>1
      <4>3. a \in Pending(box) => a \in evs[n].held
        BY <2>1, <4>1, <4>2 DEF Taken
      <4> QED BY <1>3, <1>8, <4>3 DEF IInv, Accounted
    <3> QED BY <2>1, <3>1, <3>2
  <2> QED BY <1>1, <1>5, <2>1 DEF Fencing
<1>18. NoneLeftWaiting'
  BY <1>1 DEF NoneLeftWaiting
<1> QED BY <1>10, <1>11, <1>12, <1>13, <1>14, <1>15, <1>16, <1>17, <1>18 DEF IInv

LEMMA SelectPrefixStep ==
  ASSUME IInv, NEW p \in box.perms, SelectPrefix(p)
  PROVE  IInv'
<1> DEFINE op == Batch(p.prefix)
           c == Replace(p, [p EXCEPT !.prefix = {}])
<1>1. IsFirst(p, Deliverable(box)) /\ Executes(op, c) /\ box' = c /\ cur' = op /\ Selects
  BY DEF SelectPrefix, Executes
<1>2. Held = {} /\ Good(evs, box, {})
  <2>1. cur = None
    BY <1>1 DEF IInv, TypeOK, Selects
  <2> QED BY <2>1 DEF IInv, Held
<1>3. /\ Len(evs) \in Nat /\ box \in Box(Len(evs)) /\ Arrivals(evs)
  BY State DEF IInv
<1>4. /\ c \in Box(Len(evs)) /\ Good(evs, c, {}) /\ Leads(evs, box, c, p.prefix)
      /\ Numbers(c) = Numbers(box) /\ c.bounds = box.bounds /\ c.blocked = box.blocked
  BY <1>1, <1>2, <1>3, SelectPrefixKeeps
<1> HIDE DEF c
<1>5. op.kind = "batch" /\ op.items = p.prefix
  BY DEF Batch
<1>6. p.prefix \subseteq 1..Len(evs) /\ \A a \in p.prefix : evs[a].kind = "event"
  BY <1>2, <1>3, BoxFields DEF Good, Sorted
<1>7. op \in Operation
  <2>1. p.prefix \in SUBSET Nat
    BY <1>3, <1>6
  <2> QED BY <2>1 DEF Batch, Operation
<1> HIDE DEF op
<1>8. Contents(op) = p.prefix /\ Held' = {}
  <2>1. op # None
    BY <1>7, Parameters
  <2> QED BY <1>1, <1>5, <2>1 DEF Contents, Held
<1>9. Taken(op, c)
  BY <1>4, <1>5, <1>6, <1>8 DEF Taken, Leads, Boundaries
<1> QED BY <1>1, <1>4, <1>7, <1>8, <1>9, ExecutesKeeps

LEMMA SelectPermissionStep ==
  ASSUME IInv, NEW p \in box.perms, SelectPermission(p)
  PROVE  IInv'
<1> DEFINE op == [kind |-> "permission", no |-> p.no, decision |-> p.decision]
           c == [box EXCEPT !.perms = @ \ {p}]
<1>1. /\ IsFirst(p, Deliverable(box)) /\ p.prefix = {} /\ Executes(op, c)
      /\ box' = c /\ cur' = op /\ Selects
  BY DEF SelectPermission, Executes
<1>2. Held = {} /\ Good(evs, box, {})
  <2>1. cur = None
    BY <1>1 DEF IInv, TypeOK, Selects
  <2> QED BY <2>1 DEF IInv, Held
<1>3. /\ Len(evs) \in Nat /\ box \in Box(Len(evs)) /\ Arrivals(evs)
  BY State DEF IInv
<1>4. /\ c \in Box(Len(evs)) /\ Good(evs, c, {p.no}) /\ Leads(evs, box, c, {p.no})
      /\ Numbers(c) \union {p.no} = Numbers(box) /\ c.bounds = box.bounds /\ c.blocked = box.blocked
      /\ evs[p.no].kind = "permission"
  BY <1>1, <1>2, <1>3, SelectPermissionKeeps
<1> HIDE DEF c
<1>5. op.kind = "permission" /\ op.no = p.no
  OBVIOUS
<1>6. op \in Operation
  <2>1. p.no \in Nat /\ p.decision \in Decisions
    BY <1>3, BoxFields
  <2> QED BY <2>1 DEF Operation
<1> HIDE DEF op
<1>7. Contents(op) = {p.no} /\ Held' = {p.no}
  <2>1. op # None
    BY <1>6, Parameters
  <2> QED BY <1>1, <1>5, <2>1 DEF Contents, Held
<1>8. Taken(op, c)
  BY <1>4, <1>5, <1>7 DEF Taken, Leads, Boundaries
<1> QED BY <1>1, <1>4, <1>6, <1>7, <1>8, ExecutesKeeps

LEMMA SelectBatchStep ==
  ASSUME IInv, SelectBatch
  PROVE  IInv'
<1> DEFINE op == Batch(Due(box))
           c == Reschedule([Take(box, Due(box)) EXCEPT !.batches = @ \ LeadingBatches(box)])
<1>1. Executes(op, c) /\ box' = c /\ cur' = op /\ Selects
  BY DEF SelectBatch, Executes
<1>2. Held = {} /\ Good(evs, box, {})
  <2>1. cur = None
    BY <1>1 DEF IInv, TypeOK, Selects
  <2> QED BY <2>1 DEF IInv, Held
<1>3. /\ Len(evs) \in Nat /\ box \in Box(Len(evs)) /\ Arrivals(evs)
  BY State DEF IInv
<1>4. /\ c \in Box(Len(evs)) /\ Good(evs, c, {}) /\ Leads(evs, box, c, Due(box))
      /\ Numbers(c) = Numbers(box) /\ c.bounds = box.bounds /\ c.blocked = box.blocked
      /\ \A a \in Due(box) : evs[a].kind = "event"
  BY <1>2, <1>3, SelectBatchKeeps
<1> HIDE DEF c
<1>5. op.kind = "batch" /\ op.items = Due(box)
  BY DEF Batch
<1>6. op \in Operation
  <2>1. Due(box) \subseteq Items
    BY <1>4, State DEF Leads
  <2>2. Due(box) \in SUBSET Nat
    BY <1>3, <2>1 DEF Items
  <2> QED BY <2>2 DEF Batch, Operation
<1> HIDE DEF op
<1>7. Contents(op) = Due(box) /\ Held' = {}
  <2>1. op # None
    BY <1>6, Parameters
  <2> QED BY <1>1, <1>5, <2>1 DEF Contents, Held
<1>8. Taken(op, c)
  BY <1>4, <1>5, <1>7 DEF Taken, Leads, Boundaries
<1> QED BY <1>1, <1>4, <1>6, <1>7, <1>8, ExecutesKeeps

LEMMA SelectBoundaryStep ==
  ASSUME IInv, NEW no \in box.bounds, SelectBoundary(no)
  PROVE  IInv'
<1> DEFINE op == [kind |-> evs[no].kind, no |-> no]
           c == [box EXCEPT !.bounds = @ \ {no}]
<1>1. /\ Due(box) = {} /\ no \in Completable(box) /\ Executes(op, c)
      /\ box' = c /\ cur' = op /\ Selects
  BY DEF SelectBoundary, Executes
<1>2. Held = {} /\ Good(evs, box, {})
  <2>1. cur = None
    BY <1>1 DEF IInv, TypeOK, Selects
  <2> QED BY <2>1 DEF IInv, Held
<1>3. Len(evs) \in Nat /\ box \in Box(Len(evs))
  BY State
<1>4. /\ c \in Box(Len(evs)) /\ Good(evs, c, {})
      /\ no \in Pending(box) /\ Pending(c) = Pending(box) \ {no}
      /\ Numbers(c) = Numbers(box) /\ c.blocked = box.blocked
      /\ evs[no].kind \in Boundaries
      /\ \A n \in c.bounds \union Numbers(c) : no < n
      /\ \A a \in Pending(c) : a < no => a \in evs[no].held
  BY <1>1, <1>2, <1>3, SelectBoundaryKeeps
<1> HIDE DEF c
<1>5. op.kind = evs[no].kind /\ op.no = no
  OBVIOUS
<1>6. op \in Operation
  <2>1. no \in Nat
    BY <1>3, BoxFields
  <2> QED BY <1>4, <2>1 DEF Operation
<1> HIDE DEF op
<1>7. Contents(op) = {no} /\ Held' = {}
  <2>1. op # None
    BY <1>6, Parameters
  <2> QED BY <1>1, <1>4, <1>5, <2>1 DEF Contents, Held, Boundaries
<1>8. Taken(op, c)
  BY <1>4, <1>5, <1>7 DEF Taken, Boundaries
<1> QED BY <1>1, <1>4, <1>6, <1>7, <1>8, ExecutesKeeps

\* What the worker executed has been published.
LEMMA PublishedKeeps ==
  ASSUME IInv, worker = "busy", cur.kind \notin Boundaries, sent' = Append(sent, Contents(cur)), done' = done,
         Finished(box'), box' \in Box(Len(evs)), Good(evs, box', {}), Pending(box') = Pending(box), Counted'
  PROVE  IInv'
<1> DEFINE X == Contents(cur)
           n == Len(sent)
<1>1. /\ worker' = "select" /\ cur' = None /\ wake' = TRUE
      /\ UNCHANGED <<evs, closing, abort, broken, failed, fails>>
  BY DEF Finished, Boundaries
<1>2. cur # None
  BY DEF IInv, TypeOK
<1>3. /\ Items' = Items /\ Contents(cur)' = {} /\ Held' = {} /\ Publishing' = {} /\ Completing' = {}
      /\ Publishing = X
  BY <1>1, <1>2 DEF Items, Contents, Held, Publishing, Completing
<1>4. /\ X \subseteq Items /\ Sent \subseteq Items /\ done \subseteq Items
  BY State
<1>5. failed = {}
  BY DEF IInv, Operating
<1>6. sent \in Seq(SUBSET Items) /\ n \in Nat /\ DOMAIN sent = 1..n
  BY DEF IInv, TypeOK
<1> HIDE DEF X
<1>7. /\ sent' \in Seq(SUBSET Items) /\ DOMAIN sent' = 1..(n + 1)
      /\ \A i \in 1..n : sent'[i] = sent[i]
      /\ sent'[n + 1] = X
  BY <1>4, <1>6 DEF X
<1> HIDE DEF n
<1>8. 1..(n + 1) = 1..n \union {n + 1} /\ \A i \in 1..n : i < n + 1
  BY <1>6
<1>9. \A i \in 1..n : sent[i] \subseteq Sent
  BY <1>6 DEF Sent
<1>10. Sent' = Sent \union X
  <2>1. \A a : a \in Sent' <=> \E i \in 1..(n + 1) : a \in sent'[i]
    BY <1>7 DEF Sent
  <2>2. \A a : a \in Sent <=> \E i \in 1..n : a \in sent[i]
    BY <1>6 DEF Sent
  <2> QED BY <1>7, <1>8, <2>1, <2>2
<1>11. TypeOK'
  <2>1. cur' \in Operation \union {None} /\ worker' \in {"select", "wait", "busy", "ended"}
        /\ (worker' = "busy" <=> cur' # None)
    BY <1>1
  <2>2. box' \in Box(Len(evs'))
    BY <1>1
  <2> QED BY <1>1, <1>3, <1>7, <2>1, <2>2 DEF IInv, TypeOK
<1>12. Good(evs, box, Held)'
  BY <1>1, <1>3
<1>13. Arrivals(evs)' /\ Closes' /\ Permitted'
  BY <1>1, <1>3 DEF IInv, Arrivals, Closes, Permitted, CountOf
<1>14. SourceOrder'
  <2>1. ASSUME NEW i \in 1..n, NEW a \in sent[i], NEW c \in X, evs[a].src = evs[c].src PROVE a < c
    BY <1>3, <1>9, <2>1 DEF IInv, Passing
  <2>2. ASSUME NEW i \in 1..n, NEW j \in 1..n, i < j, NEW a \in sent[i], NEW c \in sent[j], evs[a].src = evs[c].src
        PROVE  a < c
    BY <1>6, <2>2 DEF IInv, SourceOrder
  <2>3. ASSUME NEW i \in 1..(n + 1), NEW j \in 1..(n + 1), i < j,
               NEW a \in sent'[i], NEW c \in sent'[j], evs[a].src = evs[c].src
        PROVE  a < c
    <3>1. i \in 1..n /\ (j \in 1..n \/ j = n + 1)
      BY SMTT(60), <1>6, <2>3 DEF n
    <3> QED BY <1>7, <2>1, <2>2, <2>3, <3>1
  <2>4. \A i, j \in DOMAIN sent' : i < j =>
          \A a \in sent'[i], c \in sent'[j] : evs'[a].src = evs'[c].src => a < c
    <3>1. SUFFICES ASSUME NEW i \in 1..(n + 1), NEW j \in 1..(n + 1), i < j,
                          NEW a \in sent'[i], NEW c \in sent'[j], evs'[a].src = evs'[c].src
                   PROVE  a < c
      BY ZenonT(60), <1>7
    <3>2. evs[a].src = evs[c].src
      BY <1>1, <3>1
    <3> QED BY <2>3, <3>1, <3>2
  <2> QED BY ONLY <2>4 DEF SourceOrder
<1>15. Accounted'
  <2>1. /\ Items = Sent' \union done \union failed \union Pending(box')
        /\ \A a \in Sent' : a \notin done /\ a \notin failed /\ a \notin Pending(box')
        /\ \A a \in done : a \notin failed /\ a \notin Pending(box')
        /\ \A a \in failed : a \notin Pending(box')
        /\ \A a \in Sent : a \notin X
    BY <1>10 DEF IInv, Accounted, X
  <2>2. \A i, j \in 1..n : i # j => sent[i] \intersect sent[j] = {}
    BY <1>6 DEF IInv, Accounted
  <2>3. \A i \in 1..n : sent[i] \intersect X = {}
    BY <1>9, <2>1
  <2>4. \A i, j \in 1..(n + 1) : i # j => sent'[i] \intersect sent'[j] = {}
    BY <1>7, <1>8, <2>2, <2>3
  <2> QED BY <1>1, <1>3, <1>7, <2>1, <2>4 DEF Accounted
<1>16. Operating'
  <2>1. \A a \in X : evs[a].kind \notin Boundaries
    BY <1>2 DEF IInv, Operating, X, Contents, Boundaries
  <2>2. (\A a \in Sent : evs[a].kind \notin Boundaries) /\ \A a \in done : evs[a].kind \in Boundaries
    BY DEF IInv, Operating
  <2> QED BY <1>1, <1>5, <1>10, <2>1, <2>2 DEF Operating
<1>17. Passing'
  <2>1. \A a \in Sent', c \in Pending(box') : evs[a].src = evs[c].src => a < c
    BY <1>3, <1>10 DEF IInv, Passing
  <2>2. \A a \in Sent', b \in Items : evs[b].kind \in Boundaries /\ b < a => b \in done \union failed
    BY <1>3, <1>10 DEF IInv, Passing
  <2> QED BY <1>1, <1>3, <2>1, <2>2 DEF Passing
<1>18. Fencing'
  BY <1>1, <1>3, <1>10 DEF IInv, Fencing
<1>19. NoneLeftWaiting'
  BY <1>1 DEF NoneLeftWaiting
<1> QED BY <1>11, <1>12, <1>13, <1>14, <1>15, <1>16, <1>17, <1>18, <1>19 DEF IInv

LEMMA FinishBatchKeeps ==
  ASSUME IInv, FinishBatch
  PROVE  IInv'
<1>1. /\ worker = "busy" /\ cur.kind = "batch" /\ sent' = Append(sent, cur.items) /\ done' = done
      /\ Finished(box) /\ box' = box /\ evs' = evs /\ cur' = None /\ worker' = "select"
  BY DEF FinishBatch, Finished
<1>2. cur # None
  BY <1>1 DEF IInv, TypeOK
<1>3. Contents(cur) = cur.items /\ Held = {} /\ Held' = {}
  BY <1>1, <1>2 DEF Contents, Held
<1>4. box \in Box(Len(evs)) /\ Good(evs, box, {})
  BY <1>3 DEF IInv, TypeOK
<1>5. Counted'
  <2>1. \A s \in Sources : Requests(evs', box', Held', s) = Requests(evs, box, Held, s)
    BY <1>1, <1>3 DEF Requests
  <2> QED BY <1>1, <2>1 DEF IInv, Counted
<1>6. cur.kind \notin Boundaries
  BY <1>1 DEF Boundaries
<1> QED BY <1>1, <1>3, <1>4, <1>5, <1>6, PublishedKeeps

LEMMA FinishPermissionKeeps ==
  ASSUME IInv, NEW due \in BOOLEAN, FinishPermission(due)
  PROVE  IInv'
<1> DEFINE q == cur.no
           s == evs[q].src
           b == Unblock(box, cur)
<1>1. /\ worker = "busy" /\ cur.kind = "permission" /\ sent' = Append(sent, {q}) /\ done' = done
      /\ (box' = Freeze(b, Len(evs)) \/ box' = Reschedule(b)) /\ Finished(box')
      /\ evs' = evs /\ cur' = None /\ worker' = "select"
  BY DEF FinishPermission, Finished, FreezeIfTriggered
<1>2. cur # None
  BY <1>1 DEF IInv, TypeOK
<1>3. Contents(cur) = {q} /\ Held = {q} /\ Held' = {}
  BY <1>1, <1>2 DEF Contents, Held
<1>4. Len(evs) \in Nat /\ box \in Box(Len(evs)) /\ Good(evs, box, {q}) /\ q \in 1..Len(evs)
  BY <1>3, State DEF IInv
<1>5. evs[q].kind = "permission" /\ s \in Sources
  BY <1>1, <1>2, <1>4 DEF IInv, Operating, Arrivals, Boundaries
<1>6. q \notin Numbers(box)
  BY <1>4 DEF Good, Requested, Numbers
<1> DEFINE R(t) == Requests(evs, box, Held, t)
           T(t) == Requests(evs, box, {}, t)
<1>7. ASSUME NEW t \in Sources
      PROVE  IsFiniteSet(R(t)) /\ box.blocked[t] = Cardinality(R(t)) /\ IsFiniteSet(T(t)) /\ Cardinality(T(t)) \in Nat
  <2>1. R(t) \subseteq 1..Len(evs) /\ T(t) \subseteq 1..Len(evs)
    BY State DEF Requests
  <2>2. box.blocked[t] = Cardinality(R(t))
    BY <1>1 DEF IInv, Counted
  <2> HIDE DEF R, T
  <2> QED BY <1>4, <2>1, <2>2, RequestsFinite
<1>8. T(s) = R(s) \ {q} /\ q \in R(s) /\ \A t \in Sources : t # s => T(t) = R(t)
  BY <1>3, <1>6 DEF Requests
<1> HIDE DEF R, T
<1>9. Cardinality(T(s)) = box.blocked[s] - 1
  <2> HIDE DEF s, q
  <2>1. IsFiniteSet(R(s)) /\ box.blocked[s] = Cardinality(R(s)) /\ q \in R(s)
    BY <1>5, <1>7, <1>8
  <2>2. Cardinality(R(s) \ {q}) = Cardinality(R(s)) - 1
    BY <2>1, FS_RemoveElement
  <2> QED BY <1>8, <2>1, <2>2
<1>10. box.blocked[s] - 1 = 0 => \A r \in Numbers(box) : evs[r].src # s
  <2>1. box.blocked[s] - 1 = 0 => T(s) = {}
    BY <1>5, <1>7, <1>9, FS_EmptySet
  <2> QED BY <2>1 DEF T, Requests
<1>11. b = Released(box, s) /\ From(evs, q, s) /\ Last(evs, box, s)
  BY <1>10 DEF Unblock, Released, From, Last
<1> HIDE DEF s, b, q
<1>12. b \in Box(Len(evs)) /\ Good(evs, b, {}) /\ Pending(b) = Pending(box) /\ OneLess(box, b, s)
  BY <1>4, <1>5, <1>11, UnblockKeeps
<1>13. /\ box' \in Box(Len(evs)) /\ Good(evs, box', {}) /\ Pending(box') = Pending(b)
       /\ box'.bounds = b.bounds /\ box'.perms = b.perms /\ box'.blocked = b.blocked
  <2> DEFINE k == Len(evs)
  <2>1. k \in Nat /\ b \in Box(k) /\ (box' = Freeze(b, k) \/ box' = Reschedule(b)) /\ Good(evs, b, {})
    BY <1>1, <1>4, <1>12
  <2> HIDE DEF k
  <2>2. /\ box' \in Box(k) /\ Good(evs, box', {}) /\ Pending(box') = Pending(b)
        /\ box'.bounds = b.bounds /\ box'.perms = b.perms /\ box'.blocked = b.blocked
    BY <2>1, FreezeOrNotKeeps
  <2> QED BY <2>2 DEF k
<1>14. Counted'
  <2>1. Numbers(box') = Numbers(box)
    BY <1>12, <1>13 DEF Numbers, OneLess
  <2>2. \A t \in Sources : Requests(evs', box', Held', t) = T(t)
    BY <1>1, <1>3, <2>1 DEF Requests, T
  <2>3. \A t \in Sources : box'.blocked[t] = Cardinality(T(t))
    BY <1>7, <1>8, <1>9, <1>12, <1>13 DEF OneLess
  <2> QED BY <2>2, <2>3 DEF Counted
<1>15. cur.kind \notin Boundaries
  BY <1>1 DEF Boundaries
<1> QED BY <1>1, <1>3, <1>12, <1>13, <1>14, <1>15, PublishedKeeps

LEMMA FinishBoundaryKeeps ==
  ASSUME IInv, FinishBoundary
  PROVE  IInv'
<1> DEFINE q == cur.no
<1>1. /\ worker = "busy" /\ cur.kind \in Boundaries /\ done' = done \union {q} /\ sent' = sent
      /\ box' = box /\ worker' = (IF cur.kind = "close" THEN "ended" ELSE "select") /\ cur' = None /\ wake' = TRUE
      /\ UNCHANGED <<evs, closing, abort, broken, failed, fails>>
  BY DEF FinishBoundary, Finished
<1>2. cur # None /\ worker # "ended"
  BY <1>1 DEF IInv, TypeOK
<1>3. Contents(cur) = {q} /\ Held = {} /\ Publishing = {} /\ Completing = {q}
  BY <1>1, <1>2 DEF Contents, Held, Publishing, Completing, Boundaries
<1>4. /\ Contents(cur)' = {} /\ Held' = {} /\ Publishing' = {} /\ Completing' = {}
      /\ Items' = Items /\ Sent' = Sent
  BY <1>1 DEF Contents, Held, Publishing, Completing, Items, Sent
<1>5. /\ Len(evs) \in Nat /\ Items = 1..Len(evs) /\ q \in Items /\ Numbers(box) \subseteq Items
      /\ box.bounds \subseteq Items /\ done \subseteq Items
  BY <1>3, State, BoxFields
<1>6. failed = {}
  BY <1>2 DEF IInv, Operating
<1>7. evs[q].kind = cur.kind /\ \A n \in box.bounds \union Numbers(box) : q < n
  BY <1>1, <1>2 DEF IInv, Operating, Boundaries
<1>8. cur.kind = "close" => closing /\ q = Len(evs)
  BY <1>5, <1>7 DEF IInv, Closes
<1> HIDE DEF q
<1>9. TypeOK'
  <2>1. cur' \in Operation \union {None} /\ worker' \in {"select", "wait", "busy", "ended"}
        /\ (worker' = "busy" <=> cur' # None)
    BY <1>1
  <2>2. done' \subseteq Items'
    BY <1>1, <1>4, <1>5
  <2> QED BY <1>1, <1>4, <2>1, <2>2 DEF IInv, TypeOK
<1>10. Good(evs, box, Held)'
  BY <1>1, <1>3, <1>4 DEF IInv
<1>11. Counted'
  <2>1. \A s \in Sources : Requests(evs', box', Held', s) = Requests(evs, box, Held, s)
    BY <1>1, <1>3, <1>4 DEF Requests
  <2> QED BY <1>1, <1>2, <2>1 DEF IInv, Counted
<1>12. Arrivals(evs)' /\ Closes' /\ Permitted' /\ SourceOrder'
  BY <1>1, <1>4 DEF IInv, Arrivals, Closes, Permitted, CountOf, SourceOrder
<1>13. Accounted'
  BY <1>1, <1>3, <1>4 DEF IInv, Accounted
<1>14. Operating'
  <2>1. \A a \in done' : evs[a].kind \in Boundaries
    BY <1>1, <1>7 DEF IInv, Operating
  <2>2. worker' = "ended" => closing
    BY <1>1, <1>8
  <2> QED BY <1>1, <1>4, <1>6, <2>1, <2>2 DEF IInv, Operating
<1>15. Passing'
  BY <1>1, <1>3, <1>4 DEF IInv, Passing
<1>16. Fencing'
  BY <1>1, <1>3, <1>4 DEF IInv, Fencing
<1>17. NoneLeftWaiting'
  <2>1. SUFFICES ASSUME worker' = "ended" PROVE box.perms = {} /\ box.bounds = {}
    BY <1>1 DEF NoneLeftWaiting
  <2>2. q = Len(evs)
    BY <1>1, <1>8, <2>1
  <2>3. \A n \in box.bounds \union Numbers(box) : FALSE
    BY <1>5, <1>7, <2>2
  <2> QED BY <2>3 DEF Numbers
<1> QED BY <1>9, <1>10, <1>11, <1>12, <1>13, <1>14, <1>15, <1>16, <1>17 DEF IInv

\* The worker ends: all that is not out is given up.
LEMMA BreakDownKeeps ==
  ASSUME IInv, BreakDown, fails' \in 0..MaxFails, abort' \in {"none", "begun", "over"}
  PROVE  IInv'
<1> DEFINE b == IF worker = "busy" /\ cur.kind = "permission" THEN Unblock(box, cur) ELSE box
<1>1. /\ failed' = failed \union Contents(cur) \union Pending(box) /\ box' = FailPending(b)
      /\ worker' = "ended" /\ cur' = None /\ broken' = TRUE
      /\ UNCHANGED <<evs, wake, closing, sent, done>>
  BY DEF BreakDown
<1>2. Len(evs) \in Nat /\ box \in Box(Len(evs)) /\ Good(evs, box, Held)
  BY State DEF IInv
<1>3. b \in Box(Len(evs))
  <2>1. ASSUME worker = "busy", cur.kind = "permission" PROVE Unblock(box, cur) \in Box(Len(evs))
    <3> DEFINE s == evs[cur.no].src
    <3>1. cur # None
      BY <2>1 DEF IInv, TypeOK
    <3>2. Held = {cur.no} /\ cur.no \in 1..Len(evs) /\ evs[cur.no].kind = "permission"
      BY <2>1, <3>1, State DEF Held, IInv, Operating
    <3>3. s \in Sources
      BY <3>2 DEF IInv, Arrivals, Boundaries
    <3>4. box.blocked[s] # 0
      BY <1>2, <3>2, <3>3 DEF Good, Blocks
    <3>5. Unblock(box, cur) = [box EXCEPT !.blocked[s] = @ - 1]
      BY DEF Unblock
    <3> HIDE DEF s
    <3>6. box.blocked \in [Sources -> 0..MaxPermissions]
      BY <1>2, BoxFields
    <3>7. box.blocked[s] - 1 \in 0..MaxPermissions
      BY <3>3, <3>4, <3>6, Parameters
    <3>8. [box.blocked EXCEPT ![s] = @ - 1] \in [Sources -> 0..MaxPermissions]
      BY <3>3, <3>6, <3>7
    <3> QED BY <1>2, <3>5, <3>8 DEF Box
  <2> QED BY <1>2, <2>1
<1> HIDE DEF b
<1>4. /\ box' \in Box(Len(evs)) /\ Good(evs, box', {}) /\ Pending(box') = {}
      /\ box'.perms = {} /\ box'.bounds = {}
  BY <1>1, <1>2, <1>3, FailKeeps
<1>5. /\ Contents(cur)' = {} /\ Held' = {} /\ Publishing' = {} /\ Completing' = {}
      /\ Items' = Items /\ Sent' = Sent
  BY <1>1 DEF Contents, Held, Publishing, Completing, Items, Sent
<1>6. failed' \subseteq Items
  BY <1>1, State
<1>7. TypeOK'
  <2>1. cur' \in Operation \union {None} /\ worker' \in {"select", "wait", "busy", "ended"}
        /\ (worker' = "busy" <=> cur' # None) /\ box' \in Box(Len(evs'))
    BY <1>1, <1>4
  <2> QED BY <1>1, <1>5, <1>6, <2>1 DEF IInv, TypeOK
<1>8. Good(evs, box, Held)'
  BY <1>1, <1>4, <1>5
<1>9. Counted'
  BY <1>1 DEF Counted
<1>10. Arrivals(evs)' /\ Closes' /\ Permitted' /\ SourceOrder'
  BY <1>1, <1>5 DEF IInv, Arrivals, Closes, Permitted, CountOf, SourceOrder
<1>11. Accounted'
  BY <1>1, <1>4, <1>5 DEF IInv, Accounted
<1>12. Operating'
  BY <1>1, <1>5 DEF IInv, Operating
<1>13. Passing'
  BY <1>1, <1>4, <1>5 DEF IInv, Passing
<1>14. Fencing'
  BY <1>1, <1>5 DEF IInv, Fencing
<1>15. NoneLeftWaiting'
  BY <1>4 DEF NoneLeftWaiting
<1> QED BY <1>7, <1>8, <1>9, <1>10, <1>11, <1>12, <1>13, <1>14, <1>15 DEF IInv

----------------------------------------------------------------------------
(* The theorems                                                            *)

LEMMA InitHolds == Init => IInv
<1> SUFFICES ASSUME Init PROVE IInv
  OBVIOUS
<1>1. /\ evs = <<>> /\ box = InitBox /\ worker = "select" /\ cur = None /\ wake = FALSE
      /\ closing = FALSE /\ abort = "none" /\ broken = FALSE
      /\ sent = <<>> /\ done = {} /\ failed = {} /\ fails = 0
  BY DEF Init
<1>2. /\ Items = {} /\ Sent = {} /\ Contents(cur) = {} /\ Held = {} /\ Publishing = {} /\ Completing = {}
      /\ Len(evs) = 0 /\ evs \in Seq(Event) /\ DOMAIN evs = {} /\ DOMAIN sent = {}
  BY <1>1 DEF Items, Sent, Contents, Held, Publishing, Completing
<1>3. /\ box.batches = {} /\ box.bounds = {} /\ box.perms = {} /\ \A s \in Sources : box.queue[s] = {} /\ box.blocked[s] = 0
  BY <1>1 DEF InitBox
<1>4. Numbers(box) = {}
  BY <1>3 DEF Numbers
<1>5. Pending(box) = {}
  BY <1>3, PendingIs DEF Within
<1>6. box \in Box(0)
  BY <1>1, Parameters DEF InitBox, Box
<1>7. TypeOK
  <2>1. sent \in Seq(SUBSET Items)
    BY <1>1
  <2>2. box \in Box(Len(evs))
    BY <1>2, <1>6
  <2>3. fails \in 0..MaxFails
    BY <1>1, Parameters
  <2>4. {wake, closing, broken} \subseteq BOOLEAN /\ abort \in {"none", "begun", "over"}
    BY <1>1
  <2>5. cur \in Operation \union {None} /\ worker \in {"select", "wait", "busy", "ended"}
        /\ (worker = "busy" <=> cur # None)
    BY <1>1
  <2> QED BY <1>1, <1>2, <2>1, <2>2, <2>3, <2>4, <2>5 DEF TypeOK
<1>8. Good(evs, box, Held)
  BY <1>2, <1>3, <1>4 DEF Good, Sorted, Batched, Requested, Fronted, Blocks, Fences
<1>9. Counted
  <2>1. \A s \in Sources : Requests(evs, box, Held, s) = {}
    BY <1>2, <1>4 DEF Requests
  <2> QED BY <1>3, <2>1, FS_EmptySet DEF Counted
<1>10. Arrivals(evs) /\ Closes
  BY <1>2 DEF Arrivals, Closes
<1>11. Permitted
  <2>1. {a \in DOMAIN evs : evs[a].kind \in {"permission"}} = {}
    BY <1>2
  <2> QED BY <2>1, FS_EmptySet, Parameters DEF Permitted, CountOf
<1>12. SourceOrder /\ Accounted
  BY <1>1, <1>2, <1>5 DEF SourceOrder, Accounted
<1>13. Operating /\ Passing /\ Fencing /\ NoneLeftWaiting
  BY <1>1, <1>2 DEF Operating, Passing, Fencing, NoneLeftWaiting
<1> QED BY <1>7, <1>8, <1>9, <1>10, <1>11, <1>12, <1>13 DEF IInv

LEMMA StepHolds == IInv /\ [Next]_vars => IInv'
<1> SUFFICES ASSUME IInv, [Next]_vars PROVE IInv'
  OBVIOUS
<1>1. ASSUME NEW s \in Sources, SubmitPermission(s) PROVE IInv'
  BY <1>1, SubmitPermissionKeeps
<1>2. ASSUME NEW s \in Sources, NEW due \in BOOLEAN, Submit(s, due) PROVE IInv'
  BY <1>2, SubmitKeeps
<1>3. ASSUME NEW kind \in Boundaries, SubmitBoundary(kind) PROVE IInv'
  BY <1>3, SubmitBoundaryKeeps
<1>4. CASE Decision
  BY <1>4, DecideKeeps DEF Decision
<1>5. CASE DelayFires
  BY <1>5, DelayFiresKeeps
<1>6. CASE Select
  BY <1>6, SelectPrefixStep, SelectPermissionStep, SelectBatchStep, SelectBoundaryStep, WaitKeeps DEF Select
<1>7. CASE FinishBatch
  BY <1>7, FinishBatchKeeps
<1>8. ASSUME NEW due \in BOOLEAN, FinishPermission(due) PROVE IInv'
  BY <1>8, FinishPermissionKeeps
<1>9. CASE FinishBoundary
  BY <1>9, FinishBoundaryKeeps
<1>10. CASE DecisionFails \/ OperationFails \/ AbortEnds
  <2>1. BreakDown
    BY <1>10 DEF DecisionFails, OperationFails, AbortEnds
  <2>2. fails' \in 0..MaxFails /\ abort' \in {"none", "begun", "over"}
    BY <1>10, Parameters DEF IInv, TypeOK, DecisionFails, OperationFails, AbortEnds
  <2> QED BY <2>1, <2>2, BreakDownKeeps
<1>11. CASE AbortBegins
  BY <1>11, AbortBeginsKeeps
<1>12. CASE UNCHANGED vars
  <2>1. /\ Held' = Held /\ Items' = Items /\ Sent' = Sent /\ Contents(cur)' = Contents(cur)
        /\ Publishing' = Publishing /\ Completing' = Completing
    BY <1>12 DEF vars, Held, Items, Sent, Contents, Publishing, Completing
  <2>2. {wake', closing', broken'} \subseteq BOOLEAN /\ abort' \in {"none", "begun", "over"}
    BY <1>12 DEF vars, IInv, TypeOK
  <2>3. box' \in Box(Len(evs)) /\ Good(evs, box', Held) /\ Pending(box') = Pending(box) /\ Numbers(box') = Numbers(box)
    BY <1>12 DEF vars, IInv, TypeOK
  <2> QED BY <1>12, <2>2, <2>3, ShuffleKeeps DEF vars
<1> QED BY <1>1, <1>2, <1>3, <1>4, <1>5, <1>6, <1>7, <1>8, <1>9, <1>10, <1>11, <1>12 DEF Next, Work

LEMMA Invariance == Spec => []IInv
BY InitHolds, StepHolds, PTL DEF Spec

LEMMA AccountedIsConserved ==
  ASSUME Accounted
  PROVE  Conserved
<1> DEFINE places == <<Sent, done, failed, Pending(box), Contents(cur)>>
<1>1. /\ places[1] = Sent /\ places[2] = done /\ places[3] = failed
      /\ places[4] = Pending(box) /\ places[5] = Contents(cur)
  OBVIOUS
<1>2. 1..5 = {1, 2, 3, 4, 5}
  OBVIOUS
<1> HIDE DEF places
<1>3. Items = UNION {places[k] : k \in 1..5}
  <2>1. ASSUME NEW x PROVE x \in UNION {places[k] : k \in 1..5} <=> \E k \in {1, 2, 3, 4, 5} : x \in places[k]
    BY <1>2
  <2> QED BY <1>1, <2>1 DEF Accounted
<1>4. \A k, l \in 1..5 : k # l => places[k] \intersect places[l] = {}
  BY <1>1, <1>2 DEF Accounted
<1>5. \A i, j \in DOMAIN sent : i # j => sent[i] \intersect sent[j] = {}
  BY DEF Accounted
<1> QED BY <1>3, <1>4, <1>5 DEF Conserved, places

\* What a source submits goes out in its order, each exactly once, through whatever queues,
\* batches and prefixes it is moved (_extract_source_items_locked, _take_ready_batch_locked,
\* _first_deliverable_permission_locked).
THEOREM InOrder == Spec => []InOrderOnce
<1>1. IInv => InOrderOnce
  BY AccountedIsConserved DEF IInv, InOrderOnce
<1> QED BY <1>1, Invariance, PTL

\* Callbacks, flushes and closes divide the stream: nothing after one is out before it is over,
\* and what came before it is, when it completes, but for what waited behind a permission request
\* (run_serialized, flush, close).
THEOREM Divided == Spec => []BoundariesHold
<1>1. IInv => BoundariesHold
  <2>1. IInv => NoOvertaking
    BY DEF IInv, Passing, NoOvertaking
  <2>2. ASSUME IInv PROVE Fenced
    BY <2>2 DEF IInv, Fencing, Fenced
  <2> QED BY <2>1, <2>2 DEF BoundariesHold
<1> QED BY <1>1, Invariance, PTL

\* Nobody waits for a worker that has ended, however it ended (_fail_pending_locked, close).
THEOREM NobodyWaits == Spec => []NoneLeftWaiting
<1>1. IInv => NoneLeftWaiting
  BY DEF IInv
<1> QED BY <1>1, Invariance, PTL
=============================================================================
