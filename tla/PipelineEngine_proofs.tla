----------------------- MODULE PipelineEngine_proofs -----------------------
(***************************************************************************)
(* Proofs about the pipeline runner: the position agrees with the statuses *)
(* and with the sidecar, what was rolled back is redone, the user is asked *)
(* where the pipeline waits, and a finished pipeline is of one piece.      *)
(***************************************************************************)
EXTENDS PipelineEngine, TLAPS

----------------------------------------------------------------------------
(* The inductive invariant.  Its parts are about values, a setting x, the  *)
(* transcripts sc, a snapshot m of the runner's memory, conclusions c and  *)
(* the streams st, so that they can be said of what is in memory and of    *)
(* what a save puts on disk.                                               *)

\* The statuses agree with the position; an attempt begun since the last move back over its
\* step is of a step the position reached, and the running one was begun since.
Attempts(x, sc, m) ==
  /\ m.exec \in 0..Len(m.att) /\ Len(m.att) <= x.attempts
  /\ \A i \in Steps : m.sm.status[i] = "completed" <=> i < m.sm.index
  /\ \A i \in Steps : m.hist.since[i] <= Len(m.att)
  /\ \A a \in 1..Len(m.att) : a >= m.hist.since[m.att[a].step] => m.att[a].step <= m.sm.index
  /\ m.exec # 0 /\ m.att[m.exec].status = "running" => m.exec >= m.hist.since[m.att[m.exec].step]
  /\ \A a \in 1..x.attempts : a > Len(m.att) => sc[a] = NoScript

\* The steps that wait and lie behind were answered; a transcript with an answer in it, or a
\* saved answer, is of a step the user has answered.
Replied(x, sc, m) ==
  /\ \A i \in x.waits \ x.legacy : i < m.sm.index => m.hist.answered[i]
  /\ m.inp = "answer" => m.sm.index \in Steps /\ m.hist.answered[m.sm.index]
  /\ \A a \in 1..Len(m.att) :
       /\ sc[a].ans /\ a >= m.hist.since[m.att[a].step] => m.hist.answered[m.att[a].step]
       /\ sc[a].state = "done" /\ sc[a].out = "ok" /\ m.att[a].step \in x.waits => sc[a].ans

\* The conclusions before the position are of attempts begun since the last move back over
\* them, and they and the transcripts of such attempts were drawn from what c holds.
Drawn(sc, m, c) ==
  /\ \A i \in Steps : i < m.sm.index =>
       /\ c[i].by >= m.hist.since[i] /\ c[i].val # 0
       /\ \A d \in Deps[i] : c[i].seen[d] = c[d].val
  /\ \A a \in 1..Len(m.att) : a >= m.hist.since[m.att[a].step] /\ sc[a].state = "done" =>
       \A d \in Deps[m.att[a].step] : sc[a].seen[d] = c[d].val

Unstale(m, c) == \A i \in Steps : i < m.sm.index => ~c[i].stale

Harmless(x) == ~x.a2a \/ x.parallel = Steps
Orderly(x)  == Harmless(x) /\ (x.parallel = {} \/ x.refused = 0)

Coherent(x, sc, m, c) ==
  /\ Attempts(x, sc, m)
  /\ ~x.a2a => Replied(x, sc, m)
  /\ Orderly(x) => Drawn(sc, m, c)

\* A live process's memory, and what one restored from either version of meta.yaml would have.
Snapshots ==
  /\ up => Coherent(setting, scripts, mem, ctx)
  /\ meta # None => Coherent(setting, scripts, meta.mem, dctx)
  /\ torn # None => Coherent(setting, scripts, torn.mem, dctx)
  /\ Orderly(setting) /\ used.torn = 0 =>
       (up => Unstale(mem, ctx)) /\ (meta # None => Unstale(meta.mem, dctx))

\* A live process has saved what it holds; a dead one holds nothing.
Saved ==
  /\ up /\ meta # None => mem = meta.mem /\ ctx = dctx
  /\ ~up \/ meta = None =>
       mem = InitMemory /\ ctx = EmptyContext /\ torn = None /\ strm = [w \in Streams |-> Idle]

\* The step in a meta.yaml to be resumed is that of its position.
Fits(x, f) ==
  /\ f.status = "waiting_input" => f.mem.sm.index \in Steps
  /\ Harmless(x) /\ f.status \in {"running", "waiting_input"} => ValidSnapshot(f)

Filed == (meta # None => Fits(setting, meta)) /\ (torn # None => Fits(setting, torn))

\* A transcript that concludes has a conclusion; parallel steps have no transcript.
Written(x, sc) ==
  \A a \in 1..x.attempts :
    /\ sc[a].state = "done" => sc[a].val # 0
    /\ x.a2a /\ x.parallel = Steps => sc[a] = NoScript

\* A stream in a step or at its backup.
InStep(r) == r.pc \in {"exec", "done"}

Entered(sc, m, r) ==
  /\ InStep(r) =>
       /\ m.sm.index \in Steps /\ r.step \in Steps
       /\ r.att \in 1..Len(m.att) /\ m.att[r.att].step = r.step
       /\ r.pc = "done" => sc[r.att].state = "done"
  /\ r.pc = "backup" => r.step \in Steps

\* The current stream is in the step at the position, in an attempt begun since the last move
\* back over it; its answer is the user's to that step; its parallel step is the active one.
Current(x, m, r) ==
  /\ InStep(r) => r.step = m.sm.index /\ r.att >= m.hist.since[r.step]
  /\ r.pc = "retry" => m.sm.index \in Steps
  /\ r.pc \in {"restart", "halt"} => x.a2a
  /\ r.pc = "halt" => ~Orderly(x)
  /\ ~x.a2a /\ r.pc \in {"top", "exec", "done", "retry"} /\ r.msg = "answer" =>
       m.sm.index \in Steps /\ m.hist.answered[m.sm.index]
  /\ Orderly(x) /\ r.pc = "exec" /\ r.step \in x.parallel => m.exec = r.att

\* A replaced stream is there until the new one starts; where it does no harm, its parallel
\* step was discarded.
Replaced(x, m, r, o) ==
  o.pc # "idle" =>
    /\ r.pc \in {"restart", "halt"}
    /\ Orderly(x) /\ InStep(o) =>
         o.step \in x.parallel /\ o.pc = "exec" /\ m.att[o.att].status = "discarded"

Running(x, sc, m, st) ==
  /\ \A w \in Streams : Entered(sc, m, st[w])
  /\ Current(x, m, st["cur"])
  /\ Replaced(x, m, st["cur"], st["old"])

IInv ==
  /\ TypeOK /\ Snapshots /\ Saved /\ Filed
  /\ Written(setting, scripts) /\ Running(setting, scripts, mem, strm)

----------------------------------------------------------------------------
(* The constants and the conclusions                                       *)

LEMMA Parameters ==
  /\ N \in Nat \ {0} /\ 1 \in Steps /\ N \in Steps /\ Steps \subseteq Nat
  /\ \A i \in Steps : Deps[i] \subseteq Steps /\ \A d \in Deps[i] : d < i
BY PipelineAssumption DEF Steps

\* What depends on a step comes after it: the steps from s on are closed under dependents.
LEMMA DownstreamIsAhead == ASSUME NEW s \in Steps PROVE \A i \in Downstream(s) : i \in Steps /\ s < i
<1> DEFINE Ahead == {i \in Steps : s <= i}
<1>1. Ahead \in SUBSET Steps /\ s \in Ahead
  BY Parameters
<1>2. Closed(Ahead)
  <2>1. ASSUME NEW i \in Steps, NEW d \in Deps[i], d \in Ahead PROVE i \in Ahead
    BY <2>1, Parameters
  <2> QED BY <2>1 DEF Closed
<1>3. ASSUME NEW i \in Downstream(s) PROVE i \in Steps /\ i # s /\ i \in Ahead
  BY <1>1, <1>2, <1>3 DEF Downstream
<1> QED BY <1>3, Parameters DEF Steps

LEMMA SettingFields ==
  ASSUME NEW x \in Setting
  PROVE  /\ x.waits \subseteq Steps /\ x.legacy \subseteq Steps /\ x.parallel \subseteq Steps /\ x.exits \subseteq Steps
         /\ x.a2a \in BOOLEAN /\ x.rollbacks \in Nat /\ x.interrupts \in Nat /\ x.attempts \in Nat \ {0}
         /\ x.torn \in Nat /\ x.refused \in Nat
BY DEF Setting

\* A mark leaves the rest of a conclusion.
Marked(r) == [r EXCEPT !.stale = TRUE]

LEMMA MarkedConclusion ==
  ASSUME NEW x, NEW k, NEW r \in Conclusion(x, k)
  PROVE  Marked(r).val = r.val /\ Marked(r).seen = r.seen /\ Marked(r).by = r.by
         /\ Marked(r) \in Conclusion(x, k)
BY DEF Conclusion, Marked

\* Below n, two contexts hold the same conclusions, up to their marks.
Agree(c, e, n) ==
  \A i \in Steps : i < n => e[i].val = c[i].val /\ e[i].seen = c[i].seen /\ e[i].by = c[i].by

\* Propagation only marks steps ahead.
LEMMA PropagateFacts ==
  ASSUME NEW x, NEW k \in Nat, NEW c, c \in Contexts(x, k), NEW s \in Steps
  PROVE  /\ PropagateStale(c, s) \in Contexts(x, k) /\ Agree(c, PropagateStale(c, s), N + 1)
         /\ \A i \in Steps : i <= s => PropagateStale(c, s)[i] = c[i]
<1> DEFINE e == PropagateStale(c, s)
<1>1. \A i \in Steps : e[i] = IF i \in Downstream(s) /\ c[i].val # 0 THEN [c[i] EXCEPT !.stale = TRUE] ELSE c[i]
  BY DEF PropagateStale
<1>2. e = [i \in Steps |-> e[i]]
  BY DEF PropagateStale
<1> HIDE DEF e
<1>3. ASSUME NEW i \in Steps
      PROVE  e[i].val = c[i].val /\ e[i].seen = c[i].seen /\ e[i].by = c[i].by /\ e[i] \in Conclusion(x, k)
  <2>1. c[i] \in Conclusion(x, k)
    BY DEF Contexts
  <2>2. e[i] = c[i] \/ e[i] = Marked(c[i])
    BY <1>1 DEF Marked
  <2> QED BY <2>1, <2>2, MarkedConclusion
<1>4. \A i \in Steps : e[i] \in Conclusion(x, k)
  BY <1>3
<1>5. e \in Contexts(x, k)
  BY <1>2, <1>4 DEF Contexts
<1>6. ASSUME NEW i \in Steps, i <= s PROVE e[i] = c[i]
  <2>1. i \notin Downstream(s)
    BY <1>6, DownstreamIsAhead, Parameters DEF Steps
  <2> QED BY <1>1, <2>1
<1> QED BY <1>3, <1>5, <1>6 DEF Agree, e

\* A new conclusion of s, and the marks of a move back to t.
LEMMA SetConclusionFacts ==
  ASSUME NEW x, NEW k \in Nat, NEW c, c \in Contexts(x, k), NEW s \in Steps, NEW v \in 0..k, NEW seen \in Reads(k),
         NEW a \in 0..x.attempts
  PROVE  LET e == SetConclusion(c, s, v, seen, a)
         IN /\ e \in Contexts(x, k) /\ Agree(c, e, s)
            /\ e[s].val = v /\ e[s].seen = seen /\ e[s].by = a /\ ~e[s].stale
            /\ \A i \in Steps : i < s => e[i] = c[i]
<1> DEFINE new == [val |-> v, stale |-> FALSE, seen |-> seen, by |-> a]
           b == [c EXCEPT ![s] = new]
           e == SetConclusion(c, s, v, seen, a)
<1>1. b \in Contexts(x, k) /\ b[s] = new /\ \A i \in Steps : i # s => b[i] = c[i]
  <2>1. new \in Conclusion(x, k)
    BY DEF Conclusion
  <2> HIDE DEF new
  <2> QED BY <2>1 DEF Contexts
<1>2. e = PropagateStale(b, s)
  BY DEF SetConclusion
<1>3. new.val = v /\ new.seen = seen /\ new.by = a /\ ~new.stale
  OBVIOUS
<1> HIDE DEF new, b, e
<1>4. e \in Contexts(x, k) /\ \A i \in Steps : i <= s => e[i] = b[i]
  BY <1>1, <1>2, PropagateFacts
<1>5. \A i \in Steps : i < s => e[i] = c[i]
  BY <1>1, <1>4, Parameters DEF Steps
<1>6. e[s] = new
  BY <1>1, <1>4, Parameters DEF Steps
<1> QED BY <1>3, <1>4, <1>5, <1>6 DEF Agree, e

LEMMA MarkStaleFacts ==
  ASSUME NEW x, NEW k \in Nat, NEW c, c \in Contexts(x, k), NEW t \in Steps
  PROVE  LET e == MarkStale(c, t)
         IN e \in Contexts(x, k) /\ Agree(c, e, N + 1) /\ \A i \in Steps : i < t => e[i] = c[i]
<1> DEFINE b == [c EXCEPT ![t].stale = TRUE]
           e == MarkStale(c, t)
<1>1. b[t] = [c[t] EXCEPT !.stale = TRUE] /\ \A i \in Steps : i # t => b[i] = c[i]
  BY DEF Contexts
<1>3. ASSUME NEW i \in Steps
      PROVE  b[i].val = c[i].val /\ b[i].seen = c[i].seen /\ b[i].by = c[i].by /\ b[i] \in Conclusion(x, k)
  <2>1. c[i] \in Conclusion(x, k)
    BY DEF Contexts
  <2>2. b[i] = c[i] \/ b[i] = Marked(c[i])
    BY <1>1 DEF Marked
  <2> HIDE DEF b
  <2> QED BY <2>1, <2>2, MarkedConclusion
<1>2. b \in Contexts(x, k)
  <2>1. b = [i \in Steps |-> b[i]]
    BY DEF Contexts
  <2> HIDE DEF b
  <2> QED BY <1>3, <2>1 DEF Contexts
<1>4. e = PropagateStale(b, t)
  BY DEF MarkStale
<1> HIDE DEF b, e
<1>5. /\ e \in Contexts(x, k) /\ Agree(b, e, N + 1)
      /\ \A i \in Steps : i <= t => e[i] = b[i]
  BY <1>2, <1>4, PropagateFacts
<1>6. Agree(c, e, N + 1)
  BY <1>3, <1>5 DEF Agree
<1>7. \A i \in Steps : i < t => e[i] = c[i]
  BY <1>1, <1>5, Parameters DEF Steps
<1> QED BY <1>5, <1>6, <1>7 DEF e

----------------------------------------------------------------------------
(* The operators on the runner's memory                                    *)

LEMMA MemoryFields ==
  ASSUME NEW x \in Setting, NEW m \in Memory(x)
  PROVE  /\ m.sm \in Machine(x) /\ m.att \in Seq(Attempt) /\ m.exec \in 0..x.attempts
         /\ m.inp \in {"none", "text", "answer"} /\ m.hist \in Past
         /\ m.sm.index \in 1..(N + 1) /\ m.sm.status \in [Steps -> Statuses]
         /\ m.hist.since \in [Steps -> Nat] /\ m.hist.answered \in [Steps -> BOOLEAN]
         /\ Len(m.att) \in Nat
         /\ \A a \in 1..Len(m.att) : m.att[a] \in Attempt /\ m.att[a].step \in Steps
<1>1. /\ m.sm \in Machine(x) /\ m.att \in Seq(Attempt) /\ m.exec \in 0..x.attempts
      /\ m.inp \in {"none", "text", "answer"} /\ m.hist \in Past
  BY DEF Memory
<1>2. m.sm.index \in 1..(N + 1) /\ m.sm.status \in [Steps -> Statuses]
  BY <1>1 DEF Machine
<1>3. m.hist.since \in [Steps -> Nat] /\ m.hist.answered \in [Steps -> BOOLEAN]
  BY <1>1 DEF Past
<1>4. Len(m.att) \in Nat /\ \A a \in 1..Len(m.att) : m.att[a] \in Attempt
  BY <1>1
<1>5. \A a \in 1..Len(m.att) : m.att[a].step \in Steps
  BY <1>4 DEF Attempt
<1> QED BY <1>1, <1>2, <1>3, <1>4, <1>5

\* The attempts of e are those of m with a's status, if any, replaced.
Relabels(m, e, a, status) ==
  /\ Len(e.att) = Len(m.att)
  /\ \A k \in 1..Len(m.att) : e.att[k].step = m.att[k].step
                              /\ e.att[k].status = IF k = a THEN status ELSE m.att[k].status

\* A new status in the records.
Relabeled(att, a, status) == [att EXCEPT ![a].status = status]

LEMMA StatusSet ==
  ASSUME NEW att \in Seq(Attempt), NEW a \in 1..Len(att),
         NEW status \in {"running", "completed", "failed", "rolled_back", "discarded"}
  PROVE  LET e == Relabeled(att, a, status)
         IN /\ e \in Seq(Attempt) /\ Len(e) = Len(att)
            /\ \A k \in 1..Len(att) : e[k].step = att[k].step
                                      /\ e[k].status = IF k = a THEN status ELSE att[k].status
<1> DEFINE e == Relabeled(att, a, status)
<1>1. e[a] = [att[a] EXCEPT !.status = status] /\ \A k \in 1..Len(att) : k # a => e[k] = att[k]
  BY DEF Relabeled
<1>2. e = [k \in 1..Len(att) |-> e[k]] /\ DOMAIN e = 1..Len(att)
  BY SMTT(60) DEF Relabeled
<1>3. /\ \A k \in 1..Len(att) : att[k] \in Attempt
      /\ [att[a] EXCEPT !.status = status] \in Attempt
      /\ [att[a] EXCEPT !.status = status].step = att[a].step
      /\ [att[a] EXCEPT !.status = status].status = status
  <2>1. \A k \in 1..Len(att) : att[k] \in Attempt
    OBVIOUS
  <2>2. ASSUME NEW r \in Attempt
        PROVE  /\ [r EXCEPT !.status = status] \in Attempt
               /\ [r EXCEPT !.status = status].step = r.step /\ [r EXCEPT !.status = status].status = status
    BY DEF Attempt
  <2>3. att[a] \in Attempt
    BY <2>1
  <2> QED BY <2>1, <2>2, <2>3
<1> HIDE DEF e
<1>4. \A k \in 1..Len(att) : e[k] \in Attempt
  BY <1>1, <1>3
<1>5. e \in Seq(Attempt) /\ Len(e) = Len(att)
  BY <1>2, <1>4
<1> QED BY <1>1, <1>3, <1>5 DEF e

LEMMA MarkFacts ==
  ASSUME NEW x \in Setting, NEW m \in Memory(x), NEW a \in 0..Len(m.att),
         NEW status \in {"completed", "failed", "rolled_back", "discarded"}
  PROVE  LET e == MarkAttempt(m, a, status)
         IN /\ e \in Memory(x) /\ e.sm = m.sm /\ e.hist = m.hist /\ e.inp = m.inp
            /\ Relabels(m, e, a, status)
            /\ e.exec = IF a # 0 /\ m.exec = a THEN 0 ELSE m.exec
<1> DEFINE att == Relabeled(m.att, a, status)
           exec == IF m.exec = a THEN 0 ELSE m.exec
           e == [[m EXCEPT !.att = att] EXCEPT !.exec = exec]
<1>1. CASE a = 0
  <2>1. MarkAttempt(m, a, status) = m
    BY <1>1 DEF MarkAttempt
  <2> QED BY <1>1, <2>1, MemoryFields DEF Relabels
<1>2. CASE a # 0
  <2>1. MarkAttempt(m, a, status) = e
    BY <1>2 DEF MarkAttempt, Memory, Relabeled
  <2>2. /\ att \in Seq(Attempt) /\ Len(att) = Len(m.att)
        /\ \A k \in 1..Len(m.att) : att[k].step = m.att[k].step
                                    /\ att[k].status = IF k = a THEN status ELSE m.att[k].status
    <3>1. m.att \in Seq(Attempt) /\ a \in 1..Len(m.att)
      BY <1>2, MemoryFields
    <3> QED BY SMTT(60), <3>1, StatusSet
  <2>3. exec \in 0..x.attempts
    BY SMTT(60), MemoryFields DEF Setting
  <2> HIDE DEF att, exec
  <2>4. e \in Memory(x) /\ e.sm = m.sm /\ e.hist = m.hist /\ e.inp = m.inp /\ e.att = att /\ e.exec = exec
    BY <2>2, <2>3 DEF Memory
  <2> HIDE DEF e
  <2> QED BY <1>2, <2>1, <2>2, <2>4 DEF Relabels, exec
<1> QED BY <1>1, <1>2

LEMMA CreateFacts ==
  ASSUME NEW x \in Setting, NEW m \in Memory(x), NEW s \in Steps, Len(m.att) < x.attempts
  PROVE  LET e == CreateAttempt(m, s)
         IN /\ e \in Memory(x) /\ e.sm = m.sm /\ e.hist = m.hist /\ e.inp = m.inp
            /\ Len(e.att) = Len(m.att) + 1 /\ e.exec = Len(m.att) + 1
            /\ e.att[Len(m.att) + 1] = [step |-> s, status |-> "running"]
            /\ \A k \in 1..Len(m.att) : e.att[k] = m.att[k]
<1> DEFINE new == [step |-> s, status |-> "running"]
           att == Append(m.att, new)
           n == Len(m.att) + 1
           e == [[m EXCEPT !.att = att] EXCEPT !.exec = n]
<1>1. CreateAttempt(m, s) = e
  BY DEF CreateAttempt, Memory
<1>2. m.att \in Seq(Attempt) /\ Len(m.att) \in Nat /\ x.attempts \in Nat
  BY MemoryFields DEF Setting
<1>3. new \in Attempt
  BY DEF Attempt
<1> HIDE DEF new
<1>4. att \in Seq(Attempt) /\ Len(att) = n /\ att[n] = new /\ \A k \in 1..Len(m.att) : att[k] = m.att[k]
  BY <1>2, <1>3
<1>5. n \in 0..x.attempts
  BY <1>2
<1> HIDE DEF att, n
<1>6. e \in Memory(x) /\ e.sm = m.sm /\ e.hist = m.hist /\ e.inp = m.inp /\ e.att = att /\ e.exec = n
  BY <1>4, <1>5 DEF Memory
<1> HIDE DEF e
<1> QED BY <1>1, <1>4, <1>6 DEF n, new

LEMMA InputFacts ==
  ASSUME NEW x \in Setting, NEW m \in Memory(x), NEW v \in {"none", "text", "answer"}
  PROVE  LET e == [m EXCEPT !.inp = v]
         IN /\ e \in Memory(x) /\ e.sm = m.sm /\ e.hist = m.hist /\ e.att = m.att /\ e.exec = m.exec
            /\ e.inp = v
BY DEF Memory

\* Entering a step takes the running attempt of the step or a new one.
LEMMA EnsureFacts ==
  ASSUME NEW x \in Setting, NEW m \in Memory(x), NEW s \in Steps, m.exec \in 0..Len(m.att)
  PROVE  LET e == EnsureAttempt(m, s)
         IN \/ e = m /\ m.exec # 0 /\ m.att[m.exec].step = s /\ m.att[m.exec].status = "running"
            \/ e = CreateAttempt(m, s)
BY DEF EnsureAttempt, ActiveMatches

LEMMA MachineFacts ==
  ASSUME NEW x \in Setting, NEW v \in Machine(x)
  PROVE  /\ v.index \in 1..(N + 1) /\ v.status \in [Steps -> Statuses]
         /\ v.rollbacks \in 0..x.rollbacks /\ v.interrupts \in 0..x.interrupts
BY DEF Machine

LEMMA AdvanceFacts ==
  ASSUME NEW x \in Setting, NEW v \in Machine(x), v.index \in Steps
  PROVE  LET e == Advance(v)
         IN /\ e \in Machine(x) /\ e.index = v.index + 1
            /\ \A i \in Steps : e.status[i] = IF i = v.index THEN "completed"
                                              ELSE IF i = v.index + 1 THEN "running" ELSE v.status[i]
<1> DEFINE f == [i \in Steps |-> IF i = v.index THEN "completed"
                                 ELSE IF i = v.index + 1 THEN "running" ELSE v.status[i]]
           n == v.index + 1
           e == [[v EXCEPT !.index = n] EXCEPT !.status = f]
<1>1. Advance(v) = e
  BY DEF Advance, Machine
<1>2. f \in [Steps -> Statuses] /\ n \in 1..(N + 1)
  BY MachineFacts, Parameters DEF Statuses, Steps
<1>3. \A i \in Steps : f[i] = IF i = v.index THEN "completed"
                              ELSE IF i = v.index + 1 THEN "running" ELSE v.status[i]
  OBVIOUS
<1> HIDE DEF f, n
<1>4. e \in Machine(x) /\ e.index = n /\ e.status = f
  BY <1>2 DEF Machine
<1> HIDE DEF e
<1> QED BY <1>1, <1>3, <1>4 DEF n

LEMMA MoveBackFacts ==
  ASSUME NEW x \in Setting, NEW v \in Machine(x), NEW t \in Steps
  PROVE  LET e == MoveBack(v, t)
         IN /\ e \in Machine(x) /\ e.index = t
            /\ e.rollbacks = v.rollbacks /\ e.interrupts = v.interrupts
            /\ \A i \in Steps : e.status[i] = IF i = t THEN "running"
                                              ELSE IF i > t THEN "stale" ELSE v.status[i]
<1> DEFINE f == [i \in Steps |-> IF i = t THEN "running" ELSE IF i > t THEN "stale" ELSE v.status[i]]
           e == [[v EXCEPT !.index = t] EXCEPT !.status = f]
<1>1. MoveBack(v, t) = e
  BY DEF MoveBack, Machine
<1>2. f \in [Steps -> Statuses] /\ t \in 1..(N + 1)
  BY MachineFacts, Parameters DEF Statuses, Steps
<1>3. \A i \in Steps : f[i] = IF i = t THEN "running" ELSE IF i > t THEN "stale" ELSE v.status[i]
  OBVIOUS
<1> HIDE DEF f
<1>4. e \in Machine(x) /\ e.index = t /\ e.status = f /\ e.rollbacks = v.rollbacks /\ e.interrupts = v.interrupts
  BY <1>2 DEF Machine
<1> HIDE DEF e
<1> QED BY <1>1, <1>3, <1>4

LEMMA CountedFacts ==
  ASSUME NEW x \in Setting, NEW v \in Machine(x), NEW t \in Steps
  PROVE  /\ v.rollbacks < x.rollbacks =>
              /\ CountedRollback(v, t) \in Machine(x) /\ CountedRollback(v, t).index = t
              /\ CountedRollback(v, t).status = MoveBack(v, t).status
         /\ v.interrupts < x.interrupts =>
              /\ CountedInterrupt(v, t) \in Machine(x) /\ CountedInterrupt(v, t).index = t
              /\ CountedInterrupt(v, t).status = MoveBack(v, t).status
<1>1. /\ MoveBack(v, t) \in Machine(x) /\ MoveBack(v, t).index = t
      /\ MoveBack(v, t).rollbacks = v.rollbacks /\ MoveBack(v, t).interrupts = v.interrupts
  BY MoveBackFacts
<1>2. v.rollbacks \in 0..x.rollbacks /\ v.interrupts \in 0..x.interrupts /\ x.rollbacks \in Nat /\ x.interrupts \in Nat
  BY MachineFacts DEF Setting
<1>3. ASSUME NEW b, b \in Machine(x)
      PROVE  /\ \A k \in 0..x.rollbacks :
                  [b EXCEPT !.rollbacks = k] \in Machine(x) /\ [b EXCEPT !.rollbacks = k].index = b.index
                  /\ [b EXCEPT !.rollbacks = k].status = b.status
             /\ \A k \in 0..x.interrupts :
                  [b EXCEPT !.interrupts = k] \in Machine(x) /\ [b EXCEPT !.interrupts = k].index = b.index
                  /\ [b EXCEPT !.interrupts = k].status = b.status
  BY <1>3 DEF Machine
<1>4. ASSUME v.rollbacks < x.rollbacks
      PROVE  CountedRollback(v, t) \in Machine(x) /\ CountedRollback(v, t).index = t
             /\ CountedRollback(v, t).status = MoveBack(v, t).status
  <2>1. v.rollbacks + 1 \in 0..x.rollbacks
    BY <1>2, <1>4
  <2>2. CountedRollback(v, t) = [MoveBack(v, t) EXCEPT !.rollbacks = v.rollbacks + 1]
    BY <1>1 DEF CountedRollback, Machine
  <2> QED BY <1>1, <1>3, <2>1, <2>2
<1>5. ASSUME v.interrupts < x.interrupts
      PROVE  CountedInterrupt(v, t) \in Machine(x) /\ CountedInterrupt(v, t).index = t
             /\ CountedInterrupt(v, t).status = MoveBack(v, t).status
  <2>1. v.interrupts + 1 \in 0..x.interrupts
    BY <1>2, <1>5
  <2>2. CountedInterrupt(v, t) = [MoveBack(v, t) EXCEPT !.interrupts = v.interrupts + 1]
    BY <1>1 DEF CountedInterrupt, Machine
  <2> QED BY <1>1, <1>3, <2>1, <2>2
<1> QED BY <1>4, <1>5

\* A new machine state in the memory.
LEMMA MachineSet ==
  ASSUME NEW x \in Setting, NEW m \in Memory(x), NEW v \in Machine(x)
  PROVE  LET e == [m EXCEPT !.sm = v]
         IN /\ e \in Memory(x) /\ e.sm = v /\ e.hist = m.hist /\ e.att = m.att /\ e.exec = m.exec
            /\ e.inp = m.inp
BY DEF Memory

LEMMA ForgetFacts ==
  ASSUME NEW x \in Setting, NEW m \in Memory(x), NEW t \in Steps
  PROVE  LET e == ForgetFrom(m, t)
         IN /\ e \in Memory(x) /\ e.sm = m.sm /\ e.att = m.att /\ e.exec = m.exec /\ e.inp = m.inp
            /\ \A i \in Steps : /\ e.hist.since[i] = IF i >= t THEN Len(m.att) + 1 ELSE m.hist.since[i]
                                /\ e.hist.answered[i] = (i < t /\ m.hist.answered[i])
<1> DEFINE since == [i \in Steps |-> IF i >= t THEN Len(m.att) + 1 ELSE m.hist.since[i]]
           answered == [i \in Steps |-> i < t /\ m.hist.answered[i]]
           h == [since |-> since, answered |-> answered]
           e == [m EXCEPT !.hist = h]
<1>1. ForgetFrom(m, t) = e
  BY DEF ForgetFrom, Memory
<1>2. since \in [Steps -> Nat] /\ answered \in [Steps -> BOOLEAN]
  BY MemoryFields
<1>3. \A i \in Steps : since[i] = (IF i >= t THEN Len(m.att) + 1 ELSE m.hist.since[i])
                       /\ answered[i] = (i < t /\ m.hist.answered[i])
  OBVIOUS
<1> HIDE DEF since, answered
<1>4. h \in Past /\ h.since = since /\ h.answered = answered
  BY <1>2 DEF Past
<1> HIDE DEF h
<1>5. e \in Memory(x) /\ e.sm = m.sm /\ e.att = m.att /\ e.exec = m.exec /\ e.inp = m.inp /\ e.hist = h
  BY <1>4 DEF Memory
<1> HIDE DEF e
<1> QED BY <1>1, <1>3, <1>4, <1>5

\* What a rollback or an interrupt to t makes of m, where a is the attempt it ends.
MovedBack(m, e, t, a, status) ==
  /\ e.sm.index = t
  /\ \A i \in Steps : e.sm.status[i] = IF i = t THEN "running" ELSE IF i > t THEN "stale" ELSE m.sm.status[i]
  /\ Len(e.att) = Len(m.att) + 1 /\ e.exec = Len(m.att) + 1 /\ e.inp = "text"
  /\ e.att[Len(m.att) + 1].step = t
  /\ \A k \in 1..Len(m.att) : e.att[k].step = m.att[k].step
                              /\ e.att[k].status = IF k = a THEN status ELSE m.att[k].status
  /\ \A i \in Steps : /\ e.hist.since[i] = IF i >= t THEN Len(m.att) + 1 ELSE m.hist.since[i]
                      /\ e.hist.answered[i] = (i < t /\ m.hist.answered[i])

\* The memory an accepted rollback or interrupt to t leaves; a is the attempt it ends.
Restarted(m, t, v, a, status) ==
  [CreateAttempt(ForgetFrom(MarkAttempt([m EXCEPT !.sm = v], a, status), t), t) EXCEPT !.inp = "text"]

LEMMA MoveFacts ==
  ASSUME NEW x \in Setting, NEW m \in Memory(x), NEW t \in Steps, NEW v \in Machine(x), v.index = t,
         v.status = MoveBack(m.sm, t).status, NEW a \in 0..Len(m.att),
         NEW status \in {"rolled_back", "discarded"}, Len(m.att) < x.attempts
  PROVE  LET e == Restarted(m, t, v, a, status) IN e \in Memory(x) /\ MovedBack(m, e, t, a, status)
<1> DEFINE m1 == [m EXCEPT !.sm = v]
           m2 == MarkAttempt(m1, a, status)
           m3 == ForgetFrom(m2, t)
           m4 == CreateAttempt(m3, t)
           e  == [m4 EXCEPT !.inp = "text"]
<1>0. \A i \in Steps : v.status[i] = IF i = t THEN "running" ELSE IF i > t THEN "stale" ELSE m.sm.status[i]
  BY MoveBackFacts, MemoryFields
<1>1. m1 \in Memory(x) /\ m1.sm = v /\ m1.hist = m.hist /\ m1.att = m.att
  BY MachineSet
<1> HIDE DEF m1
<1>2. m2 \in Memory(x) /\ m2.sm = v /\ m2.hist = m.hist /\ Relabels(m, m2, a, status)
  BY SMTT(60), <1>1, MarkFacts DEF Relabels
<1> HIDE DEF m2
<1>3. /\ m3 \in Memory(x) /\ m3.sm = v /\ m3.att = m2.att
      /\ \A i \in Steps : /\ m3.hist.since[i] = IF i >= t THEN Len(m.att) + 1 ELSE m.hist.since[i]
                          /\ m3.hist.answered[i] = (i < t /\ m.hist.answered[i])
  BY SMTT(60), <1>2, ForgetFacts DEF Relabels
<1> HIDE DEF m3
<1>4. /\ m4 \in Memory(x) /\ m4.sm = v /\ m4.hist = m3.hist
      /\ Len(m4.att) = Len(m.att) + 1 /\ m4.exec = Len(m.att) + 1
      /\ m4.att[Len(m.att) + 1] = [step |-> t, status |-> "running"]
      /\ \A k \in 1..Len(m.att) : m4.att[k] = m3.att[k]
  <2>1. Len(m3.att) = Len(m.att)
    BY <1>2, <1>3 DEF Relabels
  <2>2. Len(m3.att) < x.attempts
    BY <2>1
  <2>3. /\ m4 \in Memory(x) /\ m4.sm = m3.sm /\ m4.hist = m3.hist
        /\ Len(m4.att) = Len(m3.att) + 1 /\ m4.exec = Len(m3.att) + 1
        /\ m4.att[Len(m3.att) + 1] = [step |-> t, status |-> "running"]
        /\ \A k \in 1..Len(m3.att) : m4.att[k] = m3.att[k]
    BY SMTT(60), <1>3, <2>2, CreateFacts
  <2> HIDE DEF m4
  <2> QED BY <1>3, <2>1, <2>3
<1> HIDE DEF m4
<1>5. e \in Memory(x) /\ e.sm = v /\ e.hist = m3.hist /\ e.att = m4.att /\ e.exec = m4.exec /\ e.inp = "text"
  BY ZenonT(60), <1>4, InputFacts
<1> HIDE DEF e
<1>6. MovedBack(m, e, t, a, status)
  BY SMTT(60), <1>0, <1>2, <1>3, <1>4, <1>5 DEF MovedBack, Relabels
<1>7. Restarted(m, t, v, a, status) = e
  BY DEF Restarted, e, m4, m3, m2, m1
<1> QED BY <1>5, <1>6, <1>7

----------------------------------------------------------------------------
(* Coherence, operation by operation                                       *)

\* Nothing was concluded or written in an attempt that has not begun.
LEMMA NoScriptIs == NoScript.state = "none" /\ ~NoScript.ans
BY DEF NoScript

\* e is m with other attempt statuses or with a new attempt at the position.
Relates(x, m, e) ==
  /\ e.sm = m.sm /\ e.hist = m.hist
  /\ \/ Len(e.att) = Len(m.att)
     \/ /\ Len(e.att) = Len(m.att) + 1 /\ Len(m.att) < x.attempts
        /\ m.sm.index \in Steps /\ e.att[Len(m.att) + 1].step = m.sm.index
  /\ \A k \in 1..Len(m.att) : e.att[k].step = m.att[k].step
  /\ e.exec \in 0..Len(e.att)
  /\ e.exec # 0 /\ e.att[e.exec].status = "running" =>
       e.exec = Len(m.att) + 1 \/ (e.exec = m.exec /\ m.att[m.exec].status = "running")
  /\ ~x.a2a /\ e.inp = "answer" => m.inp = "answer" \/ (m.sm.index \in Steps /\ m.hist.answered[m.sm.index])

LEMMA RelatedCoheres ==
  ASSUME NEW x \in Setting, NEW m \in Memory(x), NEW e \in Memory(x), NEW sc, NEW c,
         Coherent(x, sc, m, c), Relates(x, m, e)
  PROVE  Coherent(x, sc, e, c)
<1>0. /\ Len(m.att) \in Nat /\ Len(e.att) \in Nat /\ x.attempts \in Nat
      /\ m.hist.since \in [Steps -> Nat] /\ m.sm.index \in 1..(N + 1) /\ N \in Nat
      /\ \A a \in 1..Len(m.att) : m.att[a].step \in Steps
      /\ \A a \in 1..Len(e.att) : e.att[a].step \in Steps
  <2>1. /\ Len(m.att) \in Nat /\ m.hist.since \in [Steps -> Nat] /\ m.sm.index \in 1..(N + 1)
        /\ \A a \in 1..Len(m.att) : m.att[a].step \in Steps
    BY MemoryFields
  <2>2. Len(e.att) \in Nat /\ \A a \in 1..Len(e.att) : e.att[a].step \in Steps
    BY MemoryFields
  <2>3. x.attempts \in Nat /\ N \in Nat
    BY SettingFields, Parameters
  <2> QED BY <2>1, <2>2, <2>3
<1>1. ASSUME NEW a \in 1..Len(e.att)
      PROVE  \/ a \in 1..Len(m.att) /\ e.att[a].step = m.att[a].step
             \/ a = Len(m.att) + 1 /\ e.att[a].step = m.sm.index /\ a \in 1..x.attempts /\ sc[a] = NoScript
  <2>1. CASE a \in 1..Len(m.att)
    BY <2>1 DEF Relates
  <2>2. CASE a \notin 1..Len(m.att)
    <3>1. a = Len(m.att) + 1 /\ e.att[a].step = m.sm.index /\ a \in 1..x.attempts /\ a > Len(m.att)
      BY SMTT(60), <1>0, <2>2 DEF Relates
    <3> QED BY <3>1 DEF Coherent, Attempts
  <2> QED BY <2>1, <2>2
<1>2. Attempts(x, sc, e)
  <2>1. e.exec \in 0..Len(e.att) /\ Len(e.att) <= x.attempts
    BY <1>0 DEF Coherent, Attempts, Relates
  <2>2. \A i \in Steps : /\ e.sm.status[i] = "completed" <=> i < e.sm.index
                         /\ e.hist.since[i] <= Len(e.att) /\ e.hist.since[i] <= Len(m.att)
    BY <1>0 DEF Coherent, Attempts, Relates
  <2>3. ASSUME NEW a \in 1..Len(e.att), a >= e.hist.since[e.att[a].step]
        PROVE  e.att[a].step <= e.sm.index
    <3>1. e.hist = m.hist /\ e.sm = m.sm
      BY DEF Relates
    <3>2. a \in 1..Len(m.att) /\ e.att[a].step = m.att[a].step => e.att[a].step <= e.sm.index
      BY <2>3, <3>1 DEF Coherent, Attempts
    <3> QED BY <1>0, <1>1, <3>1, <3>2
  <2>4. ASSUME e.exec # 0, e.att[e.exec].status = "running"
        PROVE  e.exec >= e.hist.since[e.att[e.exec].step]
    <3>0. e.exec \in 1..Len(e.att) /\ e.att[e.exec].step \in Steps /\ m.exec \in 0..Len(m.att)
      BY SMTT(60), <1>0, <2>1, <2>4 DEF Coherent, Attempts
    <3>1. CASE e.exec = Len(m.att) + 1
      <4>1. e.hist.since[e.att[e.exec].step] \in Nat /\ e.hist.since[e.att[e.exec].step] <= Len(m.att)
        BY <1>0, <2>2, <3>0 DEF Relates
      <4> QED BY SMTT(60), <1>0, <3>1, <4>1
    <3>2. CASE e.exec = m.exec /\ m.att[m.exec].status = "running"
      BY SMTT(60), <1>0, <2>4, <3>0, <3>2 DEF Coherent, Attempts, Relates
    <3> QED BY <2>4, <3>1, <3>2 DEF Relates
  <2>5. \A a \in 1..x.attempts : a > Len(e.att) => sc[a] = NoScript
    BY <1>0 DEF Coherent, Attempts, Relates
  <2> QED BY <2>1, <2>2, <2>3, <2>4, <2>5 DEF Attempts
<1>3. ASSUME ~x.a2a PROVE Replied(x, sc, e)
  <2>0. Replied(x, sc, m)
    BY <1>3 DEF Coherent
  <2>1. \A i \in x.waits \ x.legacy : i < e.sm.index => e.hist.answered[i]
    BY <2>0 DEF Replied, Relates
  <2>2. e.inp = "answer" => e.sm.index \in Steps /\ e.hist.answered[e.sm.index]
    BY SMTT(60), <1>3, <2>0 DEF Replied, Relates
  <2>3. ASSUME NEW a \in 1..Len(e.att)
        PROVE  /\ sc[a].ans /\ a >= e.hist.since[e.att[a].step] => e.hist.answered[e.att[a].step]
               /\ sc[a].state = "done" /\ sc[a].out = "ok" /\ e.att[a].step \in x.waits => sc[a].ans
    BY <1>1, <2>0, NoScriptIs DEF Replied, Relates
  <2> QED BY <2>1, <2>2, <2>3 DEF Replied
<1>4. ASSUME Orderly(x) PROVE Drawn(sc, e, c)
  <2>0. Drawn(sc, m, c)
    BY <1>4 DEF Coherent
  <2>1. ASSUME NEW a \in 1..Len(e.att), a >= e.hist.since[e.att[a].step], sc[a].state = "done",
               NEW d \in Deps[e.att[a].step]
        PROVE  sc[a].seen[d] = c[d].val
    BY <1>1, <2>0, <2>1, NoScriptIs DEF Drawn, Relates
  <2>2. \A i \in Steps : i < e.sm.index =>
          /\ c[i].by >= e.hist.since[i] /\ c[i].val # 0
          /\ \A d \in Deps[i] : c[i].seen[d] = c[d].val
    BY <2>0 DEF Drawn, Relates
  <2> QED BY <2>1, <2>2 DEF Drawn
<1> QED BY <1>2, <1>3, <1>4 DEF Coherent

\* What lies at and after the position may change.
LEMMA ContextCoheres ==
  ASSUME NEW x \in Setting, NEW m \in Memory(x), NEW sc, NEW c, NEW e,
         Coherent(x, sc, m, c), Orderly(x) => Agree(c, e, m.sm.index)
  PROVE  Coherent(x, sc, m, e)
<1> SUFFICES ASSUME Orderly(x) PROVE Drawn(sc, m, e)
  BY DEF Coherent
<1>0. /\ Drawn(sc, m, c) /\ m.sm.index \in 1..(N + 1) /\ N \in Nat
      /\ \A a \in 1..Len(m.att) : m.att[a].step \in Steps
  BY MemoryFields, Parameters DEF Coherent
<1>1. ASSUME NEW i \in Steps, i <= m.sm.index, NEW d \in Deps[i] PROVE e[d].val = c[d].val
  <2>1. d \in Steps /\ d < i
    BY Parameters
  <2>2. d < m.sm.index
    BY <1>0, <1>1, <2>1 DEF Steps
  <2> QED BY <2>1, <2>2 DEF Agree
<1>2. ASSUME NEW i \in Steps, i < m.sm.index
      PROVE  /\ e[i].by >= m.hist.since[i] /\ e[i].val # 0
             /\ \A d \in Deps[i] : e[i].seen[d] = e[d].val
  <2>1. i <= m.sm.index
    BY <1>0, <1>2 DEF Steps
  <2> QED BY <1>0, <1>1, <1>2, <2>1 DEF Drawn, Agree
<1>3. ASSUME NEW a \in 1..Len(m.att), a >= m.hist.since[m.att[a].step], sc[a].state = "done"
      PROVE  \A d \in Deps[m.att[a].step] : sc[a].seen[d] = e[d].val
  <2>1. m.att[a].step \in Steps /\ m.att[a].step <= m.sm.index
    BY <1>0, <1>3 DEF Coherent, Attempts
  <2> QED BY <1>0, <1>1, <1>3, <2>1 DEF Drawn
<1> QED BY <1>2, <1>3 DEF Drawn

\* The position goes on when its step is concluded, and answered if it waits.
Advanced(m) == [m EXCEPT !.sm = Advance(@), !.inp = "none"]

LEMMA AdvanceCoheres ==
  ASSUME NEW x \in Setting, NEW m \in Memory(x), NEW sc, NEW c, NEW e, Coherent(x, sc, m, c),
         m.sm.index \in Steps,
         ~x.a2a /\ m.sm.index \in x.waits \ x.legacy => m.hist.answered[m.sm.index],
         Orderly(x) =>
           /\ Agree(c, e, m.sm.index)
           /\ e[m.sm.index].by >= m.hist.since[m.sm.index] /\ e[m.sm.index].val # 0
           /\ \A d \in Deps[m.sm.index] : e[m.sm.index].seen[d] = c[d].val
  PROVE  LET f == Advanced(m)
         IN /\ f \in Memory(x) /\ Coherent(x, sc, f, e) /\ f.att = m.att /\ f.hist = m.hist
            /\ f.exec = m.exec /\ f.sm.index = m.sm.index + 1 /\ f.inp = "none"
<1> DEFINE v == Advance(m.sm)
           g == [m EXCEPT !.sm = v]
           f == [g EXCEPT !.inp = "none"]
<1>1. v \in Machine(x) /\ v.index = m.sm.index + 1
      /\ \A i \in Steps : v.status[i] = IF i = m.sm.index THEN "completed"
                                        ELSE IF i = m.sm.index + 1 THEN "running" ELSE m.sm.status[i]
  BY MemoryFields, AdvanceFacts
<1>a. Advanced(m) = f
  BY DEF Memory, Advanced
<1> HIDE DEF v
<1>2. g \in Memory(x) /\ g.sm = v /\ g.hist = m.hist /\ g.att = m.att /\ g.exec = m.exec
  BY <1>1, MachineSet
<1> HIDE DEF g
<1>3. f \in Memory(x) /\ f.sm = v /\ f.hist = m.hist /\ f.att = m.att /\ f.exec = m.exec /\ f.inp = "none"
  BY ZenonT(60), <1>2, InputFacts
<1> HIDE DEF f
<1>0. /\ m.hist.since \in [Steps -> Nat] /\ m.sm.index \in 1..N /\ N \in Nat
      /\ \A a \in 1..Len(m.att) : m.att[a].step \in 1..N
  BY MemoryFields, Parameters DEF Steps
<1>4. \A i \in Steps : i < f.sm.index => i < m.sm.index \/ i = m.sm.index
  BY <1>0, <1>1, <1>3 DEF Steps
<1>5. Attempts(x, sc, f)
  <2>1. ASSUME NEW i \in Steps PROVE f.sm.status[i] = "completed" <=> i < f.sm.index
    <3>1. m.sm.status[i] = "completed" <=> i < m.sm.index
      BY DEF Coherent, Attempts
    <3>2. i \in Nat /\ f.sm.index = m.sm.index + 1 /\ f.sm.status[i] = v.status[i]
      BY <1>1, <1>3, Parameters
    <3>3. /\ i = m.sm.index => f.sm.status[i] = "completed"
          /\ i = m.sm.index + 1 => f.sm.status[i] = "running"
          /\ i # m.sm.index /\ i # m.sm.index + 1 => f.sm.status[i] = m.sm.status[i]
      BY <1>0, <1>1, <3>2
    <3> QED BY <1>0, <3>1, <3>2, <3>3
  <2>2. \A a \in 1..Len(f.att) : a >= f.hist.since[f.att[a].step] => f.att[a].step <= f.sm.index
    BY SMTT(60), <1>0, <1>1, <1>3 DEF Coherent, Attempts
  <2> QED BY <1>3, <2>1, <2>2 DEF Coherent, Attempts
<1>6. ASSUME ~x.a2a PROVE Replied(x, sc, f)
  <2>1. Replied(x, sc, m)
    BY <1>6 DEF Coherent
  <2>2. \A i \in x.waits \ x.legacy : i < f.sm.index => f.hist.answered[i]
    <3>1. x.waits \subseteq Steps
      BY DEF Setting
    <3> QED BY <1>3, <1>4, <1>6, <2>1, <3>1 DEF Replied
  <2> QED BY <1>3, <2>1, <2>2 DEF Replied
<1>7. ASSUME Orderly(x) PROVE Drawn(sc, f, e)
  <2>1. Coherent(x, sc, m, e)
    BY <1>7, ContextCoheres
  <2>2. Drawn(sc, m, e)
    BY <1>7, <2>1 DEF Coherent
  <2>3. \A d \in Deps[m.sm.index] : e[m.sm.index].seen[d] = e[d].val
    BY <1>7, Parameters DEF Agree
  <2>4. \A i \in Steps : i < f.sm.index =>
          /\ e[i].by >= f.hist.since[i] /\ e[i].val # 0
          /\ \A d \in Deps[i] : e[i].seen[d] = e[d].val
    BY <1>3, <1>4, <1>7, <2>2, <2>3 DEF Drawn
  <2> QED BY <1>3, <2>2, <2>4 DEF Drawn
<1>8. Coherent(x, sc, f, e)
  BY <1>5, <1>6, <1>7 DEF Coherent
<1> QED BY <1>a, <1>1, <1>3, <1>8

\* A rollback or an interrupt keeps what lies before its target.
LEMMA MovedCoheres ==
  ASSUME NEW x \in Setting, NEW m \in Memory(x), NEW e \in Memory(x), NEW sc, NEW c, NEW g, NEW t \in Steps,
         NEW b, NEW status, Coherent(x, sc, m, c), t <= m.sm.index, Len(m.att) < x.attempts,
         MovedBack(m, e, t, b, status), Orderly(x) => Agree(c, g, t)
  PROVE  Coherent(x, sc, e, g)
<1>0. /\ Len(m.att) \in Nat /\ x.attempts \in Nat /\ m.hist.since \in [Steps -> Nat]
      /\ m.sm.index \in Nat /\ N \in Nat /\ Steps \subseteq Nat
      /\ \A a \in 1..Len(m.att) : m.att[a].step \in Steps
  <2>1. /\ Len(m.att) \in Nat /\ m.hist.since \in [Steps -> Nat] /\ m.sm.index \in 1..(N + 1)
        /\ \A a \in 1..Len(m.att) : m.att[a].step \in Steps
    BY MemoryFields
  <2>2. x.attempts \in Nat /\ N \in Nat /\ Steps \subseteq Nat
    BY SettingFields, Parameters
  <2> QED BY <2>1, <2>2
<1>1. /\ e.sm.index = t /\ Len(e.att) = Len(m.att) + 1 /\ e.exec = Len(m.att) + 1 /\ e.inp = "text"
      /\ e.att[Len(m.att) + 1].step = t
      /\ \A k \in 1..Len(m.att) : e.att[k].step = m.att[k].step
      /\ \A i \in Steps : /\ i < t => e.hist.since[i] = m.hist.since[i]
                          /\ ~(i < t) => e.hist.since[i] = Len(m.att) + 1
                          /\ e.hist.answered[i] = (i < t /\ m.hist.answered[i])
  BY SMTT(60), <1>0 DEF MovedBack
<1>2. ASSUME NEW a \in 1..Len(e.att), a >= e.hist.since[e.att[a].step]
      PROVE  \/ /\ a \in 1..Len(m.att) /\ e.att[a].step = m.att[a].step /\ m.att[a].step < t
                /\ a >= m.hist.since[m.att[a].step]
             \/ a = Len(m.att) + 1 /\ e.att[a].step = t /\ a \in 1..x.attempts /\ sc[a] = NoScript
  <2>1. CASE a \in 1..Len(m.att)
    <3>1. e.att[a].step = m.att[a].step /\ m.att[a].step \in Steps
      BY <1>0, <1>1, <2>1
    <3>2. m.att[a].step < t
      <4>1. ~(m.att[a].step < t) => e.hist.since[m.att[a].step] = Len(m.att) + 1
        BY <1>1, <3>1
      <4> QED BY <1>0, <1>2, <2>1, <3>1, <4>1
    <3> QED BY <1>1, <1>2, <2>1, <3>1, <3>2
  <2>2. CASE a \notin 1..Len(m.att)
    <3>1. a = Len(m.att) + 1 /\ a \in 1..x.attempts /\ a > Len(m.att)
      BY SMTT(60), <1>0, <1>1, <2>2
    <3> QED BY <1>1, <3>1 DEF Coherent, Attempts
  <2> QED BY <2>1, <2>2
<1>3. \A i \in Steps : i < t => i < m.sm.index
  BY <1>0
<1>4. Attempts(x, sc, e)
  <2>1. e.exec \in 0..Len(e.att) /\ Len(e.att) <= x.attempts
    BY <1>0, <1>1
  <2>2. ASSUME NEW i \in Steps
        PROVE  /\ e.sm.status[i] = "completed" <=> i < e.sm.index
               /\ e.hist.since[i] <= Len(e.att)
    <3>1. /\ e.sm.status[i] = IF i = t THEN "running" ELSE IF i > t THEN "stale" ELSE m.sm.status[i]
          /\ m.sm.status[i] = "completed" <=> i < m.sm.index
      BY DEF MovedBack, Coherent, Attempts
    <3>2. m.hist.since[i] <= Len(m.att) /\ m.hist.since[i] \in Nat /\ i \in Nat
      BY <1>0 DEF Coherent, Attempts
    <3>3. e.sm.status[i] = "completed" <=> i < e.sm.index
      BY <1>0, <1>1, <3>1, <3>2
    <3>4. e.hist.since[i] <= Len(e.att)
      BY SMTT(60), <1>0, <1>1, <3>2
    <3> QED BY <3>3, <3>4
  <2>3. ASSUME NEW a \in 1..Len(e.att), a >= e.hist.since[e.att[a].step]
        PROVE  e.att[a].step <= e.sm.index
    <3>1. e.att[a].step < t \/ e.att[a].step = t
      BY <1>2, <2>3
    <3>2. e.att[a].step \in Nat /\ t \in Nat
      BY <1>0, MemoryFields
    <3> QED BY <1>1, <3>1, <3>2
  <2>4. e.exec >= e.hist.since[e.att[e.exec].step]
    BY <1>0, <1>1
  <2>5. ASSUME NEW a \in 1..x.attempts, a > Len(e.att) PROVE sc[a] = NoScript
    <3>1. a > Len(m.att)
      BY <1>0, <1>1, <2>5
    <3> QED BY <3>1 DEF Coherent, Attempts
  <2> QED BY <2>1, <2>2, <2>3, <2>4, <2>5 DEF Attempts
<1>5. ASSUME ~x.a2a PROVE Replied(x, sc, e)
  <2>0. Replied(x, sc, m) /\ x.waits \subseteq Steps
    BY <1>5 DEF Coherent, Setting
  <2>1. \A i \in x.waits \ x.legacy : i < e.sm.index => e.hist.answered[i]
    <3>1. ASSUME NEW i \in x.waits \ x.legacy, i < t PROVE e.hist.answered[i]
      <4>1. i \in Steps /\ m.hist.answered[i]
        BY <1>3, <2>0, <3>1 DEF Replied
      <4> QED BY <1>1, <3>1, <4>1
    <3> QED BY <1>1, <3>1
  <2>2. ASSUME NEW a \in 1..Len(e.att), sc[a].ans, a >= e.hist.since[e.att[a].step]
        PROVE  e.hist.answered[e.att[a].step]
    <3>1. a \in 1..Len(m.att) /\ e.att[a].step = m.att[a].step /\ m.att[a].step < t
          /\ a >= m.hist.since[m.att[a].step] /\ m.att[a].step \in Steps
      BY <1>0, <1>2, <2>2, NoScriptIs
    <3>2. m.hist.answered[m.att[a].step]
      BY <2>0, <2>2, <3>1 DEF Replied
    <3> QED BY <1>1, <3>1, <3>2
  <2>3. ASSUME NEW a \in 1..Len(e.att), sc[a].state = "done", sc[a].out = "ok", e.att[a].step \in x.waits
        PROVE  sc[a].ans
    <3>1. CASE a \in 1..Len(m.att)
      BY <1>1, <2>0, <2>3, <3>1 DEF Replied
    <3>2. CASE a \notin 1..Len(m.att)
      <4>1. a = Len(m.att) + 1 /\ a \in 1..x.attempts /\ a > Len(m.att)
        BY <1>0, <1>1, <3>2
      <4> QED BY <2>3, <4>1, NoScriptIs DEF Coherent, Attempts
    <3> QED BY <3>1, <3>2
  <2> QED BY <1>1, <2>1, <2>2, <2>3 DEF Replied
<1>6. ASSUME Orderly(x) PROVE Drawn(sc, e, g)
  <2>0. Drawn(sc, m, c) /\ Agree(c, g, t)
    BY <1>6 DEF Coherent
  <2>1. ASSUME NEW i \in Steps, i < t, NEW d \in Deps[i] PROVE g[d].val = c[d].val
    <3>1. d \in Steps /\ d < i
      BY Parameters
    <3>2. d < t
      BY <1>0, <2>1, <3>1
    <3> QED BY <2>0, <3>1, <3>2 DEF Agree
  <2>2. ASSUME NEW i \in Steps, i < e.sm.index
        PROVE  /\ g[i].by >= e.hist.since[i] /\ g[i].val # 0
               /\ \A d \in Deps[i] : g[i].seen[d] = g[d].val
    BY <1>1, <1>3, <2>0, <2>1, <2>2 DEF Drawn, Agree
  <2>3. ASSUME NEW a \in 1..Len(e.att), a >= e.hist.since[e.att[a].step], sc[a].state = "done"
        PROVE  \A d \in Deps[e.att[a].step] : sc[a].seen[d] = g[d].val
    <3>1. a \in 1..Len(m.att) /\ e.att[a].step = m.att[a].step /\ m.att[a].step < t
          /\ a >= m.hist.since[m.att[a].step] /\ m.att[a].step \in Steps
      BY <1>0, <1>2, <2>3, NoScriptIs
    <3> QED BY <2>0, <2>1, <2>3, <3>1 DEF Drawn
  <2> QED BY <2>2, <2>3 DEF Drawn
<1> QED BY <1>4, <1>5, <1>6 DEF Coherent

----------------------------------------------------------------------------
(* What every step keeps                                                   *)

\* All of the invariant but the streams.
Used == [crash : Nat, torn : Nat, block : Nat, answer : Nat, fail : Nat, refused : Nat]

Typed ==
  /\ setting \in Settings
  /\ mem \in Memory(setting) /\ mem.exec \in 0..Len(mem.att)
  /\ clock \in Nat /\ ctx \in Contexts(setting, clock) /\ dctx \in Contexts(setting, clock)
  /\ scripts \in [1..setting.attempts -> Transcript(clock)]
  /\ up \in BOOLEAN
  /\ meta \in {None} \union File(setting) /\ torn \in {None} \union File(setting)
  /\ used \in Used

Kept == Typed /\ Snapshots /\ Saved /\ Filed /\ Written(setting, scripts)

Flowing == strm \in [Streams -> StreamState(setting)] /\ Running(setting, scripts, mem, strm)

LEMMA Parts == (IInv <=> Kept /\ Flowing) /\ (IInv' <=> Kept' /\ Flowing')
<1>1. IInv <=> Kept /\ Flowing
  BY DEF IInv, Kept, Flowing, TypeOK, Typed, Used, MaxAttempts
<1>2. IInv' <=> Kept' /\ Flowing'
  BY DEF IInv, Kept, Flowing, TypeOK, Typed, Used, MaxAttempts
<1> QED BY <1>1, <1>2

LEMMA SettingIs == ASSUME Typed PROVE setting \in Setting /\ None \notin File(setting)
BY PipelineAssumption DEF Typed

\* Conclusions remain readings and transcripts as more are drawn.
LEMMA MoreDrawn ==
  ASSUME NEW x, NEW k \in Nat, NEW n \in Nat, k <= n
  PROVE  /\ Reads(k) \subseteq Reads(n) /\ Contexts(x, k) \subseteq Contexts(x, n)
         /\ Transcript(k) \subseteq Transcript(n)
<1>1. 0..k \subseteq 0..n
  OBVIOUS
<1>2. Reads(k) \subseteq Reads(n)
  <2>1. ASSUME NEW i \in Steps, NEW f \in [Deps[i] -> 0..k] PROVE f \in [Deps[i] -> 0..n]
    BY <1>1, <2>1
  <2> QED BY <2>1 DEF Reads
<1>3. Conclusion(x, k) \subseteq Conclusion(x, n)
  BY <1>1, <1>2 DEF Conclusion
<1>4. Contexts(x, k) \subseteq Contexts(x, n)
  BY <1>3 DEF Contexts
<1>5. Transcript(k) \subseteq Transcript(n)
  BY <1>1, <1>2 DEF Transcript
<1> QED BY <1>2, <1>4, <1>5

\* A save of something coherent keeps memory and disk in order, and leaves a coherent meta.yaml
\* for a process that dies before it replaces it.
LEMMA SaveKeeps ==
  ASSUME Kept, up, NEW status \in Resumable \union Terminal, NEW step \in Steps,
         NEW reason \in {"none", "input", "terminal"}, NEW m \in Memory(setting), NEW c,
         Save(status, step, reason, m, c),
         UNCHANGED <<setting, scripts, up>>, clock' \in {clock, clock + 1},
         used' \in Used, used'.torn = used.torn,
         c \in Contexts(setting, clock'), Coherent(setting, scripts, m, c),
         Orderly(setting) => Agree(ctx, c, mem.sm.index),
         Orderly(setting) /\ used.torn = 0 => Unstale(m, c),
         status = "waiting_input" => m.sm.index \in Steps,
         Harmless(setting) /\ status \in {"running", "waiting_input"} => m.sm.index = step
  PROVE  Kept'
<1> DEFINE f == [status |-> status, step |-> step, reason |-> reason, mem |-> m]
<1>1. mem' = m /\ ctx' = c /\ dctx' = c /\ meta' = f /\ torn' = meta
      /\ setting' = setting /\ scripts' = scripts /\ up'
  BY DEF Save
<1>2. f \in File(setting) /\ f.status = status /\ f.step = step /\ f.mem = m
  BY DEF File
<1> HIDE DEF f
<1>3. f # None /\ setting \in Setting
  BY <1>2, SettingIs DEF Kept
<1>4. Typed'
  <2>1. clock \in Nat /\ clock' \in Nat /\ clock <= clock'
    BY DEF Kept, Typed
  <2>2. scripts' \in [1..setting'.attempts -> Transcript(clock')]
    <3>1. scripts \in [1..setting.attempts -> Transcript(clock)] /\ Transcript(clock) \subseteq Transcript(clock')
      BY <2>1, MoreDrawn DEF Kept, Typed
    <3> QED BY <1>1, <3>1
  <2>3. mem'.exec \in 0..Len(mem'.att)
    BY <1>1 DEF Coherent, Attempts
  <2>4. setting \in Settings /\ meta \in {None} \union File(setting) /\ up \in BOOLEAN
    BY DEF Kept, Typed
  <2> QED BY <1>1, <1>2, <2>1, <2>2, <2>3, <2>4 DEF Typed
<1>5. Snapshots'
  <2>1. ASSUME meta # None PROVE Coherent(setting, scripts, meta.mem, c)
    <3>1. meta.mem = mem /\ Coherent(setting, scripts, mem, ctx) /\ mem \in Memory(setting)
      BY <2>1 DEF Kept, Saved, Snapshots, Typed
    <3> QED BY <1>3, <3>1, ContextCoheres
  <2> QED BY <1>1, <1>2, <2>1 DEF Snapshots
<1>6. Saved'
  BY <1>1, <1>2, <1>3 DEF Saved
<1>7. Filed'
  <2>1. Fits(setting, f)
    <3>1. m.sm.index = step => m.sm.index <= N
      BY Parameters DEF Steps
    <3> QED BY <1>2, <3>1 DEF Fits, ValidSnapshot
  <2>2. meta # None => Fits(setting, meta)
    BY DEF Kept, Filed
  <2> QED BY <1>1, <2>1, <2>2 DEF Filed
<1>8. Written(setting, scripts)'
  BY <1>1 DEF Kept, Written
<1> QED BY <1>4, <1>5, <1>6, <1>7, <1>8 DEF Kept

\* So does a step that saves nothing, once something has been saved.
LEMMA NoSaveKeeps ==
  ASSUME Kept, up, meta # None, NoSave, UNCHANGED <<setting, scripts, up, clock, used>>
  PROVE  Kept'
<1>1. mem' = mem /\ ctx' = ctx /\ dctx' = dctx /\ meta' = meta /\ torn' = None
  BY DEF NoSave
<1>2. Typed'
  BY <1>1 DEF Kept, Typed
<1>3. Snapshots'
  BY <1>1 DEF Kept, Snapshots
<1>4. Saved'
  BY <1>1 DEF Kept, Saved
<1>5. Filed'
  BY <1>1 DEF Kept, Filed
<1>6. Written(setting, scripts)'
  BY DEF Kept, Written
<1> QED BY <1>2, <1>3, <1>4, <1>5, <1>6 DEF Kept

\* A process with a stream has saved something.
LEMMA StreamsSaved ==
  ASSUME Kept, NEW w \in Streams, strm[w].pc # "idle" PROVE up /\ meta # None
BY DEF Kept, Saved, Typed, Idle, Streams

\* What a live process holds.
LEMMA LiveFacts ==
  ASSUME Kept, up
  PROVE  /\ setting \in Setting /\ mem \in Memory(setting) /\ ctx \in Contexts(setting, clock) /\ clock \in Nat
         /\ scripts \in [1..setting.attempts -> Transcript(clock)] /\ used \in Used
         /\ Coherent(setting, scripts, mem, ctx)
         /\ Orderly(setting) /\ used.torn = 0 => Unstale(mem, ctx)
<1>1. setting \in Setting
  BY SettingIs DEF Kept
<1> QED BY <1>1 DEF Kept, Typed, Snapshots

----------------------------------------------------------------------------
(* The streams                                                             *)

Piece(r, k, v) == [r EXCEPT ![k] = v]

LEMMA StreamEdits ==
  ASSUME NEW x, NEW r \in StreamState(x)
  PROVE  /\ \A v \in {"top", "exec", "done", "backup", "retry", "restart", "halt"} :
              LET e == Piece(r, "pc", v)
              IN e \in StreamState(x) /\ e.pc = v /\ e.msg = r.msg /\ e.step = r.step /\ e.att = r.att
         /\ \A v \in {"none", "waiting", "running"} :
              LET e == Piece(r, "flag", v) IN e \in StreamState(x) /\ e.pc = r.pc
         /\ \A v \in {"none", "text", "answer"} :
              LET e == Piece(r, "msg", v) IN e \in StreamState(x) /\ e.pc = r.pc /\ e.msg = v
         /\ \A v \in {"none", "completed", "input", "terminal"} :
              LET e == Piece(r, "what", v) IN e \in StreamState(x) /\ e.pc = r.pc
BY DEF StreamState, Piece

LEMMA StepEdit ==
  ASSUME NEW x, NEW r \in StreamState(x), NEW v \in 0..N
  PROVE  LET e == Piece(r, "step", v) IN e \in StreamState(x) /\ e.pc = r.pc /\ e.step = v
BY DEF StreamState, Piece

LEMMA StreamTypes ==
  ASSUME NEW x \in Setting
  PROVE  /\ Idle \in StreamState(x) /\ Idle.pc = "idle"
         /\ \A flag \in {"none", "waiting", "running"}, msg \in {"none", "text", "answer"} :
              AtTop(flag, msg) \in StreamState(x) /\ AtTop(flag, msg).pc = "top" /\ AtTop(flag, msg).msg = msg
         /\ \A what \in {"none", "completed", "input", "terminal"}, s \in Steps :
              /\ InBackup(what, s) \in StreamState(x)
              /\ InBackup(what, s).pc = "backup" /\ InBackup(what, s).step = s
<1>1. Idle \in StreamState(x) /\ Idle.pc = "idle"
  BY SettingFields, Parameters DEF Idle, StreamState
<1>2. ASSUME NEW flag \in {"none", "waiting", "running"}, NEW msg \in {"none", "text", "answer"}
      PROVE  AtTop(flag, msg) \in StreamState(x) /\ AtTop(flag, msg).pc = "top" /\ AtTop(flag, msg).msg = msg
  <2> DEFINE a == Piece(Idle, "pc", "top")
             b == Piece(a, "flag", flag)
             e == Piece(b, "msg", msg)
  <2>1. AtTop(flag, msg) = e
    BY <1>1 DEF AtTop, StreamState, Piece
  <2>2. a \in StreamState(x) /\ a.pc = "top"
    BY <1>1, StreamEdits
  <2> HIDE DEF a
  <2>3. b \in StreamState(x) /\ b.pc = "top"
    BY <2>2, StreamEdits
  <2> HIDE DEF b
  <2>4. e \in StreamState(x) /\ e.pc = "top" /\ e.msg = msg
    BY <2>3, StreamEdits
  <2> QED BY <2>1, <2>4
<1>3. ASSUME NEW what \in {"none", "completed", "input", "terminal"}, NEW s \in Steps
      PROVE  /\ InBackup(what, s) \in StreamState(x)
             /\ InBackup(what, s).pc = "backup" /\ InBackup(what, s).step = s
  <2> DEFINE a == Piece(Idle, "pc", "backup")
             b == Piece(a, "what", what)
             e == Piece(b, "step", s)
  <2>1. InBackup(what, s) = e
    BY <1>1 DEF InBackup, StreamState, Piece
  <2>2. a \in StreamState(x) /\ a.pc = "backup"
    BY <1>1, StreamEdits
  <2> HIDE DEF a
  <2>3. b \in StreamState(x) /\ b.pc = "backup"
    BY <2>2, StreamEdits
  <2> HIDE DEF b
  <2>4. s \in 0..N /\ s \in Nat /\ N \in Nat
    BY Parameters DEF Steps
  <2>5. e \in StreamState(x) /\ e.pc = "backup" /\ e.step = s
    BY <2>3, <2>4, StepEdit
  <2> QED BY <2>1, <2>5
<1> QED BY <1>1, <1>2, <1>3

\* Streams at their top or idle, and streams at their backup, agree with any memory.
LEMMA EasyStreams ==
  ASSUME NEW x, NEW sc, NEW m, NEW r
  PROVE  /\ r.pc \in {"idle", "top"} /\ r.msg # "answer" => Entered(sc, m, r) /\ Current(x, m, r)
         /\ r.pc = "idle" => Entered(sc, m, r) /\ Current(x, m, r)
         /\ r.pc = "top" => Entered(sc, m, r)
         /\ r.pc = "backup" /\ r.step \in Steps => Entered(sc, m, r) /\ Current(x, m, r)
BY DEF Entered, Current, InStep

\* When a stream goes on, it agrees with the memory it leaves; a replaced one goes no further
\* than its next yield.
LEMMA StreamMoves ==
  ASSUME Kept, Flowing, NEW w \in Streams, NEW r \in StreamState(setting), Set(w, r), setting' = setting,
         w = "cur" => strm[w].pc \notin {"restart", "halt"} /\ Current(setting, mem', r),
         w = "old" => strm[w].pc # "idle",
         Entered(scripts', mem', r)
  PROVE  Flowing'
<1> DEFINE s == IF w = "old" /\ strm["cur"].pc = "restart" /\ r.pc # "backup" THEN Idle ELSE r
<1>0. /\ strm \in [Streams -> StreamState(setting)] /\ Streams = {"cur", "old"}
      /\ Replaced(setting, mem, strm["cur"], strm["old"]) /\ Current(setting, mem, strm["cur"])
  BY DEF Flowing, Running, Streams
<1>1. strm' = [strm EXCEPT ![w] = s]
  BY DEF Set
<1>2. s \in StreamState(setting) /\ (s = r \/ s = Idle)
  BY SettingIs, StreamTypes DEF Kept
<1>3. strm' \in [Streams -> StreamState(setting)]
  BY <1>0, <1>1, <1>2
<1>4. Entered(scripts', mem', s)
  BY <1>2, SettingIs, StreamTypes, EasyStreams DEF Kept
<1>5. CASE w = "cur"
  <2>1. s = r /\ strm'["cur"] = r /\ strm'["old"] = strm["old"]
    BY <1>0, <1>1, <1>5
  <2>2. strm["old"].pc = "idle"
    BY <1>0, <1>5 DEF Replaced
  <2>3. Entered(scripts', mem', strm["old"])
    BY <2>2, EasyStreams
  <2> QED BY <1>0, <1>3, <1>4, <1>5, <2>1, <2>2, <2>3 DEF Flowing, Running, Replaced
<1>6. CASE w = "old"
  <2>1. strm'["old"] = s /\ strm'["cur"] = strm["cur"]
    BY <1>0, <1>1, <1>6
  <2>2. strm["cur"].pc \in {"restart", "halt"}
    BY <1>0, <1>6 DEF Replaced
  <2>3. Entered(scripts', mem', strm["cur"]) /\ Current(setting, mem', strm["cur"])
    BY <1>0, <2>2 DEF Entered, Current, InStep
  <2>4. Orderly(setting) => ~InStep(s)
    <3>1. Orderly(setting) => strm["cur"].pc = "restart"
      BY <1>0, <2>2 DEF Current
    <3>2. strm["cur"].pc = "restart" => s = Idle \/ s.pc = "backup"
      BY <1>6
    <3> QED BY <3>1, <3>2, SettingIs, StreamTypes DEF Kept, InStep
  <2> QED BY <1>0, <1>3, <1>4, <2>1, <2>2, <2>3, <2>4 DEF Flowing, Running, Replaced
<1> QED BY <1>0, <1>5, <1>6

\* The stream that acts is the current one, or a replaced one on the A2A surface.
LEMMA ActsAs ==
  ASSUME Kept, Flowing, NEW w \in Streams, strm[w].pc \in {"top", "exec", "done", "backup"}
  PROVE  /\ up /\ meta # None /\ strm[w] \in StreamState(setting) /\ Entered(scripts, mem, strm[w])
         /\ \/ w = "cur" /\ Current(setting, mem, strm[w])
            \/ /\ w = "old" /\ setting.a2a /\ strm["cur"].pc \in {"restart", "halt"}
               /\ Orderly(setting) /\ InStep(strm[w]) =>
                    /\ strm[w].step \in setting.parallel /\ strm[w].pc = "exec"
                    /\ mem.att[strm[w].att].status = "discarded"
<1>1. up /\ meta # None
  BY StreamsSaved
<1>2. /\ strm[w] \in StreamState(setting) /\ Entered(scripts, mem, strm[w])
      /\ Current(setting, mem, strm["cur"]) /\ Replaced(setting, mem, strm["cur"], strm["old"])
  BY DEF Flowing, Running
<1>3. ASSUME w = "old"
      PROVE  /\ setting.a2a /\ strm["cur"].pc \in {"restart", "halt"}
             /\ Orderly(setting) /\ InStep(strm[w]) =>
                  /\ strm[w].step \in setting.parallel /\ strm[w].pc = "exec"
                  /\ mem.att[strm[w].att].status = "discarded"
  <2>1. strm["old"].pc # "idle"
    BY <1>3
  <2> QED BY <1>2, <1>3, <2>1 DEF Replaced, Current
<1>4. w = "cur" \/ w = "old"
  BY DEF Streams
<1> QED BY <1>1, <1>2, <1>3, <1>4

----------------------------------------------------------------------------
(* The steps of a stream                                                   *)

\* Below n, the same conclusions and marks.
Before(c, e, n) == \A i \in Steps : i < n => e[i] = c[i]

\* The saves that move nothing.
LEMMA SaveRelated ==
  ASSUME Kept, up, NEW status \in Resumable \union Terminal, NEW step \in Steps,
         NEW reason \in {"none", "input", "terminal"}, NEW m \in Memory(setting), NEW c,
         Save(status, step, reason, m, c),
         UNCHANGED <<setting, scripts, up>>, clock' \in {clock, clock + 1},
         used' \in Used, used'.torn = used.torn,
         c \in Contexts(setting, clock'), Relates(setting, mem, m),
         Orderly(setting) => Before(ctx, c, mem.sm.index),
         status = "waiting_input" => mem.sm.index \in Steps,
         Harmless(setting) /\ status \in {"running", "waiting_input"} => mem.sm.index = step
  PROVE  Kept' /\ mem' = m /\ Coherent(setting, scripts, m, c)
<1>1. /\ setting \in Setting /\ mem \in Memory(setting) /\ Coherent(setting, scripts, mem, ctx)
      /\ Orderly(setting) /\ used.torn = 0 => Unstale(mem, ctx)
  BY LiveFacts
<1>2. m.sm = mem.sm
  BY DEF Relates
<1>3. Orderly(setting) => Agree(ctx, c, mem.sm.index)
  BY DEF Before, Agree
<1>4. Coherent(setting, scripts, m, ctx)
  BY <1>1, RelatedCoheres
<1>5. Coherent(setting, scripts, m, c)
  BY <1>1, <1>2, <1>3, <1>4, ContextCoheres
<1>6. Orderly(setting) /\ used.torn = 0 => Unstale(m, c)
  BY <1>1, <1>2 DEF Unstale, Before
<1>7. mem' = m
  BY DEF Save
<1> QED BY <1>2, <1>3, <1>5, <1>6, <1>7, SaveKeeps

LEMMA CreatedLength ==
  ASSUME NEW x \in Setting, NEW m \in Memory(x), NEW s \in Steps
  PROVE  Len(CreateAttempt(m, s).att) = Len(m.att) + 1
<1>1. CreateAttempt(m, s).att = Append(m.att, [step |-> s, status |-> "running"])
  BY DEF CreateAttempt, Memory
<1>2. m.att \in Seq(Attempt) /\ [step |-> s, status |-> "running"] \in Attempt
  BY MemoryFields DEF Attempt
<1> QED BY <1>1, <1>2

\* A memory with another saved input.
WithInput(m, v) == [m EXCEPT !.inp = v]

LEMMA WithInputFacts ==
  ASSUME NEW x \in Setting, NEW m \in Memory(x), NEW v \in {"none", "text", "answer"}
  PROVE  LET e == WithInput(m, v)
         IN /\ e \in Memory(x) /\ e.sm = m.sm /\ e.hist = m.hist /\ e.att = m.att /\ e.exec = m.exec
            /\ e.inp = v
BY ZenonT(60), InputFacts DEF WithInput

\* The memory with which a step is entered.
LEMMA EnterFacts ==
  ASSUME NEW x \in Setting, NEW m \in Memory(x), NEW v \in {"none", "text", "answer"},
         NEW sc, Attempts(x, sc, m), m.sm.index \in Steps,
         ~x.a2a /\ v = "answer" => m.hist.answered[m.sm.index],
         Len(WithInput(EnsureAttempt(m, m.sm.index), v).att) <= x.attempts
  PROVE  LET e == WithInput(EnsureAttempt(m, m.sm.index), v)
         IN /\ e \in Memory(x) /\ Relates(x, m, e) /\ e.exec \in 1..Len(e.att) /\ e.exec \in 0..x.attempts
            /\ e.att[e.exec].step = m.sm.index /\ e.exec >= m.hist.since[m.sm.index]
<1> DEFINE s == m.sm.index
           g == EnsureAttempt(m, s)
           e == WithInput(g, v)
<1>0. /\ m.exec \in 0..Len(m.att) /\ Len(m.att) \in Nat /\ m.exec \in 0..x.attempts /\ x.attempts \in Nat
      /\ m.hist.since \in [Steps -> Nat] /\ m.hist.since[s] <= Len(m.att)
  BY MemoryFields, SettingFields DEF Attempts
<1>1. \/ g = m /\ m.exec # 0 /\ m.att[m.exec].step = s /\ m.att[m.exec].status = "running"
      \/ g = CreateAttempt(m, s)
  BY <1>0, EnsureFacts
<1>2. CASE g = m /\ m.exec # 0 /\ m.att[m.exec].step = s /\ m.att[m.exec].status = "running"
  <2>1. /\ e \in Memory(x) /\ e.sm = m.sm /\ e.hist = m.hist /\ e.att = m.att /\ e.exec = m.exec
        /\ e.inp = v
    BY <1>2, WithInputFacts
  <2> HIDE DEF e
  <2>2. Relates(x, m, e)
    BY <1>0, <1>2, <2>1 DEF Relates
  <2>3. m.exec >= m.hist.since[s]
    BY <1>2 DEF Attempts
  <2> QED BY <1>0, <1>2, <2>1, <2>2, <2>3 DEF e
<1>3. CASE g = CreateAttempt(m, s)
  <2>0. g.att = e.att
    <3>1. e.att = g.att \/ "att" = "inp"
      BY <1>3 DEF CreateAttempt, Memory, WithInput
    <3> QED BY <3>1
  <2>1. Len(m.att) < x.attempts
    BY <1>0, <1>3, <2>0, CreatedLength
  <2>2. /\ g \in Memory(x) /\ g.sm = m.sm /\ g.hist = m.hist
        /\ Len(g.att) = Len(m.att) + 1 /\ g.exec = Len(m.att) + 1
        /\ g.att[Len(m.att) + 1] = [step |-> s, status |-> "running"]
        /\ \A k \in 1..Len(m.att) : g.att[k] = m.att[k]
    BY <1>3, <2>1, CreateFacts
  <2> HIDE DEF g
  <2>3. /\ e \in Memory(x) /\ e.sm = g.sm /\ e.hist = g.hist /\ e.att = g.att /\ e.exec = g.exec
        /\ e.inp = v
    BY <2>2, WithInputFacts
  <2> HIDE DEF e
  <2>4. Relates(x, m, e)
    BY <1>0, <2>1, <2>2, <2>3 DEF Relates
  <2> QED BY <1>0, <2>1, <2>2, <2>3, <2>4 DEF e, g
<1> QED BY <1>1, <1>2, <1>3

\* The stream of a step that was entered.
Opened(r, p, s, a, b) == [r EXCEPT !.pc = p, !.step = s, !.att = a, !.resume = b]

LEMMA OpenedFacts ==
  ASSUME NEW x \in Setting, NEW r \in StreamState(x), NEW p \in {"exec", "done"}, NEW s \in 0..N,
         NEW a \in 0..x.attempts, NEW b \in BOOLEAN
  PROVE  LET e == Opened(r, p, s, a, b)
         IN e \in StreamState(x) /\ e.pc = p /\ e.step = s /\ e.att = a /\ e.msg = r.msg
BY DEF StreamState, Opened

LEMMA StartKeeps == ASSUME IInv, Start PROVE IInv'
<1> DEFINE m == WithInput(mem, "text")
           r == AtTop("none", "text")
<1>0. Kept /\ Flowing
  BY Parts
<1>1. /\ up /\ meta = None /\ strm["cur"].pc = "idle" /\ Save("running", 1, "none", m, ctx) /\ Set("cur", r)
      /\ UNCHANGED <<setting, scripts, up, clock, used>>
  BY DEF Start, WithInput
<1>2. /\ setting \in Setting /\ mem \in Memory(setting) /\ ctx \in Contexts(setting, clock) /\ used \in Used
      /\ clock \in Nat /\ Coherent(setting, scripts, mem, ctx)
  BY <1>0, <1>1, LiveFacts
<1>3. mem.sm.index = 1
  BY <1>0, <1>1 DEF Kept, Saved, InitMemory
<1>4. /\ m \in Memory(setting) /\ m.sm = mem.sm /\ m.hist = mem.hist /\ m.att = mem.att /\ m.exec = mem.exec
      /\ m.inp = "text"
  BY <1>2, WithInputFacts
<1> HIDE DEF m
<1>5. Relates(setting, mem, m)
  BY <1>2, <1>4 DEF Relates, Coherent, Attempts
<1>6. Kept'
  BY <1>0, <1>1, <1>2, <1>3, <1>4, <1>5, Parameters, SaveRelated DEF Before, Resumable
<1>7. r \in StreamState(setting) /\ r.pc = "top" /\ r.msg = "text"
  BY <1>2, StreamTypes
<1> HIDE DEF r
<1>8. Entered(scripts', mem', r) /\ Current(setting, mem', r)
  BY <1>7, EasyStreams
<1>9. Flowing'
  BY <1>0, <1>1, <1>7, <1>8, StreamMoves DEF Streams
<1> QED BY <1>6, <1>9, Parts

LEMMA EnterStepKeeps == ASSUME IInv, NEW w \in Streams, EnterStep(w) PROVE IInv'
<1> DEFINE r == strm[w]
           s == mem.sm.index
           m == WithInput(EnsureAttempt(mem, s), r.msg)
           p == IF scripts[m.exec].state = "done" THEN "done" ELSE "exec"
           q == Opened(r, p, s, m.exec, Resumes(r, s))
<1>0. Kept /\ Flowing
  BY Parts
<1>1. /\ up /\ r.pc = "top" /\ ~IsComplete(mem.sm) /\ Len(m.att) <= setting.attempts
      /\ Save("running", s, "none", m, ctx) /\ Set(w, q)
      /\ UNCHANGED <<setting, scripts, up, clock, used>>
  BY DEF EnterStep, WithInput, Opened, MaxAttempts
<1>2. /\ setting \in Setting /\ mem \in Memory(setting) /\ ctx \in Contexts(setting, clock) /\ used \in Used
      /\ clock \in Nat /\ Attempts(setting, scripts, mem)
  BY <1>0, <1>1, LiveFacts DEF Coherent
<1>3. /\ r \in StreamState(setting)
      /\ w = "cur" => r.pc \notin {"restart", "halt"} /\ Current(setting, mem, r)
      /\ w # "cur" => setting.a2a /\ r.pc # "idle"
  BY <1>0, <1>1, ActsAs
<1>4. s \in Steps /\ s \in 0..N /\ s \in Nat
  <2>1. mem.sm.index \in 1..(N + 1)
    BY <1>2, MemoryFields
  <2> QED BY <1>1, <2>1, Parameters DEF IsComplete, Steps
<1>5. r.msg \in {"none", "text", "answer"} /\ Resumes(r, s) \in BOOLEAN
  BY <1>3 DEF StreamState, Resumes
<1>6. ~setting.a2a /\ r.msg = "answer" => mem.hist.answered[s]
  BY SMTT(60), <1>1, <1>3 DEF Current
<1>7. /\ m \in Memory(setting) /\ Relates(setting, mem, m) /\ m.exec \in 1..Len(m.att)
      /\ m.exec \in 0..setting.attempts
      /\ m.att[m.exec].step = s /\ m.exec >= mem.hist.since[s]
  BY ZenonT(60), <1>1, <1>2, <1>4, <1>5, <1>6, EnterFacts
<1> HIDE DEF m
<1>8. Kept' /\ mem' = m
  BY <1>0, <1>1, <1>2, <1>4, <1>7, SaveRelated DEF Before, Resumable
<1>9. q \in StreamState(setting) /\ q.pc = p /\ q.step = s /\ q.att = m.exec /\ q.msg = r.msg
  BY <1>2, <1>3, <1>4, <1>5, <1>7, OpenedFacts
<1> HIDE DEF q
<1>10. m.sm = mem.sm /\ m.hist = mem.hist /\ m.sm.index = s
  BY <1>7 DEF Relates
<1>11. Entered(scripts', mem', q)
  BY <1>1, <1>4, <1>7, <1>8, <1>9, <1>10 DEF Entered
<1>12. Current(setting, mem', q)
  BY <1>4, <1>6, <1>7, <1>8, <1>9, <1>10 DEF Current
<1>13. Flowing'
  BY <1>0, <1>1, <1>3, <1>9, <1>11, <1>12, StreamMoves DEF Streams
<1> QED BY <1>8, <1>13, Parts

LEMMA EndStreamKeeps == ASSUME IInv, NEW w \in Streams, EndStream(w) PROVE IInv'
<1> DEFINE r == InBackup("completed", N)
<1>0. Kept /\ Flowing
  BY Parts
<1>1. /\ up /\ strm[w].pc = "top" /\ Save("completed", N, "none", mem, ctx) /\ Set(w, r)
      /\ UNCHANGED <<setting, scripts, up, clock, used>>
  BY DEF EndStream
<1>2. /\ setting \in Setting /\ mem \in Memory(setting) /\ ctx \in Contexts(setting, clock) /\ used \in Used
      /\ clock \in Nat /\ Coherent(setting, scripts, mem, ctx)
  BY <1>0, <1>1, LiveFacts
<1>3. Relates(setting, mem, mem)
  BY <1>2 DEF Relates, Coherent, Attempts, Replied
<1>4. Kept'
  BY <1>0, <1>1, <1>2, <1>3, Parameters, SaveRelated DEF Before, Terminal
<1>5. r \in StreamState(setting) /\ r.pc = "backup" /\ r.step \in Steps
  BY <1>2, StreamTypes, Parameters
<1> HIDE DEF r
<1>6. Entered(scripts', mem', r) /\ Current(setting, mem', r)
  BY <1>5, EasyStreams
<1>7. Flowing'
  BY <1>0, <1>1, <1>5, <1>6, StreamMoves
<1> QED BY <1>4, <1>7, Parts

\* A step that ends its stream saves the attempts' statuses only.
LEMMA RelabelRelates ==
  ASSUME NEW x \in Setting, NEW m \in Memory(x), NEW sc, NEW c, Coherent(x, sc, m, c),
         NEW a \in 0..Len(m.att), NEW status \in {"completed", "failed", "rolled_back", "discarded"}
  PROVE  LET e == MarkAttempt(m, a, status)
         IN /\ e \in Memory(x) /\ Relates(x, m, e) /\ e.sm = m.sm /\ e.hist = m.hist
            /\ Len(e.att) = Len(m.att) /\ \A k \in 1..Len(m.att) : e.att[k].step = m.att[k].step
            /\ e.exec = IF a # 0 /\ m.exec = a THEN 0 ELSE m.exec
            /\ e.inp = m.inp
<1> DEFINE e == MarkAttempt(m, a, status)
<1>1. /\ e \in Memory(x) /\ e.sm = m.sm /\ e.hist = m.hist /\ e.inp = m.inp
      /\ Relabels(m, e, a, status)
      /\ e.exec = IF a # 0 /\ m.exec = a THEN 0 ELSE m.exec
  BY MarkFacts
<1> HIDE DEF e
<1>2. m.exec \in 0..Len(m.att) /\ Len(m.att) \in Nat /\ (~x.a2a => Replied(x, sc, m))
  BY MemoryFields DEF Coherent, Attempts
<1>3. e.exec \in 0..Len(e.att)
  BY <1>1, <1>2 DEF Relabels
<1>4. ASSUME e.exec # 0, e.att[e.exec].status = "running"
      PROVE  e.exec = m.exec /\ m.att[m.exec].status = "running"
  <2>1. e.exec = m.exec /\ m.exec \in 1..Len(m.att)
    BY <1>1, <1>2, <1>4
  <2>2. e.att[m.exec].status = IF m.exec = a THEN status ELSE m.att[m.exec].status
    BY <1>1, <2>1 DEF Relabels
  <2> QED BY <1>4, <2>1, <2>2
<1>5. ~x.a2a /\ e.inp = "answer" => m.inp = "answer"
  BY <1>1
<1>6. Relates(x, m, e)
  BY <1>1, <1>3, <1>4, <1>5 DEF Relates, Relabels
<1> QED BY <1>1, <1>6 DEF e, Relabels

LEMMA FailStepKeeps ==
  ASSUME IInv, NEW w \in Streams, strm[w].pc \in {"exec", "done"}, NEW c, FailStep(w, mem, c),
         UNCHANGED <<setting, scripts, up, clock>>, used' \in Used, used'.torn = used.torn,
         c \in Contexts(setting, clock), Orderly(setting) => Before(ctx, c, mem.sm.index)
  PROVE  IInv'
<1> DEFINE m == MarkAttempt(mem, mem.exec, "failed")
           r == InBackup("terminal", strm[w].step)
<1>0. Kept /\ Flowing
  BY Parts
<1>1. Save("failed", strm[w].step, "none", m, c) /\ Set(w, r)
  BY DEF FailStep
<1>2. up /\ Entered(scripts, mem, strm[w]) /\ strm[w].step \in Steps
  BY SMTT(60), <1>0, ActsAs DEF Entered, InStep
<1>3. /\ setting \in Setting /\ mem \in Memory(setting) /\ Coherent(setting, scripts, mem, ctx)
      /\ clock \in Nat /\ mem.exec \in 0..Len(mem.att)
  BY <1>0, <1>2, LiveFacts DEF Coherent, Attempts
<1>4. m \in Memory(setting) /\ Relates(setting, mem, m)
  BY <1>3, RelabelRelates
<1> HIDE DEF m
<1>5. Kept'
  BY <1>0, <1>1, <1>2, <1>3, <1>4, SaveRelated DEF Terminal
<1>6. r \in StreamState(setting) /\ r.pc = "backup" /\ r.step \in Steps
  BY <1>2, <1>3, StreamTypes
<1> HIDE DEF r
<1>7. Entered(scripts', mem', r) /\ Current(setting, mem', r)
  BY <1>6, EasyStreams
<1>8. Flowing'
  BY <1>0, <1>1, <1>6, <1>7, StreamMoves
<1> QED BY <1>5, <1>8, Parts

\* Counting what happens.
LEMMA Counted ==
  ASSUME NEW u \in Used
  PROVE  LET e == [u EXCEPT !.block = @ + 1]
             f == [u EXCEPT !.answer = @ + 1]
             g == [u EXCEPT !.fail = @ + 1]
             h == [u EXCEPT !.refused = @ + 1]
             k == [u EXCEPT !.torn = @ + 1]
             l == [u EXCEPT !.crash = @ + 1]
         IN /\ {e, f, g, h, k, l} \subseteq Used
            /\ e.torn = u.torn /\ f.torn = u.torn /\ g.torn = u.torn /\ h.torn = u.torn /\ l.torn = u.torn
            /\ k.torn # 0 /\ u.refused \in Nat
BY DEF Used

LEMMA FailKeeps == ASSUME IInv, NEW w \in Streams, Fail(w) PROVE IInv'
<1>0. Kept /\ Flowing
  BY Parts
<1>1. /\ strm[w].pc = "exec" /\ up /\ FailStep(w, mem, ctx) /\ used' = [used EXCEPT !.fail = @ + 1]
      /\ UNCHANGED <<setting, scripts, up, clock>>
  BY DEF Fail
<1>2. used \in Used /\ ctx \in Contexts(setting, clock)
  BY <1>0, <1>1, LiveFacts
<1>3. used' \in Used /\ used'.torn = used.torn
  BY <1>1, <1>2, Counted
<1> QED BY <1>1, <1>2, <1>3, FailStepKeeps DEF Before

LEMMA BackupSucceedsKeeps == ASSUME IInv, NEW w \in Streams, BackupSucceeds(w) PROVE IInv'
<1>0. Kept /\ Flowing
  BY Parts
<1>1. strm[w].pc = "backup" /\ up /\ Set(w, Idle) /\ NoSave /\ UNCHANGED <<setting, scripts, up, clock, used>>
  BY DEF BackupSucceeds
<1>2. Kept'
  BY <1>0, <1>1, StreamsSaved, NoSaveKeeps
<1>3. Idle \in StreamState(setting) /\ Idle.pc = "idle"
  BY <1>0, SettingIs, StreamTypes DEF Kept
<1>4. Entered(scripts', mem', Idle) /\ Current(setting, mem', Idle)
  BY <1>3, EasyStreams
<1>5. Flowing'
  BY <1>0, <1>1, <1>3, <1>4, StreamMoves
<1> QED BY <1>2, <1>5, Parts

LEMMA BackupBlocksKeeps == ASSUME IInv, NEW w \in Streams, BackupBlocks(w) PROVE IInv'
<1>0. Kept /\ Flowing
  BY Parts
<1>1. /\ strm[w].pc = "backup" /\ up /\ Set(w, Idle)
      /\ Save("backup_blocked", BlockedStep(strm[w]), BlockedReason(strm[w]), mem, ctx)
      /\ used' = [used EXCEPT !.block = @ + 1]
      /\ UNCHANGED <<setting, scripts, up, clock>>
  BY DEF BackupBlocks
<1>2. /\ setting \in Setting /\ mem \in Memory(setting) /\ ctx \in Contexts(setting, clock) /\ used \in Used
      /\ clock \in Nat /\ Coherent(setting, scripts, mem, ctx)
  BY <1>0, <1>1, LiveFacts
<1>3. BlockedStep(strm[w]) \in Steps /\ BlockedReason(strm[w]) \in {"none", "input", "terminal"}
  <2>1. strm[w].step \in Steps
    BY <1>0, <1>1, ActsAs DEF Entered
  <2> QED BY <2>1, Parameters DEF BlockedStep, BlockedReason
<1>4. Relates(setting, mem, mem)
  BY <1>2 DEF Relates, Coherent, Attempts, Replied
<1>5. used' \in Used /\ used'.torn = used.torn
  BY <1>1, <1>2, Counted
<1>6. Kept'
  BY <1>0, <1>1, <1>2, <1>3, <1>4, <1>5, SaveRelated DEF Before, Resumable
<1>7. Idle \in StreamState(setting) /\ Idle.pc = "idle"
  BY <1>2, StreamTypes
<1>8. Entered(scripts', mem', Idle) /\ Current(setting, mem', Idle)
  BY <1>7, EasyStreams
<1>9. Flowing'
  BY <1>0, <1>1, <1>7, <1>8, StreamMoves
<1> QED BY <1>6, <1>9, Parts

\* What the agent writes to the transcript of an attempt.
LEMMA WriteKeeps ==
  ASSUME Kept, up, meta # None, NoSave, UNCHANGED <<setting, up, used>>, clock' \in {clock, clock + 1},
         NEW a \in 1..Len(mem.att), scripts' \in [1..setting.attempts -> Transcript(clock')],
         \A b \in 1..setting.attempts : b # a => scripts'[b] = scripts[b],
         ~setting.a2a =>
           /\ scripts'[a].ans => scripts[a].ans \/ mem.hist.answered[mem.att[a].step]
           /\ scripts'[a].state = "done" /\ scripts'[a].out = "ok" /\ mem.att[a].step \in setting.waits =>
                scripts'[a].ans,
         Orderly(setting) /\ scripts'[a].state = "done" =>
           \A d \in Deps[mem.att[a].step] : scripts'[a].seen[d] = ctx[d].val,
         scripts'[a].state = "done" => scripts'[a].val # 0,
         ~(setting.a2a /\ setting.parallel = Steps)
  PROVE  Kept'
<1>1. /\ mem' = mem /\ ctx' = ctx /\ dctx' = dctx /\ meta' = meta /\ torn' = None
      /\ setting' = setting /\ up' = up /\ used' = used
  BY DEF NoSave
<1>2. /\ Coherent(setting, scripts, mem, ctx) /\ setting \in Setting /\ mem \in Memory(setting)
      /\ mem = meta.mem /\ ctx = dctx
      /\ Len(mem.att) <= setting.attempts /\ Len(mem.att) \in Nat /\ setting.attempts \in Nat
  <2>1. Coherent(setting, scripts, mem, ctx) /\ setting \in Setting /\ mem \in Memory(setting)
    BY LiveFacts
  <2>2. mem = meta.mem /\ ctx = dctx
    BY DEF Kept, Saved
  <2>3. Len(mem.att) <= setting.attempts
    BY <2>1 DEF Coherent, Attempts
  <2> QED BY <2>1, <2>2, <2>3, MemoryFields, SettingFields
<1>3. Typed'
  <2>1. clock \in Nat /\ clock' \in Nat /\ clock <= clock'
    BY DEF Kept, Typed
  <2>2. Contexts(setting, clock) \subseteq Contexts(setting, clock')
    BY <2>1, MoreDrawn
  <2> QED BY <1>1, <2>1, <2>2 DEF Kept, Typed
<1>4. Coherent(setting, scripts', mem, ctx)
  <2>1. Attempts(setting, scripts', mem)
    <3>1. \A b \in 1..setting.attempts : b > Len(mem.att) => scripts'[b] = NoScript
      <4>1. ASSUME NEW b \in 1..setting.attempts, b > Len(mem.att) PROVE b # a /\ scripts[b] = NoScript
        BY <1>2, <4>1 DEF Coherent, Attempts
      <4> QED BY SMTT(60), <4>1
    <3> QED BY <1>2, <3>1 DEF Coherent, Attempts
  <2>2. \A b \in 1..Len(mem.att) : b \in 1..setting.attempts
    BY SMTT(60), <1>2
  <2>3. ASSUME ~setting.a2a PROVE Replied(setting, scripts', mem)
    <3>1. Replied(setting, scripts, mem)
      BY <1>2, <2>3 DEF Coherent
    <3>2. ASSUME NEW b \in 1..Len(mem.att)
          PROVE  /\ scripts'[b].ans /\ b >= mem.hist.since[mem.att[b].step] =>
                      mem.hist.answered[mem.att[b].step]
                 /\ scripts'[b].state = "done" /\ scripts'[b].out = "ok" /\ mem.att[b].step \in setting.waits =>
                      scripts'[b].ans
      <4>1. CASE b = a
        BY <2>3, <3>1, <4>1 DEF Replied
      <4>2. CASE b # a
        BY <2>2, <3>1, <4>2 DEF Replied
      <4> QED BY <4>1, <4>2
    <3> QED BY <3>1, <3>2 DEF Replied
  <2>4. ASSUME Orderly(setting) PROVE Drawn(scripts', mem, ctx)
    <3>1. Drawn(scripts, mem, ctx)
      BY <1>2, <2>4 DEF Coherent
    <3>2. ASSUME NEW b \in 1..Len(mem.att), b >= mem.hist.since[mem.att[b].step], scripts'[b].state = "done"
          PROVE  \A d \in Deps[mem.att[b].step] : scripts'[b].seen[d] = ctx[d].val
      <4>1. CASE b = a
        BY <2>4, <3>2, <4>1
      <4>2. CASE b # a
        BY <2>2, <3>1, <3>2, <4>2 DEF Drawn
      <4> QED BY <4>1, <4>2
    <3> QED BY <3>1, <3>2 DEF Drawn
  <2> QED BY SMTT(60), <2>1, <2>3, <2>4 DEF Coherent
<1>5. Snapshots'
  BY <1>1, <1>2, <1>4 DEF Kept, Snapshots
<1>6. Saved'
  BY <1>1 DEF Kept, Saved
<1>7. Filed'
  BY <1>1 DEF Kept, Filed
<1>8. Written(setting, scripts)'
  <2>1. ASSUME NEW b \in 1..setting.attempts, scripts'[b].state = "done" PROVE scripts'[b].val # 0
    BY <2>1 DEF Kept, Written
  <2> QED BY <1>1, <2>1 DEF Written
<1> QED BY <1>3, <1>5, <1>6, <1>7, <1>8 DEF Kept

\* The stream of a step that is not parallel, and its attempt.
LEMMA TalkingFacts ==
  ASSUME IInv, strm["cur"].pc = "exec", strm["cur"].step \notin setting.parallel
  PROVE  LET r == strm["cur"]
         IN /\ Kept /\ Flowing /\ up /\ meta # None
            /\ r \in StreamState(setting) /\ Entered(scripts, mem, r) /\ Current(setting, mem, r)
            /\ r.step \in Steps /\ r.step = mem.sm.index
            /\ r.att \in 1..Len(mem.att) /\ mem.att[r.att].step = r.step
            /\ r.att \in 1..setting.attempts /\ ~(setting.a2a /\ setting.parallel = Steps)
<1> DEFINE r == strm["cur"]
<1>0. Kept /\ Flowing
  BY Parts
<1>1. /\ up /\ meta # None /\ r \in StreamState(setting) /\ Entered(scripts, mem, r)
      /\ Current(setting, mem, r)
  BY <1>0, ActsAs DEF Streams
<1>2. /\ r.step \in Steps /\ r.step = mem.sm.index
      /\ r.att \in 1..Len(mem.att) /\ mem.att[r.att].step = r.step
  BY <1>1 DEF Entered, Current, InStep
<1>3. r.att \in 1..setting.attempts
  <2>1. /\ Attempts(setting, scripts, mem) /\ mem \in Memory(setting) /\ setting \in Setting
    BY <1>0, <1>1, LiveFacts DEF Coherent
  <2>2. Len(mem.att) \in Nat /\ setting.attempts \in Nat /\ Len(mem.att) <= setting.attempts
    BY <2>1, MemoryFields, SettingFields DEF Attempts
  <2> QED BY <1>2, <2>2
<1> QED BY <1>0, <1>1, <1>2, <1>3

\* One transcript changes.
Rewritten(t, ans) == [t EXCEPT !.state = "open", !.ans = ans]
Closing(t, out, to, v, seen) == [t EXCEPT !.state = "done", !.out = out, !.to = to, !.val = v, !.seen = seen]

LEMMA RewrittenFacts ==
  ASSUME NEW k \in Nat, NEW t \in Transcript(k), NEW ans \in BOOLEAN
  PROVE  LET e == Rewritten(t, ans) IN e \in Transcript(k) /\ e.state = "open" /\ e.ans = ans
BY DEF Transcript, Rewritten

LEMMA ClosingFacts ==
  ASSUME NEW k \in Nat, NEW n \in Nat, k <= n, NEW t \in Transcript(k),
         NEW out \in {"ok", "ask", "exit", "rollback"}, NEW to \in 0..N, NEW v \in 0..n, NEW seen \in Reads(n)
  PROVE  LET e == Closing(t, out, to, v, seen)
         IN /\ e \in Transcript(n) /\ e.state = "done" /\ e.out = out /\ e.val = v /\ e.seen = seen
            /\ e.ans = t.ans
<1>1. t \in Transcript(n)
  BY MoreDrawn
<1> QED BY <1>1 DEF Transcript, Closing

LEMMA ConverseKeeps == ASSUME IInv, NEW w \in Streams, Converse(w) PROVE IInv'
<1> DEFINE r == strm["cur"]
           a == r.att
           ans == scripts[a].ans \/ r.msg = "answer"
           t == Rewritten(scripts[a], ans)
<1>1. /\ w = "cur" /\ r.pc = "exec" /\ r.step \notin setting.parallel /\ NoSave
      /\ UNCHANGED <<setting, strm, up, clock, used>>
  BY DEF Converse, Parallel
<1>2. /\ Kept /\ Flowing /\ up /\ meta # None
      /\ r \in StreamState(setting) /\ Entered(scripts, mem, r) /\ Current(setting, mem, r)
      /\ r.step \in Steps /\ r.step = mem.sm.index
      /\ a \in 1..Len(mem.att) /\ mem.att[a].step = r.step
      /\ a \in 1..setting.attempts /\ ~(setting.a2a /\ setting.parallel = Steps)
  BY <1>1, TalkingFacts
<1>3. scripts \in [1..setting.attempts -> Transcript(clock)] /\ clock \in Nat
  BY <1>2, LiveFacts
<1>4. scripts[a] \in Transcript(clock) /\ ans \in BOOLEAN
  <2>1. scripts[a] \in Transcript(clock)
    BY SMTT(60), <1>2, <1>3
  <2> QED BY <2>1 DEF Transcript
<1>5. scripts' = [scripts EXCEPT ![a] = t]
  <2>1. scripts' = [scripts EXCEPT ![a].state = "open", ![a].ans = @ \/ r.msg = "answer"]
    BY <1>1 DEF Converse
  <2> QED BY <1>2, <1>3, <1>4, <2>1 DEF Rewritten, Transcript
<1>6. t \in Transcript(clock) /\ t.state = "open" /\ t.ans = ans
  BY <1>3, <1>4, RewrittenFacts
<1> HIDE DEF t
<1>7. /\ scripts' \in [1..setting.attempts -> Transcript(clock)] /\ scripts'[a] = t
      /\ \A b \in 1..setting.attempts : b # a => scripts'[b] = scripts[b]
  BY <1>2, <1>3, <1>5, <1>6
<1>8. ~setting.a2a /\ r.msg = "answer" => mem.hist.answered[mem.att[a].step]
  BY SMTT(60), <1>1, <1>2 DEF Current
<1>9. Kept'
  BY <1>1, <1>2, <1>6, <1>7, <1>8, WriteKeeps
<1>10. Flowing'
  <2>1. mem' = mem /\ strm' = strm /\ setting' = setting
    BY <1>1 DEF NoSave
  <2>2. strm["old"].pc = "idle"
    BY <1>1, <1>2 DEF Flowing, Running, Replaced
  <2>3. Entered(scripts', mem, strm["old"])
    BY <2>2, EasyStreams
  <2>4. Entered(scripts', mem, r)
    BY <1>1, <1>2 DEF Entered
  <2> QED BY <1>2, <2>1, <2>3, <2>4 DEF Flowing, Running, Streams
<1> QED BY <1>9, <1>10, Parts

LEMMA SeenByFacts ==
  ASSUME NEW s \in Steps, clock \in Nat, ctx \in Contexts(setting, clock)
  PROVE  SeenBy(s) \in Reads(clock) /\ \A d \in Deps[s] : SeenBy(s)[d] = ctx[d].val
<1>1. ASSUME NEW d \in Deps[s] PROVE ctx[d].val \in 0..clock
  <2>1. ctx[d] \in Conclusion(setting, clock)
    BY Parameters DEF Contexts
  <2> QED BY <2>1 DEF Conclusion
<1> QED BY <1>1 DEF SeenBy, Reads

LEMMA CompleteKeeps ==
  ASSUME IInv, NEW w \in Streams, NEW out \in {"ok", "ask", "exit", "rollback"}, NEW to \in Steps,
         Complete(w, out, to)
  PROVE  IInv'
<1> DEFINE r == strm["cur"]
           a == r.att
           seen == SeenBy(r.step)
           t == Closing(scripts[a], out, to, clock + 1, seen)
           q == Piece(r, "pc", "done")
<1>1. /\ w = "cur" /\ r.pc = "exec" /\ r.step \notin setting.parallel /\ NoSave
      /\ UNCHANGED <<setting, up, used>> /\ clock' = clock + 1
      /\ out \in Outcomes(r.step, scripts[a].ans) /\ Set("cur", q)
  BY DEF Complete, Parallel, Piece
<1>2. /\ Kept /\ Flowing /\ up /\ meta # None
      /\ r \in StreamState(setting) /\ Entered(scripts, mem, r) /\ Current(setting, mem, r)
      /\ r.step \in Steps /\ r.step = mem.sm.index
      /\ a \in 1..Len(mem.att) /\ mem.att[a].step = r.step
      /\ a \in 1..setting.attempts /\ ~(setting.a2a /\ setting.parallel = Steps)
  BY <1>1, TalkingFacts
<1>3. /\ scripts \in [1..setting.attempts -> Transcript(clock)] /\ clock \in Nat
      /\ ctx \in Contexts(setting, clock)
  BY <1>2, LiveFacts
<1>4. /\ seen \in Reads(clock + 1) /\ clock + 1 \in 0..(clock + 1) /\ clock + 1 \in Nat /\ clock <= clock + 1
      /\ \A d \in Deps[r.step] : seen[d] = ctx[d].val
  BY <1>2, <1>3, SeenByFacts, MoreDrawn
<1>5. scripts[a] \in Transcript(clock) /\ to \in 0..N
  BY SMTT(60), <1>2, <1>3, Parameters DEF Steps
<1>6. scripts' = [scripts EXCEPT ![a] = t]
  <2>1. scripts' = [scripts EXCEPT ![a].state = "done", ![a].out = out, ![a].to = to,
                                   ![a].val = clock + 1, ![a].seen = seen]
    BY <1>1 DEF Complete
  <2> HIDE DEF seen
  <2> QED BY ZenonT(60), <1>2, <1>3, <1>5, <2>1 DEF Closing, Transcript
<1> HIDE DEF seen
<1>7. /\ t \in Transcript(clock + 1) /\ t.state = "done" /\ t.out = out /\ t.val = clock + 1 /\ t.seen = seen
      /\ t.ans = scripts[a].ans
  BY SMTT(60), <1>3, <1>4, <1>5, ClosingFacts
<1> HIDE DEF t
<1>8. /\ scripts' \in [1..setting.attempts -> Transcript(clock')] /\ scripts'[a] = t
      /\ \A b \in 1..setting.attempts : b # a => scripts'[b] = scripts[b]
  <2>1. \A b \in 1..setting.attempts : scripts[b] \in Transcript(clock + 1)
    BY <1>3, <1>4, MoreDrawn
  <2> QED BY <1>1, <1>2, <1>3, <1>6, <1>7, <2>1
<1>9. out = "ok" /\ r.step \in setting.waits => scripts[a].ans
  BY <1>1 DEF Outcomes, Waits
<1>10. clock + 1 # 0 /\ clock' \in {clock, clock + 1}
  BY SMTT(60), <1>1, <1>3
<1>11. Kept'
  BY SMTT(60), <1>1, <1>2, <1>4, <1>7, <1>8, <1>9, <1>10, WriteKeeps
<1>12. q \in StreamState(setting) /\ q.pc = "done" /\ q.msg = r.msg /\ q.step = r.step /\ q.att = r.att
  BY <1>2, StreamEdits
<1> HIDE DEF q
<1>13. mem' = mem
  BY <1>1 DEF NoSave
<1>14. Entered(scripts', mem', q)
  BY <1>1, <1>2, <1>7, <1>8, <1>12, <1>13 DEF Entered, InStep
<1>15. Current(setting, mem', q)
  BY <1>1, <1>2, <1>12, <1>13 DEF Current, InStep
<1>16. Flowing'
  BY <1>1, <1>2, <1>12, <1>14, <1>15, StreamMoves DEF Streams
<1> QED BY <1>11, <1>16, Parts

\* The pipeline goes on to the next step or is complete.
LEMMA ProceedKeeps ==
  ASSUME IInv, NEW w \in Streams, strm[w].pc \in {"exec", "done"}, NEW m \in Memory(setting),
         Relates(setting, mem, m), NEW c, Proceed(w, m, c),
         UNCHANGED <<setting, scripts, up, used>>, clock' \in {clock, clock + 1},
         c \in Contexts(setting, clock'),
         ~setting.a2a /\ mem.sm.index \in setting.waits \ setting.legacy => mem.hist.answered[mem.sm.index],
         Orderly(setting) =>
           /\ Before(ctx, c, mem.sm.index)
           /\ c[mem.sm.index].by >= mem.hist.since[mem.sm.index] /\ c[mem.sm.index].val # 0
           /\ \A d \in Deps[mem.sm.index] : c[mem.sm.index].seen[d] = ctx[d].val
           /\ ~c[mem.sm.index].stale
  PROVE  IInv'
<1> DEFINE f == Advanced(m)
           s == mem.sm.index
<1>0. Kept /\ Flowing
  BY Parts
<1>1. up /\ s \in Steps /\ strm[w].step \in Steps
  BY <1>0, ActsAs DEF Entered, InStep
<1>2. /\ setting \in Setting /\ mem \in Memory(setting) /\ Coherent(setting, scripts, mem, ctx)
      /\ clock \in Nat /\ used \in Used
      /\ Orderly(setting) /\ used.torn = 0 => Unstale(mem, ctx)
  BY <1>0, <1>1, LiveFacts
<1>3. Coherent(setting, scripts, m, ctx) /\ m.sm = mem.sm /\ m.hist = mem.hist
  BY <1>2, RelatedCoheres DEF Relates
<1>4. Orderly(setting) => Agree(ctx, c, s)
  BY DEF Before, Agree
<1>5. /\ f \in Memory(setting) /\ Coherent(setting, scripts, f, c)
      /\ f.sm.index = m.sm.index + 1 /\ f.inp = "none"
  <2>1. /\ m.sm.index \in Steps
        /\ ~setting.a2a /\ m.sm.index \in setting.waits \ setting.legacy => m.hist.answered[m.sm.index]
        /\ Orderly(setting) =>
             /\ Agree(ctx, c, m.sm.index)
             /\ c[m.sm.index].by >= m.hist.since[m.sm.index] /\ c[m.sm.index].val # 0
             /\ \A d \in Deps[m.sm.index] : c[m.sm.index].seen[d] = ctx[d].val
    BY <1>1, <1>3, <1>4
  <2> QED BY SMTT(60), <1>2, <1>3, <2>1, AdvanceCoheres
<1>6. IF IsComplete(f.sm)
      THEN Save("completed", strm[w].step, "none", f, c) /\ Set(w, InBackup("completed", strm[w].step))
      ELSE Save("running", f.sm.index, "none", f, c) /\ Set(w, AtTop("none", "none"))
  BY DEF Proceed, StepAfter, Advanced
<1> HIDE DEF f
<1>7. f.sm.index = s + 1 /\ s \in Nat /\ N \in Nat /\ Steps = 1..N
  BY <1>1, <1>3, <1>5, Parameters DEF Steps
<1>8. Orderly(setting) /\ used.torn = 0 => Unstale(f, c)
  <2>1. ASSUME NEW i \in Steps, i < f.sm.index PROVE i < s \/ i = s
    BY <1>7, <2>1
  <2> QED BY <1>2, <2>1 DEF Unstale, Before
<1>9. CASE IsComplete(f.sm)
  <2> DEFINE r == InBackup("completed", strm[w].step)
  <2>1. Save("completed", strm[w].step, "none", f, c) /\ Set(w, r)
    BY <1>6, <1>9
  <2>2. Kept'
    BY <1>0, <1>1, <1>2, <1>4, <1>5, <1>8, <2>1, SaveKeeps DEF Terminal
  <2>3. r \in StreamState(setting) /\ r.pc = "backup" /\ r.step \in Steps
    BY <1>1, <1>2, StreamTypes
  <2> HIDE DEF r
  <2>4. Entered(scripts', mem', r) /\ Current(setting, mem', r)
    BY <2>3, EasyStreams
  <2>5. Flowing'
    BY <1>0, <2>1, <2>3, <2>4, StreamMoves
  <2> QED BY <2>2, <2>5, Parts
<1>10. CASE ~IsComplete(f.sm)
  <2> DEFINE r == AtTop("none", "none")
  <2>1. Save("running", f.sm.index, "none", f, c) /\ Set(w, r)
    BY <1>6, <1>10
  <2>2. f.sm.index \in Steps
    BY <1>7, <1>10 DEF IsComplete
  <2>3. Kept'
    BY <1>0, <1>1, <1>2, <1>4, <1>5, <1>8, <2>1, <2>2, SaveKeeps DEF Resumable
  <2>4. r \in StreamState(setting) /\ r.pc = "top" /\ r.msg = "none"
    BY <1>2, StreamTypes
  <2> HIDE DEF r
  <2>5. Entered(scripts', mem', r) /\ Current(setting, mem', r)
    BY <2>4, EasyStreams
  <2>6. Flowing'
    BY <1>0, <2>1, <2>4, <2>5, StreamMoves
  <2> QED BY <2>3, <2>6, Parts
<1> QED BY <1>9, <1>10

\* The pipeline waits for its user.
LEMMA WaitKeeps ==
  ASSUME IInv, NEW w \in Streams, strm[w].pc = "done", NEW m \in Memory(setting),
         Relates(setting, mem, m), NEW c, WaitForInput(w, m, c),
         UNCHANGED <<setting, scripts, up, clock, used>>, c \in Contexts(setting, clock),
         Orderly(setting) => Before(ctx, c, mem.sm.index),
         Harmless(setting) => strm[w].step = mem.sm.index
  PROVE  IInv'
<1> DEFINE f == WithInput(m, "none")
           r == IF A2A THEN Idle ELSE InBackup("input", strm[w].step)
<1>0. Kept /\ Flowing
  BY Parts
<1>1. up /\ mem.sm.index \in Steps /\ strm[w].step \in Steps
  BY <1>0, ActsAs DEF Entered, InStep
<1>2. /\ setting \in Setting /\ mem \in Memory(setting) /\ clock \in Nat /\ used \in Used
  BY <1>0, <1>1, LiveFacts
<1>3. Save("waiting_input", strm[w].step, "none", f, c) /\ Set(w, r)
  BY DEF WaitForInput, WithInput
<1>4. /\ f \in Memory(setting) /\ f.sm = m.sm /\ f.hist = m.hist /\ f.att = m.att /\ f.exec = m.exec
      /\ f.inp = "none"
  BY <1>2, WithInputFacts
<1> HIDE DEF f
<1>5. Relates(setting, mem, f)
  BY <1>4 DEF Relates
<1>6. Kept'
  BY <1>0, <1>1, <1>2, <1>3, <1>4, <1>5, SaveRelated DEF Resumable
<1>7. /\ r \in StreamState(setting)
      /\ r.pc = "idle" \/ (r.pc = "backup" /\ r.step \in Steps)
  BY <1>1, <1>2, StreamTypes
<1> HIDE DEF r
<1>8. Entered(scripts', mem', r) /\ Current(setting, mem', r)
  BY <1>7, EasyStreams
<1>9. Flowing'
  BY <1>0, <1>3, <1>7, <1>8, StreamMoves
<1> QED BY <1>6, <1>9, Parts

LEMMA RestartedFacts ==
  ASSUME NEW x \in Setting, NEW m \in Memory(x), NEW t \in Steps, NEW v \in Machine(x), v.index = t,
         v.status = MoveBack(m.sm, t).status, NEW a \in 0..Len(m.att),
         NEW status \in {"rolled_back", "discarded"}, Len(Restarted(m, t, v, a, status).att) <= x.attempts
  PROVE  LET e == Restarted(m, t, v, a, status)
         IN e \in Memory(x) /\ MovedBack(m, e, t, a, status) /\ Len(m.att) < x.attempts
<1> DEFINE m1 == [m EXCEPT !.sm = v]
           m2 == MarkAttempt(m1, a, status)
           m3 == ForgetFrom(m2, t)
           m4 == CreateAttempt(m3, t)
           e  == [m4 EXCEPT !.inp = "text"]
<1>1. m1 \in Memory(x) /\ m1.att = m.att
  BY MachineSet
<1>2. m2 \in Memory(x) /\ Len(m2.att) = Len(m.att)
  <2> HIDE DEF m1
  <2> QED BY <1>1, MarkFacts DEF Relabels
<1>3. m3 \in Memory(x) /\ m3.att = m2.att
  <2> HIDE DEF m2
  <2> QED BY <1>2, ForgetFacts
<1>4. Len(m4.att) = Len(m.att) + 1
  <2> HIDE DEF m3
  <2> QED BY SMTT(60), <1>2, <1>3, CreatedLength
<1>5. e.att = m4.att
  <2> HIDE DEF m3
  <2> QED BY <1>3 DEF CreateAttempt, Memory
<1>6. Restarted(m, t, v, a, status) = e
  BY DEF Restarted
<1>7. Len(m.att) < x.attempts
  <2>1. Len(m.att) \in Nat /\ x.attempts \in Nat
    BY MemoryFields, SettingFields
  <2> HIDE DEF e, m4
  <2> QED BY <1>4, <1>5, <1>6, <2>1
<1> QED BY <1>7, MoveFacts

\* Its save, with the marks of the move.
LEMMA MovedKeeps ==
  ASSUME Kept, up, NEW t \in Steps, t <= mem.sm.index, NEW v \in Machine(setting), v.index = t,
         v.status = MoveBack(mem.sm, t).status, NEW a \in 0..Len(mem.att),
         NEW status \in {"rolled_back", "discarded"},
         Len(Restarted(mem, t, v, a, status).att) <= setting.attempts,
         NEW c, c \in Contexts(setting, clock), Orderly(setting) => Before(ctx, c, mem.sm.index),
         Save("running", t, "none", Restarted(mem, t, v, a, status), MarkStale(c, t)),
         UNCHANGED <<setting, scripts, up, clock, used>>
  PROVE  Kept' /\ MovedBack(mem, mem', t, a, status)
<1> DEFINE e == Restarted(mem, t, v, a, status)
           g == MarkStale(c, t)
<1>1. /\ setting \in Setting /\ mem \in Memory(setting) /\ Coherent(setting, scripts, mem, ctx)
      /\ clock \in Nat /\ used \in Used
      /\ Orderly(setting) /\ used.torn = 0 => Unstale(mem, ctx)
  BY LiveFacts
<1>2. e \in Memory(setting) /\ MovedBack(mem, e, t, a, status) /\ Len(mem.att) < setting.attempts
  BY <1>1, RestartedFacts
<1>3. g \in Contexts(setting, clock) /\ Agree(c, g, N + 1) /\ \A i \in Steps : i < t => g[i] = c[i]
  BY <1>1, MarkStaleFacts
<1> HIDE DEF e, g
<1>4. t \in Nat /\ mem.sm.index \in 1..(N + 1) /\ N \in Nat /\ Steps = 1..N
  BY <1>1, MemoryFields, Parameters DEF Steps
<1>5. Orderly(setting) => Agree(ctx, g, mem.sm.index) /\ Agree(ctx, g, t)
  <2>1. \A i \in Steps : i < N + 1 /\ (i < t => i < mem.sm.index)
    BY <1>4
  <2> QED BY <1>3, <2>1 DEF Agree, Before
<1>6. Coherent(setting, scripts, e, g)
  BY <1>1, <1>2, <1>5, MovedCoheres
<1>7. Orderly(setting) /\ used.torn = 0 => Unstale(e, g)
  <2>1. e.sm.index = t
    BY <1>2 DEF MovedBack
  <2>2. \A i \in Steps : i < t => i < mem.sm.index
    BY <1>4
  <2> QED BY <1>1, <1>3, <2>1, <2>2 DEF Unstale, Before
<1>8. e.sm.index = t /\ Save("running", t, "none", e, g)
  BY <1>2 DEF MovedBack, e, g
<1>9. Kept'
  BY <1>1, <1>2, <1>3, <1>5, <1>6, <1>7, <1>8, SaveKeeps DEF Resumable
<1>10. mem' = e
  BY <1>8 DEF Save
<1> QED BY <1>2, <1>9, <1>10

LEMMA RollBackKeeps ==
  ASSUME IInv, NEW w \in Streams, strm[w].pc = "done", NEW t \in Steps, NEW c, CanRollBack(mem.sm, t),
         RollBack(w, mem, c, t), UNCHANGED <<setting, scripts, up, clock, used>>,
         c \in Contexts(setting, clock), Orderly(setting) => Before(ctx, c, mem.sm.index)
  PROVE  IInv'
<1> DEFINE v == CountedRollback(mem.sm, t)
           a == strm[w].att
           e == Restarted(mem, t, v, a, "rolled_back")
           r == AtTop("none", "text")
<1>0. Kept /\ Flowing
  BY Parts
<1>1. up /\ a \in 1..Len(mem.att)
  BY <1>0, ActsAs DEF Entered, InStep
<1>2. setting \in Setting /\ mem \in Memory(setting) /\ mem.sm \in Machine(setting) /\ Len(mem.att) \in Nat
  BY <1>0, <1>1, LiveFacts, MemoryFields
<1>3. Len(e.att) <= setting.attempts /\ Save("running", t, "none", e, MarkStale(c, t)) /\ Set(w, r)
  BY <1>2 DEF RollBack, Restarted, MaxAttempts, Memory
<1>4. t <= mem.sm.index /\ mem.sm.rollbacks < setting.rollbacks
  BY DEF CanRollBack, RollbackTargets
<1>5. v \in Machine(setting) /\ v.index = t /\ v.status = MoveBack(mem.sm, t).status
  BY <1>2, <1>4, CountedFacts
<1> HIDE DEF v, e
<1>6. Kept'
  <2>1. a \in 0..Len(mem.att)
    BY <1>1, <1>2
  <2> QED BY <1>0, <1>1, <1>3, <1>4, <1>5, <2>1, MovedKeeps DEF e
<1>7. r \in StreamState(setting) /\ r.pc = "top" /\ r.msg = "text"
  BY <1>2, StreamTypes
<1> HIDE DEF r
<1>8. Entered(scripts', mem', r) /\ Current(setting, mem', r)
  BY <1>7, EasyStreams
<1>9. Flowing'
  BY SMTT(60), <1>0, <1>3, <1>7, <1>8, StreamMoves
<1> QED BY <1>6, <1>9, Parts

\* The stream of a concluded step, its transcript and the conclusion it leaves in the context.
LEMMA SettlingFacts ==
  ASSUME IInv, NEW w \in Streams, strm[w].pc = "done"
  PROVE  LET r   == strm[w]
             res == scripts[r.att]
             c   == SetConclusion(ctx, r.step, res.val, res.seen, r.att)
             s   == mem.sm.index
         IN /\ up /\ s \in Steps /\ r.step \in Steps /\ r.att \in 1..Len(mem.att)
            /\ mem.att[r.att].step = r.step /\ res.state = "done"
            /\ c \in Contexts(setting, clock)
            /\ Harmless(setting) => r.step = s /\ r.att >= mem.hist.since[s]
            /\ ~setting.a2a => r.step = s /\ r.att >= mem.hist.since[s]
            /\ Orderly(setting) =>
                 /\ Before(ctx, c, s)
                 /\ c[s].by >= mem.hist.since[s] /\ c[s].val # 0
                 /\ \A d \in Deps[s] : c[s].seen[d] = ctx[d].val
                 /\ ~c[s].stale
<1> DEFINE r   == strm[w]
           a   == r.att
           res == scripts[a]
           c   == SetConclusion(ctx, r.step, res.val, res.seen, a)
           s   == mem.sm.index
<1>0. Kept /\ Flowing
  BY Parts
<1>1. /\ up /\ s \in Steps /\ r.step \in Steps /\ a \in 1..Len(mem.att)
      /\ mem.att[a].step = r.step /\ res.state = "done"
  BY <1>0, ActsAs DEF Entered, InStep
<1>2. /\ setting \in Setting /\ mem \in Memory(setting) /\ ctx \in Contexts(setting, clock) /\ clock \in Nat
      /\ scripts \in [1..setting.attempts -> Transcript(clock)] /\ Coherent(setting, scripts, mem, ctx)
  BY <1>0, <1>1, LiveFacts
<1>3. a \in 1..setting.attempts /\ a \in 0..setting.attempts
  <2>1. Len(mem.att) \in Nat /\ setting.attempts \in Nat /\ Len(mem.att) <= setting.attempts
    BY <1>2, MemoryFields, SettingFields DEF Coherent, Attempts
  <2> QED BY <1>1, <2>1
<1>4. res.val \in 0..clock /\ res.seen \in Reads(clock)
  BY SMTT(60), <1>2, <1>3 DEF Transcript
<1>5. /\ c \in Contexts(setting, clock)
      /\ c[r.step].val = res.val /\ c[r.step].seen = res.seen /\ c[r.step].by = a /\ ~c[r.step].stale
      /\ \A i \in Steps : i < r.step => c[i] = ctx[i]
  <2> HIDE DEF r, a, res
  <2> QED BY SMTT(60), <1>1, <1>2, <1>3, <1>4, SetConclusionFacts
<1> HIDE DEF c
<1>6. Harmless(setting) \/ ~setting.a2a => w = "cur"
  <2>1. ~setting.a2a => w = "cur"
    BY <1>0, <1>1, ActsAs
  <2>2. setting.a2a /\ setting.parallel = Steps => FALSE
    BY <1>0, <1>1, <1>3, NoScriptIs DEF Kept, Written
  <2> QED BY <2>1, <2>2 DEF Harmless
<1>7. w = "cur" => r.step = s /\ a >= mem.hist.since[s]
  <2>1. w = "cur" => Current(setting, mem, r)
    BY <1>0, ActsAs
  <2> QED BY <2>1 DEF Current, InStep
<1>8. ASSUME Orderly(setting)
      PROVE  /\ Before(ctx, c, s)
             /\ c[s].by >= mem.hist.since[s] /\ c[s].val # 0
             /\ \A d \in Deps[s] : c[s].seen[d] = ctx[d].val
             /\ ~c[s].stale
  <2>1. r.step = s /\ a >= mem.hist.since[s]
    BY <1>6, <1>7, <1>8 DEF Orderly
  <2>2. \A d \in Deps[s] : res.seen[d] = ctx[d].val
    BY SMTT(60), <1>1, <1>2, <1>8, <2>1 DEF Coherent, Drawn
  <2>3. res.val # 0
    BY <1>0, <1>1, <1>3 DEF Kept, Written
  <2> QED BY <1>5, <2>1, <2>2, <2>3 DEF Before
<1> QED BY <1>1, <1>5, <1>6, <1>7, <1>8 DEF c

LEMMA SettleKeeps == ASSUME IInv, NEW w \in Streams, Settle(w) PROVE IInv'
<1> DEFINE r   == strm[w]
           a   == r.att
           res == scripts[a]
           c   == SetConclusion(ctx, r.step, res.val, res.seen, a)
           m   == MarkAttempt(mem, a, "completed")
           s   == mem.sm.index
<1>0. Kept /\ Flowing
  BY Parts
<1>1. /\ r.pc = "done" /\ UNCHANGED <<setting, scripts, up, clock, used>>
      /\ \/ /\ res.out = "exit"
            /\ Save("completed", r.step, "none", m, c)
            /\ Set(w, InBackup("terminal", r.step))
         \/ /\ res.out = "rollback" /\ CanRollBack(mem.sm, res.to)
            /\ RollBack(w, mem, c, res.to)
         \/ FailStep(w, mem, c)
         \/ /\ res.out \in {"ok", "ask"} /\ MovesOn(r, res.out)
            /\ Proceed(w, m, c)
         \/ WaitForInput(w, m, c)
  BY DEF Settle
<1>2. /\ up /\ s \in Steps /\ r.step \in Steps /\ a \in 1..Len(mem.att)
      /\ mem.att[a].step = r.step /\ res.state = "done"
      /\ c \in Contexts(setting, clock)
      /\ Harmless(setting) => r.step = s
      /\ ~setting.a2a => r.step = s /\ a >= mem.hist.since[s]
      /\ Orderly(setting) =>
           /\ Before(ctx, c, s)
           /\ c[s].by >= mem.hist.since[s] /\ c[s].val # 0
           /\ \A d \in Deps[s] : c[s].seen[d] = ctx[d].val
           /\ ~c[s].stale
  BY <1>1, SettlingFacts
<1> HIDE DEF c
<1>3. /\ setting \in Setting /\ mem \in Memory(setting) /\ Coherent(setting, scripts, mem, ctx)
      /\ clock \in Nat /\ used \in Used /\ Len(mem.att) \in Nat
  BY <1>0, <1>2, LiveFacts, MemoryFields
<1>4. m \in Memory(setting) /\ Relates(setting, mem, m)
  <2>1. a \in 0..Len(mem.att)
    BY SMTT(60), <1>2, <1>3
  <2> QED BY <1>3, <2>1, RelabelRelates
<1> HIDE DEF m
<1>5. CASE Save("completed", r.step, "none", m, c) /\ Set(w, InBackup("terminal", r.step))
  <2> DEFINE q == InBackup("terminal", r.step)
  <2>1. Kept'
    BY <1>0, <1>1, <1>2, <1>3, <1>4, <1>5, SaveRelated DEF Terminal
  <2>2. q \in StreamState(setting) /\ q.pc = "backup" /\ q.step \in Steps
    BY <1>2, <1>3, StreamTypes
  <2> HIDE DEF q
  <2>3. Entered(scripts', mem', q) /\ Current(setting, mem', q)
    BY <2>2, EasyStreams
  <2>4. Flowing'
    BY SMTT(60), <1>0, <1>1, <1>5, <2>2, <2>3, StreamMoves DEF q
  <2> QED BY <2>1, <2>4, Parts
<1>6. CASE CanRollBack(mem.sm, res.to) /\ RollBack(w, mem, c, res.to)
  <2>1. res.to \in Steps
    BY <1>6 DEF CanRollBack, RollbackTargets
  <2> QED BY <1>1, <1>2, <1>6, <2>1, RollBackKeeps
<1>7. CASE FailStep(w, mem, c)
  BY SMTT(60), <1>1, <1>2, <1>3, <1>7, FailStepKeeps
<1>8. CASE res.out \in {"ok", "ask"} /\ MovesOn(r, res.out) /\ Proceed(w, m, c)
  <2>1. ASSUME ~setting.a2a, s \in setting.waits \ setting.legacy PROVE mem.hist.answered[s]
    <3>1. r.step = s /\ a >= mem.hist.since[s] /\ mem.att[a].step = s
      BY <1>2, <2>1
    <3>0. s \notin setting.plain
      BY <2>1, PipelineAssumption DEF IInv, TypeOK
    <3>2. res.out = "ok"
      BY <1>8, <2>1, <3>0, <3>1 DEF MovesOn, AwaitingAgain, Waits, Legacy
    <3>3. Replied(setting, scripts, mem)
      BY <1>3, <2>1 DEF Coherent
    <3> QED BY <1>2, <2>1, <3>1, <3>2, <3>3 DEF Replied
  <2> QED BY SMTT(60), <1>1, <1>2, <1>4, <1>8, <2>1, ProceedKeeps
<1>9. CASE WaitForInput(w, m, c)
  BY <1>1, <1>2, <1>4, <1>9, WaitKeeps
<1> QED BY <1>1, <1>5, <1>6, <1>7, <1>8, <1>9

LEMMA SettleParallelKeeps == ASSUME IInv, NEW w \in Streams, SettleParallel(w) PROVE IInv'
<1> DEFINE r == strm[w]
           a == r.att
           c == SetConclusion(ctx, r.step, clock + 1, SeenBy(r.step), a)
           m == MarkAttempt(mem, a, "completed")
           s == mem.sm.index
<1>0. Kept /\ Flowing
  BY Parts
<1>1. /\ r.pc = "exec" /\ r.step \in setting.parallel /\ UNCHANGED <<setting, scripts, up, used>>
      /\ \/ Set(w, Idle) /\ NoSave /\ UNCHANGED clock
         \/ mem.exec # a /\ ~Discarded(r) /\ Proceed(w, m, ctx) /\ UNCHANGED clock
         \/ mem.exec = a /\ ~Discarded(r) /\ Proceed(w, m, c) /\ clock' = clock + 1
  BY DEF SettleParallel, Parallel, OwnsExecution
<1>2. /\ up /\ s \in Steps /\ r.step \in Steps /\ a \in 1..Len(mem.att) /\ meta # None
      /\ w = "cur" => r.step = s /\ a >= mem.hist.since[s]
      /\ Orderly(setting) /\ w = "cur" => mem.exec = a
      /\ Orderly(setting) /\ w # "cur" => mem.att[a].status = "discarded"
      /\ ~setting.a2a => w = "cur"
  BY <1>0, <1>1, ActsAs DEF Entered, Current, InStep
<1>3. /\ setting \in Setting /\ mem \in Memory(setting) /\ ctx \in Contexts(setting, clock) /\ clock \in Nat
      /\ Coherent(setting, scripts, mem, ctx) /\ Len(mem.att) \in Nat
  BY <1>0, <1>2, LiveFacts, MemoryFields
<1>4. m \in Memory(setting) /\ Relates(setting, mem, m)
  <2>1. a \in 0..Len(mem.att)
    BY <1>2, <1>3
  <2> QED BY <1>3, <2>1, RelabelRelates
<1> HIDE DEF m
<1>5. ~setting.a2a => s \notin setting.waits
  <2>1. setting.parallel \intersect setting.waits = {}
    BY <1>0, PipelineAssumption DEF Kept, Typed
  <2> QED BY <1>1, <1>2, <2>1
<1>6. Orderly(setting) /\ ~Discarded(r) => w = "cur" /\ mem.exec = a
  BY <1>2 DEF Discarded
<1>7. CASE Set(w, Idle) /\ NoSave /\ UNCHANGED clock
  <2>1. Kept'
    BY <1>0, <1>1, <1>2, <1>7, NoSaveKeeps
  <2>2. Idle \in StreamState(setting) /\ Idle.pc = "idle"
    BY <1>3, StreamTypes
  <2>3. Entered(scripts', mem', Idle) /\ Current(setting, mem', Idle)
    BY <2>2, EasyStreams
  <2>4. Flowing'
    BY <1>0, <1>1, <1>7, <2>2, <2>3, StreamMoves
  <2> QED BY <2>1, <2>4, Parts
<1>8. CASE mem.exec # a /\ ~Discarded(r) /\ Proceed(w, m, ctx) /\ UNCHANGED clock
  <2>1. ~Orderly(setting)
    BY SMTT(60), <1>6, <1>8
  <2> QED BY <1>1, <1>3, <1>4, <1>5, <1>8, <2>1, ProceedKeeps
<1>9. CASE mem.exec = a /\ ~Discarded(r) /\ Proceed(w, m, c) /\ clock' = clock + 1
  <2>1. a \in 0..setting.attempts
    <3>1. setting.attempts \in Nat /\ Len(mem.att) <= setting.attempts
      BY <1>3, SettingFields DEF Coherent, Attempts
    <3> QED BY <1>2, <1>3, <3>1
  <2>2. /\ clock + 1 \in Nat /\ clock + 1 \in 0..(clock + 1) /\ clock <= clock + 1 /\ clock + 1 # 0
        /\ clock' = clock + 1
    BY <1>3, <1>9
  <2>3. /\ SeenBy(r.step) \in Reads(clock + 1) /\ ctx \in Contexts(setting, clock + 1)
        /\ \A d \in Deps[r.step] : SeenBy(r.step)[d] = ctx[d].val
    BY <1>2, <1>3, <2>2, SeenByFacts, MoreDrawn
  <2>4. /\ c \in Contexts(setting, clock + 1)
        /\ c[r.step].val = clock + 1 /\ c[r.step].seen = SeenBy(r.step) /\ c[r.step].by = a
        /\ ~c[r.step].stale /\ \A i \in Steps : i < r.step => c[i] = ctx[i]
    BY SMTT(60), <1>2, <2>1, <2>2, <2>3, SetConclusionFacts
  <2> HIDE DEF c
  <2>5. Orderly(setting) =>
          /\ Before(ctx, c, s)
          /\ c[s].by >= mem.hist.since[s] /\ c[s].val # 0
          /\ \A d \in Deps[s] : c[s].seen[d] = ctx[d].val
          /\ ~c[s].stale
    BY <1>2, <1>6, <1>9, <2>2, <2>3, <2>4 DEF Before
  <2> QED BY <1>1, <1>4, <1>5, <1>9, <2>2, <2>4, <2>5, ProceedKeeps
<1> QED BY <1>1, <1>7, <1>8, <1>9

----------------------------------------------------------------------------
(* The user                                                                *)

\* The memory once the user has answered step s.
Answering(m, s) == [m EXCEPT !.inp = "answer", !.hist.answered[s] = TRUE]

LEMMA AnsweringFacts ==
  ASSUME NEW x \in Setting, NEW m \in Memory(x), NEW s \in Steps
  PROVE  LET e == Answering(m, s)
         IN /\ e \in Memory(x) /\ e.sm = m.sm /\ e.att = m.att /\ e.exec = m.exec
            /\ e.hist.since = m.hist.since /\ e.hist.answered[s]
            /\ \A i \in Steps : m.hist.answered[i] => e.hist.answered[i]
<1> DEFINE answered == [m.hist.answered EXCEPT ![s] = TRUE]
           h == [m.hist EXCEPT !.answered = answered]
           g == [m EXCEPT !.inp = "answer"]
           e == [g EXCEPT !.hist = h]
<1>1. m.hist \in Past /\ m.hist.answered \in [Steps -> BOOLEAN]
  BY MemoryFields
<1>2. Answering(m, s) = e
  BY <1>1 DEF Answering, Memory, Past
<1>3. /\ answered \in [Steps -> BOOLEAN] /\ answered[s]
      /\ \A i \in Steps : m.hist.answered[i] => answered[i]
  BY <1>1
<1> HIDE DEF answered
<1>4. h \in Past /\ h.since = m.hist.since /\ h.answered = answered
  BY <1>1, <1>3 DEF Past
<1> HIDE DEF h
<1>5. g \in Memory(x) /\ g.sm = m.sm /\ g.att = m.att /\ g.exec = m.exec
  BY InputFacts
<1> HIDE DEF g
<1>6. e \in Memory(x) /\ e.sm = g.sm /\ e.att = g.att /\ e.exec = g.exec /\ e.hist = h
  BY <1>4, <1>5 DEF Memory
<1> HIDE DEF e
<1> QED BY <1>2, <1>3, <1>4, <1>5, <1>6

\* An answer to the step at the position.
LEMMA AnsweringCoheres ==
  ASSUME NEW x \in Setting, NEW m \in Memory(x), NEW sc, NEW c, Coherent(x, sc, m, c), m.sm.index \in Steps
  PROVE  Coherent(x, sc, Answering(m, m.sm.index), c)
<1> DEFINE e == Answering(m, m.sm.index)
<1>1. /\ e \in Memory(x) /\ e.sm = m.sm /\ e.att = m.att /\ e.exec = m.exec
      /\ e.hist.since = m.hist.since /\ e.hist.answered[m.sm.index]
      /\ \A i \in Steps : m.hist.answered[i] => e.hist.answered[i]
  BY AnsweringFacts
<1> HIDE DEF e
<1>2. \A a \in 1..Len(m.att) : m.att[a].step \in Steps
  BY MemoryFields
<1>3. Attempts(x, sc, e)
  BY <1>1 DEF Coherent, Attempts
<1>4. ASSUME ~x.a2a PROVE Replied(x, sc, e)
  <2>1. Replied(x, sc, m) /\ x.waits \subseteq Steps
    BY <1>4, SettingFields DEF Coherent
  <2> QED BY <1>1, <1>2, <2>1 DEF Replied
<1>5. Orderly(x) => Drawn(sc, e, c)
  BY <1>1 DEF Coherent, Drawn
<1> QED BY <1>3, <1>4, <1>5 DEF Coherent, e

LEMMA AnswerKeeps == ASSUME IInv, Answer PROVE IInv'
<1> DEFINE s == mem.sm.index
           c == SetConclusion(ctx, s, clock + 1, ctx[s].seen, ctx[s].by)
           m == Answering(mem, s)
           r == AtTop("waiting", "answer")
<1>0. Kept /\ Flowing
  BY Parts
<1>1. /\ up /\ strm["cur"].pc = "idle" /\ meta # None /\ meta.status = "waiting_input"
      /\ Save("running", s, "none", m, c) /\ Set("cur", r)
      /\ clock' = clock + 1 /\ used' = [used EXCEPT !.answer = @ + 1]
      /\ UNCHANGED <<setting, scripts, up>>
  BY DEF Answer, Answering
<1>2. /\ setting \in Setting /\ mem \in Memory(setting) /\ ctx \in Contexts(setting, clock) /\ used \in Used
      /\ clock \in Nat /\ Coherent(setting, scripts, mem, ctx)
      /\ Orderly(setting) /\ used.torn = 0 => Unstale(mem, ctx)
  BY <1>0, <1>1, LiveFacts
<1>3. s \in Steps
  BY <1>0, <1>1 DEF Kept, Filed, Fits, Saved
<1>4. clock + 1 \in Nat /\ clock + 1 \in 0..(clock + 1) /\ clock <= clock + 1 /\ clock' \in {clock, clock + 1}
  BY <1>1, <1>2
<1>5. /\ ctx \in Contexts(setting, clock + 1)
      /\ ctx[s].seen \in Reads(clock + 1) /\ ctx[s].by \in 0..setting.attempts
  <2>1. ctx \in Contexts(setting, clock + 1)
    BY <1>2, <1>4, MoreDrawn
  <2>2. ctx[s] \in Conclusion(setting, clock + 1)
    BY <1>3, <2>1 DEF Contexts
  <2> QED BY <2>1, <2>2 DEF Conclusion
<1>6. c \in Contexts(setting, clock + 1) /\ \A i \in Steps : i < s => c[i] = ctx[i]
  BY <1>3, <1>4, <1>5, SetConclusionFacts
<1>7. /\ m \in Memory(setting) /\ m.sm = mem.sm /\ m.hist.answered[s]
  BY <1>2, <1>3, AnsweringFacts
<1>8. Coherent(setting, scripts, m, ctx)
  BY <1>2, <1>3, AnsweringCoheres
<1> HIDE DEF c, m
<1>9. Agree(ctx, c, s) /\ (Orderly(setting) /\ used.torn = 0 => Unstale(m, c))
  BY <1>2, <1>6, <1>7 DEF Agree, Unstale
<1>10. Coherent(setting, scripts, m, c)
  BY <1>2, <1>7, <1>8, <1>9, ContextCoheres
<1>11. used' \in Used /\ used'.torn = used.torn
  BY <1>1, <1>2, Counted
<1>12. Kept'
  BY <1>0, <1>1, <1>3, <1>4, <1>6, <1>7, <1>9, <1>10, <1>11, SaveKeeps DEF Resumable
<1>13. r \in StreamState(setting) /\ r.pc = "top"
  BY <1>2, StreamTypes
<1> HIDE DEF r
<1>14. mem' = m
  BY <1>1 DEF Save
<1>15. Entered(scripts', mem', r) /\ Current(setting, mem', r)
  BY <1>3, <1>7, <1>13, <1>14, EasyStreams DEF Current, InStep
<1>16. Flowing'
  BY <1>0, <1>1, <1>13, <1>15, StreamMoves DEF Streams
<1> QED BY <1>12, <1>16, Parts

\* The two streams, when an interrupt or its refusal replaces the current one.
LEMMA CurrentFacts ==
  ASSUME Kept, Flowing, strm["cur"].pc \in {"top", "exec", "done", "backup"}
  PROVE  /\ up /\ meta # None /\ strm["cur"] \in StreamState(setting) /\ strm["old"] \in StreamState(setting)
         /\ Entered(scripts, mem, strm["cur"]) /\ Current(setting, mem, strm["cur"])
         /\ strm["old"].pc = "idle" /\ \A sc, m : Entered(sc, m, strm["old"])
         /\ strm = [cur |-> strm["cur"], old |-> strm["old"]]
<1>1. /\ strm \in [Streams -> StreamState(setting)] /\ Streams = {"cur", "old"}
      /\ Entered(scripts, mem, strm["cur"]) /\ Current(setting, mem, strm["cur"])
      /\ Replaced(setting, mem, strm["cur"], strm["old"])
  BY DEF Flowing, Running, Streams
<1>2. strm["old"].pc = "idle"
  BY <1>1 DEF Replaced
<1>3. up /\ meta # None
  BY StreamsSaved DEF Streams
<1>4. strm = [cur |-> strm["cur"], old |-> strm["old"]]
  BY <1>1
<1> QED BY <1>1, <1>2, <1>3, <1>4, EasyStreams

\* What a pair of streams must satisfy.
LEMMA PairFlows ==
  ASSUME NEW r, NEW o, r \in StreamState(setting), o \in StreamState(setting), strm' = [cur |-> r, old |-> o],
         setting' = setting, Entered(scripts', mem', r), Entered(scripts', mem', o),
         Current(setting, mem', r), Replaced(setting, mem', r, o)
  PROVE  Flowing'
<1>1. /\ strm'["cur"] = r /\ strm'["old"] = o /\ Streams = {"cur", "old"}
      /\ strm' \in [Streams -> StreamState(setting)]
  BY DEF Streams
<1> QED BY <1>1 DEF Flowing, Running

\* Where orderly, there is no stream in a done step and no refusal on the A2A surface.
LEMMA ParallelOnly ==
  ASSUME Kept, up, Orderly(setting), setting.a2a, NEW r, Entered(scripts, mem, r), r.pc \in {"exec", "done"}
  PROVE  r.pc = "exec" /\ r.step \in setting.parallel
<1>1. setting.parallel = Steps
  BY DEF Orderly, Harmless
<1>2. r.step \in Steps /\ r.att \in 1..Len(mem.att) /\ (r.pc = "done" => scripts[r.att].state = "done")
  BY DEF Entered, InStep
<1>3. r.att \in 1..setting.attempts
  <2>1. /\ Attempts(setting, scripts, mem) /\ mem \in Memory(setting) /\ setting \in Setting
    BY LiveFacts DEF Coherent
  <2>2. Len(mem.att) \in Nat /\ setting.attempts \in Nat /\ Len(mem.att) <= setting.attempts
    BY <2>1, MemoryFields, SettingFields DEF Attempts
  <2> QED BY <1>2, <2>2
<1>4. scripts[r.att].state = "none"
  BY <1>1, <1>3, NoScriptIs DEF Kept, Written
<1> QED BY <1>1, <1>2, <1>4

LEMMA InterruptKeeps == ASSUME IInv, NEW tt \in Steps, Interrupt(tt) PROVE IInv'
<1> DEFINE t == IF tt <= mem.sm.index THEN tt ELSE mem.sm.index
           v == CountedInterrupt(mem.sm, t)
           e == Restarted(mem, t, v, mem.exec, "discarded")
           r == strm["cur"]
           q == AtTop("none", "text")
           h == Piece(Idle, "pc", "restart")
<1>0. Kept /\ Flowing
  BY Parts
<1>1. /\ up /\ r.pc \in {"top", "exec", "done", "backup"} /\ ~IsComplete(mem.sm)
      /\ mem.sm.interrupts < setting.interrupts
      /\ UNCHANGED <<setting, scripts, up, clock, used>> /\ HardInterrupt(t)
  BY DEF Interrupt, Interruptible
<1>2. /\ setting \in Setting /\ mem \in Memory(setting) /\ ctx \in Contexts(setting, clock)
      /\ mem.sm \in Machine(setting) /\ mem.exec \in 0..Len(mem.att) /\ Len(mem.att) \in Nat
  BY <1>0, <1>1, LiveFacts, MemoryFields DEF Coherent, Attempts
<1>3. t \in Steps /\ t <= mem.sm.index
  <2>1. mem.sm.index \in 1..(N + 1) /\ N \in Nat /\ Steps = 1..N
    BY <1>2, MemoryFields, Parameters DEF Steps
  <2> QED BY <1>1, <2>1 DEF IsComplete
<1>4. /\ Len(e.att) <= setting.attempts /\ Save("running", t, "none", e, MarkStale(ctx, t))
      /\ strm' = IF setting.a2a THEN [cur |-> h, old |-> r] ELSE [strm EXCEPT !["cur"] = q]
  BY <1>1, <1>2 DEF HardInterrupt, Restarted, MaxAttempts, Memory, A2A, Piece
<1> HIDE DEF t
<1>5. v \in Machine(setting) /\ v.index = t /\ v.status = MoveBack(mem.sm, t).status
  BY <1>1, <1>2, <1>3, CountedFacts
<1> HIDE DEF v
<1>6. Kept' /\ MovedBack(mem, mem', t, mem.exec, "discarded")
  BY <1>0, <1>1, <1>2, <1>3, <1>4, <1>5, MovedKeeps DEF Before
<1> HIDE DEF e
<1>7. /\ r \in StreamState(setting) /\ strm["old"] \in StreamState(setting)
      /\ Entered(scripts, mem, r) /\ Current(setting, mem, r)
      /\ strm["old"].pc = "idle" /\ Entered(scripts', mem', strm["old"])
      /\ strm = [cur |-> r, old |-> strm["old"]]
  BY <1>0, <1>1, CurrentFacts
<1>8. CASE ~setting.a2a
  <2>1. strm' = [cur |-> q, old |-> strm["old"]]
    BY <1>4, <1>7, <1>8
  <2>2. q \in StreamState(setting) /\ q.pc = "top" /\ q.msg = "text"
    BY <1>2, StreamTypes
  <2> HIDE DEF q
  <2>3. Entered(scripts', mem', q) /\ Current(setting, mem', q)
    BY <2>2, EasyStreams
  <2>4. Replaced(setting, mem', q, strm["old"])
    BY <1>7 DEF Replaced
  <2>5. Flowing'
    BY <1>1, <1>7, <2>1, <2>2, <2>3, <2>4, PairFlows
  <2> QED BY <1>6, <2>5, Parts
<1>9. CASE setting.a2a
  <2>1. strm' = [cur |-> h, old |-> r]
    BY <1>4, <1>9
  <2>2. h \in StreamState(setting) /\ h.pc = "restart"
    <3>1. Idle \in StreamState(setting)
      BY <1>2, StreamTypes
    <3> QED BY <3>1, StreamEdits
  <2> HIDE DEF h
  <2>3. Entered(scripts', mem', h) /\ Current(setting, mem', h)
    BY <1>9, <2>2 DEF Entered, Current, InStep
  <2>4. /\ mem'.sm.index = t /\ Len(mem'.att) = Len(mem.att) + 1
        /\ \A k \in 1..Len(mem.att) : mem'.att[k].step = mem.att[k].step
        /\ mem.exec \in 1..Len(mem.att) => mem'.att[mem.exec].status = "discarded"
    BY <1>6 DEF MovedBack
  <2>5. Entered(scripts', mem', r)
    <3>1. \A k \in 1..Len(mem.att) : k \in 1..Len(mem'.att)
      BY <1>2, <2>4
    <3> QED BY <1>1, <1>3, <1>7, <2>4, <3>1 DEF Entered
  <2>6. ASSUME Orderly(setting), InStep(r)
        PROVE  r.step \in setting.parallel /\ r.pc = "exec" /\ mem'.att[r.att].status = "discarded"
    <3>1. r.pc = "exec" /\ r.step \in setting.parallel
      BY <1>0, <1>1, <1>7, <1>9, <2>6, ParallelOnly DEF InStep
    <3>2. mem.exec = r.att /\ r.att \in 1..Len(mem.att)
      BY <1>7, <2>6, <3>1 DEF Current, Entered
    <3> QED BY <2>4, <3>1, <3>2
  <2>7. Replaced(setting, mem', h, r)
    BY <2>2, <2>6 DEF Replaced
  <2>8. Flowing'
    BY <1>1, <1>7, <2>1, <2>2, <2>3, <2>5, <2>7, PairFlows
  <2> QED BY <1>6, <2>8, Parts
<1> QED BY <1>8, <1>9

LEMMA InterruptRefusedKeeps == ASSUME IInv, InterruptRefused PROVE IInv'
<1> DEFINE m == MarkAttempt(mem, mem.exec, "failed")
           r == strm["cur"]
           h == Piece(Idle, "pc", "halt")
<1>0. Kept /\ Flowing
  BY Parts
<1>1. /\ up /\ r.pc \in {"top", "exec", "done", "backup"} /\ ~IsComplete(mem.sm)
      /\ used.refused < setting.refused
      /\ Save("failed", mem.sm.index, "none", m, ctx)
      /\ strm' = IF setting.a2a THEN [cur |-> h, old |-> r] ELSE strm
      /\ used' = [used EXCEPT !.refused = @ + 1]
      /\ UNCHANGED <<setting, scripts, up, clock>>
  BY SMTT(60) DEF InterruptRefused, Interruptible, A2A, Piece
<1>2. /\ setting \in Setting /\ mem \in Memory(setting) /\ ctx \in Contexts(setting, clock) /\ used \in Used
      /\ clock \in Nat /\ Coherent(setting, scripts, mem, ctx) /\ mem.exec \in 0..Len(mem.att)
  BY <1>0, <1>1, LiveFacts DEF Coherent, Attempts
<1>3. mem.sm.index \in Steps
  <2>1. mem.sm.index \in 1..(N + 1) /\ N \in Nat /\ Steps = 1..N
    BY <1>2, MemoryFields, Parameters DEF Steps
  <2> QED BY <1>1, <2>1 DEF IsComplete
<1>4. /\ m \in Memory(setting) /\ Relates(setting, mem, m) /\ m.sm = mem.sm /\ m.hist = mem.hist
      /\ Len(m.att) = Len(mem.att) /\ \A k \in 1..Len(mem.att) : m.att[k].step = mem.att[k].step
  BY <1>2, RelabelRelates
<1> HIDE DEF m
<1>5. used' \in Used /\ used'.torn = used.torn /\ used.refused \in Nat /\ setting.refused \in Nat
  BY <1>1, <1>2, Counted, SettingFields
<1>6. Kept' /\ mem' = m
  BY <1>0, <1>1, <1>2, <1>3, <1>4, <1>5, SaveRelated DEF Before, Terminal
<1>7. Orderly(setting) => setting.parallel = {} /\ ~setting.a2a
  <2>1. setting.refused # 0
    BY <1>1, <1>5
  <2> QED BY <2>1, Parameters DEF Orderly, Harmless
<1>8. /\ r \in StreamState(setting) /\ strm["old"] \in StreamState(setting)
      /\ Entered(scripts, mem, r) /\ Current(setting, mem, r)
      /\ strm["old"].pc = "idle" /\ Entered(scripts', mem', strm["old"])
      /\ strm = [cur |-> r, old |-> strm["old"]]
  BY <1>0, <1>1, CurrentFacts
<1>9. Entered(scripts', mem', r)
  BY <1>1, <1>4, <1>6, <1>8 DEF Entered
<1>10. CASE ~setting.a2a
  <2>1. strm' = [cur |-> r, old |-> strm["old"]]
    BY <1>1, <1>8, <1>10
  <2>2. Current(setting, mem', r)
    BY <1>1, <1>4, <1>6, <1>7, <1>8 DEF Current
  <2>3. Replaced(setting, mem', r, strm["old"])
    BY <1>8 DEF Replaced
  <2>4. Flowing'
    BY <1>1, <1>8, <1>9, <2>1, <2>2, <2>3, PairFlows
  <2> QED BY <1>6, <2>4, Parts
<1>11. CASE setting.a2a
  <2>1. strm' = [cur |-> h, old |-> r] /\ ~Orderly(setting)
    BY <1>1, <1>7, <1>11
  <2>2. h \in StreamState(setting) /\ h.pc = "halt"
    <3>1. Idle \in StreamState(setting)
      BY <1>2, StreamTypes
    <3> QED BY <3>1, StreamEdits
  <2> HIDE DEF h
  <2>3. Entered(scripts', mem', h) /\ Current(setting, mem', h) /\ Replaced(setting, mem', h, r)
    BY <1>11, <2>1, <2>2 DEF Entered, Current, InStep, Replaced
  <2>4. Flowing'
    BY <1>1, <1>8, <1>9, <2>1, <2>2, <2>3, PairFlows
  <2> QED BY <1>6, <2>4, Parts
<1> QED BY <1>10, <1>11

LEMMA RestartKeeps == ASSUME IInv, Restart PROVE IInv'
<1> DEFINE r == IF strm["cur"].pc = "restart" THEN AtTop("none", "text") ELSE Idle
<1>0. Kept /\ Flowing
  BY Parts
<1>1. /\ strm["cur"].pc # "idle" /\ strm' = [cur |-> r, old |-> Idle] /\ NoSave
      /\ UNCHANGED <<setting, scripts, up, clock, used>>
  BY DEF Restart
<1>2. Kept'
  BY <1>0, <1>1, StreamsSaved, NoSaveKeeps DEF Streams
<1>3. /\ r \in StreamState(setting) /\ Idle \in StreamState(setting) /\ Idle.pc = "idle"
      /\ r.pc = "idle" \/ (r.pc = "top" /\ r.msg = "text")
  BY <1>0, SettingIs, StreamTypes DEF Kept
<1> HIDE DEF r
<1>4. /\ Entered(scripts', mem', r) /\ Current(setting, mem', r) /\ Entered(scripts', mem', Idle)
      /\ Replaced(setting, mem', r, Idle)
  BY <1>3, EasyStreams DEF Replaced
<1>5. Flowing'
  BY <1>1, <1>3, <1>4, PairFlows
<1> QED BY <1>2, <1>5, Parts

\* All streams are gone.
LEMMA IdleFlows ==
  ASSUME setting \in Setting, setting' = setting, strm' = [w \in Streams |-> Idle] PROVE Flowing'
<1>1. Idle \in StreamState(setting) /\ Idle.pc = "idle"
  BY StreamTypes
<1>2. Entered(scripts', mem', Idle) /\ Current(setting, mem', Idle) /\ Replaced(setting, mem', Idle, Idle)
  BY <1>1, EasyStreams DEF Replaced
<1>3. strm' = [cur |-> Idle, old |-> Idle]
  BY DEF Streams
<1> QED BY <1>1, <1>2, <1>3, PairFlows

\* A stopped runner marks its attempt and stays in it.
Stopped(m) == IF m.exec = 0 THEN m ELSE [m EXCEPT !.att = Relabeled(m.att, m.exec, "failed")]

LEMMA StoppedFacts ==
  ASSUME NEW x \in Setting, NEW m \in Memory(x), m.exec \in 0..Len(m.att)
  PROVE  Stopped(m) \in Memory(x) /\ Relates(x, m, Stopped(m))
<1> DEFINE att == Relabeled(m.att, m.exec, "failed")
           g == [m EXCEPT !.att = att]
<1>0. m.att \in Seq(Attempt) /\ Len(m.att) \in Nat
  BY MemoryFields
<1>1. CASE m.exec = 0
  BY <1>1 DEF Stopped, Relates
<1>2. CASE m.exec # 0
  <2>1. m.exec \in 1..Len(m.att)
    BY <1>0, <1>2
  <2>2. /\ att \in Seq(Attempt) /\ Len(att) = Len(m.att)
        /\ \A k \in 1..Len(m.att) : att[k].step = m.att[k].step
                                    /\ att[k].status = IF k = m.exec THEN "failed" ELSE m.att[k].status
    BY <1>0, <2>1, StatusSet
  <2>3. Stopped(m) = g
    BY <1>2 DEF Stopped
  <2> HIDE DEF att
  <2>4. /\ g \in Memory(x) /\ g.sm = m.sm /\ g.hist = m.hist /\ g.att = att /\ g.exec = m.exec
        /\ g.inp = m.inp
    BY <2>2 DEF Memory
  <2> HIDE DEF g
  <2>5. att[m.exec].status = "failed"
    BY <2>1, <2>2
  <2>6. Relates(x, m, g)
    BY <1>0, <2>1, <2>2, <2>4, <2>5 DEF Relates
  <2> QED BY <2>3, <2>4, <2>6
<1> QED BY <1>1, <1>2

LEMMA StopKeeps == ASSUME IInv, Stop PROVE IInv'
<1> DEFINE m == Stopped(mem)
           s == mem.sm.index
<1>0. Kept /\ Flowing
  BY Parts
<1>1. /\ up /\ ~IsComplete(mem.sm) /\ strm' = [w \in Streams |-> Idle]
      /\ UNCHANGED <<setting, scripts, up, clock, used>>
  BY DEF Stop
<1>2. /\ setting \in Setting /\ mem \in Memory(setting) /\ ctx \in Contexts(setting, clock) /\ used \in Used
      /\ clock \in Nat /\ Coherent(setting, scripts, mem, ctx) /\ mem.exec \in 0..Len(mem.att)
  BY <1>0, <1>1, LiveFacts DEF Coherent, Attempts
<1>3. Save("stopped", s, "none", m, ctx)
  BY <1>2 DEF Stop, Stopped, Relabeled, Memory
<1>4. s \in Steps
  <2>1. mem.sm.index \in 1..(N + 1) /\ N \in Nat /\ Steps = 1..N
    BY <1>2, MemoryFields, Parameters DEF Steps
  <2> QED BY <1>1, <2>1 DEF IsComplete
<1>5. m \in Memory(setting) /\ Relates(setting, mem, m)
  BY <1>2, StoppedFacts
<1> HIDE DEF m
<1>6. Kept'
  BY <1>0, <1>1, <1>2, <1>3, <1>4, <1>5, SaveRelated DEF Before, Terminal
<1>7. Flowing'
  BY <1>1, <1>2, IdleFlows
<1> QED BY <1>6, <1>7, Parts

----------------------------------------------------------------------------
(* Kills and restarts                                                      *)

LEMMA InitialValues ==
  ASSUME NEW x \in Setting, NEW k \in Nat
  PROVE  InitMemory \in Memory(x) /\ InitMemory.exec \in 0..Len(InitMemory.att)
         /\ EmptyContext \in Contexts(x, k)
<1>1. /\ [i \in Steps |-> "pending"] \in [Steps -> Statuses]
      /\ [i \in Steps |-> 0] \in [Steps -> Nat] /\ [i \in Steps |-> FALSE] \in [Steps -> BOOLEAN]
  BY DEF Statuses
<1>2. [index |-> 1, status |-> [i \in Steps |-> "pending"], rollbacks |-> 0, interrupts |-> 0] \in Machine(x)
  BY <1>1, Parameters, SettingFields DEF Machine
<1>3. [since |-> [i \in Steps |-> 0], answered |-> [i \in Steps |-> FALSE]] \in Past
  BY <1>1 DEF Past
<1>4. <<>> \in Seq(Attempt) /\ 0 \in 0..x.attempts /\ Len(<<>>) = 0
  BY SettingFields
<1>5. InitMemory \in Memory(x) /\ InitMemory.exec \in 0..Len(InitMemory.att)
  BY <1>2, <1>3, <1>4 DEF InitMemory, Memory
<1>6. [val |-> 0, stale |-> FALSE, seen |-> <<>>, by |-> 0] \in Conclusion(x, k)
  BY SettingFields DEF Conclusion, Reads
<1>7. EmptyContext \in Contexts(x, k)
  BY <1>6 DEF EmptyContext, Contexts
<1> QED BY <1>5, <1>7

\* A process that is gone left on disk one of the two versions of its last save.
LEMMA LostKeeps ==
  ASSUME Kept, Lost, torn' = None, UNCHANGED <<setting, scripts, dctx, clock>>, used' \in Used,
         \/ meta' = meta /\ used'.torn = used.torn
         \/ meta' = torn /\ torn # None /\ used'.torn # 0
  PROVE  Kept' /\ Flowing'
<1>1. /\ mem' = InitMemory /\ ctx' = EmptyContext /\ strm' = [w \in Streams |-> Idle] /\ up' = FALSE
      /\ setting' = setting /\ scripts' = scripts /\ dctx' = dctx /\ clock' = clock
  BY DEF Lost
<1>2. setting \in Setting /\ clock \in Nat
  BY SettingIs DEF Kept, Typed
<1>3. Typed'
  BY <1>1, <1>2, InitialValues DEF Kept, Typed
<1>4. Snapshots'
  BY <1>1 DEF Kept, Snapshots
<1>5. Saved'
  BY <1>1 DEF Kept, Saved
<1>6. Filed'
  BY <1>1 DEF Kept, Filed
<1>7. Written(setting, scripts)'
  BY <1>1 DEF Kept, Written
<1>8. Flowing'
  BY <1>1, <1>2, IdleFlows
<1> QED BY <1>3, <1>4, <1>5, <1>6, <1>7, <1>8 DEF Kept

LEMMA CrashKeeps == ASSUME IInv, Crash \/ CrashInSave \/ Leave PROVE IInv'
<1>0. Kept /\ used \in Used
  BY Parts DEF Kept, Typed
<1>1. CASE Crash
  BY <1>0, <1>1, Counted, LostKeeps, Parts DEF Crash
<1>2. CASE CrashInSave
  BY <1>0, <1>2, Counted, LostKeeps, Parts DEF CrashInSave
<1>3. CASE Leave
  BY <1>0, <1>3, LostKeeps, Parts DEF Leave
<1> QED BY <1>1, <1>2, <1>3

\* What the restored stream waits for.
LEMMA RestoreKeeps == ASSUME IInv, NEW extra \in BOOLEAN, Restore(extra) PROVE IInv'
<1> DEFINE msg == IF extra THEN "text" ELSE meta.mem.inp
           e == AtTop("running", msg)
           r == CASE meta.status = "running"       -> e
                  [] meta.status = "waiting_input" -> Idle
                  [] OTHER                         -> Piece(e, "pc", "retry")
<1>0. Kept /\ Flowing
  BY Parts
<1>1. /\ ~up /\ up' = TRUE /\ mem' = meta.mem /\ ctx' = dctx /\ torn' = None
      /\ UNCHANGED <<setting, scripts, meta, dctx, clock, used>>
      /\ meta # None /\ ValidSnapshot(meta) /\ Set("cur", r)
  BY DEF Restore, CanRestore, Piece
<1>2. /\ setting \in Setting /\ meta \in File(setting) /\ Coherent(setting, scripts, meta.mem, dctx)
      /\ strm = [w \in Streams |-> Idle]
  BY <1>0, <1>1, SettingIs DEF Kept, Typed, Snapshots, Saved
<1>3. meta.mem \in Memory(setting)
  BY <1>2 DEF File
<1>4. Kept'
  <2>1. Typed'
    BY <1>0, <1>1, <1>2, <1>3 DEF Kept, Typed, Coherent, Attempts
  <2>2. Snapshots'
    BY <1>0, <1>1, <1>2 DEF Kept, Snapshots
  <2>3. Saved'
    BY <1>1 DEF Saved
  <2>4. Filed'
    BY <1>0, <1>1 DEF Kept, Filed
  <2>5. Written(setting, scripts)'
    BY <1>0, <1>1 DEF Kept, Written
  <2> QED BY SMTT(60), <2>1, <2>2, <2>3, <2>4, <2>5 DEF Kept
<1>5. msg \in {"none", "text", "answer"}
  BY <1>2, <1>3, MemoryFields
<1>6. e \in StreamState(setting) /\ e.pc = "top" /\ e.msg = msg
  BY <1>2, <1>5, StreamTypes
<1>7. Idle \in StreamState(setting) /\ Idle.pc = "idle"
  BY <1>2, StreamTypes
<1>8. /\ Piece(e, "pc", "retry") \in StreamState(setting) /\ Piece(e, "pc", "retry").pc = "retry"
      /\ Piece(e, "pc", "retry").msg = msg
  <2> HIDE DEF e
  <2> QED BY <1>6, StreamEdits
<1> HIDE DEF e
<1>9. /\ r \in StreamState(setting)
      /\ r.pc = "idle" \/ (r.pc \in {"top", "retry"} /\ r.msg = msg)
  BY <1>6, <1>7, <1>8
<1> HIDE DEF r
<1>10. meta.mem.sm.index \in Steps
  <2>1. meta.mem.sm.index \in 1..(N + 1) /\ N \in Nat /\ Steps = 1..N
    BY SMTT(60), <1>2, <1>3, MemoryFields, Parameters DEF Steps
  <2> QED BY <1>1, <2>1 DEF ValidSnapshot
<1>11. ~setting.a2a /\ msg = "answer" => meta.mem.hist.answered[meta.mem.sm.index]
  BY <1>2 DEF Coherent, Replied
<1>12. Entered(scripts', mem', r) /\ Current(setting, mem', r)
  BY <1>1, <1>9, <1>10, <1>11 DEF Entered, Current, InStep
<1>13. strm["cur"].pc = "idle"
  BY <1>2, <1>7 DEF Streams
<1>14. Flowing'
  BY <1>0, <1>1, <1>9, <1>12, <1>13, StreamMoves DEF Streams
<1> QED BY <1>4, <1>14, Parts

LEMMA RetryBackupKeeps == ASSUME IInv, NEW ok \in BOOLEAN, RetryBackup(ok) PROVE IInv'
<1> DEFINE r == strm["cur"]
           q == Piece(r, "pc", "top")
<1>0. Kept /\ Flowing
  BY Parts
<1>1. /\ r.pc = "retry" /\ up /\ UNCHANGED <<setting, scripts, up, clock>>
      /\ \/ Set("cur", q) /\ NoSave /\ UNCHANGED used
         \/ /\ Save("backup_blocked", mem.sm.index, meta.reason, mem, ctx) /\ Set("cur", Idle)
            /\ used' = [used EXCEPT !.block = @ + 1]
  BY DEF RetryBackup, Piece
<1>2. meta # None /\ r \in StreamState(setting) /\ Current(setting, mem, r)
  BY <1>0, <1>1, StreamsSaved DEF Flowing, Running, Streams
<1>3. /\ setting \in Setting /\ mem \in Memory(setting) /\ ctx \in Contexts(setting, clock) /\ used \in Used
      /\ clock \in Nat /\ Coherent(setting, scripts, mem, ctx)
  BY <1>0, <1>1, LiveFacts
<1>4. CASE Set("cur", q) /\ NoSave /\ UNCHANGED used
  <2>1. Kept'
    BY <1>0, <1>1, <1>2, <1>4, NoSaveKeeps
  <2>2. q \in StreamState(setting) /\ q.pc = "top" /\ q.msg = r.msg
    BY <1>2, StreamEdits
  <2> HIDE DEF q
  <2>3. mem' = mem
    BY <1>4 DEF NoSave
  <2>4. Entered(scripts', mem', q) /\ Current(setting, mem', q)
    BY <1>1, <1>2, <2>2, <2>3 DEF Entered, Current, InStep
  <2>5. Flowing'
    BY <1>0, <1>1, <1>4, <2>2, <2>4, StreamMoves DEF Streams
  <2> QED BY <2>1, <2>5, Parts
<1>5. CASE /\ Save("backup_blocked", mem.sm.index, meta.reason, mem, ctx) /\ Set("cur", Idle)
           /\ used' = [used EXCEPT !.block = @ + 1]
  <2>1. mem.sm.index \in Steps
    BY <1>1, <1>2 DEF Current
  <2>2. meta.reason \in {"none", "input", "terminal"}
    BY <1>0, <1>2 DEF Kept, Typed, File
  <2>3. Relates(setting, mem, mem)
    BY <1>3 DEF Relates, Coherent, Attempts, Replied
  <2>4. used' \in Used /\ used'.torn = used.torn
    BY <1>3, <1>5, Counted
  <2>5. Kept'
    BY <1>0, <1>1, <1>3, <1>5, <2>1, <2>2, <2>3, <2>4, SaveRelated DEF Before, Resumable
  <2>6. Idle \in StreamState(setting) /\ Idle.pc = "idle"
    BY <1>3, StreamTypes
  <2>7. Entered(scripts', mem', Idle) /\ Current(setting, mem', Idle)
    BY <2>6, EasyStreams
  <2>8. Flowing'
    BY <1>0, <1>1, <1>5, <2>6, <2>7, StreamMoves DEF Streams
  <2> QED BY <2>5, <2>8, Parts
<1> QED BY <1>1, <1>4, <1>5

----------------------------------------------------------------------------
(* The theorems                                                            *)

LEMMA InitHolds == ASSUME Init PROVE IInv
<1>1. /\ setting \in Settings /\ setting \in Setting
      /\ mem = InitMemory /\ ctx = EmptyContext /\ dctx = EmptyContext
      /\ scripts = [a \in 1..setting.attempts |-> NoScript]
      /\ strm = [w \in Streams |-> Idle] /\ up = TRUE /\ meta = None /\ torn = None /\ clock = 0
      /\ used = [crash |-> 0, torn |-> 0, block |-> 0, answer |-> 0, fail |-> 0, refused |-> 0]
  BY PipelineAssumption DEF Init, MaxAttempts
<1>2. /\ mem \in Memory(setting) /\ mem.exec \in 0..Len(mem.att) /\ clock \in Nat
      /\ ctx \in Contexts(setting, clock)
  BY <1>1, InitialValues
<1>3. NoScript \in Transcript(clock)
  BY <1>1, Parameters DEF NoScript, Transcript, Reads
<1>4. used \in Used
  BY <1>1 DEF Used
<1>5. Typed
  BY <1>1, <1>2, <1>3, <1>4 DEF Typed
<1>6. Coherent(setting, scripts, mem, ctx)
  <2>1. /\ Len(mem.att) = 0 /\ mem.exec = 0 /\ mem.sm.index = 1 /\ mem.inp = "none"
        /\ \A i \in Steps : mem.sm.status[i] = "pending" /\ mem.hist.since[i] = 0
    BY <1>1 DEF InitMemory
  <2>2. \A i \in Steps : ~(i < mem.sm.index)
    BY <2>1, Parameters DEF Steps
  <2>3. setting.attempts \in Nat /\ setting.waits \subseteq Steps
    BY <1>1, SettingFields
  <2>4. Attempts(setting, scripts, mem)
    BY <1>1, <2>1, <2>2, <2>3 DEF Attempts
  <2>5. Replied(setting, scripts, mem)
    BY <2>1, <2>2, <2>3 DEF Replied
  <2>6. Drawn(scripts, mem, ctx)
    BY <2>1, <2>2 DEF Drawn
  <2> QED BY <2>4, <2>5, <2>6 DEF Coherent
<1>7. Snapshots
  <2>1. Unstale(mem, ctx)
    BY <1>1 DEF Unstale, EmptyContext
  <2> QED BY <1>1, <1>6, <2>1 DEF Snapshots
<1>8. Saved /\ Filed
  BY <1>1 DEF Saved, Filed
<1>9. Written(setting, scripts)
  BY <1>1, NoScriptIs DEF Written
<1>10. Flowing
  <2>1. Idle \in StreamState(setting) /\ Idle.pc = "idle"
    BY <1>1, StreamTypes
  <2>2. strm["cur"] = Idle /\ strm["old"] = Idle /\ strm \in [Streams -> StreamState(setting)]
    BY <1>1, <2>1 DEF Streams
  <2>3. Entered(scripts, mem, Idle) /\ Current(setting, mem, Idle) /\ Replaced(setting, mem, Idle, Idle)
    BY <2>1, EasyStreams DEF Replaced
  <2> QED BY <2>2, <2>3 DEF Flowing, Running, Streams
<1> QED BY <1>5, <1>7, <1>8, <1>9, <1>10, Parts DEF Kept

LEMMA StepHolds == ASSUME IInv, [Next]_vars PROVE IInv'
<1>1. CASE UNCHANGED vars
  <2>1. Kept' /\ Flowing'
    <3>1. Kept /\ Flowing
      BY Parts
    <3>2. Typed' /\ Saved' /\ Filed'
      BY <1>1, <3>1 DEF vars, Kept, Typed, Saved, Filed
    <3>3. Snapshots' /\ Written(setting, scripts)' /\ Flowing'
      BY <1>1, <3>1 DEF vars, Kept, Snapshots, Flowing
    <3> QED BY <3>2, <3>3 DEF Kept
  <2> QED BY <2>1, Parts
<1>2. ASSUME NEW w \in Streams, StreamStep(w) \/ Fail(w) \/ BackupBlocks(w) PROVE IInv'
  <2>1. ASSUME NEW out \in {"ok", "ask", "exit", "rollback"}, NEW t \in Steps, Complete(w, out, t) PROVE IInv'
    BY <2>1, CompleteKeeps
  <2> QED BY <1>2, <2>1, EnterStepKeeps, EndStreamKeeps, ConverseKeeps, SettleKeeps, SettleParallelKeeps,
             BackupSucceedsKeeps, FailKeeps, BackupBlocksKeeps DEF StreamStep
<1>3. ASSUME NEW t \in Steps, Interrupt(t) PROVE IInv'
  BY <1>3, InterruptKeeps
<1>4. ASSUME NEW b \in BOOLEAN, Restore(b) \/ RetryBackup(b) PROVE IInv'
  BY <1>4, RestoreKeeps, RetryBackupKeeps
<1> QED BY <1>1, <1>2, <1>3, <1>4, StartKeeps, AnswerKeeps, StopKeeps, InterruptRefusedKeeps, RestartKeeps,
           CrashKeeps DEF Next

LEMMA Invariance == Spec => []IInv
<1>1. Init => IInv
  BY InitHolds
<1>2. IInv /\ [Next]_vars => IInv'
  BY StepHolds
<1> QED BY <1>1, <1>2, PTL DEF Spec

\* The position of the pipeline agrees with the statuses of its steps, and with the step of a
\* sidecar that is to be resumed: whatever was advanced, moved back, torn or restored
\* (advance, rollback, interrupt_rollback, _valid_state_machine_snapshot).
THEOREM Position == Spec => []PositionAgrees
<1>1. ASSUME IInv PROVE PositionAgrees
  <2>1. TypeOK /\ Kept
    BY <1>1, Parts DEF IInv
  <2>2. CompletedPrefix
    <3>1. CASE up
      BY <2>1, <3>1, LiveFacts DEF Coherent, Attempts, CompletedPrefix
    <3>2. CASE ~up
      <4>1. \A i \in Steps : mem.sm.status[i] = "pending" /\ mem.sm.index = 1
        BY <2>1, <3>2 DEF Kept, Saved, InitMemory
      <4> QED BY <4>1, Parameters DEF CompletedPrefix, Steps
    <3> QED BY <3>1, <3>2
  <2>3. ActiveIsRestorable
    BY <2>1 DEF Kept, Filed, Fits, ActiveIsRestorable, OldStreamIsHarmless, Harmless, A2A, Parallel
  <2> QED BY <2>1, <2>2, <2>3 DEF PositionAgrees
<1>2. IInv => PositionAgrees
  BY <1>1
<1> QED BY <1>2, Invariance, PTL

\* The pipeline does not pass a step that waits for its user before the user has answered it
\* since it was last reset (resume, awaiting_selection_again).
THEOREM Answered == Spec => []AdvanceNeedsAnswer
<1>1. ASSUME IInv PROVE AdvanceNeedsAnswer
  <2>1. Kept /\ setting \in Setting
    BY <1>1, Parts, SettingIs DEF Kept
  <2>2. CASE ~up
    <3>1. mem.sm.index = 1 /\ setting.waits \subseteq Steps
      BY <2>1, <2>2, SettingFields DEF Kept, Saved, InitMemory
    <3>2. \A i \in Steps : ~(i < mem.sm.index)
      BY <3>1, Parameters DEF Steps
    <3> QED BY <3>1, <3>2 DEF AdvanceNeedsAnswer, Waits
  <2>3. CASE up /\ ~setting.a2a
    BY <2>1, <2>3, LiveFacts DEF Coherent, Replied, AdvanceNeedsAnswer, Waits, Legacy
  <2>4. CASE setting.a2a
    <3>1. OldStreamIsHarmless => setting.waits = {}
      <4>1. (setting.parallel \union setting.exits) \intersect setting.waits = {}
        BY <2>1, PipelineAssumption DEF Kept, Typed
      <4> QED BY <2>1, <2>4, <4>1, SettingFields DEF OldStreamIsHarmless, A2A, Parallel
    <3> QED BY <3>1 DEF AdvanceNeedsAnswer, Waits
  <2> QED BY <2>2, <2>3, <2>4, <2>1 DEF Kept, Typed
<1>2. IInv => AdvanceNeedsAnswer
  BY <1>1
<1> QED BY <1>2, Invariance, PTL

\* What was rolled back or interrupted is redone: a step before the position was concluded by
\* an attempt begun since the last move back over it (apply_hard_interrupt, _ensure_parent_attempt).
THEOREM Redone == Spec => []RedoneAfterRollback
<1>1. ASSUME IInv PROVE RedoneAfterRollback
  <2>1. Kept
    BY <1>1, Parts
  <2>2. CASE ~up
    <3>1. mem.sm.index = 1
      BY <2>1, <2>2 DEF Kept, Saved, InitMemory
    <3>2. \A i \in Steps : ~(i < mem.sm.index)
      BY <3>1, Parameters DEF Steps
    <3> QED BY <3>2 DEF RedoneAfterRollback
  <2>3. CASE up
    BY <2>1, <2>3, LiveFacts DEF Coherent, Drawn, RedoneAfterRollback, OldStreamIsHarmless,
       NoneRefusedInParallel, Orderly, Harmless, A2A, Parallel
  <2> QED BY <2>2, <2>3
<1>2. IInv => RedoneAfterRollback
  BY <1>1
<1> QED BY <1>2, Invariance, PTL

\* A finished pipeline is of one piece: on disk, each conclusion was drawn from those next to it
\* and none is stale (PipelineContext, mark_stale).
THEOREM Whole == Spec => []FinishedIsCurrent
<1>1. ASSUME IInv PROVE FinishedIsCurrent
  <2>1. Kept
    BY <1>1, Parts
  <2>2. ASSUME meta # None, IsComplete(meta.mem.sm), NEW i \in Steps PROVE i < meta.mem.sm.index
    <3>1. meta.mem \in Memory(setting) /\ setting \in Setting
      BY <2>1, <2>2, SettingIs DEF Kept, Typed, File
    <3>2. meta.mem.sm.index \in 1..(N + 1) /\ N \in Nat /\ i \in 1..N
      BY <3>1, MemoryFields, Parameters DEF Steps
    <3> QED BY <2>2, <3>2 DEF IsComplete
  <2>3. BasisCurrent
    <3> SUFFICES ASSUME Orderly(setting), meta # None, IsComplete(meta.mem.sm), NEW i \in Steps
                 PROVE  dctx[i].val # 0 /\ \A d \in Deps[i] : dctx[i].seen[d] = dctx[d].val
      BY DEF BasisCurrent, OldStreamIsHarmless, NoneRefusedInParallel, Orderly, Harmless, A2A, Parallel
    <3>1. i < meta.mem.sm.index /\ Drawn(scripts, meta.mem, dctx)
      BY <2>1, <2>2 DEF Kept, Snapshots, Coherent
    <3> QED BY <3>1 DEF Drawn
  <2>4. NoStaleAtEnd
    <3> SUFFICES ASSUME Orderly(setting), used.torn = 0, meta # None, IsComplete(meta.mem.sm), NEW i \in Steps
                 PROVE  ~dctx[i].stale
      BY DEF NoStaleAtEnd, OldStreamIsHarmless, NoneRefusedInParallel, Orderly, Harmless, A2A, Parallel
    <3>1. i < meta.mem.sm.index /\ Unstale(meta.mem, dctx)
      BY <2>1, <2>2 DEF Kept, Snapshots
    <3> QED BY <3>1 DEF Unstale
  <2> QED BY <2>3, <2>4 DEF FinishedIsCurrent
<1>2. IInv => FinishedIsCurrent
  BY <1>1
<1> QED BY <1>2, Invariance, PTL
=============================================================================
