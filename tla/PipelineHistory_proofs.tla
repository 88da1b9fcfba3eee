------------------------ MODULE PipelineHistory_proofs ------------------------
(***************************************************************************)
(* Proofs about the stored history of a pipeline, for every server         *)
(* configuration and any number of events, failed writes and kills.        *)
(***************************************************************************)
EXTENDS PipelineHistory, SequenceTheorems, WellFoundedInduction, TLAPS

-----------------------------------------------------------------------------
(* Maxima.                                                                 *)

\* A nonempty, bounded set of numbers has a greatest one, and Max is it.
LEMMA MaxNat ==
  ASSUME NEW S \in SUBSET Nat, S # {}, NEW n \in Nat, \A x \in S : x <= n
  PROVE  Max(S) \in S /\ \A y \in S : y <= Max(S)
<1> DEFINE D == {n - x : x \in S}
<1>0. \A x \in S : n - x \in Nat
  OBVIOUS
<1>1. D \in SUBSET Nat /\ D # {}
  BY <1>0
<1>2. \E d \in D : \A y \in D : ~ (<<y, d>> \in OpToRel(<, Nat))
  <2> HIDE DEF D
  <2> QED BY <1>1, NatLessThanWellFounded, WFMin
<1>3. \A x, y \in Nat : ~ (<<y, x>> \in OpToRel(<, Nat)) => x <= y
  BY DEF OpToRel
<1>4. PICK d \in D : \A y \in D : d <= y
  BY <1>1, <1>2, <1>3
<1>5. PICK x \in S : d = n - x
  BY <1>4
<1>6. \A y \in S : x >= y
  <2> TAKE y \in S
  <2>1. n - y \in D
    OBVIOUS
  <2>2. n - x <= n - y
    BY <1>4, <1>5, <2>1
  <2> QED BY <2>2
<1> QED BY <1>6 DEF Max

\* Max of two and three numbers.
LEMMA MaxTwo ==
  ASSUME NEW a \in Nat, NEW b \in Nat
  PROVE  Max({a, b}) \in {a, b} /\ a <= Max({a, b}) /\ b <= Max({a, b})
<1>1. \A x \in {a, b} : x <= a + b
  OBVIOUS
<1> QED BY <1>1, MaxNat

LEMMA MaxThree ==
  ASSUME NEW a \in Nat, NEW b \in Nat, NEW c \in Nat
  PROVE  /\ Max({a, b, c}) \in {a, b, c}
         /\ a <= Max({a, b, c}) /\ b <= Max({a, b, c}) /\ c <= Max({a, b, c})
<1>1. \A x \in {a, b, c} : x <= a + b + c
  OBVIOUS
<1> QED BY <1>1, MaxNat, SMTT(60)

\* The events that exist once n have been taken.
Known(n) == [id : 1..n, seq : 1..n, kind : setting.kinds, split : {FALSE, Separators}]

LEMMA EventType ==
  \A n \in Nat : \A e \in Known(n) : e.id \in 1..n /\ e.seq \in 1..n
BY DEF Known

\* Highest is an upper bound of the numbers of the events, and within theirs.
LEMMA HighestBound ==
  ASSUME NEW n \in Nat, NEW evs \in SUBSET Known(n)
  PROVE  Highest(evs) \in 0..n /\ \A e \in evs : e.seq <= Highest(evs)
<1> DEFINE S == {0} \union {e.seq : e \in evs}
<1>0. \A e \in evs : e.seq \in 1..n
  BY DEF Known
<1>1. S \in SUBSET Nat /\ S # {} /\ \A x \in S : x <= n
  BY <1>0
<1>2. Max(S) \in S /\ \A y \in S : y <= Max(S)
  <2> HIDE DEF S
  <2> QED BY <1>1, MaxNat
<1>3. Highest(evs) = Max(S)
  BY DEF Highest
<1> QED BY <1>1, <1>2, <1>3
-----------------------------------------------------------------------------
(* The journal: what repairing and appending do to the events in it.       *)

Lines(E) == [evs : SUBSET E, form : {"whole", "open", "cut"}, split : BOOLEAN]

\* Only the last line may be incomplete, and a line has a separator only where
\* texts may.
Regular(f, E) ==
  /\ f \in Seq(Lines(E))
  /\ \A i \in 1..(Len(f) - 1) : f[i].form = "whole"
  /\ \A i \in 1..Len(f) : f[i].split => Separators

\* The events a reader finds.
Survivors(f) == Events(Mended(f))

\* A step of the journal: it loses no event a reader would have found, adds
\* none but the given ones, and makes no journal readable again.
Extends(f, g, new) ==
  /\ Survivors(f) \subseteq Survivors(g)
  /\ Survivors(g) \subseteq Survivors(f) \union new
  /\ Readable(g) => Readable(f)

LEMMA MendedRegular ==
  ASSUME NEW E, NEW f, Regular(f, E)
  PROVE  /\ Regular(Mended(f), E)
         /\ Clean(f) \/ Readable(f) => Clean(Mended(f))
         /\ Readable(Mended(f)) <=> Readable(f)
         /\ Mended(Mended(f)) = Mended(f)
<1> DEFINE n == Len(f)
<1>0. n \in Nat /\ DOMAIN f = 1..n /\ (\A i \in 1..n : f[i] \in Lines(E)) /\ (n = 0 <=> f = <<>>)
  BY DEF Regular
<1>1. CASE Clean(f) \/ ~Readable(f)
  <2>1. Mended(f) = f
    BY <1>1 DEF Mended
  <2> QED BY <1>1, <2>1
<1>2. CASE ~Clean(f) /\ Readable(f)
  <2>1. n > 0 /\ f[n].form # "whole"
    BY <1>0, <1>2 DEF Clean, Last
  <2>2. CASE f[n].form = "cut"
    <3> DEFINE g == SubSeq(f, 1, n - 1)
    <3>1. Mended(f) = g
      BY <1>2, <2>2 DEF Mended, Last, Front
    <3>2. g \in Seq(Lines(E)) /\ Len(g) = n - 1 /\ \A i \in 1..(n - 1) : g[i] = f[i]
      BY <1>0, <2>1, SubSeqProperties
    <3> HIDE DEF g
    <3>3. DOMAIN g = 1..(n - 1) /\ (n - 1 = 0 => g = <<>>)
      BY <3>2, <2>1
    <3>4. Clean(g)
      <4>1. n - 1 # 0 => n - 1 \in 1..(n - 1)
        BY <1>0, <2>1
      <4> QED BY <1>0, <2>1, <3>2, <3>3, <4>1 DEF Clean, Last, Regular
    <3>5. Readable(g)
      BY <1>0, <1>2, <3>2, <3>3 DEF Readable
    <3>6. Regular(g, E)
      BY <1>0, <2>1, <3>2, SMTT(60) DEF Regular
    <3>7. Mended(g) = g
      BY <3>4 DEF Mended
    <3> QED BY <1>2, <3>1, <3>4, <3>5, <3>6, <3>7
  <2>3. CASE f[n].form # "cut"
    <3> DEFINE l == [f[n] EXCEPT !.form = "whole"]
               g == [f EXCEPT ![n] = l]
    <3>1. Mended(f) = g
      BY <1>2, <2>3 DEF Mended, Last
    <3>2. n \in 1..n /\ l \in Lines(E) /\ l.form = "whole" /\ l.split = f[n].split /\ l.evs = f[n].evs
      BY <1>0, <2>1 DEF Lines
    <3> HIDE DEF l
    <3>3. g \in Seq(Lines(E)) /\ Len(g) = n /\ DOMAIN g = 1..n
          /\ \A i \in 1..n : g[i] = IF i = n THEN l ELSE f[i]
      BY <1>0, <3>2, ExceptSeq, SMTT(60) DEF Regular
    <3> HIDE DEF g
    <3>4. Clean(g)
      BY <3>2, <3>3, ZenonT(60) DEF Clean, Last
    <3>5. Readable(g)
      BY <1>0, <1>2, <3>2, <3>3, ZenonT(60) DEF Readable
    <3>6. Regular(g, E)
      <4>0. ASSUME NEW i \in 1..(n - 1) PROVE g[i] = f[i]
        <5>1. i \in 1..n /\ i # n
          <6>1. n \in Nat
            BY <1>0
          <6> HIDE DEF n
          <6> QED BY <6>1
        <5> QED BY <3>3, <5>1
      <4>1. \A i \in 1..(n - 1) : g[i].form = "whole"
        BY <4>0, SMTT(60) DEF Regular
      <4>2. \A i \in 1..n : g[i].split => Separators
        BY <1>0, <3>2, <3>3 DEF Regular
      <4> QED BY <3>3, <4>1, <4>2, ZenonT(60) DEF Regular
    <3>7. Mended(g) = g
      BY <3>4 DEF Mended
    <3> QED BY <1>2, <3>1, <3>4, <3>5, <3>6, <3>7
  <2> QED BY <2>2, <2>3
<1> QED BY <1>1, <1>2

\* Repairing the tail changes nothing for a reader.
LEMMA MendedExtends ==
  ASSUME NEW E, NEW f, Regular(f, E)
  PROVE  Extends(f, Mended(f), {})
BY MendedRegular DEF Extends, Survivors

\* A line added behind a complete journal: it is found if it is whole.
LEMMA GrownExtends ==
  ASSUME NEW E, NEW f, Regular(f, E), Clean(f),
         NEW l \in Lines(E), l.split => Separators
  PROVE  /\ Regular(Grown(f, l), E) /\ Extends(f, Grown(f, l), l.evs)
         /\ l.form = "whole" => l.evs \subseteq Survivors(Grown(f, l))
<1> DEFINE n == Len(f)
           g == Append(f, l)
<1>0. n \in Nat /\ DOMAIN f = 1..n /\ f \in Seq(Lines(E)) /\ (\A i \in 1..n : f[i].split => Separators)
  BY DEF Regular
<1>1. Grown(f, l) = g /\ Mended(f) = f
  BY DEF Grown, Mended
<1>2. \A i \in 1..n : f[i].form = "whole"
  <2>1. n # 0 => f[n].form = "whole"
    BY <1>0 DEF Clean, Last
  <2>2. \A i \in 1..(n - 1) : f[i].form = "whole"
    BY DEF Regular
  <2> HIDE DEF n
  <2>3. \A i \in 1..n : i \in 1..(n - 1) \/ (i = n /\ n # 0)
    BY <1>0
  <2> QED BY <2>1, <2>2, <2>3
<1>3. /\ g \in Seq(Lines(E)) /\ Len(g) = n + 1 /\ DOMAIN g = 1..(n + 1) /\ g[n + 1] = l
      /\ \A i \in 1..n : g[i] = f[i]
  BY <1>0
<1> HIDE DEF n, g
<1>4. 1..(n + 1) = 1..n \union {n + 1} /\ (n + 1) - 1 = n /\ n + 1 # 0
  BY <1>0
<1>5. Events(g) = Events(f) \union l.evs
  BY <1>0, <1>3, <1>4 DEF Events
<1>6. Regular(g, E)
  <2>1. \A i \in 1..(Len(g) - 1) : g[i].form = "whole"
    BY <1>2, <1>3, <1>4
  <2>2. \A i \in 1..Len(g) : g[i].split => Separators
    BY <1>0, <1>3, <1>4
  <2> QED BY <1>3, <2>1, <2>2 DEF Regular
<1>7. Readable(g) => Readable(f)
  BY <1>0, <1>3, <1>4 DEF Readable
<1>8. Clean(g) <=> l.form = "whole"
  <2>1. g # <<>>
    BY <1>3, <1>4
  <2> QED BY <1>3, <2>1 DEF Clean, Last
<1>9. CASE l.form = "whole" \/ ~Readable(g)
  <2>1. Mended(g) = g
    BY <1>8, <1>9 DEF Mended
  <2> QED BY <1>1, <1>5, <1>6, <1>7, <2>1 DEF Extends, Survivors
<1>10. CASE l.form = "cut" /\ Readable(g)
  <2> DEFINE h == SubSeq(g, 1, n)
  <2>1. Mended(g) = h
    BY <1>3, <1>4, <1>8, <1>10 DEF Mended, Last, Front
  <2>2. Len(h) = n /\ (\A i \in 1..n : h[i] = g[i]) /\ h \in Seq(Lines(E))
    BY <1>0, <1>3, <1>4, SubSeqProperties
  <2> HIDE DEF h
  <2>3. h = f
    BY <1>0, <1>3, <2>2, SeqEqual DEF n
  <2> QED BY <1>1, <1>6, <1>7, <1>10, <2>1, <2>3 DEF Extends, Survivors
<1>11. CASE l.form = "open" /\ Readable(g)
  <2> DEFINE m == [l EXCEPT !.form = "whole"]
             h == [g EXCEPT ![n + 1] = m]
  <2>1. Mended(g) = h
    BY <1>3, <1>8, <1>11 DEF Mended, Last
  <2>2. m \in Lines(E) /\ m.evs = l.evs
    BY DEF Lines
  <2> HIDE DEF m
  <2>3. DOMAIN h = 1..(n + 1) /\ h[n + 1] = m /\ \A i \in 1..n : h[i] = f[i]
    BY <1>0, <1>3, <1>4
  <2> HIDE DEF h
  <2>4. Events(h) = Events(f) \union l.evs
    BY <1>0, <1>4, <2>2, <2>3, ZenonT(60) DEF Events
  <2> QED BY <1>1, <1>6, <1>7, <1>11, <2>1, <2>4 DEF Extends, Survivors
<1> QED BY <1>9, <1>10, <1>11 DEF Lines

\* _append_journal_bytes without and with an error.
LEMMA AppendExtends ==
  ASSUME NEW E, NEW f, Regular(f, E), NEW evs \in SUBSET E,
         \A e \in evs : e.split \in BOOLEAN /\ (e.split => Separators)
  PROVE  LET r == Appended(f, Line(evs))
         IN /\ Regular(r.file, E) /\ Extends(f, r.file, evs)
            /\ r.ok \in BOOLEAN /\ (r.ok => evs \subseteq Survivors(r.file))
<1> DEFINE l == Line(evs)
           h == Mended(f)
<1>1. l \in Lines(E) /\ l.evs = evs /\ l.form = "whole" /\ (l.split => Separators)
  BY DEF Line, Lines
<1> HIDE DEF l
<1>2. CASE Clean(f) \/ Readable(f)
  <2>1. Appended(f, l) = [ok |-> TRUE, file |-> Grown(h, l)]
    BY <1>2 DEF Appended, Prepared
  <2>2. Regular(h, E) /\ Clean(h) /\ Extends(f, h, {})
    BY <1>2, MendedRegular, MendedExtends
  <2> HIDE DEF h
  <2>3. Regular(Grown(h, l), E) /\ Extends(h, Grown(h, l), evs) /\ evs \subseteq Survivors(Grown(h, l))
    BY <1>1, <2>2, GrownExtends
  <2>4. Extends(f, Grown(h, l), evs)
    BY <2>2, <2>3 DEF Extends
  <2> QED BY <2>1, <2>3, <2>4 DEF l
<1>3. CASE ~(Clean(f) \/ Readable(f))
  <2>1. Appended(f, l) = [ok |-> FALSE, file |-> f]
    BY <1>3 DEF Appended, Prepared
  <2> QED BY <2>1 DEF l, Extends
<1> QED BY <1>2, <1>3

LEMMA FaultExtends ==
  ASSUME NEW E, NEW f, Regular(f, E), NEW evs \in SUBSET E,
         \A e \in evs : e.split \in BOOLEAN /\ (e.split => Separators),
         NEW g \in AppendFaults(f, Line(evs))
  PROVE  Regular(g, E) /\ Extends(f, g, evs)
<1> DEFINE l == Line(evs)
           h == Mended(f)
<1>1. l \in Lines(E) /\ l.evs = evs /\ (l.split => Separators)
  BY DEF Line, Lines
<1>2. Clean(f) \/ Readable(f)
  BY DEF AppendFaults, Prepared
<1>3. Regular(h, E) /\ Clean(h) /\ Extends(f, h, {})
  BY <1>2, MendedRegular, MendedExtends
<1>4. g = h \/ \E t \in Torn(l) : g = Grown(h, t)
  BY <1>2 DEF AppendFaults, Prepared, RolledBack
<1> HIDE DEF l, h
<1>5. ASSUME NEW t \in Torn(l), g = Grown(h, t)
      PROVE  Regular(g, E) /\ Extends(f, g, evs)
  <2>1. t \in Lines(E) /\ t.evs = evs /\ (t.split => Separators)
    BY <1>1 DEF Torn, Lines
  <2>2. Regular(g, E) /\ Extends(h, g, evs)
    BY <1>3, <1>5, <2>1, GrownExtends
  <2> QED BY <1>3, <2>2 DEF Extends
<1>6. g = h => Regular(g, E) /\ Extends(f, g, evs)
  BY <1>3 DEF Extends
<1> QED BY <1>4, <1>5, <1>6

-----------------------------------------------------------------------------
(* The inductive invariant.                                                *)

Snapshots(n) == [seen : SUBSET (1..n), last : 0..n]

Publishers(n) ==
  [seq : 0..n, last : 0..n, journal : SUBSET Known(n), snapshot : SUBSET Known(n),
   cache : Snapshots(n) \union {None}]

\* Every number is at most the number of events taken.
Types ==
  /\ setting \in Setting /\ taken \in 0..MaxEvents
  /\ Regular(journal, Known(taken)) /\ snap \in Snapshots(taken)
  /\ pub # None => pub \in Publishers(taken)
  /\ pc \in {"idle", "flush", "append", "save"} /\ kept \in BOOLEAN
  /\ pc = "idle" => cur = None
  /\ pc # "idle" => cur \in Known(taken) /\ pub # None
  /\ pc = "flush" => Extreme
  /\ published \in Seq(Known(taken))

\* The events that are in the journal or on their way to it.
Held ==
  Survivors(journal) \union (IF pub = None THEN {} ELSE pub.journal)
    \union (IF pc = "idle" THEN {} ELSE {cur})

\* A number stands for one event also among those on their way, and the
\* publisher's counters are beyond all of them.
Identified ==
  /\ pub # None /\ ~Extreme => pub.journal = {}
  /\ (Extreme => Readable(journal)) => \A e, d \in Held : e.seq = d.seq => e.id = d.id
  /\ Extreme /\ Readable(journal) /\ pub # None =>
       \A e \in Held : e.seq <= pub.seq \/ e.seq <= pub.last

\* The event under way is behind the snapshot.
Recoverable ==
  ~Extreme =>
    /\ pc # "idle" => cur.seq > snap.last
    /\ \A e \in Survivors(journal) : e.id \in snap.seen \/ e.seq > snap.last

\* A number that was handed on is remembered: the next one is beyond it.
Growing ==
  ~Extreme /\ ~setting.double =>
    /\ \A i, j \in DOMAIN published : i < j => published[i].seq < published[j].seq
    /\ pc # "idle" => \A i \in DOMAIN published : published[i].seq < cur.seq
    /\ Readable(journal) =>
         \A i \in DOMAIN published :
           \/ published[i].seq <= snap.last
           \/ \E d \in Survivors(journal) : published[i].seq <= d.seq

\* What the client must find again is in the snapshot or the journal; the
\* cached snapshot that replaces the snapshot drops only what the journal has.
Durable ==
  /\ pc = "save" /\ kept => cur \in Survivors(journal)
  /\ Extreme /\ pub # None /\ pub.cache # None =>
       \A x \in snap.seen : x \in pub.cache.seen \/ \E e \in Survivors(journal) : e.id = x
  /\ \A i \in DOMAIN published :
       published[i].kind \in {"semantic", "journaled"} =>
         published[i].id \in snap.seen \/ \E e \in Survivors(journal) : e.id = published[i].id

IInv == Types /\ Identified /\ Recoverable /\ Growing /\ Durable

-----------------------------------------------------------------------------
(* What later states keep.                                                 *)

\* The types grow with the number of events.
LEMMA TypesGrow ==
  ASSUME NEW n \in Nat, NEW m \in Nat, n <= m
  PROVE  /\ Known(n) \subseteq Known(m) /\ Snapshots(n) \subseteq Snapshots(m)
         /\ Publishers(n) \subseteq Publishers(m)
         /\ \A f : Regular(f, Known(n)) => Regular(f, Known(m))
         /\ Seq(Known(n)) \subseteq Seq(Known(m))
<1>0. 1..n \subseteq 1..m /\ 0..n \subseteq 0..m
  OBVIOUS
<1>1. Known(n) \subseteq Known(m)
  BY <1>0 DEF Known
<1>2. Snapshots(n) \subseteq Snapshots(m)
  BY <1>0 DEF Snapshots
<1>3. Publishers(n) \subseteq Publishers(m)
  BY <1>0, <1>1, <1>2 DEF Publishers
<1>4. Lines(Known(n)) \subseteq Lines(Known(m))
  BY <1>1 DEF Lines
<1>5. \A f : f \in Seq(Lines(Known(n))) => f \in Seq(Lines(Known(m)))
  BY <1>4, SeqMonotonic
<1>6. \A f : f \in Seq(Known(n)) => f \in Seq(Known(m))
  BY <1>1, SeqMonotonic
<1> QED BY <1>1, <1>2, <1>3, <1>5, <1>6 DEF Regular

\* The definitions that depend on the configuration only keep their value.
LEMMA SameSetting ==
  ASSUME setting' = setting
  PROVE  /\ Extreme' <=> Extreme
         /\ Separators' = Separators
         /\ \A n : Known(n)' = Known(n)
         /\ \A n : Publishers(n)' = Publishers(n)
         /\ \A f, E : Regular(f, E)' <=> Regular(f, E)
         /\ Survivors(journal)' = Survivors(journal')
         /\ Readable(journal)' <=> Readable(journal')
BY DEF Extreme, Separators, Known, Publishers, Snapshots, Regular, Survivors, Readable, Lines,
       Events, Mended, Clean

\* Events and publishers are not None.
LEMMA NotNone ==
  ASSUME setting \in Setting, NEW n \in Nat
  PROVE  None \notin Known(n) /\ None \notin Publishers(n)
<1>1. Known(n) \subseteq Envelope
  <2>1. setting.kinds \subseteq Kinds /\ Separators \in BOOLEAN
    BY DEF Setting, Separators
  <2>2. 1..n \subseteq Nat
    OBVIOUS
  <2> QED BY <2>1, <2>2 DEF Known, Envelope
<1>2. Publishers(n) \subseteq PublisherState
  <2>1. 0..n \subseteq Nat /\ 1..n \subseteq Nat
    OBVIOUS
  <2>2. Snapshots(n) \subseteq [seen : SUBSET Nat, last : Nat]
    BY <2>1 DEF Snapshots
  <2> QED BY <1>1, <2>1, <2>2 DEF Publishers, PublisherState
<1> QED BY <1>1, <1>2, HistoryAssumption

\* Events are as AppendExtends needs them.
LEMMA EventSplit ==
  ASSUME setting \in Setting, NEW n, NEW evs \in SUBSET Known(n)
  PROVE  \A e \in evs : e.split \in BOOLEAN /\ (e.split => Separators)
BY DEF Known, Setting, Separators

\* The events found, and those on their way, are events.
LEMMA SurvivorsType ==
  ASSUME NEW E, NEW f, Regular(f, E)
  PROVE  Survivors(f) \subseteq E
<1> DEFINE g == Mended(f)
<1>1. Regular(g, E)
  BY MendedRegular
<1> HIDE DEF g
<1>2. \A i \in DOMAIN g : g[i] \in Lines(E)
  BY <1>1 DEF Regular
<1>3. \A i \in DOMAIN g : g[i].evs \subseteq E
  BY <1>2 DEF Lines
<1> QED BY <1>3 DEF Survivors, Events, g

LEMMA HeldType ==
  ASSUME Types
  PROVE  Held \subseteq Known(taken)
<1>1. Survivors(journal) \subseteq Known(taken)
  BY SurvivorsType DEF Types
<1>2. pub # None => pub.journal \subseteq Known(taken)
  BY DEF Types, Publishers
<1> QED BY <1>1, <1>2 DEF Held, Types

\* No new event is on its way and the counters do not go back.
LEMMA KeepsIdentified ==
  ASSUME Types, Types', Identified, setting' = setting, Held' \subseteq Held,
         Readable(journal') => Readable(journal),
         pub' # None => /\ pub # None /\ pub'.journal \subseteq pub.journal
                        /\ pub'.seq >= pub.seq /\ pub'.last >= pub.last
  PROVE  Identified'
<1>0. /\ Extreme' <=> Extreme
      /\ Readable(journal)' <=> Readable(journal')
  BY SameSetting
<1>1. (pub # None /\ ~Extreme => pub.journal = {})'
  BY <1>0 DEF Identified
<1>2. ((Extreme => Readable(journal)) => \A e, d \in Held : e.seq = d.seq => e.id = d.id)'
  BY <1>0 DEF Identified
<1>3. (Extreme /\ Readable(journal) /\ pub # None =>
        \A e \in Held : e.seq <= pub.seq \/ e.seq <= pub.last)'
  <2> SUFFICES ASSUME Extreme', Readable(journal)', pub' # None, NEW e \in Held'
               PROVE  e.seq <= pub'.seq \/ e.seq <= pub'.last
    OBVIOUS
  <2>1. e.seq <= pub.seq \/ e.seq <= pub.last
    BY <1>0 DEF Identified
  <2>2. e.seq \in Nat /\ pub.seq \in Nat /\ pub.last \in Nat /\ pub'.seq \in Nat /\ pub'.last \in Nat
    <3>1. taken \in Nat /\ taken' \in Nat /\ pub \in Publishers(taken) /\ pub' \in Publishers(taken)'
      BY DEF Types
    <3>2. pub.seq \in 0..taken /\ pub.last \in 0..taken /\ pub'.seq \in 0..taken' /\ pub'.last \in 0..taken'
      BY <3>1 DEF Publishers
    <3>3. e.seq \in 1..taken
      BY HeldType DEF Known
    <3> QED BY <3>1, <3>2, <3>3
  <2> QED BY <2>1, <2>2
<1> QED BY <1>1, <1>2, <1>3 DEF Identified

LEMMA KeepsRecoverable ==
  ASSUME Recoverable, setting' = setting, snap' = snap,
         ~Extreme => Survivors(journal') \subseteq Survivors(journal) \union
                       (IF pc = "idle" THEN {} ELSE {cur}),
         pc' # "idle" => pc # "idle" /\ cur' = cur
  PROVE  Recoverable'
BY SameSetting DEF Recoverable

LEMMA KeepsGrowing ==
  ASSUME Growing, setting' = setting, snap' = snap, published' = published,
         Survivors(journal) \subseteq Survivors(journal'),
         Readable(journal') => Readable(journal),
         pc' # "idle" => pc # "idle" /\ cur' = cur
  PROVE  Growing'
BY SameSetting DEF Growing

\* Only text is handed on, and the cached snapshot stays.
LEMMA KeepsDurable ==
  ASSUME Durable, setting' = setting, snap' = snap,
         Survivors(journal) \subseteq Survivors(journal'),
         pc' = "save" /\ kept' => cur' \in Survivors(journal'),
         pub' # None /\ pub'.cache # None => pub # None /\ pub'.cache = pub.cache,
         \A i \in DOMAIN published' :
           \/ i \in DOMAIN published /\ published'[i] = published[i]
           \/ published'[i].kind \notin {"semantic", "journaled"}
  PROVE  Durable'
BY SameSetting DEF Durable

-----------------------------------------------------------------------------
(* The steps.                                                              *)

LEMMA OpenKeeps ==
  ASSUME IInv, Open
  PROVE  IInv'
<1> USE DEF IInv
<1> DEFINE k == IF Readable(journal) THEN Highest(Survivors(journal)) ELSE 0
<1>0. /\ pub = None /\ journal' = Mended(journal) /\ pub' = Publisher(k) /\ pc = "idle"
      /\ UNCHANGED <<setting, snap, pc, cur, kept, taken, published>>
  BY DEF Open, Survivors, Types
<1>1. Regular(journal', Known(taken)) /\ Extends(journal, journal', {})
  BY <1>0, MendedRegular, MendedExtends DEF Types
<1>2. taken \in Nat /\ Survivors(journal) \subseteq Known(taken)
  BY SurvivorsType DEF Types
<1>3. k \in 0..taken /\ (Readable(journal) => \A e \in Survivors(journal) : e.seq <= k)
  BY <1>2, HighestBound
<1> HIDE DEF k
<1>4. /\ pub'.journal = {} /\ pub'.cache = None /\ pub'.seq = k
      /\ pub' \in Publishers(taken)
  BY <1>0, <1>3, <1>2 DEF Publisher, Publishers
<1>5. Types'
  BY <1>0, <1>1, <1>4, SameSetting DEF Types, Snapshots
<1>6. Held' = Survivors(journal) /\ Held = Survivors(journal) /\ (Readable(journal)' <=> Readable(journal'))
      /\ (Readable(journal') => Readable(journal))
  BY <1>0, <1>1, <1>4, SameSetting DEF Held, Extends
<1>7. Identified'
  BY <1>0, <1>3, <1>4, <1>6, SameSetting DEF Identified
<1>8. Recoverable' /\ Growing'
  BY <1>0, <1>1, KeepsRecoverable, KeepsGrowing DEF Extends
<1>9. Durable'
  BY <1>0, <1>1, <1>4, KeepsDurable DEF Extends
<1> QED BY <1>5, <1>7, <1>8, <1>9

LEMMA KillKeeps ==
  ASSUME IInv, Kill
  PROVE  IInv'
<1> USE DEF IInv
<1> DEFINE new == IF pc = "idle" THEN {} ELSE IF pc = "flush" THEN pub.journal ELSE {cur}
<1>0. /\ pub # None /\ pub' = None /\ pc' = "idle" /\ cur' = None /\ kept' = FALSE
      /\ UNCHANGED <<setting, snap, taken, published>>
      /\ \/ journal' = journal
         \/ pc \in {"flush", "append"} /\ journal' \in AppendFaults(journal, Line(new))
  BY DEF Kill
<1>1. new \subseteq Held /\ new \subseteq Known(taken) /\ (~Extreme => pc # "flush")
  BY <1>0, HeldType DEF Held, Types
<1> HIDE DEF new
<1>2. Regular(journal', Known(taken)) /\ Extends(journal, journal', new)
  <2>1. CASE journal' = journal
    BY <2>1 DEF Extends, Types
  <2>2. CASE journal' \in AppendFaults(journal, Line(new))
    BY <1>1, <2>2, EventSplit, FaultExtends DEF Types
  <2> QED BY <1>0, <2>1, <2>2
<1>3. Types'
  BY <1>0, <1>2, SameSetting DEF Types, Snapshots
<1>4. Held' \subseteq Held
  BY <1>0, <1>1, <1>2, SameSetting DEF Held, Extends
<1>5. Identified'
  BY <1>0, <1>2, <1>3, <1>4, KeepsIdentified DEF Extends
<1>6. ~Extreme => new \subseteq (IF pc = "idle" THEN {} ELSE {cur})
  BY <1>1 DEF new
<1>7. Recoverable'
  BY <1>0, <1>2, <1>6, KeepsRecoverable DEF Extends
<1>8. Growing' /\ Durable'
  BY <1>0, <1>2, KeepsGrowing, KeepsDurable DEF Extends
<1> QED BY <1>3, <1>5, <1>7, <1>8

LEMMA SkipKeeps ==
  ASSUME IInv, SkipEvent
  PROVE  IInv'
<1> USE DEF IInv
<1>0. /\ pub # None /\ pc = "idle" /\ ~Extreme /\ taken < MaxEvents /\ taken' = taken + 1
      /\ pub' = [pub EXCEPT !.seq = @ + 1]
      /\ UNCHANGED <<setting, journal, snap, pc, cur, kept, published>>
  BY DEF SkipEvent, Idle
<1>1. taken \in Nat /\ taken + 1 \in Nat /\ taken <= taken + 1 /\ taken' \in 0..MaxEvents
      /\ pub \in Publishers(taken)
  BY <1>0, HistoryAssumption DEF Types
<1>2. pub' \in Publishers(taken + 1) /\ pub'.journal = pub.journal /\ pub'.cache = pub.cache
      /\ pub.seq \in Nat /\ pub.last \in Nat /\ pub'.seq = pub.seq + 1 /\ pub'.last = pub.last
  <2>1. pub.seq \in 0..taken /\ pub \in Publishers(taken + 1)
    BY <1>1, TypesGrow DEF Publishers
  <2>2. pub.seq + 1 \in 0..(taken + 1) /\ pub.seq \in Nat /\ pub.last \in Nat
    BY <1>1, <2>1 DEF Publishers
  <2> QED BY <1>0, <2>1, <2>2 DEF Publishers
<1>3. Types'
  <2>1. Regular(journal, Known(taken + 1)) /\ snap \in Snapshots(taken + 1)
        /\ published \in Seq(Known(taken + 1))
    BY <1>1, TypesGrow DEF Types
  <2>2. Known(taken)' = Known(taken + 1) /\ Snapshots(taken)' = Snapshots(taken + 1)
        /\ Publishers(taken)' = Publishers(taken + 1)
    BY <1>0 DEF Known, Snapshots, Publishers, Separators
  <2>3. Regular(journal, Known(taken))' /\ (published \in Seq(Known(taken)))'
    BY <1>0, <2>1, <2>2 DEF Regular, Lines, Separators
  <2>4. snap' \in Snapshots(taken)' /\ pub' \in Publishers(taken)' /\ taken' \in 0..MaxEvents
    BY <1>0, <1>1, <1>2, <2>1, <2>2
  <2>5. setting' \in Setting /\ kept' \in BOOLEAN /\ pc' = "idle" /\ cur' = None
    BY <1>0 DEF Types
  <2> QED BY <2>3, <2>4, <2>5 DEF Types
<1>4. Held' \subseteq Held
  BY <1>0, <1>2, SameSetting DEF Held
<1>5. Identified'
  BY <1>0, <1>2, <1>3, <1>4, KeepsIdentified
<1>6. Recoverable' /\ Growing' /\ Durable'
  BY <1>0, <1>2, KeepsRecoverable, KeepsGrowing, KeepsDurable
<1> QED BY <1>3, <1>5, <1>6

\* A flush, whether it fails or not: the deferred events may be in the journal,
\* and the publisher forgets them or not.
LEMMA FlushKeeps ==
  ASSUME IInv, Flush \/ FlushFails
  PROVE  IInv'
<1> USE DEF IInv
<1>0. /\ pc = "flush" /\ Extreme /\ pub # None /\ pub \in Publishers(taken) /\ cur \in Known(taken)
      /\ taken \in Nat /\ setting \in Setting /\ published \in Seq(Known(taken))
      /\ Regular(journal, Known(taken))
  BY DEF Flush, FlushFails, Types
<1>1. AfterFlush /\ UNCHANGED <<setting, snap, kept, taken>>
  BY DEF Flush, FlushFails, AfterFlush
<1>2. pub.journal \subseteq Known(taken) /\ pub.journal \subseteq Held /\ cur \in Held
  BY <1>0 DEF Publishers, Held
<1>3. Regular(journal', Known(taken)) /\ Extends(journal, journal', pub.journal)
  <2>1. \A e \in pub.journal : e.split \in BOOLEAN /\ (e.split => Separators)
    BY <1>0, <1>2, EventSplit
  <2>2. CASE Flush
    BY <1>0, <1>2, <2>1, <2>2, AppendExtends DEF Flush
  <2>3. CASE FlushFails
    BY <1>0, <1>2, <2>1, <2>3, FaultExtends DEF FlushFails
  <2> QED BY <2>2, <2>3
<1>4. /\ pub' \in Publishers(taken) /\ pub'.journal \subseteq pub.journal
      /\ pub'.seq = pub.seq /\ pub'.last = pub.last /\ pub'.cache = pub.cache
  <2>1. CASE Flush
    BY <1>0, <2>1 DEF Flush, Publishers
  <2>2. CASE FlushFails
    BY <1>0, <2>2 DEF FlushFails
  <2> QED BY <2>1, <2>2
<1>5. pub' # None
  BY <1>0, <1>4, NotNone
<1>6. \/ pc' = "idle" /\ cur' = None /\ published' = Append(published, cur) /\ cur.kind = "delta"
      \/ pc' = "append" /\ cur' = cur /\ published' = published
  BY <1>1 DEF AfterFlush, Deferred
<1>7. /\ published' \in Seq(Known(taken))
      /\ \A i \in DOMAIN published' :
           \/ i \in DOMAIN published /\ published'[i] = published[i]
           \/ published'[i].kind \notin {"semantic", "journaled"}
  <2>1. CASE published' = Append(published, cur) /\ cur.kind = "delta"
    BY <1>0, <2>1
  <2>2. CASE published' = published
    BY <1>0, <2>2
  <2> QED BY <1>6, <2>1, <2>2
<1>8. Types'
  BY <1>0, <1>1, <1>3, <1>4, <1>5, <1>6, <1>7, SameSetting DEF Types, Snapshots
<1>9. Held' \subseteq Held
  BY <1>0, <1>1, <1>2, <1>3, <1>4, <1>6, SameSetting DEF Held, Extends
<1>10. pub.seq \in Nat /\ pub.last \in Nat
  BY <1>0 DEF Publishers
<1>11. Identified'
  BY <1>0, <1>1, <1>3, <1>4, <1>8, <1>9, <1>10, KeepsIdentified DEF Extends
<1>12. Recoverable' /\ Growing'
  BY <1>0, <1>1, SameSetting DEF Recoverable, Growing
<1>13. Durable'
  BY <1>1, <1>3, <1>4, <1>0, <1>6, <1>7, KeepsDurable DEF Extends
<1> QED BY <1>8, <1>11, <1>12, <1>13

\* The append of the event itself.
LEMMA AppendKeeps ==
  ASSUME IInv, AppendEvent \/ AppendFails
  PROVE  IInv'
<1> USE DEF IInv
<1>0. /\ pc = "append" /\ pub # None /\ cur \in Known(taken) /\ setting \in Setting
      /\ Regular(journal, Known(taken)) /\ {cur} \subseteq Held
  BY DEF AppendEvent, AppendFails, Types, Held
<1>1. pc' = "save" /\ UNCHANGED <<setting, snap, pub, cur, taken, published>>
  BY DEF AppendEvent, AppendFails, AfterAppend
<1>2. /\ Regular(journal', Known(taken)) /\ Extends(journal, journal', {cur})
      /\ kept' \in BOOLEAN /\ (kept' => cur \in Survivors(journal'))
  <2>0. {cur} \in SUBSET Known(taken)
        /\ \A e \in {cur} : e.split \in BOOLEAN /\ (e.split => Separators)
    BY <1>0, EventSplit
  <2>1. CASE AppendEvent
    <3> DEFINE r == Appended(journal, Line({cur}))
    <3>1. journal' = r.file /\ kept' = r.ok
      BY <2>1 DEF AppendEvent, AfterAppend
    <3>2. /\ Regular(r.file, Known(taken)) /\ Extends(journal, r.file, {cur})
          /\ r.ok \in BOOLEAN /\ (r.ok => {cur} \subseteq Survivors(r.file))
      BY <1>0, <2>0, AppendExtends
    <3> HIDE DEF r
    <3> QED BY <3>1, <3>2
  <2>2. CASE AppendFails
    BY <1>0, <2>0, <2>2, FaultExtends DEF AppendFails, AfterAppend
  <2> QED BY <2>1, <2>2
<1>3. Types'
  BY <1>0, <1>1, <1>2, SameSetting DEF Types, Snapshots
<1>4. Held' \subseteq Held
  BY <1>0, <1>1, <1>2, SameSetting DEF Held, Extends
<1>5. pub.seq \in Nat /\ pub.last \in Nat
  BY <1>0 DEF Types, Publishers
<1>6. Identified'
  BY <1>0, <1>1, <1>2, <1>3, <1>4, <1>5, KeepsIdentified DEF Extends
<1>7. Recoverable' /\ Growing'
  BY <1>0, <1>1, <1>2, KeepsRecoverable, KeepsGrowing DEF Extends
<1>8. Durable'
  BY <1>0, <1>1, <1>2, KeepsDurable DEF Extends
<1> QED BY <1>3, <1>6, <1>7, <1>8

\* reduce_pipeline_events contains what it is given and goes as far.
LEMMA ReduceType ==
  ASSUME NEW n \in Nat, NEW s \in Snapshots(n), NEW evs \in SUBSET Known(n)
  PROVE  LET r == Reduce(s, evs)
         IN /\ r \in Snapshots(n) /\ s.seen \subseteq r.seen /\ s.last <= r.last
            /\ \A e \in evs : e.id \in r.seen /\ e.seq <= r.last
            /\ \A x \in r.seen : x \in s.seen \/ \E e \in evs : e.id = x
<1> DEFINE h == Highest(evs)
           m == Max({s.last, h})
<1>1. h \in 0..n /\ \A e \in evs : e.seq <= h
  BY HighestBound
<1>2. s.last \in 0..n /\ s.seen \subseteq 1..n /\ \A e \in evs : e.id \in 1..n /\ e.seq \in 1..n
  BY DEF Snapshots, Known
<1> HIDE DEF h
<1>3. m \in {s.last, h} /\ s.last <= m /\ h <= m
  BY <1>1, <1>2, MaxTwo
<1> HIDE DEF m
<1>4. m \in 0..n /\ \A e \in evs : e.seq <= m
  BY <1>1, <1>2, <1>3
<1>5. Reduce(s, evs) = [seen |-> s.seen \union {e.id : e \in evs}, last |-> m]
  BY DEF Reduce, m, h
<1> QED BY <1>2, <1>3, <1>4, <1>5 DEF Snapshots

\* The end of persist_envelope, given what became of the snapshot.
LEMMA FinishKeeps ==
  ASSUME IInv, pc = "save", NEW saved \in BOOLEAN, Finish(saved), setting' = setting,
         Regular(journal', Known(taken)), Extends(journal, journal', {}),
         snap' \in Snapshots(taken), pub' \in Publishers(taken), pub'.journal = pub.journal,
         pub'.seq = pub.seq, pub'.last = pub.last,
         saved => cur.id \in snap'.seen,
         \A x \in snap.seen : x \in snap'.seen \/ \E e \in Survivors(journal') : e.id = x,
         Extreme /\ pub'.cache # None =>
           \A x \in snap'.seen : x \in pub'.cache.seen \/ \E e \in Survivors(journal') : e.id = x,
         ~Extreme => /\ snap.last <= snap'.last
                     /\ \A e \in Survivors(journal') : e.id \in snap'.seen \/ e.seq > snap'.last,
         ~Extreme /\ ~setting.double /\ Readable(journal') =>
           cur.seq <= snap'.last \/ cur \in Survivors(journal')
  PROVE  IInv'
<1> USE DEF IInv
<1>0. /\ pub # None /\ cur \in Known(taken) /\ taken \in Nat /\ setting \in Setting
      /\ published \in Seq(Known(taken)) /\ pub \in Publishers(taken) /\ snap \in Snapshots(taken)
  BY DEF Types
<1>1. /\ pc' = "idle" /\ cur' = None /\ kept' = FALSE /\ taken' = taken
      /\ \/ published' = published
         \/ published' = Append(published, cur) /\ HandedOn(saved)
  BY DEF Finish
<1>2. /\ published' \in Seq(Known(taken)) /\ DOMAIN published \in SUBSET Nat
      /\ \A i \in DOMAIN published' :
           \/ i \in DOMAIN published /\ published'[i] = published[i]
           \/ /\ HandedOn(saved) /\ published'[i] = cur
              /\ \A j \in DOMAIN published' : j < i => j \in DOMAIN published /\ published'[j] = published[j]
              /\ \A j \in DOMAIN published' : ~(i < j)
  <2>1. CASE published' = published
    BY <1>0, <2>1
  <2>2. CASE published' = Append(published, cur) /\ HandedOn(saved)
    BY <1>0, <2>2
  <2> QED BY <1>1, <2>1, <2>2
<1>3. Types'
  BY <1>0, <1>1, <1>2, SameSetting, ZenonT(60) DEF Types, Snapshots
<1>4. Held' \subseteq Held
  BY <1>0, <1>1, SameSetting DEF Held, Extends
<1>5. pub.seq \in Nat /\ pub.last \in Nat
  BY <1>0 DEF Publishers
<1>6. Identified'
  BY <1>0, <1>3, <1>4, <1>5, KeepsIdentified DEF Extends
<1>7. Recoverable'
  BY <1>1, SameSetting DEF Recoverable
<1>8. Growing'
  <2> SUFFICES ASSUME ~Extreme, ~setting.double
               PROVE  /\ \A i, j \in DOMAIN published' : i < j => published'[i].seq < published'[j].seq
                      /\ Readable(journal') => \A i \in DOMAIN published' :
                           \/ published'[i].seq <= snap'.last
                           \/ \E d \in Survivors(journal') : published'[i].seq <= d.seq
    BY <1>1, SameSetting DEF Growing
  <2>1. ASSUME NEW i \in DOMAIN published', NEW j \in DOMAIN published', i < j
        PROVE  published'[i].seq < published'[j].seq
    <3>1. CASE j \in DOMAIN published /\ published'[j] = published[j]
      <4>1. i \in DOMAIN published /\ published'[i] = published[i]
        BY <1>2, <2>1
      <4> QED BY <2>1, <3>1, <4>1 DEF Growing
    <3>2. CASE published'[j] = cur /\ i \in DOMAIN published /\ published'[i] = published[i]
      BY <3>2 DEF Growing
    <3> QED BY <1>2, <2>1, <3>1, <3>2
  <2>2. ASSUME Readable(journal'), NEW i \in DOMAIN published'
        PROVE  published'[i].seq <= snap'.last \/ \E d \in Survivors(journal') : published'[i].seq <= d.seq
    <3>0. cur.seq \in Nat /\ snap.last \in Nat /\ snap'.last \in Nat
      BY <1>0 DEF Known, Snapshots
    <3>1. CASE i \in DOMAIN published /\ published'[i] = published[i]
      <4>0. published[i] \in Known(taken)
        BY <1>0, <3>1
      <4>1. published[i].seq \in Nat
        BY <1>0, <4>0, EventType
      <4>2. Readable(journal) /\ Survivors(journal) \subseteq Survivors(journal')
        BY <2>2 DEF Extends
      <4>3. \/ published[i].seq <= snap.last
            \/ \E d \in Survivors(journal) : published[i].seq <= d.seq
        BY <3>1, <4>2 DEF Growing
      <4> QED BY <3>0, <3>1, <4>1, <4>2, <4>3
    <3>2. CASE published'[i] = cur
      BY <2>2, <3>0, <3>2
    <3> QED BY <1>2, <3>1, <3>2
  <2> QED BY <2>1, <2>2
<1>9. Durable'
  <2>0. Survivors(journal) \subseteq Survivors(journal')
    BY DEF Extends
  <2>1. ASSUME NEW i \in DOMAIN published', published'[i].kind \in {"semantic", "journaled"}
        PROVE  published'[i].id \in snap'.seen \/ \E e \in Survivors(journal') : e.id = published'[i].id
    <3>1. CASE i \in DOMAIN published /\ published'[i] = published[i]
      BY <2>0, <2>1, <3>1 DEF Durable
    <3>2. CASE HandedOn(saved) /\ published'[i] = cur
      <4>1. kept \/ saved
        BY <2>1, <3>2 DEF HandedOn
      <4>2. kept => cur \in Survivors(journal')
        BY <2>0 DEF Durable
      <4> QED BY <3>2, <4>1, <4>2
    <3> QED BY <1>2, <3>1, <3>2
  <2> QED BY <1>1, <2>1, SameSetting DEF Durable
<1> QED BY <1>3, <1>6, <1>7, <1>8, <1>9

LEMMA SaveKeeps ==
  ASSUME IInv, Save
  PROVE  IInv'
<1> USE DEF IInv
<1> DEFINE can == Extreme \/ Readable(journal)
           evs == IF Extreme THEN pub.snapshot \union {cur}
                  ELSE {e \in Survivors(journal) : e.seq > snap.last} \union {cur}
           base == IF Extreme THEN Base ELSE snap
           next == Reduce(base, evs)
<1>0. /\ pc = "save" /\ pub # None /\ cur \in Known(taken) /\ taken \in Nat /\ setting \in Setting
      /\ pub \in Publishers(taken) /\ snap \in Snapshots(taken) /\ Regular(journal, Known(taken))
  BY DEF Types, Save
<1>1. /\ journal' = (IF Extreme THEN journal ELSE Mended(journal)) /\ Finish(can)
      /\ snap' = (IF can THEN next ELSE snap) /\ setting' = setting
      /\ pub' = IF Extreme THEN [pub EXCEPT !.cache = next, !.snapshot = {}] ELSE pub
  BY DEF Save, NextSnapshot, CatchUp, Survivors
<1>2. Regular(journal', Known(taken)) /\ Extends(journal, journal', {})
  <2>1. CASE Extreme
    BY <1>0, <1>1, <2>1 DEF Extends
  <2>2. CASE ~Extreme
    BY <1>0, <1>1, <2>2, MendedRegular, MendedExtends
  <2> QED BY <2>1, <2>2
<1>3. Survivors(journal') = Survivors(journal) /\ Survivors(journal) \subseteq Known(taken)
  BY <1>0, <1>2, SurvivorsType DEF Extends
<1>4. evs \subseteq Known(taken) /\ cur \in evs
  BY <1>0, <1>3 DEF Publishers
<1>5. base \in Snapshots(taken)
  BY <1>0 DEF Base, Publishers
<1>6. /\ next \in Snapshots(taken) /\ base.seen \subseteq next.seen /\ base.last <= next.last
      /\ \A e \in evs : e.id \in next.seen /\ e.seq <= next.last
  <2> HIDE DEF evs, base
  <2> QED BY <1>0, <1>4, <1>5, ReduceType
<1>7. \A x \in snap.seen : x \in base.seen \/ \E e \in Survivors(journal) : e.id = x
  BY <1>0 DEF Base, Durable
<1>8. ~Extreme => /\ base = snap
                  /\ \A e \in Survivors(journal) : e.seq > snap.last => e \in evs
  OBVIOUS
<1> HIDE DEF evs, base, next
<1>9. /\ pub' \in Publishers(taken) /\ pub'.journal = pub.journal /\ pub'.seq = pub.seq
      /\ pub'.last = pub.last /\ (Extreme => pub'.cache = snap')
  BY <1>0, <1>1, <1>6 DEF Publishers
<1>10. snap' \in Snapshots(taken) /\ (can => cur.id \in snap'.seen /\ cur.seq <= snap'.last)
  BY <1>0, <1>1, <1>4, <1>6
<1>11. \A x \in snap.seen : x \in snap'.seen \/ \E e \in Survivors(journal') : e.id = x
  BY <1>1, <1>3, <1>6, <1>7
<1>12. ~Extreme => /\ snap.last <= snap'.last
                   /\ \A e \in Survivors(journal') : e.id \in snap'.seen \/ e.seq > snap'.last
  <2>1. CASE ~Extreme /\ can
    BY <1>1, <1>3, <1>6, <1>8, <2>1 DEF Recoverable
  <2>2. CASE ~Extreme /\ ~can
    <3>1. snap.last \in Nat
      BY <1>0 DEF Snapshots
    <3> QED BY <1>1, <1>3, <2>2, <3>1 DEF Recoverable
  <2> QED BY <2>1, <2>2
<1>13. Readable(journal') => can
  BY <1>2 DEF Extends
<1>14. can \in BOOLEAN
  BY <1>0 DEF Setting, Extreme, Readable
<1> HIDE DEF can
<1> QED BY <1>0, <1>1, <1>2, <1>9, <1>10, <1>11, <1>12, <1>13, <1>14, FinishKeeps

LEMMA SaveFailsKeeps ==
  ASSUME IInv, SaveFails
  PROVE  IInv'
<1> USE DEF IInv
<1>0. /\ pc = "save" /\ pub # None /\ cur \in Known(taken) /\ taken \in Nat
      /\ pub \in Publishers(taken) /\ snap \in Snapshots(taken) /\ Regular(journal, Known(taken))
  BY DEF Types, SaveFails
<1>1. /\ journal' = (IF Extreme THEN journal ELSE Mended(journal)) /\ Finish(FALSE)
      /\ snap' = snap /\ setting' = setting /\ (kept \/ setting.double)
      /\ pub' = IF Extreme THEN [pub EXCEPT !.cache = Base] ELSE pub
  BY DEF SaveFails
<1>2. Regular(journal', Known(taken)) /\ Extends(journal, journal', {})
  <2>1. CASE Extreme
    BY <1>0, <1>1, <2>1 DEF Extends
  <2>2. CASE ~Extreme
    BY <1>0, <1>1, <2>2, MendedRegular, MendedExtends
  <2> QED BY <2>1, <2>2
<1>3. Survivors(journal') = Survivors(journal)
  BY <1>2 DEF Extends
<1>4. Base \in Snapshots(taken)
      /\ (Extreme => \A x \in snap.seen : x \in Base.seen \/ \E e \in Survivors(journal) : e.id = x)
  BY <1>0 DEF Base, Publishers, Durable
<1>5. /\ pub' \in Publishers(taken) /\ pub'.journal = pub.journal /\ pub'.seq = pub.seq
      /\ pub'.last = pub.last /\ (Extreme => pub'.cache = Base)
  BY <1>0, <1>1, <1>4 DEF Publishers
<1>6. ~Extreme => /\ snap.last <= snap'.last
                  /\ \A e \in Survivors(journal') : e.id \in snap'.seen \/ e.seq > snap'.last
  <2>1. snap.last \in Nat
    BY <1>0 DEF Snapshots
  <2> QED BY <1>1, <1>3, <2>1 DEF Recoverable
<1>7. ~setting.double => cur \in Survivors(journal')
  BY <1>0, <1>1, <1>3 DEF Durable
<1> QED BY <1>0, <1>1, <1>2, <1>3, <1>4, <1>5, <1>6, <1>7, FinishKeeps

LEMMA GetStateKeeps ==
  ASSUME IInv, GetState
  PROVE  IInv'
<1> USE DEF IInv
<1>0. /\ pc = "idle" /\ journal' = Mended(journal) /\ UNCHANGED <<setting, pub, pc, cur, kept, taken, published>>
      /\ snap' = IF snap = NoSnapshot THEN Reduce(NoSnapshot, Survivors(journal)) ELSE snap
  BY DEF GetState, Survivors
<1>1. /\ taken \in Nat /\ snap \in Snapshots(taken) /\ Regular(journal, Known(taken))
      /\ published \in Seq(Known(taken))
  BY DEF Types
<1>2. Regular(journal', Known(taken)) /\ Extends(journal, journal', {})
  BY <1>0, <1>1, MendedRegular, MendedExtends
<1>3. Survivors(journal') = Survivors(journal) /\ Survivors(journal) \subseteq Known(taken)
  BY <1>1, <1>2, SurvivorsType DEF Extends
<1>4. NoSnapshot \in Snapshots(taken) /\ NoSnapshot.seen = {} /\ NoSnapshot.last = 0
  BY <1>1 DEF NoSnapshot, Snapshots
<1>5. /\ snap' \in Snapshots(taken)
      /\ \/ snap' = snap
         \/ /\ snap.seen = {} /\ snap.last = 0
            /\ \A e \in Survivors(journal) : e.id \in snap'.seen
            /\ \A x \in snap'.seen : \E e \in Survivors(journal) : e.id = x
  <2>1. CASE snap = NoSnapshot
    BY <1>0, <1>1, <1>3, <1>4, <2>1, ReduceType
  <2>2. CASE snap # NoSnapshot
    BY <1>0, <1>1, <2>2
  <2> QED BY <2>1, <2>2
<1>6. Types'
  BY <1>0, <1>2, <1>5, SameSetting DEF Types, Snapshots
<1>7. Held' \subseteq Held
  BY <1>0, <1>3, SameSetting DEF Held
<1>8. Identified'
  <2>1. pub # None => pub.seq \in Nat /\ pub.last \in Nat
    BY DEF Types, Publishers
  <2> QED BY <1>0, <1>2, <1>6, <1>7, <2>1, KeepsIdentified DEF Extends
<1>9. CASE snap' = snap
  BY <1>0, <1>2, <1>6, <1>8, <1>9, KeepsRecoverable, KeepsGrowing, KeepsDurable DEF Extends
<1>10. CASE /\ snap.seen = {} /\ snap.last = 0
            /\ \A e \in Survivors(journal) : e.id \in snap'.seen
            /\ \A x \in snap'.seen : \E e \in Survivors(journal) : e.id = x
  <2>1. Recoverable'
    BY <1>0, <1>3, <1>10, SameSetting DEF Recoverable
  <2>2. Growing'
    <3>1. \A i \in DOMAIN published : published[i] \in Known(taken)
      BY <1>1
    <3>2. \A i \in DOMAIN published : ~(published[i].seq <= snap.last)
      BY <1>1, <1>10, <3>1, EventType
    <3> QED BY <1>0, <1>2, <1>3, <3>2, SameSetting DEF Growing, Extends
  <2>3. Durable'
    BY <1>0, <1>3, <1>10, SameSetting DEF Durable
  <2> QED BY <1>6, <1>8, <2>1, <2>2, <2>3
<1> QED BY <1>5, <1>9, <1>10

\* A new event has a number beyond those of all events on their way, of the
\* snapshot and, where it matters, of everything handed on.
LEMMA BeginKeeps ==
  ASSUME IInv, NEW kind \in setting.kinds, NEW split \in {FALSE, Separators}, Begin(kind, split)
  PROVE  IInv'
<1> USE DEF IInv
<1> DEFINE f == IF Extreme THEN journal ELSE Mended(journal)
           hw == HighWater(f)
           s == Numbered(f)
           e == [id |-> taken + 1, seq |-> s, kind |-> kind, split |-> split]
           last == Max({pub.last, s})
           p == [pub EXCEPT !.seq = @ + 1, !.last = last]
           n == taken + 1
<1>0. /\ pub # None /\ pc = "idle" /\ taken < MaxEvents /\ (Extreme \/ Readable(journal))
      /\ pub \in Publishers(taken) /\ snap \in Snapshots(taken) /\ Regular(journal, Known(taken))
      /\ taken \in Nat /\ setting \in Setting /\ published \in Seq(Known(taken))
  BY HistoryAssumption DEF Begin, Idle, Types
<1>1. /\ journal' = f /\ taken' = n /\ kept' = FALSE /\ UNCHANGED <<setting, snap>>
      /\ pub' = IF Deferred(kind) THEN [p EXCEPT !.journal = @ \union {e}, !.snapshot = @ \union {e}] ELSE p
      /\ \/ pc' = "idle" /\ cur' = None /\ published' = Append(published, e) /\ Deferred(kind)
         \/ /\ pc' \in {"flush", "append"} /\ (pc' = "flush" => Extreme)
            /\ cur' = e /\ published' = published
  BY DEF Begin
<1>2. Regular(journal', Known(taken)) /\ Extends(journal, journal', {})
  <2>1. CASE Extreme
    BY <1>0, <1>1, <2>1 DEF Extends
  <2>2. CASE ~Extreme
    BY <1>0, <1>1, <2>2, MendedRegular, MendedExtends
  <2> QED BY <2>1, <2>2
<1>3. /\ Survivors(journal') = Survivors(journal) /\ Survivors(journal) \subseteq Known(taken)
      /\ Held \subseteq Known(taken)
  BY <1>0, <1>2, SurvivorsType, HeldType DEF Extends
<1>4. pub.seq \in 0..taken /\ pub.last \in 0..taken /\ snap.last \in 0..taken
  BY <1>0 DEF Publishers, Snapshots
<1>5. /\ hw \in 0..taken /\ pub.last <= hw
      /\ ~Extreme => snap.last <= hw /\ \A d \in Survivors(journal) : d.seq <= hw
  <2>1. CASE Extreme
    BY <1>0, <1>4, <2>1 DEF HighWater
  <2>2. CASE ~Extreme
    <3> DEFINE h == Highest(Survivors(journal))
    <3>1. hw = Max({pub.last, snap.last, h})
      BY <2>2 DEF HighWater, Survivors
    <3>2. h \in 0..taken /\ \A d \in Survivors(journal) : d.seq <= h
      BY <1>0, <1>3, HighestBound
    <3> HIDE DEF h, hw
    <3>3. hw \in {pub.last, snap.last, h} /\ pub.last <= hw /\ snap.last <= hw /\ h <= hw
      BY <1>0, <1>4, <3>1, <3>2, MaxThree
    <3>4. \A d \in Survivors(journal) : d.seq \in Nat
      BY <1>0, <1>3, EventType
    <3> QED BY <1>0, <1>4, <3>2, <3>3, <3>4
  <2> QED BY <2>1, <2>2
<1>6. s \in 1..n /\ s > hw /\ s > pub.seq
  <2>1. s = IF pub.seq + 1 <= hw THEN hw + 1 ELSE pub.seq + 1
    BY DEF Numbered
  <2> HIDE DEF s, hw
  <2> QED BY <1>0, <1>4, <1>5, <2>1
<1> HIDE DEF f, hw, s
<1>7. last \in 1..n /\ s <= last /\ pub.last <= last
  <2>0. pub.last \in Nat /\ s \in Nat /\ n \in Nat
    <3> HIDE DEF last
    <3> QED BY <1>0, <1>4, <1>6
  <2>1. last \in {pub.last, s} /\ pub.last <= last /\ s <= last
    BY <2>0, MaxTwo
  <2> HIDE DEF last
  <2> QED BY <1>0, <1>4, <1>6, <2>1
<1> HIDE DEF last
<1>8. n \in Nat /\ taken <= n /\ n \in 0..MaxEvents /\ n \in 1..n
  BY <1>0, HistoryAssumption
<1>9. e \in Known(n) /\ e.seq = s /\ e.kind = kind
  BY <1>6, <1>8 DEF Known
<1>10. /\ p \in Publishers(n) /\ p.journal = pub.journal /\ p.cache = pub.cache
       /\ p.seq = pub.seq + 1 /\ p.last = last
  <2>1. pub \in Publishers(n)
    BY <1>0, <1>8, TypesGrow
  <2>2. pub.seq + 1 \in 0..n /\ last \in 0..n
    BY <1>0, <1>4, <1>7, <1>8
  <2> HIDE DEF n
  <2> QED BY <2>1, <2>2 DEF Publishers
<1> HIDE DEF e, p, n
<1>11. /\ pub' \in Publishers(n) /\ pub'.cache = pub.cache
       /\ pub'.seq = pub.seq + 1 /\ pub'.last = last
       /\ pub'.journal \subseteq pub.journal \union {e}
       /\ ~Extreme => pub'.journal = pub.journal
  <2>1. CASE Deferred(kind)
    <3>1. Extreme
      BY <2>1 DEF Deferred
    <3> QED BY <1>1, <1>9, <1>10, <2>1, <3>1 DEF Publishers
  <2>2. CASE ~Deferred(kind)
    BY <1>1, <1>10, <2>2
  <2> QED BY <2>1, <2>2
<1>12. /\ published' \in Seq(Known(n))
       /\ \A i \in DOMAIN published' :
            \/ i \in DOMAIN published /\ published'[i] = published[i]
            \/ published'[i].kind \notin {"semantic", "journaled"}
  <2>0. published \in Seq(Known(n))
    BY <1>0, <1>8, TypesGrow
  <2>1. CASE published' = Append(published, e) /\ Deferred(kind)
    <3>1. e.kind = "delta"
      BY <1>9, <2>1 DEF Deferred
    <3> QED BY <1>9, <2>0, <2>1, <3>1
  <2>2. CASE published' = published
    BY <2>0, <2>2
  <2> QED BY <1>1, <2>1, <2>2
<1>13. Types'
  <2>1. Known(taken)' = Known(n) /\ Snapshots(taken)' = Snapshots(n) /\ Publishers(taken)' = Publishers(n)
    BY <1>1 DEF Known, Snapshots, Publishers, Separators
  <2>2. Regular(journal', Known(n)) /\ snap \in Snapshots(n)
    BY <1>0, <1>2, <1>8, TypesGrow
  <2>3. Regular(journal, Known(taken))' /\ (published \in Seq(Known(taken)))'
    BY <1>1, <1>12, <2>1, <2>2 DEF Regular, Lines, Separators
  <2>4. snap' \in Snapshots(taken)' /\ pub' \in Publishers(taken)' /\ taken' \in 0..MaxEvents
    BY <1>1, <1>8, <1>11, <2>1, <2>2
  <2>5. pub' # None
    BY <1>0, <1>8, <1>11, NotNone
  <2>6. /\ setting' \in Setting /\ kept' \in BOOLEAN /\ pc' \in {"idle", "flush", "append", "save"}
        /\ (pc' = "idle" => cur' = None) /\ (pc' # "idle" => cur' \in Known(n))
        /\ (pc' = "flush" => Extreme')
    BY <1>0, <1>1, <1>9, SameSetting
  <2> QED BY <2>1, <2>3, <2>4, <2>5, <2>6 DEF Types
<1>14. Held' \subseteq Held \union {e}
  BY <1>0, <1>1, <1>3, <1>11, SameSetting DEF Held
<1>15. (Extreme => Readable(journal)) => \A d \in Held : d.seq < s
  <2> SUFFICES ASSUME Extreme => Readable(journal), NEW d \in Held
               PROVE  d.seq < s
    OBVIOUS
  <2>0. d.seq \in Nat
    BY <1>0, <1>3, EventType
  <2>1. CASE Extreme
    <3>1. d.seq <= pub.seq \/ d.seq <= pub.last
      BY <1>0, <2>1 DEF Identified
    <3> QED BY <1>4, <1>5, <1>6, <2>0, <3>1
  <2>2. CASE ~Extreme
    <3>1. d \in Survivors(journal)
      BY <1>0, <2>2 DEF Held, Identified
    <3> QED BY <1>5, <1>6, <2>0, <2>2, <3>1
  <2> QED BY <2>1, <2>2
<1>16. Identified'
  <2>0. /\ Extreme' <=> Extreme
        /\ Readable(journal)' <=> Readable(journal')
        /\ Readable(journal') => Readable(journal)
    BY <1>1, <1>2, SameSetting DEF Extends
  <2>1. (pub # None /\ ~Extreme => pub.journal = {})'
    BY <1>0, <1>11, <2>0 DEF Identified
  <2>2. ASSUME Extreme' => Readable(journal)', NEW x \in Held', NEW y \in Held', x.seq = y.seq
        PROVE  x.id = y.id
    <3>1. Extreme => Readable(journal)
      BY <2>0, <2>2
    <3>2. \A d \in Held : d.seq \in Nat /\ d.seq # s
      BY <1>0, <1>3, <1>6, <1>15, <3>1, EventType
    <3>3. x = e \/ x \in Held
      BY <1>14
    <3>4. y = e \/ y \in Held
      BY <1>14
    <3> QED BY <1>9, <2>2, <3>1, <3>2, <3>3, <3>4 DEF Identified
  <2>3. ASSUME Extreme', Readable(journal)', pub' # None, NEW x \in Held'
        PROVE  x.seq <= pub'.seq \/ x.seq <= pub'.last
    <3>1. CASE x = e
      BY <1>9, <1>7, <1>11, <3>1
    <3>2. CASE x \in Held
      <4>1. x.seq \in Nat
        BY <1>0, <1>3, <3>2, EventType
      <4>2. x.seq <= pub.seq \/ x.seq <= pub.last
        BY <1>0, <2>0, <2>3, <3>2 DEF Identified
      <4> QED BY <1>4, <1>7, <1>11, <4>1, <4>2
    <3> QED BY <1>14, <3>1, <3>2
  <2> QED BY <2>1, <2>2, <2>3 DEF Identified
<1>17. Recoverable'
  <2>1. ~Extreme /\ pc' # "idle" => cur'.seq > snap'.last
    BY <1>1, <1>4, <1>5, <1>6, <1>9
  <2>2. ~Extreme => \A d \in Survivors(journal') : d.id \in snap'.seen \/ d.seq > snap'.last
    BY <1>1, <1>3 DEF Recoverable
  <2> QED BY <1>1, <2>1, <2>2, SameSetting DEF Recoverable
<1>18. Growing'
  <2> SUFFICES ASSUME ~Extreme, ~setting.double PROVE Growing'
    BY <1>1, SameSetting DEF Growing
  <2>1. Readable(journal) /\ published' = published /\ cur' = e
    BY <1>0, <1>1 DEF Deferred
  <2>2. ASSUME NEW i \in DOMAIN published
        PROVE  published[i].seq < e.seq
    <3>0. published[i] \in Known(taken)
      BY <1>0
    <3>1. published[i].seq \in Nat
      BY <1>0, <3>0, EventType
    <3>2. published[i].seq <= snap.last \/ \E d \in Survivors(journal) : published[i].seq <= d.seq
      BY <2>1 DEF Growing
    <3>3. \A d \in Survivors(journal) : d.seq \in Nat
      BY <1>0, <1>3, EventType
    <3>4. published[i].seq <= hw
      BY <1>4, <1>5, <3>1, <3>2, <3>3
    <3> QED BY <1>5, <1>6, <1>9, <3>1, <3>4
  <2>3. Readable(journal') => Readable(journal)
    BY <1>2 DEF Extends
  <2> QED BY <1>1, <1>3, <2>1, <2>2, <2>3, SameSetting DEF Growing
<1>19. Durable'
  BY <1>0, <1>1, <1>3, <1>11, <1>12, KeepsDurable
<1> QED BY <1>13, <1>16, <1>17, <1>18, <1>19

-----------------------------------------------------------------------------
(* The theorems.                                                           *)

LEMMA InitHolds ==
  ASSUME Init
  PROVE  IInv
<1>0. /\ setting \in Setting /\ taken = 0 /\ journal = <<>> /\ published = <<>> /\ pub = None
      /\ pc = "idle" /\ cur = None /\ kept = FALSE /\ snap = NoSnapshot /\ 0 \in 0..MaxEvents
  BY HistoryAssumption DEF Init
<1>1. Survivors(journal) = {}
  BY <1>0 DEF Survivors, Mended, Clean, Events
<1>2. Types
  <2>1. snap \in Snapshots(taken)
    BY <1>0 DEF NoSnapshot, Snapshots
  <2>2. Regular(journal, Known(taken)) /\ published \in Seq(Known(taken))
    BY <1>0 DEF Regular
  <2> QED BY <1>0, <2>1, <2>2 DEF Types
<1>3. DOMAIN published = {} /\ Held = {}
  BY <1>0, <1>1 DEF Held
<1> QED BY <1>0, <1>1, <1>2, <1>3 DEF IInv, Identified, Recoverable, Growing, Durable

LEMMA StepHolds ==
  ASSUME IInv, [Next]_vars
  PROVE  IInv'
<1>1. CASE UNCHANGED vars
  <2> USE DEF IInv
  <2>0. UNCHANGED <<setting, journal, snap, pub, pc, cur, kept, taken, published>>
    BY <1>1 DEF vars
  <2>1. Types' /\ Held' = Held
    BY <2>0, SameSetting DEF Types, Snapshots, Held
  <2>2. pub # None => pub.seq \in Nat /\ pub.last \in Nat
    BY DEF Types, Publishers
  <2>3. Identified'
    BY <2>0, <2>1, <2>2, KeepsIdentified
  <2>4. Recoverable' /\ Growing'
    BY <2>0, KeepsRecoverable, KeepsGrowing
  <2>5. Durable'
    BY <2>0, SameSetting DEF Durable
  <2> QED BY <2>1, <2>3, <2>4, <2>5
<1> QED BY <1>1, OpenKeeps, KillKeeps, GetStateKeeps, SkipKeeps, BeginKeeps, FlushKeeps, AppendKeeps,
           SaveKeeps, SaveFailsKeeps DEF Next

\* IInv is an invariant of the history.
LEMMA Inductive == Spec => []IInv
BY InitHolds, StepHolds, PTL DEF Spec

\* Whatever is cut, undone, lost or interrupted, the journal stays readable
\* where no text has line separators, and what a client was told of a step, an
\* input or an end is found again (persist_envelope, read_all_repairing_tail).
THEOREM Survival == Spec => []HistorySurvives
<1>1. ASSUME IInv PROVE TypeOK
  <2> USE DEF IInv
  <2>1. /\ setting \in Setting /\ taken \in 0..MaxEvents /\ Regular(journal, Known(taken))
        /\ snap \in Snapshots(taken) /\ published \in Seq(Known(taken)) /\ MaxEvents \in Nat
        /\ pub # None => pub \in Publishers(taken)
    BY <1>1, HistoryAssumption DEF Types
  <2>2. Known(taken) \subseteq Event
    <3>1. Separators \in BOOLEAN
      BY <2>1 DEF Setting, Separators
    <3>2. 1..taken \subseteq 1..MaxEvents /\ 1..taken \subseteq 1..2 * MaxEvents
      BY <2>1
    <3> QED BY <3>1, <3>2 DEF Known, Event
  <2>3. /\ \A i \in DOMAIN journal : journal[i] \in Lines(Known(taken))
        /\ \A i \in 1..(Len(journal) - 1) : journal[i].form = "whole"
    BY <2>1 DEF Regular
  <2>4. /\ Events(journal) \subseteq Event
        /\ \A i \in DOMAIN journal : journal[i].form \in {"whole", "open", "cut"}
    BY <2>2, <2>3 DEF Events, Lines
  <2>5. snap.seen \subseteq 1..MaxEvents /\ snap.last \in 0..2 * MaxEvents
    <3>1. snap.seen \subseteq 1..taken /\ snap.last \in 0..taken
      BY <2>1 DEF Snapshots
    <3> QED BY <2>1, <3>1
  <2>6. pub # None => pub.journal \union pub.snapshot \subseteq Event
    BY <2>1, <2>2 DEF Publishers
  <2>7. \A i \in DOMAIN published : published[i] \in Event
    BY <2>1, <2>2
  <2>8. pc \in {"idle", "flush", "append", "save"} /\ ((pc # "idle") <=> (cur # None))
    BY <1>1, <2>1, NotNone DEF Types
  <2> QED BY <2>3, <2>4, <2>5, <2>6, <2>7, <2>8 DEF TypeOK
<1>2. ASSUME IInv PROVE StaysReadable /\ SemanticSurvives
  BY <1>2 DEF IInv, Types, Regular, StaysReadable, Readable, Durable, SemanticSurvives, Survivors
<1>3. IInv => HistorySurvives
  BY <1>1, <1>2 DEF HistorySurvives
<1> QED BY <1>3, Inductive, PTL

\* A client that recovers from the snapshot and the journal behind it misses no
\* event of the journal (_next_snapshot, get_state).
THEOREM Recovery == Spec => []RecoveryComplete
<1>1. IInv => RecoveryComplete
  BY DEF IInv, Recoverable, RecoveryComplete, Survivors
<1> QED BY <1>1, Inductive, PTL

\* Sequence numbers identify events, over restarts and failed writes
\* (_ensure_monotonic_sequence, _ensure_monotonic_sequence_fast).
THEOREM Numbering == Spec => []NumbersIdentify
<1>1. IInv => SequencesGrow
  BY DEF IInv, Growing, SequencesGrow
<1>2. IInv => JournalNumbers
  BY DEF IInv, Identified, Held, JournalNumbers, Survivors
<1>3. IInv => NumbersIdentify
  BY <1>1, <1>2 DEF NumbersIdentify
<1> QED BY <1>3, Inductive, PTL
=============================================================================
