-------------------------- MODULE PipelineHistory --------------------------
(***************************************************************************)
(* What an A2A pipeline keeps on disk for clients that come back: the      *)
(* journal of its events (a2a/pipeline_journal.py), the snapshot reduced   *)
(* from them (a2a/pipeline_snapshot.py), the publisher that writes both    *)
(* (a2a/pipeline_stream.py) and the recovery that reads them               *)
(* (a2a/pipeline_recovery.py).                                             *)
(*                                                                         *)
(* persist_envelope has no await, so its steps interleave with the death   *)
(* of the process only.  A write may fail, be undone, fail to be undone,   *)
(* or be cut short; what the kernel has accepted survives the process.     *)
(***************************************************************************)
EXTENDS Integers, Sequences, FiniteSets, SequencesExt

CONSTANTS
    Settings,    \* the configurations of the server, see Setting
    FlushAt,     \* _EXTREME_JOURNAL_FLUSH_EVENTS
    MaxEvents, MaxFaults, MaxKills, \* bounds
    None

(* extreme: a2a_extreme_performance_enabled, the default; kinds: of the    *)
(* events; separators: texts may contain a Unicode line separator;         *)
(* double: the journal and the snapshot may fail for one event.            *)
Kinds == {"delta", "plain", "semantic", "journaled"}
Setting == [extreme : BOOLEAN, kinds : SUBSET Kinds, separators : BOOLEAN,
            double : BOOLEAN]

(* None is neither an event nor a publisher. *)
Envelope == [id : Nat, seq : Nat, kind : Kinds, split : BOOLEAN]
PublisherState ==
    [seq : Nat, last : Nat, journal : SUBSET Envelope, snapshot : SUBSET Envelope,
     cache : [seen : SUBSET Nat, last : Nat] \union {None}]

ASSUME HistoryAssumption ==
    /\ Settings \subseteq Setting
    /\ FlushAt \in Nat \ {0}
    /\ {MaxEvents, MaxFaults, MaxKills} \subseteq Nat
    /\ None \notin Envelope \union PublisherState

VARIABLES
    setting,   \* the configuration, chosen once
    journal,   \* a2a-events.jsonl: its lines
    snap,      \* a2a-snapshot.json: seenEventIds and lastSequence
    pub,       \* the publisher's memory, None without one
    pc,        \* where persist_envelope is
    cur,       \* the envelope it persists
    kept,      \* journal_persisted
    taken,     \* number of events so far
    published, \* the envelopes handed on to the clients, in order
    faults, kills

vars == <<setting, journal, snap, pub, pc, cur, kept, taken, published, faults, kills>>

Extreme == setting.extreme
Separators == setting.separators

NoSnapshot == [seen |-> {}, last |-> 0]

(* seq: the translator's counter; last: _last_sequence; journal, snapshot: *)
(* _extreme_pending_*_events; cache: _extreme_snapshot_cache.              *)
Publisher(n) == [seq |-> n, last |-> 0, journal |-> {}, snapshot |-> {}, cache |-> None]

Init ==
    /\ setting \in Settings
    /\ journal = <<>> /\ snap = NoSnapshot /\ pub = None
    /\ pc = "idle" /\ cur = None /\ kept = FALSE
    /\ taken = 0 /\ published = <<>> /\ faults = 0 /\ kills = 0

----------------------------------------------------------------------------
(* The journal                                                             *)

(* A line holds one event or a group; it is whole, complete but for its    *)
(* newline, or cut.  split: str.splitlines finds more than one line in it. *)
Line(evs) == [evs |-> evs, form |-> "whole", split |-> \E e \in evs : e.split]

Clean(f) == f = <<>> \/ Last(f).form = "whole"

(* _contains_only_complete_json_records, _repairable_tail *)
Readable(f) == \A i \in DOMAIN f : ~f[i].split

(* _repair_tail_locked: a cut line is moved away, a newline is added. *)
Mended(f) ==
    IF Clean(f) \/ ~Readable(f) THEN f
    ELSE IF Last(f).form = "cut" THEN Front(f)
    ELSE [f EXCEPT ![Len(f)].form = "whole"]

(* The events in the lines of f.  read_all_repairing_tail returns them all *)
(* if f is Readable and raises otherwise; read_all leaves out the lines it *)
(* cannot parse.                                                           *)
Events(f) == UNION {f[i].evs : i \in DOMAIN f}

Highest(evs) == Max({0} \union {e.seq : e \in evs})

(* _repair_existing_tail_before_append, which looks at bytes. *)
Prepared(f) == [ok |-> Clean(f) \/ Readable(f), file |-> Mended(f)]

(* What a write may leave behind when it is cut short. *)
Torn(line) ==
    {line, [line EXCEPT !.form = "open"]}
    \union {[line EXCEPT !.form = "cut", !.split = x] : x \in {FALSE, line.split}}

(* Bytes are added at the end: behind an incomplete line they become part  *)
(* of it.                                                                  *)
Grown(f, line) ==
    IF Clean(f) THEN Append(f, line)
    ELSE [f EXCEPT ![Len(f)] = [evs |-> {}, form |-> line.form, split |-> TRUE]]

(* (Mutant: the rollback goes back one line too far.) *)
RolledBackTooFar(f) == IF f = <<>> THEN f ELSE Front(f)

(* _rollback_journal_append *)
RolledBack(f) == f

(* _append_journal_bytes: the outcomes without and with an error. *)
Appended(f, line) ==
    IF Prepared(f).ok THEN [ok |-> TRUE, file |-> Grown(Prepared(f).file, line)]
    ELSE [ok |-> FALSE, file |-> f]

AppendFaults(f, line) ==
    IF Prepared(f).ok
    THEN {RolledBack(Prepared(f).file)} \union {Grown(Prepared(f).file, t) : t \in Torn(line)}
    ELSE {}

----------------------------------------------------------------------------
(* The publisher: persist_envelope                                         *)

Fault == faults < MaxFaults /\ faults' = faults + 1

Idle == pub # None /\ pc = "idle"

(* A publisher starts from what it can read: hydrate_from_events. *)
Open ==
    /\ pub = None
    /\ journal' = Mended(journal)
    /\ pub' = Publisher(IF Readable(journal) THEN Highest(Events(Mended(journal))) ELSE 0)
    /\ UNCHANGED <<setting, snap, pc, cur, kept, taken, published, faults, kills>>

(* (Mutant: _last_persisted_sequence without the snapshot.) *)
JournalHighWater(f) == Max({pub.last, Highest(Events(f))})

(* _last_persisted_sequence, in extreme mode _last_sequence. *)
HighWater(f) == IF Extreme THEN pub.last ELSE Max({pub.last, snap.last, Highest(Events(f))})

Deferred(kind) == Extreme /\ kind = "delta"

(* _ensure_monotonic_sequence, _ensure_monotonic_sequence_fast *)
Numbered(f) == IF pub.seq + 1 <= HighWater(f) THEN HighWater(f) + 1 ELSE pub.seq + 1

Begin(kind, split) ==
    LET f == IF Extreme THEN journal ELSE Mended(journal)
        e == [id |-> taken + 1, seq |-> Numbered(f), kind |-> kind, split |-> split]
        p == [pub EXCEPT !.seq = @ + 1, !.last = Max({@, e.seq})]
    IN /\ Idle /\ taken < MaxEvents
       /\ Extreme \/ Readable(journal)
       /\ journal' = f /\ taken' = taken + 1 /\ kept' = FALSE
       /\ IF Deferred(kind)
          THEN pub' = [p EXCEPT !.journal = @ \union {e}, !.snapshot = @ \union {e}]
          ELSE pub' = p
       /\ IF Deferred(kind) /\ Cardinality(pub'.journal) < FlushAt
          THEN pc' = "idle" /\ cur' = None /\ published' = Append(published, e)
          ELSE /\ pc' = IF Extreme /\ pub'.journal # {} THEN "flush" ELSE "append"
               /\ cur' = e /\ UNCHANGED published
       /\ UNCHANGED <<setting, snap, faults, kills>>

(* The high-water sequence cannot be read: the event is skipped. *)
SkipEvent ==
    /\ Idle /\ taken < MaxEvents
    /\ ~Extreme /\ ~Readable(journal)
    /\ taken' = taken + 1
    /\ pub' = [pub EXCEPT !.seq = @ + 1]
    /\ UNCHANGED <<setting, journal, snap, pc, cur, kept, published, faults, kills>>

AfterFlush ==
    /\ IF Deferred(cur.kind)
       THEN pc' = "idle" /\ cur' = None /\ published' = Append(published, cur)
       ELSE pc' = "append" /\ UNCHANGED <<cur, published>>
    /\ UNCHANGED <<snap, kept, taken, kills>>

(* _flush_extreme_journal_events *)
Flush ==
    LET result == Appended(journal, Line(pub.journal))
    IN /\ pc = "flush"
       /\ journal' = result.file
       /\ pub' = [pub EXCEPT !.journal = IF result.ok THEN {} ELSE @]
       /\ AfterFlush /\ UNCHANGED faults
       /\ UNCHANGED setting

FlushFails ==
    /\ pc = "flush" /\ Fault
    /\ \E f \in AppendFaults(journal, Line(pub.journal)) : journal' = f
    /\ AfterFlush /\ UNCHANGED pub
    /\ UNCHANGED setting

AfterAppend(ok) ==
    /\ kept' = ok
    /\ pc' = "save"
    /\ UNCHANGED <<snap, pub, cur, taken, published, kills>>

AppendEvent ==
    LET result == Appended(journal, Line({cur}))
    IN /\ pc = "append"
       /\ journal' = result.file
       /\ AfterAppend(result.ok) /\ UNCHANGED faults
       /\ UNCHANGED setting

AppendFails ==
    /\ pc = "append" /\ Fault
    /\ \E f \in AppendFaults(journal, Line({cur})) : journal' = f
    /\ AfterAppend(FALSE)
    /\ UNCHANGED setting

(* reduce_pipeline_events *)
Reduce(s, evs) ==
    [seen |-> s.seen \union {e.id : e \in evs}, last |-> Max({s.last, Highest(evs)})]

(* (Mutant: only the new event is applied.) *)
WithoutCatchUp(f) == {}

(* _next_snapshot: what the journal has beyond the snapshot. *)
CatchUp(f) == {e \in Events(f) : e.seq > snap.last}

(* The base in extreme mode: _extreme_snapshot_base. *)
Base == IF pub.cache = None THEN snap ELSE pub.cache

NextSnapshot(f) ==
    IF Extreme THEN Reduce(Base, pub.snapshot \union {cur})
    ELSE Reduce(snap, CatchUp(f) \union {cur})

(* require_journal_metadata and durable_required at the end of             *)
(* persist_envelope                                                        *)
HandedOn(saved) ==
    CASE cur.kind = "journaled" -> kept
      [] cur.kind = "semantic" -> kept \/ saved
      [] OTHER -> TRUE

Finish(saved) ==
    /\ published' = IF HandedOn(saved) THEN Append(published, cur) ELSE published
    /\ pc' = "idle" /\ cur' = None /\ kept' = FALSE
    /\ UNCHANGED <<taken, kills>>

(* snapshot_store.save; without extreme mode the journal is read again,    *)
(* and nothing is saved when it cannot be read.                            *)
Save ==
    LET f == IF Extreme THEN journal ELSE Mended(journal)
        can == Extreme \/ Readable(journal)
        next == NextSnapshot(f)
    IN /\ pc = "save"
       /\ journal' = f
       /\ snap' = IF can THEN next ELSE snap
       /\ pub' = IF Extreme THEN [pub EXCEPT !.cache = next, !.snapshot = {}] ELSE pub
       /\ Finish(can) /\ UNCHANGED faults
       /\ UNCHANGED setting

SaveFails ==
    /\ pc = "save" /\ Fault
    /\ kept \/ setting.double
    /\ journal' = IF Extreme THEN journal ELSE Mended(journal)
    /\ pub' = IF Extreme THEN [pub EXCEPT !.cache = Base] ELSE pub
    /\ Finish(FALSE) /\ UNCHANGED snap
    /\ UNCHANGED setting

----------------------------------------------------------------------------
(* The process dies, perhaps in the middle of a write. *)
Kill ==
    /\ pub # None /\ kills < MaxKills
    /\ kills' = kills + 1
    /\ \/ journal' = journal
       \/ /\ pc \in {"flush", "append"}
          /\ journal' \in AppendFaults(journal, Line(IF pc = "flush" THEN pub.journal ELSE {cur}))
    /\ pub' = None /\ pc' = "idle" /\ cur' = None /\ kept' = FALSE
    /\ UNCHANGED <<setting, snap, taken, published, faults>>

(* A2APipelineRecoveryService.get_state; a missing snapshot is rebuilt. *)
GetState ==
    /\ pc = "idle"
    /\ Readable(journal)
    /\ journal' = Mended(journal)
    /\ snap' = IF snap = NoSnapshot THEN Reduce(NoSnapshot, Events(Mended(journal))) ELSE snap
    /\ UNCHANGED <<setting, pub, pc, cur, kept, taken, published, faults, kills>>

Next ==
    \/ Open \/ Kill \/ GetState \/ SkipEvent
    \/ \E kind \in setting.kinds, split \in {FALSE, Separators} : Begin(kind, split)
    \/ Flush \/ FlushFails \/ AppendEvent \/ AppendFails \/ Save \/ SaveFails

Spec == Init /\ [][Next]_vars

----------------------------------------------------------------------------
(* Properties                                                              *)

Event == [id : 1..MaxEvents, seq : 1..2 * MaxEvents, kind : setting.kinds, split : BOOLEAN]

TypeOK ==
    /\ Events(journal) \subseteq Event
    /\ \A i \in DOMAIN journal : journal[i].form \in {"whole", "open", "cut"}
    /\ \A i \in 1..(Len(journal) - 1) : journal[i].form = "whole"
    /\ snap.seen \subseteq 1..MaxEvents /\ snap.last \in 0..2 * MaxEvents
    /\ pc \in {"idle", "flush", "append", "save"} /\ (pc # "idle") <=> (cur # None)
    /\ pub # None => pub.journal \union pub.snapshot \subseteq Event
    /\ \A i \in DOMAIN published : published[i] \in Event

(* The journal can be read, if necessary after its tail is repaired,       *)
(* whatever was cut short, not undone or written next to it                *)
(* (_repair_existing_tail_before_append, read_all_repairing_tail), as long *)
(* as no text contains a line separator: see AppendedIsReadable.           *)
StaysReadable == ~Separators => Readable(journal)

(* What was appended is read back, whatever its text: the journal tests    *)
(* demand it ("test_append_and_read_all_preserves_order",                  *)
(* tests/a2a/test_pipeline_journal.py:86).  The code does not keep it.     *)
AppendedIsReadable == Readable(journal)

(* What a client has been told of a step, an input or an end is kept over  *)
(* a restart: in the snapshot or in a line of the journal that the repair  *)
(* of its tail leaves (durable_required).  Whether that line can be read   *)
(* back is StaysReadable's matter.                                         *)
SemanticSurvives ==
    \A i \in DOMAIN published :
        published[i].kind \in {"semantic", "journaled"} =>
            \/ published[i].id \in snap.seen
            \/ \E e \in Events(Mended(journal)) : e.id = published[i].id

(* The snapshot and the journal behind its lastSequence together contain   *)
(* every event of the journal: a client that recovers misses none          *)
(* (_next_snapshot, get_state).  In extreme mode the cached snapshot       *)
(* (_extreme_snapshot_base) is not brought up to the journal.              *)
RecoveryComplete ==
    ~Extreme => \A e \in Events(Mended(journal)) : e.id \in snap.seen \/ e.seq > snap.last

(* The numbers of the events handed on grow, over restarts too: a client   *)
(* may use them to recognize what it has seen and to ask for the rest      *)
(* (_ensure_monotonic_sequence).  In extreme mode text that was handed on  *)
(* and not yet flushed takes its numbers with it when the process dies; so *)
(* does a plain event that neither the journal nor the snapshot took.      *)
SequencesGrow ==
    ~Extreme /\ ~setting.double =>
        \A i, j \in DOMAIN published : i < j => published[i].seq < published[j].seq

(* In the journal a number stands for one event, in every mode and over    *)
(* restarts and failed appends (_ensure_monotonic_sequence_fast).  In      *)
(* extreme mode a publisher that cannot read the journal starts from 0.    *)
JournalNumbers ==
    (Extreme => Readable(journal)) =>
        \A e, d \in Events(Mended(journal)) : e.seq = d.seq => e.id = d.id

(* What a client was told of a step, an input or an end is kept in the     *)
(* snapshot or in the file through any mixture of cut, failed and undone   *)
(* writes and kills, and the file stays readable unless a text contains a  *)
(* line separator (read_all_repairing_tail).                               *)
HistorySurvives == TypeOK /\ StaysReadable /\ SemanticSurvives

(* Sequence numbers identify events: those handed on grow, and in the      *)
(* journal a number stands for one event (_ensure_monotonic_sequence).     *)
NumbersIdentify == SequencesGrow /\ JournalNumbers

=============================================================================
