------------------------- MODULE PipelineOutbound -------------------------
(***************************************************************************)
(* The outbound queue of an A2A pipeline (a2a/pipeline_outbound.py).       *)
(* Events of several sources are collected and published in batches by one *)
(* worker; a permission request blocks its own source until the user has   *)
(* decided; callbacks, flushes and the close are boundaries in the stream. *)
(*                                                                         *)
(* Everything done under the queue's lock happens without an await, so it  *)
(* is one action.  Events are named by their arrival numbers; a batch is a *)
(* set, published in the order of arrival.  The age and the size of the    *)
(* collected events are left open: a batch may become due at any time.     *)
(***************************************************************************)
EXTENDS Integers, Sequences, FiniteSets

CONSTANTS
    Sources,      \* the pipeline and its candidates
    MaxBatch,     \* OUTBOUND_MAX_BATCH_EVENTS
    MaxArrivals, MaxPermissions, MaxBoundaries, MaxFails, MaxAborts, \* bounds
    None

Boundaries == {"callback", "flush", "close"}

Decisions == {"open", "made", "raised"}

(* What the worker executes: _ReadyBatch, _PermissionItem, _CallbackItem   *)
(* and _ControlItem.                                                       *)
Operation ==
    [kind : {"batch"}, items : SUBSET Nat]
    \union [kind : {"permission"}, no : Nat, decision : Decisions]
    \union [kind : Boundaries, no : Nat]

ASSUME OutboundAssumption ==
    /\ MaxBatch \in Nat \ {0}
    /\ {MaxArrivals, MaxPermissions, MaxBoundaries, MaxFails, MaxAborts} \subseteq Nat
    /\ None \notin Sources \union Operation

VARIABLES
    evs,     \* what arrived, by arrival number; held: see HeldBack
    box,     \* the collected work, see InitBox
    worker,  \* "select", "wait", "busy" or "ended"
    cur,     \* the operation the worker executes
    wake,    \* _wakeup
    closing, \* _closing
    abort,   \* how far an abort is: "none", "begun" or "over"
    broken,  \* _fatal_exception is set
    sent,    \* the published batches, in order
    done,    \* the boundaries completed
    failed,  \* what was given up
    fails    \* number of publisher failures

vars == <<evs, box, worker, cur, wake, closing, abort, broken, sent, done, failed, fails>>

(* queue: _source_queues; batches, bounds: the batches and the boundaries  *)
(* in _ready; a batch stands behind the boundaries up to at, the number of *)
(* arrivals when it was frozen.  perms: _permissions; blocked:             *)
(* _blocked_source_counts; timer: the delay task is scheduled.             *)
InitBox == [queue |-> [s \in Sources |-> {}], batches |-> {}, bounds |-> {}, perms |-> {},
            blocked |-> [s \in Sources |-> 0], timer |-> FALSE]

Init ==
    /\ evs = <<>> /\ box = InitBox
    /\ worker = "select" /\ cur = None /\ wake = FALSE
    /\ closing = FALSE /\ abort = "none" /\ broken = FALSE
    /\ sent = <<>> /\ done = {} /\ failed = {} /\ fails = 0

Batch(items) == [kind |-> "batch", items |-> items]

----------------------------------------------------------------------------
(* The collected events                                                    *)

(* The events of the sources that no permission blocks. *)
Active(b) == UNION {b.queue[s] : s \in {t \in Sources : b.blocked[t] = 0}}

Take(b, items) == [b EXCEPT !.queue = [s \in Sources |-> b.queue[s] \ items]]

Reschedule(b) == [b EXCEPT !.timer = Active(b) # {}]

(* (Mutant: a frozen batch goes to the head of the line.) *)
AtTheHead(items, at) == [items |-> items, at |-> 0]

InLine(items, at) == [items |-> items, at |-> at]

(* _freeze_active_locked *)
Freeze(b, at) ==
    IF Active(b) = {} THEN Reschedule(b)
    ELSE Reschedule([Take(b, Active(b)) EXCEPT !.batches = @ \union {InLine(Active(b), at)}])

(* _freeze_if_triggered_locked; due: the time or the size limit is         *)
(* reached.                                                                *)
FreezeIfTriggered(b, at, busy, due) ==
    IF \/ ~busy /\ b.batches = {} /\ b.bounds = {}
       \/ Cardinality(Active(b)) >= MaxBatch
       \/ due
    THEN Freeze(b, at)
    ELSE Reschedule(b)

(* (Mutant: events that are already in a batch stay there.) *)
AllButNone(b) == {}

(* The batches behind the last boundary. *)
Reachable(b) == {f \in b.batches : \A n \in b.bounds : n <= f.at}

FromSource(s, items) == {a \in items : evs[a].src = s}

(* _extract_source_items_locked: what a new permission request of s must   *)
(* wait for, and the batches without it.                                   *)
Prefix(b, s) == b.queue[s] \union UNION {FromSource(s, f.items) : f \in Reachable(b)}

Retained(b, s) ==
    {f \in {[g EXCEPT !.items = @ \ FromSource(s, g.items)] : g \in Reachable(b)} : f.items # {}}

WithoutPrefix(b, s) ==
    [b EXCEPT !.queue[s] = {}, !.batches = (@ \ Reachable(b)) \union Retained(b, s)]

----------------------------------------------------------------------------
(* What the worker does next: _select_operation_locked                     *)

(* Ahead of every boundary in _ready. *)
Ahead(b, no) == \A n \in b.bounds : no < n

(* _first_deliverable_permission_locked: the first one of its source that  *)
(* has something to send, none beyond a boundary.                          *)
Deliverable(b) ==
    {p \in b.perms :
        /\ Ahead(b, p.no)
        /\ p.prefix # {} \/ p.decision # "open"
        /\ \A q \in b.perms : q.no < p.no => evs[q.no].src # evs[p.no].src}

IsFirst(p, perms) == p \in perms /\ \A q \in perms : p.no <= q.no

(* What can go out at once: the batches ahead of the first boundary and    *)
(* what was collected before it, as one (_take_ready_batch_locked,         *)
(* _snapshot_active_before_locked).                                        *)
LeadingBatches(b) == {f \in b.batches : Ahead(b, f.at)}

Due(b) == (UNION {f.items : f \in LeadingBatches(b)}) \union {a \in Active(b) : Ahead(b, a)}

(* The first boundary, with no permission request before it. *)
Completable(b) ==
    {n \in b.bounds : (\A m \in b.bounds : n <= m) /\ (\A p \in b.perms : n < p.no)}

----------------------------------------------------------------------------
(* The callers                                                             *)

Accepts == ~broken /\ ~closing /\ Len(evs) < MaxArrivals

Arrival(kind, s, held) == evs' = Append(evs, [kind |-> kind, src |-> s, held |-> held])

(* What waits behind permission requests that are not over: the freeze     *)
(* before a boundary leaves it (the code keeps no record of it, Fenced     *)
(* does).                                                                  *)
HeldBack(b) == UNION {b.queue[s] : s \in {t \in Sources : b.blocked[t] # 0}}

Now == Len(evs) + 1

CountOf(kinds) == Cardinality({a \in DOMAIN evs : evs[a].kind \in kinds})

Rest == UNCHANGED <<worker, cur, closing, abort, broken, sent, done, failed, fails>>

(* submit *)
Submit(s, due) ==
    /\ Accepts
    /\ Arrival("event", s, {})
    /\ box' = FreezeIfTriggered([box EXCEPT !.queue[s] = @ \union {Now}], Now, worker = "busy", due)
    /\ wake' = TRUE
    /\ Rest

(* submit of a permission request: _enqueue_permission_locked *)
SubmitPermission(s) ==
    /\ Accepts /\ CountOf({"permission"}) < MaxPermissions
    /\ Arrival("permission", s, {})
    /\ box' = Reschedule([WithoutPrefix(box, s) EXCEPT
                  !.perms = @ \union {[no |-> Now, decision |-> "open", prefix |-> Prefix(box, s)]},
                  !.blocked[s] = @ + 1])
    /\ wake' = TRUE
    /\ Rest

(* run_serialized, flush and close *)
SubmitBoundary(kind) ==
    /\ Accepts /\ CountOf(Boundaries) < MaxBoundaries
    /\ Arrival(kind, None, HeldBack(box))
    /\ box' = [Freeze(box, Len(evs)) EXCEPT !.bounds = @ \union {Now}]
    /\ wake' = TRUE
    /\ closing' = (kind = "close")
    /\ UNCHANGED <<worker, cur, abort, broken, sent, done, failed, fails>>

(* (Mutant: the end of a decision does not wake the worker.) *)
NoWakeup == wake

DecisionWakes == TRUE

Replace(p, q) == [box EXCEPT !.perms = (@ \ {p}) \union {q}]

(* The resolver answers or raises: _permission_decision_done. *)
Decide(p, decision) ==
    /\ p.decision = "open"
    /\ box' = Replace(p, [p EXCEPT !.decision = decision])
    /\ wake' = DecisionWakes
    /\ UNCHANGED evs /\ Rest

(* _freeze_after_delay *)
DelayFires ==
    /\ box.timer
    /\ box' = Freeze(box, Len(evs))
    /\ wake' = TRUE
    /\ UNCHANGED evs /\ Rest

----------------------------------------------------------------------------
(* The worker                                                              *)

Selects == worker = "select" \/ (worker = "wait" /\ wake)

Executes(op, b) ==
    /\ Selects
    /\ worker' = "busy" /\ cur' = op /\ box' = b
    /\ UNCHANGED <<evs, wake, closing, abort, broken, sent, done, failed, fails>>

SelectPrefix(p) ==
    /\ IsFirst(p, Deliverable(box)) /\ p.prefix # {}
    /\ Executes(Batch(p.prefix), Replace(p, [p EXCEPT !.prefix = {}]))

SelectPermission(p) ==
    /\ IsFirst(p, Deliverable(box)) /\ p.prefix = {}
    /\ Executes([kind |-> "permission", no |-> p.no, decision |-> p.decision],
                [box EXCEPT !.perms = @ \ {p}])

SelectBatch ==
    /\ Deliverable(box) = {} /\ Due(box) # {}
    /\ Executes(Batch(Due(box)),
                Reschedule([Take(box, Due(box)) EXCEPT !.batches = @ \ LeadingBatches(box)]))

SelectBoundary(no) ==
    /\ Deliverable(box) = {} /\ Due(box) = {} /\ no \in Completable(box)
    /\ Executes([kind |-> evs[no].kind, no |-> no], [box EXCEPT !.bounds = @ \ {no}])

Wait ==
    /\ Deliverable(box) = {} /\ Due(box) = {} /\ Completable(box) = {}
    /\ Selects
    /\ worker' = "wait" /\ wake' = FALSE
    /\ UNCHANGED <<evs, box, cur, closing, abort, broken, sent, done, failed, fails>>

Select ==
    \/ \E p \in box.perms : SelectPrefix(p) \/ SelectPermission(p)
    \/ SelectBatch
    \/ \E no \in box.bounds : SelectBoundary(no)
    \/ Wait

Finished(b) ==
    /\ box' = b
    /\ worker' = IF cur.kind = "close" THEN "ended" ELSE "select"
    /\ cur' = None /\ wake' = TRUE
    /\ UNCHANGED <<evs, closing, abort, broken, failed, fails>>

(* _publish_batch *)
FinishBatch ==
    /\ worker = "busy" /\ cur.kind = "batch"
    /\ sent' = Append(sent, cur.items) /\ UNCHANGED done
    /\ Finished(box)

Unblock(b, op) == [b EXCEPT !.blocked[evs[op.no].src] = @ - 1]

(* _publish_permission: when it is over its source goes on. *)
FinishPermission(due) ==
    /\ worker = "busy" /\ cur.kind = "permission"
    /\ cur.decision = "made"
    /\ sent' = Append(sent, {cur.no}) /\ UNCHANGED done
    /\ Finished(FreezeIfTriggered(Unblock(box, cur), Len(evs), TRUE, due))

FinishBoundary ==
    /\ worker = "busy" /\ cur.kind \in Boundaries
    /\ done' = done \union {cur.no} /\ UNCHANGED sent
    /\ Finished(box)

Contents(op) == IF op = None THEN {} ELSE IF op.kind = "batch" THEN op.items ELSE {op.no}

Pending(b) ==
    (UNION {b.queue[s] : s \in Sources}) \union (UNION {f.items : f \in b.batches})
    \union b.bounds \union (UNION {p.prefix \union {p.no} : p \in b.perms})

(* _fail_pending_locked *)
FailPending(b) == [InitBox EXCEPT !.blocked = b.blocked]

(* The worker ends: its operation and all pending ones fail. *)
BreakDown ==
    /\ failed' = failed \union Contents(cur) \union Pending(box)
    /\ box' = FailPending(IF worker = "busy" /\ cur.kind = "permission" THEN Unblock(box, cur) ELSE box)
    /\ worker' = "ended" /\ cur' = None
    /\ broken' = TRUE
    /\ UNCHANGED <<evs, wake, closing, sent, done>>

(* The publisher or a callback raises. *)
OperationFails ==
    /\ worker = "busy" /\ cur.kind \notin {"flush", "close"}
    /\ fails < MaxFails
    /\ fails' = fails + 1
    /\ BreakDown
    /\ UNCHANGED abort

(* The decision of a permission request was an exception or cancelled. *)
DecisionFails ==
    /\ worker = "busy" /\ cur.kind = "permission" /\ cur.decision = "raised"
    /\ BreakDown
    /\ UNCHANGED <<abort, fails>>

(* abort: first everything is refused and the open decisions cancelled,    *)
(* then the worker is cancelled and joined.                                *)
Cancelled(p) == [p EXCEPT !.decision = IF @ = "open" THEN "raised" ELSE @]

AbortBegins ==
    /\ abort = "none" /\ MaxAborts > 0
    /\ abort' = "begun" /\ closing' = TRUE /\ broken' = TRUE /\ wake' = TRUE
    /\ box' = [box EXCEPT !.perms = {Cancelled(p) : p \in @}, !.timer = FALSE]
    /\ UNCHANGED <<evs, worker, cur, sent, done, failed, fails>>

AbortEnds ==
    /\ abort = "begun"
    /\ abort' = "over"
    /\ BreakDown
    /\ UNCHANGED fails

Work == Select \/ FinishBatch \/ (\E due \in BOOLEAN : FinishPermission(due)) \/ FinishBoundary \/ DecisionFails

Decision == \E p \in box.perms : Decide(p, "made") \/ Decide(p, "raised")

Next ==
    \/ \E s \in Sources : SubmitPermission(s) \/ \E due \in BOOLEAN : Submit(s, due)
    \/ \E kind \in Boundaries : SubmitBoundary(kind)
    \/ Decision \/ DelayFires
    \/ Work \/ OperationFails
    \/ AbortBegins \/ AbortEnds

Spec == Init /\ [][Next]_vars

(* The worker, the decisions and the delay are tasks of the event loop;    *)
(* resolvers answer, and an abort that has begun is not left half-way.     *)
Fairness == WF_vars(Work) /\ WF_vars(Decision) /\ WF_vars(DelayFires) /\ WF_vars(AbortEnds)

FairSpec == Spec /\ Fairness

----------------------------------------------------------------------------
(* Properties                                                              *)

Items == 1..Len(evs)

Sent == UNION {sent[i] : i \in DOMAIN sent}

Event ==
    [kind : {"event", "permission"} \union Boundaries, src : Sources \union {None}, held : SUBSET Nat]

(* The collected work while k events have arrived. *)
Box(k) ==
    [queue : [Sources -> SUBSET (1..k)], batches : SUBSET [items : SUBSET (1..k), at : 0..k],
     bounds : SUBSET (1..k), perms : SUBSET [no : 1..k, decision : Decisions, prefix : SUBSET (1..k)],
     blocked : [Sources -> 0..MaxPermissions], timer : BOOLEAN]

TypeOK ==
    /\ evs \in Seq(Event) /\ box \in Box(Len(evs))
    /\ cur \in Operation \union {None} /\ Contents(cur) \subseteq Items
    /\ worker \in {"select", "wait", "busy", "ended"} /\ (worker = "busy" <=> cur # None)
    /\ {wake, closing, broken} \subseteq BOOLEAN /\ abort \in {"none", "begun", "over"}
    /\ sent \in Seq(SUBSET Items) /\ done \subseteq Items /\ failed \subseteq Items /\ fails \in 0..MaxFails

(* What one source submits is published in the order it was submitted,     *)
(* permission requests among it: nothing passes a request of its source,   *)
(* and a request passes nothing of its source, whatever batches were       *)
(* already frozen (_extract_source_items_locked,                           *)
(* _first_deliverable_permission_locked, _blocked_source_counts).          *)
SourceOrder ==
    \A i, j \in DOMAIN sent : i < j =>
        \A a \in sent[i], c \in sent[j] : evs[a].src = evs[c].src => a < c

(* Everything accepted is in exactly one place: collected, in a batch, in  *)
(* the prefix of a request, with the worker, published, completed or given *)
(* up.  Moving events between the queues loses and repeats none.           *)
Conserved ==
    LET places == <<Sent, done, failed, Pending(box), Contents(cur)>>
    IN /\ Items = UNION {places[k] : k \in 1..5}
       /\ \A k, l \in 1..5 : k # l => places[k] \intersect places[l] = {}
       /\ \A i, j \in DOMAIN sent : i # j => sent[i] \intersect sent[j] = {}

(* Nothing submitted after a callback, a flush or a close is published     *)
(* before it is over (run_serialized, _take_ready_batch_locked).           *)
NoOvertaking ==
    \A a \in Sent : \A b \in Items : evs[b].kind \in Boundaries /\ b < a => b \in done \union failed

(* When a callback, a flush or a close completes, everything accepted      *)
(* before it has been published, except what waited behind an undecided    *)
(* permission request when it was called: _freeze_active_locked leaves     *)
(* that to get in line behind the boundary.                                *)
Fenced ==
    \A b \in done : \A a \in Items : a < b => a \in Sent \union done \/ a \in evs[b].held

(* When the worker has ended nobody waits for it any more: no permission   *)
(* request without an answer, no callback, flush or close without a result *)
(* (_fail_pending_locked, close).                                          *)
NoneLeftWaiting ==
    worker = "ended" => box.perms = {} /\ box.bounds = {}

(* Everything accepted is published, completed or given up eventually: no  *)
(* wakeup is lost, no source stays blocked, no boundary waits for ever     *)
(* (_permission_decision_done, _freeze_after_delay, _select_operation_     *)
(* locked).  Only the close leaves behind what waited behind an undecided  *)
(* permission request when it was called.                                  *)
LeftByClose(a) ==
    worker = "ended" /\ \E b \in done : evs[b].kind = "close" /\ a \in evs[b].held

EverythingSettles ==
    \A a \in 1..MaxArrivals :
        (a \in Items) ~> a \in Sent \union done \union failed \/ LeftByClose(a)

(* Events of a source go out in their order, each exactly once, through    *)
(* whatever queues, batches and prefixes they are moved.                   *)
InOrderOnce == TypeOK /\ SourceOrder /\ Conserved

(* Callbacks, flushes and closes divide the stream: what came before is    *)
(* out when one completes, what came after is not before it does           *)
(* (run_serialized, flush, close).                                         *)
BoundariesHold == NoOvertaking /\ Fenced

(* Everything accepted is settled eventually, and nobody waits for a       *)
(* worker that has ended (_fail_pending_locked, close).                    *)
CallersAreAnswered == []NoneLeftWaiting /\ EverythingSettles

=============================================================================
