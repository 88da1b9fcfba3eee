---------------------------- MODULE PermissionWait ----------------------------
(***************************************************************************)
(* Durable permission waits: an agent-loop run asks permission for each    *)
(* tool of an ordered batch, one durable boundary per tool, and the answer *)
(* may come before or after a deadline suspends the run, a crash loses it, *)
(* or another worker of the same session touches its checkpoint.           *)
(*                                                                         *)
(* One process (the server) owns the coordinator of                        *)
(* services/permission_wait.py, a card registry (a2a/input_required.py, or *)
(* the Web session's pending_permissions) and the runs; it is an asyncio   *)
(* loop, so it interleaves only at awaits: `busy` names the request that   *)
(* is between two store transactions without an await.  Other processes    *)
(* (requests in Foreign) share only the checkpoints.  Surface selects the  *)
(* A2A executor or the Web session manager where the two differ.           *)
(*                                                                         *)
(* Boundaries 1..NB are the tools of the batch, in order; boundary b + 1   *)
(* is the successor card of boundary b.                                    *)
(***************************************************************************)
EXTENDS PermissionStore, FiniteSets

CONSTANTS
  NB,               \* number of tools in the batch that need permission
  Requests,         \* client requests that may be in flight at once
  Foreign,          \* the requests served by another worker process
  Answers,          \* the values clients submit
  Surface,          \* "a2a" or "web"
  Faults,           \* crashes, failed runs, terminations and cancellations happen
  MaxReactivations, \* bound on re-issued cards
  Live,             \* the run that opened the batch
  None

ASSUME ConstantsAssumption ==
  /\ NB \in Nat \ {0}
  /\ Foreign \subseteq Requests
  /\ Answers \subseteq Values
  /\ Surface \in {"a2a", "web"}
  /\ Faults \in BOOLEAN
  /\ MaxReactivations \in Nat
  /\ Live \notin Requests
  /\ None \notin Requests

VARIABLES
  rec,          \* [Boundaries -> Record]: the checkpoint files
  frame,        \* [Boundaries -> decisions]: continuationFrame of each checkpoint
  results,      \* the batch's ToolResults are in the session transcript
  clock,        \* [Boundaries -> 0..2]: 1 resident deadline passed, 2 grace passed
  owner,        \* coordinator._owners, kept after unregistration for late holders
  fut,          \* response_future of each boundary
  restoring,    \* coordinator._restoring
  reg,          \* card registry: "none", "card" or "taken" (continuation claimed)
  admission,    \* recoverable-input admission held by a request, or None
  run,          \* [Runs -> RunState]: agent-loop continuations
  req,          \* [Requests -> RequestState]: answer requests
  busy,         \* request inside a section without awaits, or None
  ran,          \* tools that have been executed (history)
  reactivations

vars == <<rec, frame, results, clock, owner, fut, restoring, reg, admission, run,
          req, busy, ran, reactivations>>

Boundaries == 1..NB
Runs == {Live} \cup Requests

Decisions == [Boundaries -> {"none", "allow", "deny"}]

RunStates == {"none", "open", "opening", "wait", "woken", "restored", "exec", "persist", "finish"}
RunState ==
  [st : RunStates, b : Boundaries, root : Boundaries \cup {0}, dec : Decisions]

RequestStates ==
  {"idle", "lock", "claim", "audit", "backup", "release", "delivered", "unwind",
   "load", "reconcile", "rclaim", "raudit", "restore", "admit", "rbackup",
   "begin", "turn", "run"}
RequestState ==
  [st : RequestStates, b : Boundaries, v : Values, id : Nat, phase : Phases \cup {"ABSENT"}]

Owner ==
  [live : BOOLEAN, generation : Nat, id : Nat, lock : Requests \cup {None},
   timer : {"off", "on", "lost"}]

Outcomes == {"none", "pending", "allow", "deny", "suspend", "canceled"}
Cards == {"none", "card", "taken"}

Undecided == [b \in Boundaries |-> "none"]
NoRun == [st |-> "none", b |-> 1, root |-> 0, dec |-> Undecided]
NoRequest == [st |-> "idle", b |-> 1, v |-> "deny", id |-> 0, phase |-> "ABSENT"]
NoOwner == [live |-> FALSE, generation |-> 0, id |-> 0, lock |-> None, timer |-> "off"]

TypeOK ==
  /\ rec \in [Boundaries -> Record]
  /\ frame \in [Boundaries -> Decisions]
  /\ results \in BOOLEAN
  /\ clock \in [Boundaries -> 0..2]
  /\ owner \in [Boundaries -> Owner]
  /\ fut \in [Boundaries -> Outcomes]
  /\ restoring \subseteq Boundaries
  /\ reg \in [Boundaries -> Cards]
  /\ admission \in Requests \cup {None}
  /\ run \in [Runs -> RunState]
  /\ req \in [Requests -> RequestState]
  /\ busy \in Requests \cup {None}
  /\ ran \subseteq Boundaries
  /\ reactivations \in 0..MaxReactivations

Init ==
  /\ rec = [b \in Boundaries |-> Absent]
  /\ frame = [b \in Boundaries |-> Undecided]
  /\ results = FALSE
  /\ clock = [b \in Boundaries |-> 0]
  /\ owner = [b \in Boundaries |-> NoOwner]
  /\ fut = [b \in Boundaries |-> "none"]
  /\ restoring = {}
  /\ reg = [b \in Boundaries |-> "none"]
  /\ admission = None
  /\ run = [r \in Runs |-> IF r = Live THEN [NoRun EXCEPT !.st = "open"] ELSE NoRun]
  /\ req = [q \in Requests |-> NoRequest]
  /\ busy = None
  /\ ran = {}
  /\ reactivations = 0

-----------------------------------------------------------------------------
(* Shared steps of the coordinator.                                        *)

A2A == Surface = "a2a"
Web == Surface = "web"
Free == busy = None
ActiveRuns == {r \in Runs : run[r].st # "none"}

\* No execution of the context is running: what admission and the Web turn
\* lock wait for.  (Mutant: neither looks.)
AlwaysIdle == TRUE
Idle == ActiveRuns = {}

\* The last transcript message is still the assistant message that asked for
\* the batch: its results are not persisted.  (Mutant: the check is dropped.)
AnyTail == TRUE
CanonicalTail == ~results

\* The record that reconcile_deadline leaves for boundary b now.
Reconciled(b, live, allow) == Reconcile(rec[b], clock[b] >= 1, clock[b] = 2, live, allow)

\* register_live: a pending future is the only precondition of a new owner.
Registered(r) ==
  [live |-> TRUE, generation |-> r.generation, id |-> r.generation, lock |-> None,
   timer |-> IF HasResident THEN "on" ELSE "off"]

\* unregister_live: the owner leaves _owners and its timer is canceled.
\* (Mutant: it stays registered.)
KeptRegistered(o) == [o EXCEPT !.timer = "off"]
Released(o) == [o EXCEPT !.live = FALSE, !.timer = "off"]

\* owner.generation = record.generation, after each of the owner's own
\* transactions.
Held(o, r) == [o EXCEPT !.generation = r.generation]

\* release_restore.  (Mutant: the restoration is never released.)
NotReleased(bs) == restoring
Unrestored(bs) == restoring \ bs

\* unregister_live's effect on the record: an owner that still holds the
\* current generation finishes its own suspension.
AfterUnregister(r, o) ==
  IF o.live /\ r.phase = "SUSPENDING" /\ r.generation = o.generation
  THEN MarkSuspended(r) ELSE r

\* registry.complete(pending): forget the card and unregister its owner.
Complete(b) ==
  /\ reg' = [reg EXCEPT ![b] = "none"]
  /\ rec' = [rec EXCEPT ![b] = AfterUnregister(@, owner[b])]
  /\ owner' = [owner EXCEPT ![b] = Released(@)]

Goto(q, st) == req' = [req EXCEPT ![q].st = st]
EndRun(r) == run' = [run EXCEPT ![r] = NoRun]
Finish(q) == req' = [req EXCEPT ![q] = NoRequest]

\* The request or task that hosts a restored run ends with it.
EndHost(r) == req' = IF r \in Requests THEN [req EXCEPT ![r] = NoRequest] ELSE req

\* restore_permission_requests (Web) on top of records R and listed cards L:
\* active checkpoints that are not listed are suspended and listed again.
Unlisted(R, L) == {b \in Boundaries : Web /\ L[b] = "none" /\ R[b].phase \in ActivePhases}
Relist(R, L) ==
  /\ rec' = [b \in Boundaries |->
               IF b \in Unlisted(R, L) THEN Reconcile(R[b], FALSE, FALSE, FALSE, TRUE) ELSE R[b]]
  /\ reg' = [b \in Boundaries |-> IF b \in Unlisted(R, L) THEN "card" ELSE L[b]]

-----------------------------------------------------------------------------
(* The run: open a card, wait, decide, execute the batch, persist.         *)

\* open_durable_boundary / open_permission_request: the record is written,
\* a successor turns its predecessor into a receipt and releases its owner.
\* The Web surface registers the owner in the same step; A2A backs up first.
OpenBoundary(r) ==
  LET b == run[r].b IN
  /\ Free /\ run[r].st = "open"
  /\ CanCreate(rec[b])
  /\ b > 1 => CanSucceed(rec[b - 1])
  /\ rec' = [i \in Boundaries |-> IF i = b THEN Create(rec[b])
                                  ELSE IF i + 1 = b THEN Succeeded(rec[i]) ELSE rec[i]]
  /\ owner' = [i \in Boundaries |-> IF i = b /\ Web THEN Registered(Checkpoint)
                                    ELSE IF i + 1 = b THEN Released(owner[i]) ELSE owner[i]]
  /\ reg' = [i \in Boundaries |-> IF i = b THEN "card" ELSE IF i + 1 = b THEN "none" ELSE reg[i]]
  /\ fut' = [fut EXCEPT ![b] = "pending"]
  /\ clock' = [clock EXCEPT ![b] = 0]
  /\ frame' = [frame EXCEPT ![b] = run[r].dec]
  /\ run' = [run EXCEPT ![r].st = IF Web THEN "wait" ELSE "opening"]
  /\ UNCHANGED <<results, restoring, admission, req, busy, ran, reactivations>>

\* The critical backup of the card returned: activate_durable_boundary.
ActivateBoundary(r) ==
  LET b == run[r].b IN
  /\ Free /\ run[r].st = "opening" /\ fut[b] = "pending"
  /\ owner' = [owner EXCEPT ![b] = Registered(rec[b])]
  /\ run' = [run EXCEPT ![r].st = "wait"]
  /\ UNCHANGED <<rec, frame, results, clock, fut, restoring, reg, admission, req, busy, ran,
                 reactivations>>

\* The critical backup failed: registry.fail cancels the unpublished card,
\* answers its future with a denial and the exception ends the run.
OpenBackupFails(r) ==
  LET b == run[r].b IN
  /\ Free /\ run[r].st = "opening"
  /\ rec' = [rec EXCEPT ![b] = IF CanCancel(@, FALSE) THEN Cancel(@) ELSE @]
  /\ fut' = [fut EXCEPT ![b] = "deny"]
  /\ restoring' = Unrestored({run[r].root})
  /\ EndRun(r) /\ EndHost(r)
  /\ UNCHANGED <<frame, results, clock, owner, reg, admission, busy, ran, reactivations>>

\* (Mutant of Advance: off by one at the end of the batch.)
AdvancePast(r, d) ==
  run' = [run EXCEPT ![r] = [@ EXCEPT !.dec[run[r].b] = d, !.st = "open", !.b = @ + 1]]

\* The run has decision d for its current tool: on to the next one, or to
\* the execution of the batch.
Advance(r, d) ==
  LET b == run[r].b IN
  run' = [run EXCEPT ![r] = [@ EXCEPT !.dec[b] = d,
                                      !.st = IF b < NB THEN "open" ELSE "exec",
                                      !.b = IF b < NB THEN b + 1 ELSE b]]

\* The agent loop reads the outcome of its future.  A detached A2A run is
\* driven by the request that claimed its continuation ("woken"); the other
\* runs await the future themselves, and a restored A2A run drops its card
\* before it goes on.  An allow is still turned into a denial when the
\* additional audits cannot be written.
TakeOutcome(r, ok) ==
  LET b == run[r].b IN
  /\ Free /\ fut[b] \in {"allow", "deny"}
  /\ run[r].st = IF A2A /\ r = Live THEN "woken" ELSE "wait"
  /\ Advance(r, IF fut[b] = "allow" /\ ok THEN "allow" ELSE "deny")
  /\ IF A2A /\ r # Live THEN Complete(b) ELSE UNCHANGED <<rec, owner, reg>>
  /\ UNCHANGED <<frame, results, clock, fut, restoring, admission, req, busy, ran,
                 reactivations>>

\* The future says SUSPEND: the run unwinds (suspend_detached, or
\* PermissionWaitSuspended), which releases its owner and, on A2A, its card;
\* the Web card stays listed.
Unwind(r) ==
  LET b == run[r].b IN
  /\ Free /\ run[r].st = "wait" /\ fut[b] = "suspend"
  /\ rec' = [rec EXCEPT ![b] = AfterUnregister(@, owner[b])]
  /\ owner' = [owner EXCEPT ![b] = Released(@)]
  /\ reg' = [reg EXCEPT ![b] = IF A2A THEN "none" ELSE @]
  /\ restoring' = Unrestored({run[r].root})
  /\ EndRun(r) /\ EndHost(r)
  /\ UNCHANGED <<frame, results, clock, fut, admission, busy, ran, reactivations>>

\* The allowed tools of the batch run.
Execute(r) ==
  /\ Free /\ run[r].st = "exec"
  /\ ran' = ran \cup {b \in Boundaries : run[r].dec[b] = "allow"}
  /\ run' = [run EXCEPT ![r].st = "persist"]
  /\ UNCHANGED <<rec, frame, results, clock, owner, fut, restoring, reg, admission, req,
                 busy, reactivations>>

\* The complete ToolResult batch is appended to the transcript.
Persist(r) ==
  /\ Free /\ run[r].st = "persist"
  /\ results' = TRUE
  /\ run' = [run EXCEPT ![r].st = "finish"]
  /\ UNCHANGED <<rec, frame, clock, owner, fut, restoring, reg, admission, req, busy, ran,
                 reactivations>>

\* The turn ends: resolve_consumed_boundary (A2A, live) and
\* resolve_permission_boundaries (Web) turn the last card into a receipt and
\* release its owner; resolve_restored_boundary (A2A, restored) resolves every
\* active checkpoint whose results are persisted.
Conclude(r) ==
  LET b == run[r].b
      restored == A2A /\ r # Live
      sealed == IF restored THEN {i \in Boundaries : rec[i].phase \in ActivePhases /\ results}
                ELSE {b}
  IN
  /\ Free /\ run[r].st = "finish"
  /\ rec' = [i \in Boundaries |-> IF i \in sealed THEN Resolve(rec[i]) ELSE rec[i]]
  /\ owner' = [owner EXCEPT ![b] = IF restored THEN @ ELSE Released(@)]
  /\ reg' = [reg EXCEPT ![b] = IF restored THEN @ ELSE "none"]
  /\ restoring' = Unrestored({run[r].root})
  /\ EndRun(r) /\ EndHost(r)
  /\ UNCHANGED <<frame, results, clock, fut, admission, busy, ran, reactivations>>

\* An exception ends a run that is past its wait.  Restored: the handlers call
\* reconcile_deadline(live_owner=False) on the root, which leaves RESTORING
\* alone, and the Web handler re-lists unlisted cards.  Live: the Web handler
\* orphans the listed cards, A2A leaves checkpoint, card and owner behind.
RunFails(r) ==
  LET root == run[r].root
      orphaned == IF Web /\ root = 0 THEN {i \in Boundaries : reg[i] # "none"} ELSE {}
      R == [i \in Boundaries |-> IF i = root \/ i \in orphaned
                                 THEN Reconciled(i, FALSE, TRUE) ELSE rec[i]]
  IN
  /\ Faults /\ Free /\ run[r].st \in {"woken", "restored", "exec", "persist", "finish"}
  /\ IF root = 0 THEN rec' = R /\ UNCHANGED reg ELSE Relist(R, reg)
  /\ owner' = [i \in Boundaries |-> IF i \in orphaned THEN Released(owner[i]) ELSE owner[i]]
  /\ restoring' = Unrestored({root})
  /\ EndRun(r) /\ EndHost(r)
  /\ UNCHANGED <<frame, results, clock, fut, admission, busy, ran, reactivations>>

\* _finish_terminated_permission_restore: the controller drains a restored
\* A2A run and seals its record, as canceled or, after the turn, as resolved.
TerminateRestore(q) ==
  /\ Faults /\ A2A /\ Free
  /\ run[q].st \in {"restored", "exec", "persist", "finish"}
  /\ rec' = [i \in Boundaries |->
               IF rec[i].phase # "RESTORING" THEN rec[i]
               ELSE IF run[q].st = "finish" THEN Resolve(rec[i]) ELSE CancelRestore(rec[i])]
  /\ restoring' = Unrestored({run[q].root})
  /\ EndRun(q) /\ Finish(q)
  /\ UNCHANGED <<frame, results, clock, owner, fut, reg, admission, busy, ran, reactivations>>

\* reactivate: a recovered execution re-issues an unanswered, suspended card.
RebuildCard(b) ==
  /\ A2A /\ Free /\ Idle /\ admission = None
  /\ reactivations < MaxReactivations
  /\ CanReactivate(rec[b])
  /\ rec' = [rec EXCEPT ![b] = Reactivate(@)]
  /\ clock' = [clock EXCEPT ![b] = 0]
  /\ fut' = [fut EXCEPT ![b] = "pending"]
  /\ reg' = [reg EXCEPT ![b] = "card"]
  /\ run' = [run EXCEPT ![Live] = [st |-> "opening", b |-> b, root |-> 0, dec |-> frame[b]]]
  /\ reactivations' = reactivations + 1
  /\ UNCHANGED <<frame, results, owner, restoring, admission, req, busy, ran>>

-----------------------------------------------------------------------------
(* Time, the resident timer and cancellation.                              *)

\* The wall clock passes the resident, then the grace deadline of a wait.
Tick(b) ==
  /\ HasResident /\ rec[b].phase \in {"WAITING", "TIMEOUT_GRACE"}
  /\ \/ clock[b] = 0
     \/ clock[b] = 1 /\ rec[b].graceDeadline
  /\ clock' = [clock EXCEPT ![b] = @ + 1]
  /\ UNCHANGED <<rec, frame, results, owner, fut, restoring, reg, admission, run, req, busy,
                 ran, reactivations>>

\* _run_resident_timer -> suspend_now -> _suspend_owner, once.  The timer
\* sleeps again while the wait is unanswered and not yet due, else it ends.
TimerFires(b) ==
  LET fenced == rec[b].generation # owner[b].generation
      new == IF fenced THEN rec[b] ELSE Reconciled(b, TRUE, TRUE)
      suspended == ~fenced /\ new.phase = "SUSPENDING"
      again == ~suspended /\ new.phase \in {"WAITING", "TIMEOUT_GRACE"} /\ new.status = "none"
  IN
  /\ Free /\ owner[b].live /\ owner[b].timer = "on" /\ owner[b].lock = None
  /\ clock[b] >= 1 /\ fut[b] = "pending"
  /\ rec' = [rec EXCEPT ![b] = new]
  /\ owner' = [owner EXCEPT ![b] = [IF fenced THEN @ ELSE Held(@, new)
                                    EXCEPT !.timer = IF again THEN "on" ELSE "off"]]
  /\ fut' = [fut EXCEPT ![b] = IF suspended THEN "suspend" ELSE @]
  /\ UNCHANGED <<frame, results, clock, restoring, reg, admission, run, req, busy, ran,
                 reactivations>>

\* A transport cancellation kills the timer task ...
TimerLost(b) ==
  /\ Free /\ owner[b].live /\ owner[b].timer = "on" /\ fut[b] = "pending"
  /\ owner' = [owner EXCEPT ![b].timer = "lost"]
  /\ UNCHANGED <<rec, frame, results, clock, fut, restoring, reg, admission, run, req, busy,
                 ran, reactivations>>

\* ... and _resident_timer_finished re-arms it for a live, undecided owner.
\* (Mutant: the timer stays lost.)
NotRearmed(b) == "lost"
Rearmed(b) == IF owner[b].live /\ fut[b] = "pending" THEN "on" ELSE "off"
TimerRearmed(b) ==
  /\ Free /\ owner[b].timer = "lost"
  /\ owner' = [owner EXCEPT ![b].timer = Rearmed(b)]
  /\ UNCHANGED <<rec, frame, results, clock, fut, restoring, reg, admission, run, req, busy,
                 ran, reactivations>>

\* A set of runs, and the requests that host them, ends.
EndRuns(rs) ==
  /\ run' = [r \in Runs |-> IF r \in rs THEN NoRun ELSE run[r]]
  /\ restoring' = Unrestored({run[r].root : r \in rs})
  /\ req' = [q \in Requests |-> IF q \in rs THEN NoRequest ELSE req[q]]

\* cancel_task (A2A): cancel_live_result under the resolution lock; without a
\* local owner, or fenced, the checkpoint alone is canceled; then complete.
CancelTask(b) ==
  LET o == owner[b]
      unreleased == fut[b] = "pending"
      owned == o.live /\ o.generation = rec[b].generation /\ CanCancel(rec[b], unreleased)
      claimed == o.live /\ ~owned /\ Decided(rec[b])
      canceled == IF owned THEN Cancel(rec[b])
                  ELSE IF ~claimed /\ CanCancel(rec[b], FALSE) THEN Cancel(rec[b]) ELSE rec[b]
  IN
  /\ Faults /\ A2A /\ Free /\ reg[b] # "none" /\ o.lock = None
  /\ rec' = [rec EXCEPT ![b] = AfterUnregister(canceled, o)]
  /\ fut' = [fut EXCEPT ![b] = IF @ # "pending" \/ claimed THEN @
                               ELSE IF ~o.live THEN @
                               ELSE IF owned \/ rec[b].phase = "CANCELED" THEN "canceled"
                               ELSE "deny"]
  /\ owner' = [owner EXCEPT ![b] = Released(@)]
  /\ reg' = [reg EXCEPT ![b] = "none"]
  /\ EndRuns({r \in Runs : run[r].st \in {"opening", "wait"} /\ run[r].b = b})
  /\ UNCHANGED <<frame, results, clock, admission, busy, ran, reactivations>>

\* Interrupt (Web): cancel_pending_requests_for_session cancels every listed
\* card, a claimed decision wins and keeps its card; a run waiting for a
\* canceled card ends, and with `stop` so does a run whose card was kept.  The
\* live turn then orphans the cards that are left.
InterruptSession(stop) ==
  LET listed == {b \in Boundaries : reg[b] # "none"}
      gone == {b \in listed : CanCancel(rec[b], FALSE)}
      ended == {r \in Runs : run[r].st = "wait" /\ (run[r].b \in gone \/ stop)}
      orphaned == IF Live \in ended THEN listed \ gone ELSE {}
  IN
  /\ Faults /\ Web /\ Free /\ listed # {}
  /\ rec' = [b \in Boundaries |-> IF b \in gone THEN Cancel(rec[b])
                                  ELSE IF b \in orphaned THEN Reconciled(b, FALSE, TRUE)
                                  ELSE rec[b]]
  /\ fut' = [b \in Boundaries |-> IF b \in gone /\ fut[b] = "pending" THEN "canceled" ELSE fut[b]]
  /\ owner' = [b \in Boundaries |-> IF b \in gone \cup orphaned THEN Released(owner[b])
                                    ELSE owner[b]]
  /\ reg' = [b \in Boundaries |-> IF b \in gone THEN "none" ELSE reg[b]]
  /\ EndRuns(ended)
  /\ UNCHANGED <<frame, results, clock, admission, busy, ran, reactivations>>

\* The server dies and a new process takes over: only files survive.  A Web
\* session is loaded again before it can be used (_restore_permission_requests).
Crash ==
  /\ Faults
  /\ owner' = [b \in Boundaries |-> NoOwner]
  /\ fut' = [b \in Boundaries |-> "none"]
  /\ restoring' = {}
  /\ Relist(rec, [b \in Boundaries |-> "none"])
  /\ admission' = None
  /\ run' = [r \in Runs |-> NoRun]
  /\ req' = [q \in Requests |-> IF q \in Foreign THEN req[q] ELSE NoRequest]
  /\ busy' = None
  /\ UNCHANGED <<frame, results, clock, ran, reactivations>>

-----------------------------------------------------------------------------
(* Answers on the live path: claim_live / _claim_live_and_deliver.         *)

\* A client may answer any card it has been shown.
Published(b) ==
  /\ rec[b].phase # "ABSENT"
  /\ \A r \in Runs : ~(run[r].st = "opening" /\ run[r].b = b)

\* A2A: pending_for_response and registry.answer.  A registered card without
\* a live owner is a LookupError: complete the card and try the checkpoint.
SubmitA2A(q, b, v) ==
  /\ A2A /\ req[q].st = "idle" /\ Published(b)
  /\ q \in Foreign \/ Free
  /\ LET card == q \notin Foreign /\ reg[b] # "none" IN
     /\ req' = [req EXCEPT ![q] = [st |-> IF card /\ owner[b].live THEN "lock" ELSE "load",
                                   b |-> b, v |-> v, id |-> owner[b].id, phase |-> "ABSENT"]]
     /\ reg' = [reg EXCEPT ![b] = IF card /\ ~owner[b].live THEN "none" ELSE @]
  /\ UNCHANGED <<rec, frame, results, clock, owner, fut, restoring, admission, run, busy, ran,
                 reactivations>>

\* Web: resolve_durable_permission.  A conflicting value is refused (409); an
\* unlisted, unresolved card with the same decision starts recovery at once.
SubmitWeb(q, b, v) ==
  LET listed == reg[b] # "none"
      final == rec[b].audit \in {"recorded", "failed"}
      to == IF ~listed THEN "restore" ELSE IF owner[b].live THEN "lock" ELSE "reconcile"
  IN
  /\ Web /\ Free /\ q \notin Foreign /\ req[q].st = "idle" /\ Published(b)
  /\ Decided(rec[b]) => rec[b].value = v
  /\ ~listed => Decided(rec[b]) /\ rec[b].phase # "RESOLVED"
  /\ listed /\ ~owner[b].live => final \/ CanonicalTail
  /\ req' = [req EXCEPT ![q] = [st |-> to, b |-> b, v |-> v, id |-> owner[b].id,
                                phase |-> "ABSENT"]]
  /\ UNCHANGED <<rec, frame, results, clock, owner, fut, restoring, reg, admission, run, busy,
                 ran, reactivations>>

\* A ValueError of the live path.  A2A completes the card (unregistering its
\* owner) and falls back to the checkpoint; the Web handler answers 409.
Refuse(q) ==
  LET b == req[q].b IN
  IF A2A THEN Complete(b) /\ Goto(q, "load") /\ UNCHANGED fut
  ELSE Finish(q) /\ UNCHANGED <<rec, owner, reg, fut>>

\* Under the resolution lock: reconcile_deadline with the owner's generation.
\* An answer that finds its owner replaced or its generation fenced is refused.
ClaimReconcile(q, allow) ==
  LET b == req[q].b
      new == Reconciled(b, TRUE, allow)
  IN
  /\ Free /\ req[q].st = "lock" /\ owner[b].lock = None
  /\ IF owner[b].id # req[q].id \/ owner[b].generation # rec[b].generation
     THEN Refuse(q) /\ UNCHANGED busy
     ELSE /\ rec' = [rec EXCEPT ![b] = new]
          /\ owner' = [owner EXCEPT ![b] = [Held(@, new) EXCEPT !.lock = q]]
          /\ busy' = q
          /\ Goto(q, "claim")
          /\ UNCHANGED <<fut, reg>>
  /\ UNCHANGED <<frame, results, clock, restoring, admission, run, ran, reactivations>>

\* claim_decision with the owner's generation.
ClaimDecision(q) ==
  LET b == req[q].b
      new == Claim(rec[b], req[q].v)
  IN
  /\ busy = q /\ req[q].st = "claim"
  /\ IF owner[b].generation # rec[b].generation \/ ~CanClaim(rec[b], req[q].v)
     THEN /\ busy' = None
          /\ IF A2A
             THEN /\ reg' = [reg EXCEPT ![b] = "none"]
                  /\ rec' = [rec EXCEPT ![b] = AfterUnregister(@, owner[b])]
                  /\ owner' = [owner EXCEPT ![b] = [Released(@) EXCEPT !.lock = None]]
                  /\ Goto(q, "load")
             ELSE /\ owner' = [owner EXCEPT ![b].lock = None]
                  /\ Finish(q)
                  /\ UNCHANGED <<rec, reg>>
     ELSE /\ rec' = [rec EXCEPT ![b] = new]
          /\ owner' = [owner EXCEPT ![b] = Held(@, new)]
          /\ Goto(q, "audit")
          /\ UNCHANGED <<reg, busy>>
  /\ UNCHANGED <<frame, results, clock, fut, restoring, admission, run, ran, reactivations>>

\* run_claim_audit_once; then, if the decision is not yet backed up, A2A awaits
\* its backup.  The Web surface passes no callbacks, so it never awaits here.
ClaimAudit(q, ok) ==
  LET b == req[q].b
      new == Audit(rec[b], ok)
  IN
  /\ busy = q /\ req[q].st = "audit" /\ CanAudit(rec[b])
  /\ rec' = [rec EXCEPT ![b] = new]
  /\ owner' = [owner EXCEPT ![b] = Held(@, new)]
  /\ busy' = IF A2A THEN None ELSE q
  /\ req' = [req EXCEPT ![q].st = IF new.backup = "committed" THEN "release" ELSE "backup",
                        ![q].phase = new.phase]
  /\ UNCHANGED <<frame, results, clock, fut, restoring, reg, admission, run, ran, reactivations>>

\* before_delivery returned: mark_claim_backed_up.  The phase the delivery
\* will use is the one of this record.
ClaimBackedUp(q) ==
  LET b == req[q].b
      new == MarkBackedUp(rec[b])
  IN
  /\ busy = (IF A2A THEN None ELSE q) /\ req[q].st = "backup" /\ CanMarkBackedUp(rec[b])
  /\ rec' = [rec EXCEPT ![b] = new]
  /\ owner' = [owner EXCEPT ![b] = Held(@, new)]
  /\ req' = [req EXCEPT ![q].st = "release", ![q].phase = new.phase]
  /\ UNCHANGED <<frame, results, clock, fut, restoring, reg, admission, run, busy, ran,
                 reactivations>>

\* before_delivery (the backup) or before_release (the commit of the headers)
\* raised: the decision stays claimed, the card stays usable.  A future that
\* holds an outcome is not released again.
DeliveryFails(q) ==
  LET b == req[q].b IN
  /\ A2A /\ Free /\ req[q].st \in {"backup", "release"}
  /\ req[q].st = "release" => fut[b] = "pending" \/ req[q].phase \in ActivePhases \ {"WAITING", "TIMEOUT_GRACE"}
  /\ owner' = [owner EXCEPT ![b].lock = None]
  /\ Finish(q)
  /\ UNCHANGED <<rec, frame, results, clock, fut, restoring, reg, admission, run, busy, ran,
                 reactivations>>

\* delivered_value: the audited value of the record decides, not the request.
\* (Mutant: the request does.)
RequestedValue(q) == req[q].v
DeliveredValue(q) == rec[req[q].b].value

\* before_release returned.  In a suspended phase nothing is delivered and the
\* answer turns to recovery; else the future is answered and the decision applied.
Deliver(q) ==
  LET b == req[q].b
      suspended == req[q].phase \in {"SUSPENDING", "SUSPENDED", "RESTORING"}
      new == IF suspended THEN rec[b] ELSE MarkApplied(rec[b])
  IN
  /\ busy = (IF A2A THEN None ELSE q) /\ req[q].st = "release" /\ CanMarkApplied(rec[b])
  /\ busy' = None
  /\ rec' = [rec EXCEPT ![b] = new]
  /\ fut' = [fut EXCEPT ![b] = IF suspended \/ @ # "pending" THEN @
                               ELSE IF DeliveredValue(q) = "allow_once" THEN "allow" ELSE "deny"]
  /\ owner' = [owner EXCEPT ![b] =
                 IF suspended THEN [@ EXCEPT !.lock = None]
                 ELSE [Held(@, new) EXCEPT !.lock = None, !.timer = "off"]]
  /\ reg' = [reg EXCEPT ![b] = IF suspended /\ Web THEN "none" ELSE @]
  /\ IF suspended THEN Goto(q, IF A2A THEN "unwind" ELSE "restore")
     ELSE IF A2A THEN Goto(q, "delivered") ELSE Finish(q)
  /\ UNCHANGED <<frame, results, clock, restoring, admission, run, ran, reactivations>>

\* claim_continuation: the first answer that still finds the card of a
\* detached run drives it; every other answer only acknowledges.
ClaimContinuation(q) ==
  LET b == req[q].b
      first == reg[b] = "card" /\ run[Live].st = "wait" /\ run[Live].b = b
  IN
  /\ Free /\ req[q].st = "delivered"
  /\ run' = [run EXCEPT ![Live].st = IF first THEN "woken" ELSE @]
  /\ reg' = [reg EXCEPT ![b] = IF first THEN "taken" ELSE @]
  /\ Finish(q)
  /\ UNCHANGED <<rec, frame, results, clock, owner, fut, restoring, admission, busy, ran,
                 reactivations>>

\* wait_for_suspended_owner: the old owner has unwound; complete its card.
OwnerUnwound(q) ==
  LET b == req[q].b IN
  /\ Free /\ req[q].st = "unwind" /\ ~owner[b].live
  /\ reg' = [reg EXCEPT ![b] = "none"]
  /\ Goto(q, "load")
  /\ UNCHANGED <<rec, frame, results, clock, owner, fut, restoring, admission, run, busy, ran,
                 reactivations>>

-----------------------------------------------------------------------------
(* Answers on the cold path: _resume_persisted_permission, resume_permission *)

\* A2A reads the checkpoint: receipts and running restorations are only
\* acknowledged, a conflicting value is refused, and an unfinished audit needs
\* the original assistant message at the tail of the transcript.
LoadCheckpoint(q) ==
  LET r == rec[req[q].b]
      go == /\ r.phase \notin {"ABSENT", "RESOLVED", "RESTORING"}
            /\ Decided(r) => r.value = req[q].v
            /\ r.audit \in {"recorded", "failed"} \/ CanonicalTail
  IN
  /\ req[q].st = "load" /\ (Free \/ q \in Foreign)
  /\ IF go THEN Goto(q, "reconcile") ELSE Finish(q)
  /\ UNCHANGED <<rec, frame, results, clock, owner, fut, restoring, reg, admission, run, busy,
                 ran, reactivations>>

\* reconcile_deadline(live_owner=False): whatever was resident is suspended.
ColdReconcile(q) ==
  LET b == req[q].b IN
  /\ req[q].st = "reconcile" /\ (Free \/ q \in Foreign)
  /\ rec' = [rec EXCEPT ![b] = Reconciled(b, FALSE, TRUE)]
  /\ busy' = IF q \in Foreign THEN busy ELSE q
  /\ Goto(q, "rclaim")
  /\ UNCHANGED <<frame, results, clock, owner, fut, restoring, reg, admission, run, ran,
                 reactivations>>

\* claim_decision without a generation fence.
ColdClaim(q) ==
  LET b == req[q].b
      ok == CanClaim(rec[b], req[q].v)
  IN
  /\ req[q].st = "rclaim" /\ (busy = q \/ q \in Foreign)
  /\ rec' = [rec EXCEPT ![b] = IF ok THEN Claim(@, req[q].v) ELSE @]
  /\ busy' = IF ok \/ q \in Foreign THEN busy ELSE None
  /\ IF ok THEN Goto(q, "raudit") ELSE Finish(q)
  /\ UNCHANGED <<frame, results, clock, owner, fut, restoring, reg, admission, run, ran,
                 reactivations>>

\* run_claim_audit_once.  Another worker's request stops here: its admission
\* is refused because the context has a live owner in the server.
ColdAudit(q, ok) ==
  LET b == req[q].b IN
  /\ req[q].st = "raudit" /\ (busy = q \/ q \in Foreign) /\ CanAudit(rec[b])
  /\ rec' = [rec EXCEPT ![b] = Audit(@, ok)]
  /\ reg' = [reg EXCEPT ![b] = IF Web THEN "none" ELSE @]
  /\ busy' = IF q \in Foreign THEN busy ELSE None
  /\ IF q \in Foreign THEN Finish(q) ELSE Goto(q, "restore")
  /\ UNCHANGED <<frame, results, clock, owner, fut, restoring, admission, run, ran,
                 reactivations>>

\* acquire_restore: a second restoration of the boundary is a duplicate.
AcquireRestore(q) ==
  LET b == req[q].b IN
  /\ Free /\ req[q].st = "restore"
  /\ restoring' = restoring \cup {b}
  /\ IF b \in restoring THEN Finish(q) ELSE Goto(q, IF A2A THEN "admit" ELSE "begin")
  /\ UNCHANGED <<rec, frame, results, clock, owner, fut, reg, admission, run, busy, ran,
                 reactivations>>

\* reserve_recoverable_input_continuation_result: refused while the context
\* has a live execution or another admission.
Admit(q) ==
  LET ok == Idle /\ admission = None IN
  /\ Free /\ req[q].st = "admit"
  /\ admission' = IF ok THEN q ELSE admission
  /\ restoring' = IF ok THEN restoring ELSE Unrestored({req[q].b})
  /\ IF ok THEN Goto(q, "rbackup") ELSE Finish(q)
  /\ UNCHANGED <<rec, frame, results, clock, owner, fut, reg, run, busy, ran, reactivations>>

\* commit_decision_backup succeeds ...
RestoreBackedUp(q) ==
  LET b == req[q].b IN
  /\ Free /\ req[q].st = "rbackup" /\ CanMarkBackedUp(rec[b])
  /\ rec' = [rec EXCEPT ![b] = MarkBackedUp(@)]
  /\ Goto(q, "begin")
  /\ UNCHANGED <<frame, results, clock, owner, fut, restoring, reg, admission, run, busy, ran,
                 reactivations>>

\* ... or fails before the restoration began: everything is given back.
RestoreBackupFails(q) ==
  /\ Free /\ req[q].st = "rbackup" /\ rec[req[q].b].backup # "committed"
  /\ admission' = None
  /\ restoring' = Unrestored({req[q].b})
  /\ Finish(q)
  /\ UNCHANGED <<rec, frame, results, clock, owner, fut, reg, run, busy, ran, reactivations>>

StartRestored(q) ==
  run' = [run EXCEPT ![q] = [st |-> "restored", b |-> req[q].b, root |-> req[q].b,
                             dec |-> frame[req[q].b]]]

\* begin_restore.  A2A starts the run in the admitted execution; the Web
\* surface re-enters RESTORING and still has to get the session's turn lock.
BeginRestoration(q) ==
  LET b == req[q].b
      again == Web /\ rec[b].phase = "RESTORING"
      ok == again \/ CanBeginRestore(rec[b])
      new == IF again THEN rec[b] ELSE IF ok THEN BeginRestore(rec[b])
             ELSE IF Web THEN Reconciled(b, FALSE, TRUE) ELSE rec[b]
  IN
  /\ Free /\ req[q].st = "begin"
  /\ IF ok THEN rec' = [rec EXCEPT ![b] = new] /\ UNCHANGED reg
     ELSE Relist([rec EXCEPT ![b] = new], reg)
  /\ admission' = IF A2A THEN None ELSE admission
  /\ restoring' = IF ok THEN restoring ELSE Unrestored({b})
  /\ IF ok THEN Goto(q, IF A2A THEN "run" ELSE "turn") ELSE Finish(q)
  /\ IF ok /\ A2A THEN StartRestored(q) ELSE UNCHANGED run
  /\ UNCHANGED <<frame, results, clock, owner, fut, busy, ran, reactivations>>

\* resume_permission (Web) acquires session.turn_lock.
AcquireTurn(q) ==
  /\ Web /\ Free /\ req[q].st = "turn" /\ Idle
  /\ StartRestored(q)
  /\ Goto(q, "run")
  /\ UNCHANGED <<rec, frame, results, clock, owner, fut, restoring, reg, admission, busy, ran,
                 reactivations>>

\* resume_permission_boundary: the assistant message must still be the tail of
\* the transcript; earlier decisions come from the frame, this one from the
\* record, and a policy or identity that changed meanwhile denies it.
ResumeBoundary(q, ok) ==
  LET r == rec[run[q].b] IN
  /\ Free /\ run[q].st = "restored" /\ CanonicalTail /\ Decided(r)
  /\ Advance(q, IF r.value = "allow_once" /\ ok THEN "allow" ELSE "deny")
  /\ UNCHANGED <<rec, frame, results, clock, owner, fut, restoring, reg, admission, req, busy,
                 ran, reactivations>>

\* ... and when the results are already persisted the restoration is refused.
ResumeRefused(q) ==
  LET root == run[q].root IN
  /\ Free /\ run[q].st = "restored" /\ ~CanonicalTail
  /\ Relist([rec EXCEPT ![root] = Reconciled(root, FALSE, TRUE)], reg)
  /\ restoring' = Unrestored({root})
  /\ EndRun(q) /\ Finish(q)
  /\ UNCHANGED <<frame, results, clock, owner, fut, admission, busy, ran, reactivations>>

-----------------------------------------------------------------------------
RunStep(r) ==
  \/ OpenBoundary(r) \/ ActivateBoundary(r) \/ OpenBackupFails(r)
  \/ \E ok \in BOOLEAN : TakeOutcome(r, ok)
  \/ Unwind(r) \/ Execute(r) \/ Persist(r) \/ Conclude(r) \/ RunFails(r)

BoundaryStep(b) ==
  \/ RebuildCard(b) \/ Tick(b) \/ TimerFires(b) \/ TimerLost(b) \/ TimerRearmed(b)
  \/ CancelTask(b)

LiveAnswer(q) ==
  \/ \E allow \in BOOLEAN : ClaimReconcile(q, allow)
  \/ ClaimDecision(q)
  \/ \E ok \in BOOLEAN : ClaimAudit(q, ok)
  \/ ClaimBackedUp(q) \/ DeliveryFails(q) \/ Deliver(q)
  \/ ClaimContinuation(q) \/ OwnerUnwound(q)

ColdAnswer(q) ==
  \/ LoadCheckpoint(q) \/ ColdReconcile(q) \/ ColdClaim(q)
  \/ \E ok \in BOOLEAN : ColdAudit(q, ok)
  \/ AcquireRestore(q) \/ Admit(q) \/ RestoreBackedUp(q) \/ RestoreBackupFails(q)
  \/ BeginRestoration(q) \/ AcquireTurn(q)
  \/ \E ok \in BOOLEAN : ResumeBoundary(q, ok)
  \/ ResumeRefused(q) \/ TerminateRestore(q)

Submit(q) == \E b \in Boundaries, v \in Answers : SubmitA2A(q, b, v) \/ SubmitWeb(q, b, v)

Next ==
  \/ \E r \in Runs : RunStep(r)
  \/ \E b \in Boundaries : BoundaryStep(b)
  \/ \E q \in Requests : Submit(q) \/ LiveAnswer(q) \/ ColdAnswer(q)
  \/ \E stop \in BOOLEAN : InterruptSession(stop)
  \/ Crash

Spec == Init /\ [][Next]_vars

\* Everything a run or a request does by itself, without faults.
RunProgress(r) ==
  \/ OpenBoundary(r) \/ ActivateBoundary(r) \/ OpenBackupFails(r)
  \/ \E ok \in BOOLEAN : TakeOutcome(r, ok)
  \/ Unwind(r) \/ Execute(r) \/ Persist(r) \/ Conclude(r)
RequestProgress(q) ==
  \/ LiveAnswer(q) \/ LoadCheckpoint(q) \/ ColdReconcile(q) \/ ColdClaim(q)
  \/ \E ok \in BOOLEAN : ColdAudit(q, ok) \/ ResumeBoundary(q, ok)
  \/ AcquireRestore(q) \/ Admit(q) \/ RestoreBackedUp(q) \/ RestoreBackupFails(q)
  \/ BeginRestoration(q) \/ AcquireTurn(q) \/ ResumeRefused(q)

-----------------------------------------------------------------------------
(* Safety.                                                                 *)

\* A tool runs only on a durable, audited allow; on A2A also only after the
\* decision reached its backup.  (agent_loop executes allowed_requests long
\* after _claim_live_and_deliver or resume_permission_boundary decided.)
ExecutedWithPermission ==
  \A b \in ran : /\ Decided(rec[b]) /\ rec[b].value = "allow_once"
                 /\ rec[b].audit = "recorded"
                 /\ A2A => rec[b].backup = "committed"

\* Two continuations of the batch (the resident run, a restored run) never
\* coexist, whatever answers, timers and recoveries race for it.
OneContinuation == Cardinality(ActiveRuns) <= 1

\* The outcome a run reads from its future agrees with the checkpoint: allow
\* and deny only once decided so, SUSPEND only when the wait is over.
OutcomeMatchesRecord ==
  \A r \in Runs : run[r].st \in {"wait", "woken"} =>
    LET b == run[r].b IN
    /\ fut[b] = "allow" => Decided(rec[b]) /\ rec[b].value = "allow_once"
    /\ fut[b] = "deny" => Decided(rec[b]) /\ rec[b].value = "deny"
    /\ fut[b] = "suspend" => rec[b].phase \notin {"WAITING", "TIMEOUT_GRACE"}

\* A decision is marked applied only after the run that waits for it got it.
AppliedWasDelivered ==
  \A r \in Runs : run[r].st = "wait" /\ rec[run[r].b].status = "applied"
                    => fut[run[r].b] # "pending"

\* A run never holds an allow for a canceled card.
CanceledIsNotActedOn ==
  \A r \in Runs, b \in Boundaries :
    rec[b].phase = "CANCELED" => run[r].dec[b] # "allow" \/ run[r].st = "none"

\* create_successor never meets a predecessor it must refuse, and the batch
\* has at most one unresolved card.
SuccessorReady ==
  /\ \A r \in Runs : run[r].st = "open" =>
       CanCreate(rec[run[r].b]) /\ (run[r].b > 1 => CanSucceed(rec[run[r].b - 1]))
  /\ Cardinality({b \in Boundaries : rec[b].phase \in ActivePhases}) <= 1

\* While nobody is inside the resolution lock, the live owner of an unanswered
\* card holds the current generation, so an answer or the timer can use it.
OwnerNotFenced ==
  \A b \in Boundaries :
    Free /\ owner[b].live /\ owner[b].lock = None /\ fut[b] = "pending"
      => owner[b].generation = rec[b].generation

\* A restoration never starts while the old owner is still registered:
\* wait_for_suspended_owner (A2A) calls that owner authoritative.
RestoreWaitsForOwner ==
  \A b \in Boundaries : rec[b].phase = "RESTORING" => ~owner[b].live

\* Every transaction on every checkpoint obeys the ledger's rules (LedgerStep),
\* whoever runs it: a live answer, a timer, a recovery or another worker.
CheckpointLedger == [][\A b \in Boundaries : LedgerStep(rec[b], rec'[b])]_vars

\* A sealed checkpoint (receipt or cancellation) is never opened or sealed
\* differently again, whatever handler reaches it late.
ReceiptsAreFinal ==
  [][\A b \in Boundaries : rec[b].phase \in {"RESOLVED", "CANCELED"}
                             => rec'[b].phase = rec[b].phase]_vars

\* No continuation executes the batch once its results are persisted.
NoRerunAfterResults == [][ran' # ran \/ (\E r \in Runs : run[r].st = "exec" /\ run'[r].st = "persist")
                          => ~results]_vars

==============================================================================
