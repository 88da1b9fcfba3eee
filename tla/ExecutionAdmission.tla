-------------------------- MODULE ExecutionAdmission --------------------------
(***************************************************************************)
(* Who may run one conversation, over the processes that share it.         *)
(* ExecutionControlService keeps a controller per process; the control     *)
(* file and the admission ticket beside it, both changed only under a file *)
(* lock, decide between processes.  A request passes through local checks, *)
(* one locked step on the files and the installation of its controller;    *)
(* processes die, requests are canceled and tickets expire in between.     *)
(***************************************************************************)
EXTENDS Naturals, FiniteSets

CONSTANTS
  Workers,    \* processes; one that died does not come back under its name
  Tasks,      \* tasks of the conversation
  None,       \* a value that is no file, controller, request or task
  Settings    \* deployments and bounds, see Setting

\* shared: a shared backup exists, so that permission waits can move;
\* background: turns may leave background work behind; execs, rev, tools:
\* executions, revisions of one execution, subprocess tools started.
Setting == [shared : BOOLEAN, background : BOOLEAN, execs : Nat, rev : Nat, tools : Nat]

VARIABLES
  setting,   \* the deployment, chosen once
  disk,      \* the control file
  ticket,    \* the admission file
  alive,     \* processes that live
  ctl,       \* _controls: each process's controller of the conversation
  req,       \* each process's request inside begin_execution or reserve
  waiting,   \* task whose durable input wait the session proves, or none
  proof,     \* execution whose handoff the permission checkpoint names, or 0
  children,  \* processes that left, or run, a subprocess tool
  execs,     \* executions named so far
  tools      \* tools started

files == <<disk, ticket>>
vars == <<setting, files, alive, ctl, req, waiting, proof, children, execs, tools>>

Outcomes == {"none", "blocked", "receipt", "released"}
\* st: attached, waiting for input, terminating, terminated.
Doc == [exec : Nat, server : Workers, task : Tasks, rev : Nat, st : {"busy", "idle", "ending", "ended"},
        ready : BOOLEAN, handoff : {"none", "preparing", "committed"}, outcome : Outcomes, tools : BOOLEAN]

Control == [exec : Nat, task : Tasks, rev : Nat, persisted : Nat, st : {"busy", "idle", "ending", "ended"},
            durable : BOOLEAN, card : {"none", "bound", "suspended"}, local : BOOLEAN, handoff : {"none", "preparing", "committed"},
            from : Nat, background : BOOLEAN, tool : BOOLEAN, natural : BOOLEAN, outcome : Outcomes]
Ticket == [by : Workers, task : Tasks, exec : Nat, rev : Nat, local : BOOLEAN, perm : Nat, expired : BOOLEAN]
Request == [st : {"reserve", "reserved", "activate", "claim", "activated", "claimed"}, task : Tasks,
            local : BOOLEAN, perm : Nat, ticket : Ticket \cup {None}, new : Control \cup {None}, old : Doc \cup {None}]

ASSUME AdmissionAssumption == IsFiniteSet(Workers) /\ Settings \subseteq Setting /\ None \notin Doc \cup Control \cup Request \cup Tasks

TypeOK ==
  /\ disk \in Doc \cup {None} /\ ticket \in Ticket \cup {None}
  /\ alive \subseteq Workers /\ children \subseteq Workers
  /\ ctl \in [Workers -> Control \cup {None}] /\ req \in [Workers -> Request \cup {None}]
  /\ \A w \in Workers : ctl[w] # None => ctl[w].persisted <= ctl[w].rev
  /\ waiting \in Tasks \cup {None} /\ proof \in 0..execs /\ execs \in 0..setting.execs /\ tools \in 0..setting.tools

Init ==
  /\ setting \in Settings
  /\ disk = None /\ ticket = None /\ alive = Workers
  /\ ctl = [w \in Workers |-> None] /\ req = [w \in Workers |-> None]
  /\ waiting = None /\ proof = 0 /\ children = {} /\ execs = 0 /\ tools = 0

-----------------------------------------------------------------------------
\* What a controller says of itself.
Has(w) == ctl[w] # None
HasWork(c) == c.st = "busy" \/ c.background \/ c.tool
Drained(c) == c.st = "idle" /\ ~HasWork(c)
\* input_handoff_ready
Ready(c) ==
  c.durable /\ Drained(c)
    /\ (c.handoff = "none" \/ (c.handoff = "committed" /\ c.persisted = c.rev /\ c.rev = c.from + 2))
\* permission_handoff_requires_admission
NeedsAdmission(c) == c.st \in {"busy", "idle"} /\ (c.card = "suspended" \/ c.handoff # "none")
\* can_admit_recoverable_input_continuation
CanAdmit(c, t) ==
  c.task = t /\ ~HasWork(c) /\ ((c.st = "ended" /\ c.outcome \in {"released", "blocked"}) \/ Ready(c))
\* natural_handoff_admits_replacement: the receipt is on disk.
Admits(c) == c.st = "ended" /\ c.outcome = "receipt" /\ c.persisted = c.rev /\ ~HasWork(c)

\* snapshot
Snapshot(w, c) ==
  [exec |-> c.exec, server |-> w, task |-> c.task, rev |-> c.rev, st |-> c.st, ready |-> Ready(c),
   handoff |-> IF c.st \in {"busy", "idle"} THEN c.handoff ELSE "none", outcome |-> c.outcome, tools |-> c.tool]

\* persist_snapshot_if_current_owner: whether the document may be replaced by
\* one of execution e at revision r.
CurrentOwner(e, r) == disk = None \/ (disk.exec = e /\ disk.rev < r)

\* _persist_snapshot: a controller goes on either way; its own persisted
\* revision moves when the document is its own.
Persist(w, c) ==
  LET stale == c.rev <= c.persisted
      mine == disk = None \/ disk.exec = c.exec
  IN /\ disk' = IF ~stale /\ CurrentOwner(c.exec, c.rev) THEN Snapshot(w, c) ELSE disk
     /\ ctl' = [ctl EXCEPT ![w] = [c EXCEPT !.persisted = IF mine /\ ~stale THEN c.rev ELSE @]]

\* InputHandoffStore.write_snapshot: the document is exactly the one expected.
Expected(c, r) == disk # None /\ disk.exec = c.exec /\ disk.rev = r

-----------------------------------------------------------------------------
\* What the control file lets happen.

\* _claim_remnant_admits_input_recovery: the owner is proved dead.
DeadOwner(d) == d.server \notin alive
Remnant(d) == DeadOwner(d) /\ d.st \in {"busy", "idle"} /\ ~d.ready /\ d.handoff = "none"
\* _claim_remnant_admits_replacement.  (Mutant: subprocesses are ignored.)
AnyRemnant(d) == Remnant(d)
QuietRemnant(d) == Remnant(d) /\ ~d.tools

\* RecoverableInputHandoffProof.validates_committed
Committed(d) == d.handoff = "committed" /\ d.ready /\ d.st = "idle" /\ ~d.tools

\* _persisted_control_allows_recovery, for an admission a of process w.
AllowsRecovery(w, a) ==
  IF disk = None THEN a.perm = 0
  ELSE /\ disk.task = a.task
       /\ a.exec # 0 => disk.exec = a.exec /\ disk.rev = a.rev
       /\ IF a.perm # 0 THEN Committed(disk) /\ disk.exec = a.perm
          ELSE IF a.local THEN disk.server = w /\ disk.st \in {"busy", "idle"} /\ disk.handoff = "none" /\ ~disk.ready
          ELSE \/ Committed(disk)
               \/ /\ disk.handoff = "none"
                  /\ disk.ready \/ Remnant(disk) \/ (disk.st = "ended" /\ disk.outcome # "none")

\* _persisted_control_allows_begin_without_admission
AllowsBegin(w) ==
  \/ disk = None
  \/ /\ ~disk.ready /\ (disk.st \in {"busy", "idle"} => disk.handoff = "none")
     /\ \/ Has(w) /\ (disk.exec = ctl[w].exec \/ disk.server = w)
        \/ disk.st = "ended" /\ disk.outcome \in {"released", "receipt"}
        \/ QuietRemnant(disk)

\* _expired and _matches.
Open == ticket # None /\ ~ticket.expired
Valid(tk) == ticket = tk /\ ~ticket.expired

-----------------------------------------------------------------------------
\* Requests.
Idle(w) == w \in alive /\ req[w] = None
Ask(w, r) == req' = [req EXCEPT ![w] = r]
Answer(w) == Ask(w, None)
NewControl(e, t, durable, r) ==
  [exec |-> e, task |-> t, rev |-> r, persisted |-> 0, st |-> "busy", durable |-> durable, card |-> "none",
   local |-> FALSE, handoff |-> "none", from |-> 0, background |-> FALSE, tool |-> FALSE, natural |-> FALSE, outcome |-> "none"]

\* reserve_recoverable_input_continuation_result: the session proves the wait;
\* the local controller must have given way, and its handoff is published
\* again before the ticket is asked for.
Reserve(w, t, perm) ==
  /\ Idle(w) /\ waiting = t
  /\ LET c == ctl[w]
         localOnly == Has(w) /\ c.task = t /\ c.local /\ Drained(c)
     IN /\ Has(w) => localOnly \/ CanAdmit(c, t)
        /\ perm => localOnly \/ proof # 0
        /\ IF Has(w) /\ Ready(c) THEN Persist(w, c) ELSE UNCHANGED <<disk, ctl>>
        /\ Ask(w, [st |-> "reserve", task |-> t, local |-> localOnly, perm |-> IF perm /\ ~localOnly THEN proof ELSE 0,
                   ticket |-> None, new |-> None, old |-> None])
  /\ UNCHANGED <<setting, ticket, alive, waiting, proof, children, execs, tools>>

\* reserve_result, under the file lock.
NoTicket == ~Open
ReserveResult(w) ==
  /\ w \in alive /\ req[w] # None /\ req[w].st = "reserve"
  /\ LET r == req[w]
         a == [by |-> w, task |-> r.task, exec |-> IF disk = None THEN 0 ELSE disk.exec,
               rev |-> IF disk = None THEN 0 ELSE disk.rev, local |-> r.local, perm |-> r.perm, expired |-> FALSE]
     IN IF NoTicket /\ AllowsRecovery(w, a)
        THEN ticket' = a /\ Ask(w, [r EXCEPT !.st = "reserved", !.ticket = a])
        ELSE ticket' = ticket /\ Answer(w)
  /\ UNCHANGED <<setting, disk, alive, ctl, waiting, proof, children, execs, tools>>

\* require_permission_handoff: the ticket now also needs the committed proof.
Require(w) ==
  /\ w \in alive /\ req[w] # None /\ req[w].st = "reserved" /\ req[w].perm = 0 /\ ~req[w].local /\ proof # 0
  /\ LET a == [req[w].ticket EXCEPT !.perm = proof]
     IN IF Valid(req[w].ticket) /\ AllowsRecovery(w, a)
        THEN ticket' = a /\ Ask(w, [req[w] EXCEPT !.perm = proof, !.ticket = a])
        ELSE ticket' = ticket /\ Answer(w)
  /\ UNCHANGED <<setting, disk, alive, ctl, waiting, proof, children, execs, tools>>

\* release_recoverable_input_continuation
Release(w) ==
  /\ w \in alive /\ req[w] # None /\ req[w].st = "reserved"
  /\ ticket' = IF ticket # None /\ ticket = req[w].ticket THEN None ELSE ticket
  /\ Answer(w)
  /\ UNCHANGED <<setting, disk, alive, ctl, waiting, proof, children, execs, tools>>

Expire ==
  /\ Open /\ ticket' = [ticket EXCEPT !.expired = TRUE]
  /\ UNCHANGED <<setting, disk, alive, ctl, req, waiting, proof, children, execs, tools>>

-----------------------------------------------------------------------------
\* begin_execution, up to the step on the files.
Refused(c, t, admitted) ==
  \/ NeedsAdmission(c) /\ ~admitted
  \/ /\ ~Admits(c)
     /\ \/ c.task # t /\ c.st = "ending"
        \/ c.st \in {"ending", "ended"} /\ c.outcome # "released" /\ ~(admitted /\ c.outcome = "blocked" /\ CanAdmit(c, t))
\* A continuation of an input wait, or a second request of a turn at work.
Reuses(c, t, continue) ==
  c.task = t /\ (c.st = "busy" \/ (c.st = "idle" /\ ~Ready(c) /\ continue))
Rolls(c) == c.st = "idle" /\ HasWork(c)

\* The controller goes on with the same task.
Reuse(w, t) ==
  /\ Idle(w) /\ Has(w) /\ ~Refused(ctl[w], t, FALSE) /\ ctl[w].st = "idle" /\ Reuses(ctl[w], t, TRUE)
  /\ ctl' = [ctl EXCEPT ![w].st = "busy", ![w].card = "none", ![w].natural = FALSE]
  /\ waiting' = IF waiting = t THEN None ELSE waiting
  /\ UNCHANGED <<setting, files, alive, req, proof, children, execs, tools>>

\* rollover_normal_execution: background work stays, the identity is new.
Rollover(w, t) ==
  /\ Idle(w) /\ Has(w) /\ execs < setting.execs /\ ctl[w].rev < setting.rev
  /\ LET c == ctl[w]
         new == [c EXCEPT !.exec = execs + 1, !.task = t, !.st = "busy", !.rev = @ + 1]
     IN /\ ~Refused(c, t, FALSE) /\ Rolls(c)
        /\ Persist(w, new)
  /\ execs' = execs + 1
  /\ UNCHANGED <<setting, ticket, alive, req, waiting, proof, children, tools>>

\* A new controller, without admission or with the ticket of a reservation.
Begin(w, t) ==
  /\ Idle(w) /\ execs < setting.execs
  /\ Has(w) => ~Refused(ctl[w], t, FALSE) /\ ~Reuses(ctl[w], t, FALSE) /\ ~Rolls(ctl[w])
  /\ execs' = execs + 1
  /\ Ask(w, [st |-> "claim", task |-> t, local |-> FALSE, perm |-> 0, ticket |-> None,
             new |-> NewControl(execs + 1, t, FALSE, 0), old |-> None])
  /\ UNCHANGED <<setting, files, alive, ctl, waiting, proof, children, tools>>
BeginAdmitted(w) ==
  /\ w \in alive /\ req[w] # None /\ req[w].st = "reserved" /\ execs < setting.execs
  /\ LET r == req[w]
     IN /\ Has(w) => ~Refused(ctl[w], r.task, TRUE) /\ ~Reuses(ctl[w], r.task, FALSE) /\ ~Rolls(ctl[w])
        /\ Ask(w, [r EXCEPT !.st = "activate", !.new = NewControl(execs + 1, r.task, r.perm = 0, 1)])
  /\ execs' = execs + 1
  /\ UNCHANGED <<setting, files, alive, ctl, waiting, proof, children, tools>>
\* A pipeline's answer would reuse the controller, which a suspended card
\* forbids: the request fails.
BeginRefused(w) ==
  /\ w \in alive /\ req[w] # None /\ req[w].st = "reserved" /\ Has(w)
  /\ Refused(ctl[w], req[w].task, TRUE) \/ Reuses(ctl[w], req[w].task, TRUE)
  /\ ticket' = IF ticket = req[w].ticket THEN None ELSE ticket
  /\ Answer(w)
  /\ UNCHANGED <<setting, disk, alive, ctl, waiting, proof, children, execs, tools>>

\* A local handoff forbids a begin without admission.
LocalGivesWay(w) == ~(Has(w) /\ Ready(ctl[w]))
\* claim_begin_without_admission, under the file lock.
Claim(w) ==
  /\ w \in alive /\ req[w] # None /\ req[w].st = "claim"
  /\ IF LocalGivesWay(w) /\ NoTicket /\ AllowsBegin(w)
     THEN /\ disk' = Snapshot(w, req[w].new)
          /\ Ask(w, [req[w] EXCEPT !.st = "claimed", !.old = disk])
     ELSE disk' = disk /\ Answer(w)
  /\ UNCHANGED <<setting, ticket, alive, ctl, waiting, proof, children, execs, tools>>

\* activate, under the file lock: the ticket is still this one, and the
\* control file still what it was given for.  (Mutant: only the ticket.)
TicketOnly(w, a) == Valid(a)
Admitted(w, a) == Valid(a) /\ AllowsRecovery(w, a)
Activate(w) ==
  /\ w \in alive /\ req[w] # None /\ req[w].st = "activate"
  /\ IF Admitted(w, req[w].ticket)
     THEN /\ disk' = Snapshot(w, req[w].new)
          /\ Ask(w, [req[w] EXCEPT !.st = "activated", !.old = disk])
     ELSE disk' = disk /\ Answer(w)
  /\ UNCHANGED <<setting, ticket, alive, ctl, waiting, proof, children, execs, tools>>

\* The new controller is installed, the ticket used up, the wait taken up.
Installed(w) == [ctl EXCEPT ![w] = [req[w].new EXCEPT !.persisted = req[w].new.rev]]
Install(w) ==
  /\ w \in alive /\ req[w] # None /\ req[w].st \in {"claimed", "activated"}
  /\ ctl' = Installed(w) /\ Answer(w)
  /\ ticket' = IF req[w].ticket # None /\ ticket = req[w].ticket THEN None ELSE ticket
  /\ waiting' = IF waiting = req[w].task THEN None ELSE waiting
  /\ UNCHANGED <<setting, disk, alive, proof, children, execs, tools>>

\* The request is canceled after its file step: the control file is put back
\* if it is still the one published.  (Mutant: it is left as it is.)
NeverPutBack(w) == FALSE
PutBack(w) == disk # None /\ disk.exec = req[w].new.exec
Rollback(w) ==
  /\ w \in alive /\ req[w] # None /\ req[w].st \in {"claimed", "activated"}
  /\ disk' = IF PutBack(w) THEN req[w].old ELSE disk
  /\ Answer(w)
  /\ UNCHANGED <<setting, ticket, alive, ctl, waiting, proof, children, execs, tools>>

-----------------------------------------------------------------------------
\* The execution at work.
Spawn(w) ==
  /\ setting.background /\ w \in alive /\ Has(w) /\ ctl[w].st = "busy" /\ ~ctl[w].background
  /\ ctl' = [ctl EXCEPT ![w].background = TRUE]
  /\ UNCHANGED <<setting, files, alive, req, waiting, proof, children, execs, tools>>
SpawnEnds(w) ==
  /\ w \in alive /\ Has(w) /\ ctl[w].background /\ ~ctl[w].tool
  /\ ctl' = [ctl EXCEPT ![w].background = FALSE]
  /\ UNCHANGED <<setting, files, alive, req, waiting, proof, children, execs, tools>>

\* begin_activity of a subprocess tool: its marker is durable before it runs.
StartTool(w) ==
  /\ w \in alive /\ Has(w) /\ ctl[w].st \in {"busy", "idle"} /\ HasWork(ctl[w]) /\ ~ctl[w].tool
  /\ ctl[w].rev < setting.rev /\ tools < setting.tools
  /\ Persist(w, [ctl[w] EXCEPT !.tool = TRUE, !.rev = @ + 1])
  /\ children' = children \cup {w} /\ tools' = tools + 1
  /\ UNCHANGED <<setting, ticket, alive, req, waiting, proof, execs>>
EndTool(w) ==
  /\ w \in alive /\ Has(w) /\ ctl[w].tool /\ ctl[w].rev < setting.rev
  /\ Persist(w, [ctl[w] EXCEPT !.tool = FALSE, !.rev = @ + 1])
  /\ children' = children \ {w}
  /\ UNCHANGED <<setting, ticket, alive, req, waiting, proof, execs, tools>>

\* detach_task at an input boundary, a permission card or another that may end
\* the turn naturally; a handoff that is ready is published by
\* _commit_input_handoff.
Detach(w, card) ==
  /\ w \in alive /\ Has(w) /\ ctl[w].st = "busy" /\ (ctl[w].tool => ctl[w].background) /\ ctl[w].rev < setting.rev
  /\ LET c == IF card THEN [ctl[w] EXCEPT !.st = "idle", !.durable = FALSE, !.card = "bound", !.handoff = "none"]
              ELSE [ctl[w] EXCEPT !.st = "idle", !.natural = ~ctl[w].background]
     IN IF Ready(c) THEN Persist(w, [c EXCEPT !.rev = @ + 1])
        ELSE ctl' = [ctl EXCEPT ![w] = c] /\ disk' = disk
  /\ waiting' = ctl[w].task
  /\ UNCHANGED <<setting, ticket, alive, req, proof, children, execs, tools>>

\* run_permission_suspension: nobody answered the card, its runtime is closed.
Suspend(w) ==
  /\ w \in alive /\ Has(w) /\ ctl[w].card = "bound" /\ Drained(ctl[w])
  /\ ctl' = [ctl EXCEPT ![w].card = "suspended", ![w].local = ~setting.shared]
  /\ UNCHANGED <<setting, files, alive, req, waiting, proof, children, execs, tools>>

\* SuspendedPermissionHandoff.commit: the checkpoint names the proof, the
\* control file says PREPARING, the session is backed up, ...
Prepare(w) ==
  /\ w \in alive /\ Has(w) /\ setting.shared /\ ctl[w].card = "suspended" /\ Drained(ctl[w]) /\ ctl[w].handoff = "none" /\ ctl[w].rev < setting.rev
  /\ LET c == [ctl[w] EXCEPT !.handoff = "preparing", !.from = ctl[w].rev, !.rev = @ + 1, !.persisted = ctl[w].rev + 1]
     IN /\ proof' = c.exec
        /\ IF Expected(c, c.from) THEN disk' = Snapshot(w, c) /\ ctl' = [ctl EXCEPT ![w] = c]
           ELSE UNCHANGED <<disk, ctl>>
  /\ UNCHANGED <<setting, ticket, alive, req, waiting, children, execs, tools>>
\* ... and the handoff is committed by one more exact replacement.
Commit(w) ==
  /\ w \in alive /\ Has(w) /\ ctl[w].handoff = "preparing" /\ Drained(ctl[w])
  /\ LET c == [ctl[w] EXCEPT !.handoff = "committed", !.rev = @ + 1, !.persisted = ctl[w].rev + 1, !.durable = TRUE]
     IN /\ Expected(c, ctl[w].rev) /\ disk.handoff = "preparing"
        /\ disk' = Snapshot(w, c) /\ ctl' = [ctl EXCEPT ![w] = c]
  /\ UNCHANGED <<setting, ticket, alive, req, waiting, proof, children, execs, tools>>

\* finalize_natural_completion: the response is delivered and nothing is left
\* at work; it holds the start lock that begin and reserve take.
StartLockFree(w) == req[w] # None => req[w].st = "reserved"
Complete(w) ==
  /\ w \in alive /\ Has(w) /\ StartLockFree(w) /\ ctl[w].rev + 1 < setting.rev
  /\ ~ctl[w].background /\ ~ctl[w].tool /\ (ctl[w].st = "busy" \/ (ctl[w].st = "idle" /\ ctl[w].natural))
  /\ ctl' = [ctl EXCEPT ![w].st = "ending", ![w].natural = TRUE, ![w].rev = @ + 1]
  /\ UNCHANGED <<setting, files, alive, req, waiting, proof, children, execs, tools>>

\* terminate: the right to hand over is taken back on disk first; a process
\* that lost the conversation meanwhile may not terminate it.  A stop also
\* takes over from a natural completion.
Terminate(w) ==
  /\ w \in alive /\ Has(w) /\ (ctl[w].st \in {"busy", "idle"} \/ ctl[w].natural) /\ ctl[w].rev + 1 < setting.rev
  /\ LET c == ctl[w]
         revoked == [c EXCEPT !.rev = @ + 1, !.persisted = c.rev + 1]
         Stopped(d) == [d EXCEPT !.st = "ending", !.natural = FALSE, !.outcome = "none", !.rev = @ + 1]
     IN IF NeedsAdmission(c)
        THEN /\ Expected(c, c.rev) /\ (c.handoff # "none" => disk.handoff = c.handoff)
             /\ disk' = [Snapshot(w, revoked) EXCEPT !.ready = FALSE]
             /\ ctl' = [ctl EXCEPT ![w] = Stopped(revoked)]
        ELSE disk' = disk /\ ctl' = [ctl EXCEPT ![w] = Stopped(c)]
  /\ UNCHANGED <<setting, ticket, alive, req, waiting, proof, children, execs, tools>>

\* ExecutionTermination, abridged: the tasks are gone, and what the backup made
\* of it is written down; only a natural completion earns a receipt, and a
\* blocked one or a receipt can still be released.
End(w, outcome) ==
  /\ w \in alive /\ Has(w) /\ ctl[w].st \in {"ending", "ended"} /\ ctl[w].rev < setting.rev
  /\ ctl[w].outcome # "released" /\ (ctl[w].st = "ended" => outcome = "released") /\ (outcome = "receipt" => ctl[w].natural)
  /\ Persist(w, [ctl[w] EXCEPT !.st = "ended", !.outcome = outcome, !.rev = @ + 1, !.background = FALSE, !.tool = FALSE])
  /\ children' = children \ {w}
  /\ UNCHANGED <<setting, ticket, alive, req, waiting, proof, execs, tools>>

\* A process dies; its subprocesses may outlive it.
Crash(w) ==
  /\ w \in alive /\ alive' = alive \ {w}
  /\ ctl' = [ctl EXCEPT ![w] = None] /\ Answer(w)
  /\ UNCHANGED <<setting, files, waiting, proof, children, execs, tools>>
ChildEnds(w) ==
  /\ w \in children \ alive /\ children' = children \ {w}
  /\ UNCHANGED <<setting, files, alive, ctl, req, waiting, proof, execs, tools>>

Next ==
  \/ Expire
  \/ \E w \in Workers :
       \/ \E t \in Tasks : (\E perm \in BOOLEAN : Reserve(w, t, perm)) \/ Reuse(w, t) \/ Rollover(w, t) \/ Begin(w, t)
       \/ ReserveResult(w) \/ Require(w) \/ Release(w) \/ BeginAdmitted(w) \/ BeginRefused(w)
       \/ Claim(w) \/ Activate(w) \/ Install(w) \/ Rollback(w)
       \/ Spawn(w) \/ SpawnEnds(w) \/ StartTool(w) \/ EndTool(w) \/ (\E card \in BOOLEAN : Detach(w, card))
       \/ Suspend(w) \/ Prepare(w) \/ Commit(w) \/ Complete(w) \/ Terminate(w)
       \/ \E outcome \in Outcomes \ {"none"} : End(w, outcome)
       \/ Crash(w) \/ ChildEnds(w)

Spec == Init /\ [][Next]_vars

-----------------------------------------------------------------------------
\* Two processes never work on the conversation at once: one that does, a
\* background task or a tool included, is the one the control file names.
WorkerOwnsControl ==
  \A w \in alive : Has(w) /\ HasWork(ctl[w]) => disk # None /\ disk.server = w

\* "Allow a dead owner's settled claim when no subprocess tool was in flight":
\* a turn that begins without admission never replaces the claim of a process
\* whose subprocess still runs.  (A rollover leaves its later tools without a
\* marker, so this is claimed of deployments without background work, and a turn
\* of another task replaces one at work, so of conversations of one task.  A turn
\* recovered from a durable wait may well begin beside such a subprocess.)
ClaimFindsNoOrphan ==
  [][~setting.background =>
       \A w \in Workers : /\ req[w] # None /\ req[w].st = "claim"
                         /\ req'[w] # None /\ req'[w].st = "claimed"
                         /\ disk # None /\ disk.server # w
                         => disk.server \notin children]_vars

\* A process that revoked its handoff to stop the conversation still owns it:
\* no ticket given before lets another process take it over.
StopKeepsControl ==
  \A w \in alive : Has(w) /\ ctl[w].st = "ending" /\ ctl[w].handoff # "none" => disk # None /\ disk.exec = ctl[w].exec

\* Whoever may ask next, when nothing is under way.
GaveWay(c) == c.st = "idle" /\ ~HasWork(c) /\ (c.card = "suspended" => c.local \/ c.handoff = "committed")
Settled(c) == GaveWay(c) \/ Admits(c) \/ (c.st = "ended" /\ c.outcome = "released")
MayBegin(w) == LocalGivesWay(w) /\ AllowsBegin(w) /\ (Has(w) => ~NeedsAdmission(ctl[w]))
Republishes(w) ==
  /\ Has(w) /\ Ready(ctl[w]) /\ ctl[w].task = waiting
  /\ ctl[w].persisted < ctl[w].rev /\ CurrentOwner(ctl[w].exec, ctl[w].rev)
MayReserve(w) ==
  LET a == [task |-> waiting, exec |-> 0, rev |-> 0, perm |-> 0, local |-> Has(w) /\ ctl[w].local /\ Drained(ctl[w])]
  IN waiting # None /\ (Has(w) => a.local \/ CanAdmit(ctl[w], waiting)) /\ (AllowsRecovery(w, a) \/ Republishes(w))

\* "Re-publish the same revision before a request can reserve and replace this
\* controller": a conversation whose owner lives, and waits with nothing under
\* way, is never locked: some process may begin or recover it.  (Background
\* work that drains after a recovered turn detached defeats this.)
NeverLockedOut ==
  (/\ ~setting.background /\ disk # None /\ disk.server \in alive /\ ~Open
   /\ \A w \in alive : req[w] = None /\ (Has(w) => Settled(ctl[w])))
    => \E w \in alive : MayBegin(w) \/ MayReserve(w)

\* Whoever works on the conversation, or is stopping it, owns the control file:
\* no ticket, claim or recovery of another process took it away
\* (claim_begin_without_admission, activate, persist_snapshot_if_current_owner).
OwnerHoldsControl == TypeOK /\ WorkerOwnsControl /\ StopKeepsControl

=============================================================================
