----------------------------- MODULE SessionBackup -----------------------------
(***************************************************************************)
(* SessionBackupService without staging: the copies of one session on the  *)
(* nodes that run it, and its capture in the shared backup directory.  A   *)
(* backup or a reconciliation takes the locks of its local copy and of the *)
(* shared capture, then changes files one at a time; it may meet an I/O    *)
(* error or die at each.  A marker in either directory fences a payload    *)
(* that is half written.                                                   *)
(***************************************************************************)
EXTENDS Naturals, FiniteSets

CONSTANTS
  Nodes,       \* machines with a session directory of their own
  Home,        \* the node the session is created on
  PerNode,     \* processes at each node
  Files, Meta, \* mirrored files; Meta is the session's metadata, never removed
  None,        \* a value that is no state, marker or session
  Attempts,    \* tries of one operation: 1 + len(retry_delays)
  Settings     \* deployments and bounds, see Setting

\* reconciled: a backup begins only where no failed state awaits a
\* reconciliation; active: processes in use at each node; ops, writes: backup
\* operations and changes of session files; faults, lost, kills: I/O errors,
\* failed states that could not be written, processes that die in an operation.
Setting == [reconciled : BOOLEAN, active : 1..PerNode, ops : Nat, writes : Nat,
            faults : Nat, lost : Nat, kills : Nat]

Payload == [Files -> Nat]                     \* 0: the file is absent
Doc == [gen : Nat, commit : Nat]
Copy == [doc : Doc, att : Nat, pay : Payload, restore : Doc \cup {None}]

ASSUME BackupAssumption ==
  /\ Home \in Nodes /\ Meta \in Files /\ {PerNode, Attempts} \subseteq Nat
  /\ Settings \subseteq Setting /\ None \notin Doc \cup Copy

VARIABLES
  setting,  \* the deployment, chosen once
  local,    \* each node's session directory, or None
  shared,   \* the shared capture; generation 0: it has no state file
  act,      \* the operation each process is inside
  ops, writes, faults, lost, kills,  \* counters for the bounds
  capture,  \* history: payload and node of each generation
  from,     \* history: capture a node's payload was taken from or put into
  dirty     \* history: files a node changed since then

disk == <<local, shared>>
history == <<capture, from, dirty>>
counts == <<ops, writes, faults, lost, kills>>
vars == <<setting, disk, act, counts, history>>

Procs == Nodes \X (1..PerNode)
Op == [pc : {"idle", "try", "copy", "state", "unmark", "local", "rcopy", "rstate", "runlink"},
       kind : {"none", "backup", "repair", "restore"}, id : Nat, try : Nat,
       base : Doc \cup {None}, tgt : Doc \cup {None}, todo : SUBSET Files, mirrored : BOOLEAN]

TypeOK ==
  /\ local \in [Nodes -> Copy \cup {None}] /\ act \in [Procs -> Op]
  /\ shared \in [doc : Doc, pay : Payload, marker : Doc \cup {None}]
  /\ \E k \in {shared.doc.gen, shared.doc.gen + 1} : capture \in [0..k -> [pay : Payload, by : Nodes]]
  /\ from \in [Nodes -> Doc] /\ dirty \in [Nodes -> SUBSET Files]

Idle == [pc |-> "idle", kind |-> "none", id |-> 0, try |-> 0, base |-> None, tgt |-> None, todo |-> {}, mirrored |-> FALSE]
Bootstrap == [gen |-> 0, commit |-> 0]
First == [f \in Files |-> 1]
Nothing == [f \in Files |-> 0]

Init ==
  /\ setting \in Settings
  /\ local = [n \in Nodes |-> IF n = Home THEN [doc |-> Bootstrap, att |-> 0, pay |-> First, restore |-> None] ELSE None]
  /\ shared = [doc |-> Bootstrap, pay |-> Nothing, marker |-> None]
  /\ act = [p \in Procs |-> Idle]
  /\ ops = 0 /\ writes = 0 /\ faults = 0 /\ lost = 0 /\ kills = 0
  /\ capture = [g \in {0} |-> [pay |-> First, by |-> Home]]
  /\ from = [n \in Nodes |-> Bootstrap] /\ dirty = [n \in Nodes |-> {}]

(***************************************************************************)
(* Locks.  The local guard covers an attempt to its end, the shared lock   *)
(* all of it but the local state a backup writes last.                     *)
(***************************************************************************)
LocalHeld(n) == \E p \in Procs : p[1] = n /\ act[p].pc \notin {"idle", "try"}
SharedHeld == \E p \in Procs : act[p].pc \notin {"idle", "try", "local"}
CanEnter(p) == ~LocalHeld(p[1]) /\ ~SharedHeld

Failed(l) == l.att # 0
CommittedNext(d, id) == [gen |-> d.gen + 1, commit |-> id]
HasPayload(pay) == pay # Nothing
MarkerAllows(d) == shared.marker \in {None, d}
CommittedAttempt(l, id) == shared.doc = CommittedNext(l.doc, id)

\* (Mutant: the local generation may lag behind.)
AnyOlder(l) == l.doc.gen <= shared.doc.gen
\* A copy without state and one of generation 0 have the same lineage.
SameLineage(l) == shared.doc = l.doc

\* The fence of a backup: nothing awaits a reconciliation, and the shared
\* capture is the one this copy stems from.
FencePasses(l, id) == l.att \in {0, id} /\ SameLineage(l)

\* The guard of a shared directory with a payload nobody vouches for.
MissingState(l, a) ==
  /\ shared.doc.gen = 0 /\ shared.marker = None /\ HasPayload(shared.pay)
  /\ ~(l.att = a.id /\ a.mirrored)

-----------------------------------------------------------------------------
\* A writer of session files; it holds the local guard.  A session whose
\* restore is incomplete is not opened.
Write(n, f) ==
  /\ local[n] # None /\ ~LocalHeld(n) /\ writes < setting.writes /\ local[n].restore = None
  /\ \E v \in {writes + 2} \cup (IF f = Meta THEN {} ELSE {0}) :
       local' = [local EXCEPT ![n].pay[f] = v]
  /\ writes' = writes + 1 /\ dirty' = [dirty EXCEPT ![n] = @ \cup {f}]
  /\ UNCHANGED <<setting, shared, act, ops, faults, lost, kills, capture, from>>

Start(p) ==
  /\ act[p].pc = "idle" /\ local[p[1]] # None /\ ops < setting.ops
  /\ setting.reconciled => ~Failed(local[p[1]])
  /\ ops' = ops + 1
  /\ act' = [act EXCEPT ![p] = [Idle EXCEPT !.pc = "try", !.kind = "backup", !.id = ops + 1, !.try = 1]]
  /\ UNCHANGED <<setting, disk, writes, faults, lost, kills, history>>

\* What a raised attempt leaves: the state of base b marked failed with this
\* operation's id, if it can be written, and another try or the end.
FailedState(l, b, id) == [l EXCEPT !.doc = b, !.att = id]

\* A state was read to go back to.
KnownBase(b) == b # None

Raise(p, b, mirrored) ==
  /\ \/ /\ KnownBase(b)
        /\ local' = [local EXCEPT ![p[1]] = FailedState(@, b, act[p].id)]
        /\ lost' = lost
     \/ /\ local' = local
        /\ IF b = None THEN lost' = lost ELSE lost < setting.lost /\ lost' = lost + 1
  /\ act' = [act EXCEPT ![p] =
       IF @.try < Attempts
       THEN [act[p] EXCEPT !.pc = "try", !.try = @ + 1, !.base = b, !.tgt = None, !.todo = {}, !.mirrored = mirrored]
       ELSE Idle]

\* base_state outlives an attempt that cannot read the local state.
BaseOf(p) == IF local[p[1]].restore = None THEN local[p[1]].doc ELSE act[p].base

Publishable(l, a) ==
  /\ l.restore = None /\ ~CommittedAttempt(l, a.id) /\ ~MissingState(l, a) /\ FencePasses(l, a.id)
  /\ MarkerAllows(CommittedNext(shared.doc, a.id))

Recognizable(l, a) == l.restore = None /\ CommittedAttempt(l, a.id) /\ MarkerAllows(shared.doc)

\* backup_session inside its locks, up to the marker before the first payload.
Publish(p, a, d) ==
  /\ shared' = [shared EXCEPT !.marker = d]
  /\ capture' = [g \in 0..d.gen |-> IF g = d.gen THEN [pay |-> local[p[1]].pay, by |-> p[1]] ELSE capture[g]]
  /\ act' = [act EXCEPT ![p] = [a EXCEPT !.pc = "copy", !.tgt = d, !.todo = Files, !.base = local[p[1]].doc]]
  /\ UNCHANGED <<setting, local, counts, from, dirty>>

Attempt(p) ==
  LET l == local[p[1]]  a == act[p] IN
  /\ a.pc = "try" /\ CanEnter(p)
  /\ \/ Publishable(l, a) /\ Publish(p, a, CommittedNext(shared.doc, a.id))
     \/ /\ Recognizable(l, a)
        /\ act' = [act EXCEPT ![p] = [a EXCEPT !.pc = "unmark", !.tgt = shared.doc, !.base = l.doc]]
        /\ UNCHANGED <<setting, disk, counts, history>>
     \/ /\ ~Publishable(l, a) /\ ~Recognizable(l, a)
        /\ Raise(p, BaseOf(p), a.mirrored)
        /\ UNCHANGED <<setting, shared, ops, writes, faults, kills, history>>

\* The locks cannot be taken: the failed state is written outside them.
LockFault(p) ==
  /\ act[p].pc = "try" /\ faults < setting.faults /\ faults' = faults + 1
  /\ Raise(p, IF act[p].base # None THEN act[p].base ELSE BaseOf(p), act[p].mirrored)
  /\ UNCHANGED <<setting, shared, ops, writes, kills, history>>

\* _mirror: files are copied in any order, then the stale ones removed.
CopyFile(p, f) ==
  LET pay == local[p[1]].pay IN
  /\ act[p].pc = "copy" /\ f \in act[p].todo
  /\ pay[f] = 0 => \A g \in act[p].todo : pay[g] = 0
  /\ shared' = [shared EXCEPT !.pay[f] = pay[f]]
  /\ act' = [act EXCEPT ![p].todo = @ \ {f}, ![p].pc = IF act[p].todo = {f} THEN "state" ELSE @]
  /\ UNCHANGED <<setting, local, counts, history>>

WriteShared(p) ==
  /\ act[p].pc = "state"
  /\ shared' = [shared EXCEPT !.doc = act[p].tgt]
  /\ act' = [act EXCEPT ![p].pc = "unmark"]
  /\ from' = [from EXCEPT ![p[1]] = act[p].tgt] /\ dirty' = [dirty EXCEPT ![p[1]] = {}]
  /\ UNCHANGED <<setting, local, counts, capture>>

CompletePublication(p) ==
  /\ act[p].pc = "unmark"
  /\ shared' = [shared EXCEPT !.marker = None]
  /\ act' = [act EXCEPT ![p].pc = "local", ![p].mirrored = TRUE]
  /\ UNCHANGED <<setting, local, counts, history>>

WriteLocal(p) ==
  /\ act[p].pc = "local"
  /\ local' = [local EXCEPT ![p[1]].doc = act[p].tgt, ![p[1]].att = 0]
  /\ act' = [act EXCEPT ![p] = Idle]
  /\ UNCHANGED <<setting, shared, counts, history>>

\* (Mutant: a failed mirror always takes its marker back.)
MarkerDropped(pc) == IF pc \in {"copy", "state"} THEN None ELSE shared.marker
\* A first mirror that wrote no payload takes its marker back.
MarkerAfterFault(pc) == IF pc \in {"copy", "state"} /\ ~HasPayload(shared.pay) THEN None ELSE shared.marker

\* An I/O error of a publication.
Fault(p) ==
  LET a == act[p] IN
  /\ a.pc \in {"copy", "state", "unmark", "local"} /\ faults < setting.faults /\ faults' = faults + 1
  /\ shared' = [shared EXCEPT !.marker = MarkerAfterFault(a.pc)]
  /\ IF a.kind = "backup"
     THEN Raise(p, a.base, IF a.pc \in {"copy", "state"} /\ shared.doc.gen = 0 THEN HasPayload(shared.pay) ELSE a.mirrored)
     ELSE act' = [act EXCEPT ![p] = Idle] /\ UNCHANGED <<local, lost>>
  /\ UNCHANGED <<setting, ops, writes, kills, history>>

-----------------------------------------------------------------------------
(***************************************************************************)
(* reconcile_session.  The branches that raise or find nothing to do leave *)
(* every file alone.                                                       *)
(***************************************************************************)
\* A failed copy looks through the marker of its own attempt only.
Sees(l) == IF Failed(l) THEN MarkerAllows(CommittedNext(l.doc, l.att)) ELSE shared.marker = None

\* A whole new directory is built aside and renamed into place.
RestoreNew(p) ==
  /\ act[p].pc = "idle" /\ CanEnter(p) /\ local[p[1]] = None
  /\ shared.marker = None /\ shared.doc.gen > 0
  /\ local' = [local EXCEPT ![p[1]] = [doc |-> shared.doc, att |-> 0, pay |-> shared.pay, restore |-> None]]
  /\ from' = [from EXCEPT ![p[1]] = shared.doc]
  /\ UNCHANGED <<setting, shared, act, counts, capture, dirty>>

\* (Mutant: a failed attempt is repaired at generation 0 only.)
RepairsFirst(l) == l.restore = None /\ Failed(l) /\ SameLineage(l) /\ shared.doc.gen = 0

Repairs(l) ==
  /\ l.restore = None /\ Failed(l) /\ SameLineage(l)
  /\ shared.doc.gen = 0 => shared.marker # None \/ ~HasPayload(shared.pay)

Repair(p) ==
  LET l == local[p[1]] IN
  /\ act[p].pc = "idle" /\ CanEnter(p) /\ l # None
  /\ Sees(l) /\ Repairs(l)
  /\ Publish(p, [Idle EXCEPT !.kind = "repair", !.id = l.att], CommittedNext(shared.doc, l.att))

\* (Mutant: a committed attempt is not recognized.)
NeverRecognizes(l) == FALSE
Recognizes(l) == Failed(l) /\ CommittedAttempt(l, l.att)

\* The attempt was committed and only the local state missed it.
Recognize(p) ==
  LET l == local[p[1]] IN
  /\ act[p].pc = "idle" /\ CanEnter(p) /\ l # None
  /\ Sees(l) /\ l.restore = None /\ Recognizes(l)
  /\ act' = [act EXCEPT ![p] = [Idle EXCEPT !.pc = "unmark", !.kind = "repair", !.id = l.att, !.tgt = shared.doc]]
  /\ UNCHANGED <<setting, disk, counts, history>>

\* A marked copy takes the capture it was interrupted at, or a newer one; an
\* unmarked one takes a newer capture.
Restores(l) ==
  IF l.restore # None
  THEN shared.doc = l.restore \/ shared.doc.gen > l.restore.gen
  ELSE shared.doc.gen > l.doc.gen /\ ~Recognizes(l)

RestoreExisting(p) ==
  LET l == local[p[1]] IN
  /\ act[p].pc = "idle" /\ CanEnter(p) /\ l # None /\ shared.doc.gen > 0
  /\ Sees(l) /\ Restores(l)
  /\ local' = [local EXCEPT ![p[1]].restore = shared.doc]
  /\ act' = [act EXCEPT ![p] = [Idle EXCEPT !.pc = "rcopy", !.kind = "restore", !.tgt = shared.doc, !.todo = Files]]
  /\ UNCHANGED <<setting, shared, counts, history>>

RestoreFile(p, f) ==
  /\ act[p].pc = "rcopy" /\ f \in act[p].todo
  /\ shared.pay[f] = 0 => \A g \in act[p].todo : shared.pay[g] = 0
  /\ local' = [local EXCEPT ![p[1]].pay[f] = shared.pay[f]]
  /\ act' = [act EXCEPT ![p].todo = @ \ {f}, ![p].pc = IF act[p].todo = {f} THEN "rstate" ELSE @]
  /\ UNCHANGED <<setting, shared, counts, history>>

RestoreState(p) ==
  /\ act[p].pc = "rstate"
  /\ local' = [local EXCEPT ![p[1]].doc = act[p].tgt, ![p[1]].att = 0]
  /\ act' = [act EXCEPT ![p].pc = "runlink"]
  /\ UNCHANGED <<setting, shared, counts, history>>

RestoreDone(p) ==
  /\ act[p].pc = "runlink"
  /\ local' = [local EXCEPT ![p[1]].restore = None]
  /\ act' = [act EXCEPT ![p] = Idle]
  /\ from' = [from EXCEPT ![p[1]] = act[p].tgt] /\ dirty' = [dirty EXCEPT ![p[1]] = {}]
  /\ UNCHANGED <<setting, shared, counts, capture>>

\* A restore that failed leaves its marker.
AfterRestoreFault(l) == l

RestoreFault(p) ==
  /\ act[p].kind = "restore" /\ faults < setting.faults /\ faults' = faults + 1
  /\ local' = [local EXCEPT ![p[1]] = AfterRestoreFault(@)]
  /\ act' = [act EXCEPT ![p] = Idle]
  /\ UNCHANGED <<setting, shared, ops, writes, lost, kills, history>>

\* A process dies: its locks are released, its files stay.
Kill(p) ==
  /\ act[p].pc # "idle" /\ kills < setting.kills /\ kills' = kills + 1
  /\ act' = [act EXCEPT ![p] = Idle]
  /\ UNCHANGED <<setting, disk, ops, writes, faults, lost, history>>

-----------------------------------------------------------------------------
Backup(p) ==
  \/ Attempt(p) \/ WriteShared(p) \/ CompletePublication(p) \/ WriteLocal(p)
  \/ \E f \in Files : CopyFile(p, f)

Reconcile(p) ==
  \/ RestoreNew(p) \/ Repair(p) \/ Recognize(p) \/ RestoreExisting(p)
  \/ RestoreState(p) \/ RestoreDone(p) \/ \E f \in Files : RestoreFile(p, f)

Active(p) == p[2] <= setting.active

Next ==
  \/ \E n \in Nodes, f \in Files : Write(n, f)
  \/ \E p \in Procs : Active(p) /\
       (Start(p) \/ Backup(p) \/ Reconcile(p) \/ LockFault(p) \/ Fault(p) \/ RestoreFault(p) \/ Kill(p))

Spec == Init /\ [][Next]_vars

\* An operation that began goes on unless it dies, and a session is
\* reconciled before every turn and at every resumption.
FairSpec ==
  /\ Spec
  /\ \A p \in Procs : WF_vars(Active(p) /\ Backup(p)) /\ WF_vars(Active(p) /\ Reconcile(p))

-----------------------------------------------------------------------------
(* What a reader of the shared directory finds (reconcile_session and      *)
(* _source_for_restore read only where there is no publication marker) is  *)
(* exactly what its commit captured, whoever failed or died in between.    *)
SharedIsWhole ==
  shared.marker = None /\ shared.doc.gen > 0 => shared.pay = capture[shared.doc.gen].pay

(* A local session without a restore marker holds the capture it stems     *)
(* from and the node's own changes: never a mixture of two captures left   *)
(* by _restore_existing_session.                                           *)
LocalIsWhole ==
  \A n \in Nodes : local[n] # None /\ local[n].restore = None =>
    \A f \in Files \ dirty[n] : local[n].pay[f] = capture[from[n].gen].pay[f]

(* No local state is ahead of the shared one, and two of one generation    *)
(* are the same commit, so same_lineage and the comparison of generations  *)
(* in reconcile_session never meet two histories.                          *)
NoFork ==
  \A n \in Nodes : local[n] # None =>
    /\ local[n].doc.gen <= shared.doc.gen
    /\ local[n].doc.gen = shared.doc.gen => local[n].doc = shared.doc

(* backup_session and _repair_failed_local replace the shared capture only *)
(* from a copy that stems from it: no node's publication is overwritten by *)
(* one that never saw it.                                                  *)
PublishExtendsShared ==
  [][shared'.doc # shared.doc =>
       /\ shared'.doc.gen = shared.doc.gen + 1
       /\ \E n \in Nodes : from[n] = shared.doc /\ from'[n] = shared'.doc]_vars

\* Failed backups are reconciled, one process works on each copy, and nobody
\* dies or fails to record a failure.
Disciplined == setting.reconciled /\ setting.active = 1 /\ setting.lost = 0 /\ setting.kills = 0

(* A capture that was interrupted can be taken up: some operation still    *)
(* tries it, or a node remembers it as its failed attempt and may repair   *)
(* it.  (_publish_shared_snapshot: only the exact capture can retry it.)   *)
(* This needs a failed backup to be reconciled before the next one begins. *)
InterruptedIsRetryable ==
  Disciplined /\ shared.marker # None /\ ~SharedHeld =>
    \/ \E p \in Procs : act[p].pc = "try" /\ act[p].id = shared.marker.commit
    \/ \E n \in Nodes : local[n] # None /\ local[n].restore = None /\ Failed(local[n])
                        /\ CommittedNext(local[n].doc, local[n].att) = shared.marker

(* reconcile_session replaces a node's unsaved changes only by a capture   *)
(* another node made, never by an older one of its own, under the same     *)
(* discipline.                                                             *)
OwnWritesKept ==
  [][Disciplined => \A p \in Procs : act[p].kind # "restore" /\ act'[p].kind = "restore" /\ dirty[p[1]] # {} =>
       local[p[1]].restore # None \/ capture[shared.doc.gen].by # p[1]]_vars

(* A failed backup is repaired, recognized or given up for a newer capture *)
(* once I/O errors stop (reconcile_session, _repair_failed_local).         *)
FailuresSettle ==
  \A n \in Nodes : (setting.reconciled /\ local[n] # None /\ Failed(local[n])) ~> (local[n] # None => ~Failed(local[n]))

(* Neither directory ever shows a mixture as a session: without its marker *)
(* it holds exactly one capture, and locally the node's changes since.     *)
CapturesAreWhole == TypeOK /\ SharedIsWhole /\ LocalIsWhole

(* There is one history of captures: no local state runs ahead of it or    *)
(* beside it, and every publication extends what was published last        *)
(* (backup_session, reconcile_session).                                    *)
OneHistory == []NoFork /\ PublishExtendsShared

(* Under the discipline a failure costs nothing: an interrupted capture    *)
(* can be taken up, and no reconciliation puts an older capture of its own *)
(* over a node's changes (_publish_shared_snapshot, reconcile_session).    *)
FailureCostsNothing == []InterruptedIsRetryable /\ OwnWritesKept

=============================================================================
