--------------------------- MODULE PermissionStore ---------------------------
(***************************************************************************)
(* The durable permission checkpoints of one conversation session          *)
(* (services/permission_wait.py, PermissionWaitCheckpointStore).  A record *)
(* is one pwb_*.json file.  Every store method runs one transaction under  *)
(* the session guard and the cross-process file lock, so it is modelled by *)
(* a pair of operators on the record: CanOp(r, ...) is the method's guard  *)
(* (FALSE where the code raises ValueError) and Op(r, ...) is the record   *)
(* it leaves behind.  Deadlines are kept as the facts the code derives     *)
(* from them: has the resident deadline passed, has the grace deadline     *)
(* passed.  Record identities, digests and claim ids are dropped: a claim  *)
(* id is issued once per record, when status leaves "none".                *)
(***************************************************************************)
EXTENDS Naturals

CONSTANTS
  HasResident,   \* policy.resident_timeout_seconds is configured
  GraceZero      \* policy.timeout_grace_seconds = 0

ASSUME PolicyAssumption == HasResident \in BOOLEAN /\ GraceZero \in BOOLEAN

ActivePhases == {"WAITING", "TIMEOUT_GRACE", "SUSPENDING", "SUSPENDED", "RESTORING"}
Phases == ActivePhases \cup {"RESOLVED", "CANCELED"}
Values == {"allow_once", "deny"}

\* "ABSENT" stands for a missing file.
Record ==
  [phase : Phases \cup {"ABSENT"}, generation : Nat,
   status : {"none", "claimed", "applied"}, value : Values \cup {"none"},
   audit : {"none", "pending", "recorded", "failed"},
   backup : {"none", "pending", "committed"},
   graceDeadline : BOOLEAN]

Absent ==
  [phase |-> "ABSENT", generation |-> 0, status |-> "none", value |-> "none",
   audit |-> "none", backup |-> "none", graceDeadline |-> FALSE]

Decided(r) == r.status \in {"claimed", "applied"}

\* build_permission_checkpoint: a fresh, unanswered wait.
Checkpoint == [Absent EXCEPT !.phase = "WAITING", !.generation = 1]

Bump(r) == [r EXCEPT !.generation = @ + 1]
Enter(r, phase) == [Bump(r) EXCEPT !.phase = phase]

-----------------------------------------------------------------------------
(* Creation and hand-over inside an ordered tool batch.                    *)

CanCreate(r) == r.phase = "ABSENT"
Create(r) == Checkpoint

\* create_successor: the guard on, and the receipt written over, the previous
\* record.  (Mutant: the receipt is not written.)
CanSucceed(prev) == prev.phase \in ActivePhases /\ Decided(prev)
NoReceipt(prev) == prev
Succeeded(prev) == Enter(prev, "RESOLVED")

\* reactivate: rebuild an unanswered suspended card for a recovered owner.
CanReactivate(r) == r.phase = "SUSPENDED" /\ r.status = "none"
Reactivate(r) == [Checkpoint EXCEPT !.generation = r.generation + 1]

-----------------------------------------------------------------------------
(* Deadlines and suspension.                                               *)

Expired(r, live) == Enter(r, IF live THEN "SUSPENDING" ELSE "SUSPENDED")

\* reconcile_deadline.  resident and grace: has that deadline passed at
\* observed_at; live: live_owner; allow: allow_suspend.
Reconcile(r, resident, grace, live, allow) ==
  CASE ~live /\ r.phase \in {"WAITING", "TIMEOUT_GRACE", "SUSPENDING"} ->
         Enter(r, "SUSPENDED")
    [] live /\ r.phase = "WAITING" /\ HasResident /\ resident ->
         [IF r.status = "none" /\ GraceZero /\ allow
            THEN Expired(r, live) ELSE Enter(r, "TIMEOUT_GRACE")
          EXCEPT !.graceDeadline = TRUE]
    [] live /\ r.phase = "TIMEOUT_GRACE" /\ allow /\ r.status = "none"
            /\ r.graceDeadline /\ grace ->
         Expired(r, live)
    [] OTHER -> r

CanMarkSuspended(r) == r.phase \in {"SUSPENDED", "SUSPENDING", "WAITING", "TIMEOUT_GRACE"}
MarkSuspended(r) == IF r.phase = "SUSPENDED" THEN r ELSE Enter(r, "SUSPENDED")

-----------------------------------------------------------------------------
(* The decision: claimed once, audited once, backed up, applied.           *)

CanClaim(r, v) ==
  /\ r.phase \notin {"ABSENT", "CANCELED"}
  /\ Decided(r) => r.value = v

\* (Mutant: a repeated answer claims again.)
Reclaim(r, v) ==
  [Bump(r) EXCEPT !.status = "claimed", !.value = v, !.audit = "pending", !.backup = "pending"]
Claim(r, v) ==
  IF Decided(r) THEN r
  ELSE [Bump(r) EXCEPT !.status = "claimed", !.value = v,
                       !.audit = "pending", !.backup = "pending"]

\* run_claim_audit_once: an allow whose audit cannot be written becomes a deny.
\* (Mutant: the allow stands.)
CanAudit(r) == Decided(r)
AuditTolerated(r, ok) ==
  IF r.audit # "pending" THEN r
  ELSE [Bump(r) EXCEPT !.audit = IF ok THEN "recorded" ELSE "failed"]
Audit(r, ok) ==
  IF r.audit # "pending" THEN r
  ELSE [Bump(r) EXCEPT !.value = IF ok THEN @ ELSE "deny",
                       !.audit = IF ok THEN "recorded" ELSE "failed"]

\* mark_claim_backed_up.
CanMarkBackedUp(r) == Decided(r)
MarkBackedUp(r) ==
  IF r.backup = "committed" THEN r ELSE [Bump(r) EXCEPT !.backup = "committed"]

CanMarkApplied(r) == Decided(r)
MarkApplied(r) == IF r.status = "applied" THEN r ELSE [Bump(r) EXCEPT !.status = "applied"]

-----------------------------------------------------------------------------
(* Restoration and the terminal receipts.                                  *)

CanBeginRestore(r) == r.phase \in {"SUSPENDED", "SUSPENDING"} /\ Decided(r)
BeginRestore(r) == Enter(r, "RESTORING")

CanResolve(r) == r.phase # "ABSENT"
Resolve(r) == IF r.phase = "RESOLVED" THEN r ELSE Enter(r, "RESOLVED")

\* cancel: unreleased is allow_unreleased_claim.  (Mutant: a claimed decision
\* does not win over the cancellation.)
CanAlwaysCancel(r, unreleased) == r.phase \in ActivePhases \cup {"CANCELED"}
CanCancel(r, unreleased) ==
  \/ r.phase = "CANCELED"
  \/ /\ r.phase \in ActivePhases
     /\ \/ r.status = "none"
        \/ unreleased /\ r.status = "claimed" /\ r.phase \in {"WAITING", "TIMEOUT_GRACE"}
Cancel(r) == IF r.phase = "CANCELED" THEN r ELSE Enter(r, "CANCELED")

CanCancelRestore(r) == Decided(r) /\ r.phase \in {"CANCELED", "RESTORING"}
CancelRestore(r) == Cancel(r)

-----------------------------------------------------------------------------
\* What one transaction may do to a decision: every change of a checkpoint
\* raises its generation, a decision is claimed once and never withdrawn, only
\* its failing audit changes it, from allow to deny, and audits, backups and
\* the application are never undone.
LedgerStep(r, s) ==
  /\ s # r => s.generation > r.generation
  /\ Decided(r) => Decided(s)
  /\ r.status = "applied" => s.status = "applied"
  /\ Decided(r) => \/ s.value = r.value
                   \/ r.audit = "pending" /\ s.audit = "failed" /\ s.value = "deny"
  /\ r.audit \in {"recorded", "failed"} => s.audit = r.audit
  /\ r.backup = "committed" => s.backup = "committed"

==============================================================================
