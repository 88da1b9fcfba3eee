------------------------ MODULE PermissionWait_proofs ------------------------
(***************************************************************************)
(* The permission wait, for every batch, every set of requests and         *)
(* workers, both surfaces and every policy.  The first part: every step    *)
(* obeys the rules of the checkpoint ledger, every variable keeps its      *)
(* type, and two continuations of a batch never coexist.                   *)
(*                                                                         *)
(* The second part, what the wait is for: a tool runs only with            *)
(* permission, what a run is told agrees with the checkpoint, nobody acts  *)
(* on a canceled card, and what is finished stays so.  A decision travels  *)
(* from a checkpoint through a request, a future, a run and the frames of  *)
(* later cards to the execution, many steps later; the invariant follows   *)
(* it all the way.  The ledger's rules (StepLedger) keep what it says of   *)
(* checkpoints true.                                                       *)
(*                                                                         *)
(* The third part, succession: create_successor never meets a predecessor  *)
(* that it must refuse, and a batch has at most one unresolved card.       *)
(***************************************************************************)
EXTENDS MCPermissionWait, FiniteSetTheorems, TLAPS

-----------------------------------------------------------------------------
(* The store.  What every transaction guarantees, for any well-formed      *)
(* checkpoint: it leaves a well-formed checkpoint behind and obeys the     *)
(* ledger's rules (LedgerStep).  The provers update one record field at a  *)
(* time, so a transaction that writes several fields is split into a chain *)
(* of single updates.                                                      *)

\* A checkpoint the store can have written: an undecided one has no audit and
\* no backup, a decided one has a value and an audit, a failed audit denies, and a
\* missing file has neither generation nor decision.
Sound(r) ==
  /\ r \in Record
  /\ r.status = "none" => r.audit = "none" /\ r.backup = "none"
  /\ Decided(r) => r.audit # "none" /\ r.value \in Values
  /\ r.audit = "failed" => r.value = "deny"
  /\ r.phase = "ABSENT" => r.generation = 0 /\ r.status = "none"

\* A transaction from r to s.
Advances(r, s) == Sound(s) /\ LedgerStep(r, s)

-----------------------------------------------------------------------------
(* Single field updates.                                                   *)

\* Updating one field of a checkpoint gives a checkpoint that differs there.
LEMMA Fields ==
  ASSUME NEW r \in Record
  PROVE /\ \A x \in Phases : [r EXCEPT !.phase = x] \in Record
        /\ \A x \in Nat : [r EXCEPT !.generation = x] \in Record
        /\ \A x \in {"none", "claimed", "applied"} : [r EXCEPT !.status = x] \in Record
        /\ \A x \in Values : [r EXCEPT !.value = x] \in Record
        /\ \A x \in {"none", "pending", "recorded", "failed"} : [r EXCEPT !.audit = x] \in Record
        /\ \A x \in {"none", "pending", "committed"} : [r EXCEPT !.backup = x] \in Record
        /\ \A x \in BOOLEAN : [r EXCEPT !.graceDeadline = x] \in Record
  BY DEF Record

\* s is r with the generation raised.
LEMMA BumpFacts ==
  ASSUME NEW r \in Record
  PROVE /\ Bump(r) \in Record
        /\ Bump(r).generation = r.generation + 1 /\ Bump(r).generation > r.generation
        /\ Bump(r).phase = r.phase /\ Bump(r).status = r.status /\ Bump(r).value = r.value
        /\ Bump(r).audit = r.audit /\ Bump(r).backup = r.backup
  BY DEF Bump, Record

\* Enter raises the generation and changes only the phase.
LEMMA EnterFacts ==
  ASSUME NEW r \in Record, NEW p \in Phases
  PROVE /\ Enter(r, p) \in Record
        /\ Enter(r, p).generation > r.generation
        /\ Enter(r, p).phase = p /\ Enter(r, p).status = r.status /\ Enter(r, p).value = r.value
        /\ Enter(r, p).audit = r.audit /\ Enter(r, p).backup = r.backup
<1> DEFINE s == Bump(r)
<1>1. s \in Record /\ s.generation > r.generation /\ s.status = r.status /\ s.value = r.value
      /\ s.audit = r.audit /\ s.backup = r.backup
  BY BumpFacts
<1> HIDE DEF s
<1> DEFINE t == [s EXCEPT !.phase = p]
<1>2. t \in Record
  BY <1>1, Fields
<1>3. /\ t.generation = s.generation /\ t.phase = p /\ t.status = s.status /\ t.value = s.value
      /\ t.audit = s.audit /\ t.backup = s.backup
  BY <1>1 DEF Record
<1>4. Enter(r, p) = t
  BY DEF Enter, s
<1> HIDE DEF t
<1> QED BY <1>1, <1>2, <1>3, <1>4 DEF Record

\* Doing nothing is a transaction.
LEMMA AdvancesSame ==
  ASSUME NEW r, Sound(r) PROVE Advances(r, r)
  BY DEF Advances, LedgerStep

\* Two transactions in a row obey the rules of one.
LEMMA AdvancesTrans ==
  ASSUME NEW r, NEW s, NEW t, Sound(r), Advances(r, s), Advances(s, t)
  PROVE Advances(r, t)
<1>1. r.generation \in Nat /\ s.generation \in Nat /\ t.generation \in Nat
  BY DEF Advances, Sound, Record
<1>2. t # r => t.generation > r.generation
  BY <1>1 DEF Advances, LedgerStep
<1>3. Decided(r) => \/ t.value = r.value
                    \/ r.audit = "pending" /\ t.audit = "failed" /\ t.value = "deny"
  BY DEF Advances, LedgerStep, Sound, Record
<1> QED BY <1>2, <1>3 DEF Advances, LedgerStep

\* Entering a phase is a transaction.
LEMMA AdvancesEnter ==
  ASSUME NEW r, Sound(r), NEW p \in Phases PROVE Advances(r, Enter(r, p))
  BY EnterFacts DEF Advances, Sound, LedgerStep, Decided, Phases, ActivePhases

-----------------------------------------------------------------------------
(* The transactions.                                                       *)

\* A fresh checkpoint waits, undecided.
LEMMA CheckpointFacts ==
  /\ Checkpoint \in Record /\ Checkpoint.generation = 1 /\ Checkpoint.phase = "WAITING"
  /\ Checkpoint.status = "none" /\ Checkpoint.audit = "none" /\ Checkpoint.backup = "none"
<1> DEFINE s == [Absent EXCEPT !.phase = "WAITING"]
           t == [s EXCEPT !.generation = 1]
<1>1. Absent \in Record
  BY DEF Absent, Record, Phases, ActivePhases
<1>2. /\ s \in Record /\ s.phase = "WAITING" /\ s.status = "none" /\ s.audit = "none"
      /\ s.backup = "none"
  BY <1>1, Fields DEF Absent, Phases, ActivePhases
<1>3. Checkpoint = t
  BY DEF Checkpoint
<1> HIDE DEF s
<1>4. t \in Record
  BY <1>2, Fields
<1>5. /\ t.generation = 1 /\ t.phase = "WAITING" /\ t.status = "none" /\ t.audit = "none"
      /\ t.backup = "none"
  BY <1>2 DEF Record
<1> QED BY <1>3, <1>4, <1>5

\* create writes over a missing file only.
LEMMA AdvancesCreate ==
  ASSUME NEW r, Sound(r), CanCreate(r) PROVE Advances(r, Create(r))
  BY CheckpointFacts DEF Advances, Sound, LedgerStep, Decided, CanCreate, Create

\* reactivate writes a fresh wait over a suspended, undecided one.
LEMMA AdvancesReactivate ==
  ASSUME NEW r, Sound(r), CanReactivate(r) PROVE Advances(r, Reactivate(r))
<1>1. ASSUME NEW c \in Record, NEW n \in Nat
      PROVE LET u == [c EXCEPT !.generation = n]
            IN /\ u \in Record /\ u.generation = n /\ u.phase = c.phase
               /\ u.status = c.status /\ u.audit = c.audit /\ u.backup = c.backup
  BY DEF Record
<1>2. r.generation \in Nat /\ r.generation + 1 \in Nat /\ r.generation + 1 > r.generation
  BY DEF Sound, Record
<1>3. LET u == Reactivate(r)
      IN /\ u \in Record /\ u.generation = r.generation + 1 /\ u.phase = "WAITING"
         /\ u.status = "none" /\ u.audit = "none" /\ u.backup = "none"
  BY <1>1, <1>2, CheckpointFacts DEF Reactivate
<1> QED BY <1>2, <1>3 DEF Advances, Sound, LedgerStep, Decided, CanReactivate

\* The transactions that only enter a phase.
LEMMA AdvancesPhase ==
  ASSUME NEW r, Sound(r)
  PROVE /\ Advances(r, Succeeded(r)) /\ Advances(r, MarkSuspended(r))
        /\ Advances(r, BeginRestore(r)) /\ Advances(r, Resolve(r))
        /\ Advances(r, Cancel(r)) /\ Advances(r, CancelRestore(r))
  BY AdvancesEnter, AdvancesSame
     DEF Succeeded, MarkSuspended, BeginRestore, Resolve, Cancel, CancelRestore, Phases, ActivePhases

\* reconcile_deadline, for any reading of the clock.
LEMMA AdvancesReconcile ==
  ASSUME NEW r, Sound(r), NEW x, NEW y, NEW live, NEW allow
  PROVE Advances(r, Reconcile(r, x, y, live, allow))
<1>1. \A p \in Phases : Advances(r, [Enter(r, p) EXCEPT !.graceDeadline = TRUE])
  <2> TAKE p \in Phases
  <2> DEFINE s == Enter(r, p)
             t == [s EXCEPT !.graceDeadline = TRUE]
  <2>1. /\ s \in Record /\ s.generation > r.generation /\ s.phase = p /\ s.status = r.status
        /\ s.value = r.value /\ s.audit = r.audit /\ s.backup = r.backup
    BY EnterFacts DEF Sound
  <2> HIDE DEF s
  <2>2. t \in Record
    BY <2>1, Fields
  <2>3. /\ t.generation = s.generation /\ t.phase = p /\ t.status = s.status
        /\ t.value = s.value /\ t.audit = s.audit /\ t.backup = s.backup
    BY <2>1 DEF Record
  <2>4. t = [Enter(r, p) EXCEPT !.graceDeadline = TRUE]
    BY DEF s
  <2> HIDE DEF t
  <2>5. Advances(r, t)
    BY <2>1, <2>2, <2>3 DEF Advances, Sound, LedgerStep, Decided, Phases, ActivePhases
  <2> QED BY <2>4, <2>5
<1>2. \A p \in Phases : Advances(r, Enter(r, p))
  BY AdvancesEnter
<1>3. Advances(r, r)
  BY AdvancesSame
<1> QED BY <1>1, <1>2, <1>3 DEF Reconcile, Expired, Phases, ActivePhases

\* claim_decision.
LEMMA AdvancesClaim ==
  ASSUME NEW r, Sound(r), NEW v \in Values, CanClaim(r, v) PROVE Advances(r, Claim(r, v))
<1>1. CASE Decided(r)
  BY <1>1, AdvancesSame DEF Claim
<1>2. CASE ~Decided(r)
  <2> DEFINE s == Bump(r)
             s1 == [s EXCEPT !.status = "claimed"]
             s2 == [s1 EXCEPT !.value = v]
             s3 == [s2 EXCEPT !.audit = "pending"]
             s4 == [s3 EXCEPT !.backup = "pending"]
  <2>1. s \in Record /\ s.generation > r.generation /\ s.phase = r.phase
    BY BumpFacts DEF Sound
  <2>2. Claim(r, v) = s4
    BY <1>2 DEF Claim
  <2> HIDE DEF s
  <2>3. s1 \in Record /\ s1.generation = s.generation /\ s1.phase = s.phase /\ s1.status = "claimed"
    BY <2>1 DEF Record
  <2> HIDE DEF s1
  <2>4. /\ s2 \in Record /\ s2.generation = s.generation /\ s2.phase = s.phase /\ s2.status = "claimed"
        /\ s2.value = v
    BY <2>3 DEF Record
  <2> HIDE DEF s2
  <2>5. /\ s3 \in Record /\ s3.generation = s.generation /\ s3.phase = s.phase
        /\ s3.status = "claimed" /\ s3.audit = "pending" /\ s3.value = v
    BY <2>4 DEF Record
  <2> HIDE DEF s3
  <2>6. /\ s4 \in Record /\ s4.generation = s.generation /\ s4.phase = s.phase
        /\ s4.status = "claimed" /\ s4.audit = "pending" /\ s4.value = v
    BY <2>5 DEF Record
  <2> HIDE DEF s4
  <2> QED BY <1>2, <2>1, <2>2, <2>6
          DEF Advances, Sound, LedgerStep, Decided, CanClaim, Record
<1> QED BY <1>1, <1>2

\* run_claim_audit_once, whether or not the audit can be written.
LEMMA AdvancesAudit ==
  ASSUME NEW r, Sound(r), NEW ok \in BOOLEAN, CanAudit(r) PROVE Advances(r, Audit(r, ok))
<1>1. CASE r.audit # "pending"
  BY <1>1, AdvancesSame DEF Audit
<1>2. CASE r.audit = "pending"
  <2> DEFINE s == Bump(r)
             s1 == [s EXCEPT !.value = IF ok THEN @ ELSE "deny"]
             s2 == [s1 EXCEPT !.audit = IF ok THEN "recorded" ELSE "failed"]
  <2>1. /\ s \in Record /\ s.generation > r.generation /\ s.phase = r.phase
        /\ s.status = r.status /\ s.value = r.value /\ s.backup = r.backup
    BY BumpFacts DEF Sound
  <2>2. Audit(r, ok) = s2
    BY <1>2 DEF Audit
  <2> HIDE DEF s
  <2>3. /\ s1 \in Record /\ s1.generation = s.generation /\ s1.phase = s.phase
        /\ s1.status = s.status /\ s1.backup = s.backup
        /\ s1.value = IF ok THEN s.value ELSE "deny"
    BY <2>1 DEF Record, Values
  <2> HIDE DEF s1
  <2>4. /\ s2 \in Record /\ s2.generation = s.generation /\ s2.phase = s.phase
        /\ s2.status = s.status /\ s2.backup = s.backup /\ s2.value = s1.value
        /\ s2.audit = IF ok THEN "recorded" ELSE "failed"
    BY <2>3 DEF Record
  <2> HIDE DEF s2
  <2> QED BY <1>2, <2>1, <2>2, <2>3, <2>4
          DEF Advances, Sound, LedgerStep, Decided, CanAudit, Record
<1> QED BY <1>1, <1>2

\* mark_claim_backed_up and mark_applied.
LEMMA AdvancesMarks ==
  ASSUME NEW r, Sound(r), Decided(r)
  PROVE Advances(r, MarkBackedUp(r)) /\ Advances(r, MarkApplied(r))
<1> DEFINE s == Bump(r)
           t == [s EXCEPT !.backup = "committed"]
           u == [s EXCEPT !.status = "applied"]
<1>1. /\ s \in Record /\ s.generation > r.generation /\ s.phase = r.phase
      /\ s.status = r.status /\ s.value = r.value /\ s.audit = r.audit /\ s.backup = r.backup
  BY BumpFacts DEF Sound
<1>2. /\ MarkBackedUp(r) = IF r.backup = "committed" THEN r ELSE t
      /\ MarkApplied(r) = IF r.status = "applied" THEN r ELSE u
  BY DEF MarkBackedUp, MarkApplied
<1> HIDE DEF s
<1>3. /\ t \in Record /\ t.generation = s.generation /\ t.phase = s.phase
      /\ t.status = s.status /\ t.value = s.value /\ t.audit = s.audit /\ t.backup = "committed"
  BY <1>1 DEF Record
<1>4. /\ u \in Record /\ u.generation = s.generation /\ u.phase = s.phase
      /\ u.status = "applied" /\ u.value = s.value /\ u.audit = s.audit /\ u.backup = s.backup
  BY <1>1 DEF Record
<1> HIDE DEF t, u
<1>5. Advances(r, t) /\ Advances(r, u)
  BY <1>1, <1>3, <1>4 DEF Advances, Sound, LedgerStep, Decided
<1> QED BY <1>2, <1>5, AdvancesSame


-----------------------------------------------------------------------------
(* The ledger.  The lemmas above speak of each transaction; here each      *)
(* action is matched with the transactions it runs.                        *)

AllSound == \A b \in Boundaries : Sound(rec[b])
AllAdvance == \A b \in Boundaries : Advances(rec[b], rec'[b])

\* The parts of the state that the ledger argument reads.
LEMMA TypeFacts ==
  ASSUME TypeOK
  PROVE /\ DOMAIN rec = Boundaries
        /\ \A b \in Boundaries : rec[b] \in Record /\ owner[b] \in Owner
        /\ \A r \in Runs : run[r] \in RunState /\ run[r].b \in Boundaries
        /\ \A r \in Runs : run[r].root \in Boundaries \cup {0} /\ run[r].dec \in Decisions
        /\ \A q \in Requests : req[q] \in RequestState /\ req[q].b \in Boundaries
        /\ \A q \in Requests : req[q].v \in Values /\ req[q].id \in Nat
  BY DEF TypeOK, RunState, RequestState

\* unregister_live never breaks the rules, whatever owner it finds.
LEMMA AdvancesUnregister ==
  ASSUME NEW r, Sound(r), NEW o PROVE Advances(r, AfterUnregister(r, o))
  BY AdvancesSame, AdvancesPhase DEF AfterUnregister

\* reconcile_deadline at the current time.
LEMMA AdvancesReconciled ==
  ASSUME TypeOK, AllSound, NEW b \in Boundaries, NEW live, NEW allow
  PROVE Advances(rec[b], Reconciled(b, live, allow))
  BY AdvancesReconcile DEF Reconciled, AllSound

\* restore_permission_requests on top of transactions.
LEMMA AdvancesRelist ==
  ASSUME TypeOK, AllSound, NEW R, NEW L, Relist(R, L),
         \A b \in Boundaries : Advances(rec[b], R[b])
  PROVE AllAdvance
<1> SUFFICES ASSUME NEW b \in Boundaries PROVE Advances(rec[b], rec'[b])
  BY DEF AllAdvance
<1> DEFINE t == Reconcile(R[b], FALSE, FALSE, FALSE, TRUE)
<1>1. Sound(rec[b]) /\ Advances(rec[b], R[b]) /\ Sound(R[b])
  BY DEF AllSound, Advances
<1>2. Advances(rec[b], t)
  BY <1>1, AdvancesReconcile, AdvancesTrans
<1> HIDE DEF t
<1>3. rec'[b] = t \/ rec'[b] = R[b]
  BY DEF Relist, t
<1> QED BY <1>1, <1>2, <1>3

\* The steps of a run.
LEMMA RunLedger ==
  ASSUME TypeOK, AllSound, NEW r \in Runs, RunStep(r) PROVE AllAdvance
<1> USE TypeFacts
<1>0. \A b \in Boundaries : Sound(rec[b]) /\ Advances(rec[b], rec[b])
  BY AdvancesSame DEF AllSound
<1>1. CASE OpenBoundary(r)
  BY <1>1, <1>0, AdvancesCreate, AdvancesPhase DEF OpenBoundary, AllAdvance
<1>2. CASE ActivateBoundary(r)
  BY <1>2, <1>0 DEF ActivateBoundary, AllAdvance
<1>3. CASE OpenBackupFails(r)
  BY <1>3, <1>0, AdvancesPhase DEF OpenBackupFails, AllAdvance
<1>4. ASSUME NEW ok \in BOOLEAN, TakeOutcome(r, ok) PROVE AllAdvance
  BY <1>4, <1>0, AdvancesUnregister DEF TakeOutcome, Complete, AllAdvance
<1>5. CASE Unwind(r)
  BY <1>5, <1>0, AdvancesUnregister DEF Unwind, AllAdvance
<1>6. CASE Execute(r) \/ Persist(r)
  BY <1>6, <1>0 DEF Execute, Persist, AllAdvance
<1>7. CASE Conclude(r)
  BY <1>7, <1>0, AdvancesPhase DEF Conclude, AllAdvance
<1>8. CASE RunFails(r)
  <2> DEFINE root == run[r].root
             orphaned == IF Web /\ root = 0 THEN {i \in Boundaries : reg[i] # "none"} ELSE {}
             R == [i \in Boundaries |-> IF i = root \/ i \in orphaned
                                        THEN Reconciled(i, FALSE, TRUE) ELSE rec[i]]
  <2>1. \A b \in Boundaries : Advances(rec[b], R[b])
    BY <1>0, AdvancesReconciled
  <2>2. rec' = R \/ Relist(R, reg)
    BY <1>8 DEF RunFails
  <2> HIDE DEF R
  <2> QED BY <2>1, <2>2, AdvancesRelist DEF AllAdvance
<1> QED BY <1>1, <1>2, <1>3, <1>4, <1>5, <1>6, <1>7, <1>8 DEF RunStep

\* The steps of the timer, of re-issued cards and of a canceled task.
LEMMA BoundaryLedger ==
  ASSUME TypeOK, AllSound, NEW b \in Boundaries, BoundaryStep(b) PROVE AllAdvance
<1> USE TypeFacts
<1>0. \A i \in Boundaries : Sound(rec[i]) /\ Advances(rec[i], rec[i])
  BY AdvancesSame DEF AllSound
<1>1. CASE RebuildCard(b)
  BY <1>1, <1>0, AdvancesReactivate DEF RebuildCard, AllAdvance
<1>2. CASE Tick(b) \/ TimerLost(b) \/ TimerRearmed(b)
  BY <1>2, <1>0 DEF Tick, TimerLost, TimerRearmed, AllAdvance
<1>3. CASE TimerFires(b)
  BY <1>3, <1>0, AdvancesReconciled DEF TimerFires, AllAdvance
<1>4. CASE CancelTask(b)
  <2>1. PICK c : /\ rec' = [rec EXCEPT ![b] = AfterUnregister(c, owner[b])]
                 /\ c = Cancel(rec[b]) \/ c = rec[b]
    BY <1>4 DEF CancelTask
  <2>2. Advances(rec[b], c) /\ Sound(c)
    BY <1>0, <2>1, AdvancesPhase DEF Advances
  <2>3. Advances(rec[b], AfterUnregister(c, owner[b]))
    BY <1>0, <2>2, AdvancesUnregister, AdvancesTrans
  <2> QED BY <1>0, <2>1, <2>3 DEF AllAdvance
<1> QED BY <1>1, <1>2, <1>3, <1>4 DEF BoundaryStep

\* The steps of an answer on the live path.
LEMMA LiveLedger ==
  ASSUME TypeOK, AllSound, NEW q \in Requests, LiveAnswer(q) PROVE AllAdvance
<1> USE TypeFacts
<1>0. \A i \in Boundaries : Sound(rec[i]) /\ Advances(rec[i], rec[i])
  BY AdvancesSame DEF AllSound
<1>1. ASSUME NEW allow \in BOOLEAN, ClaimReconcile(q, allow) PROVE AllAdvance
  <2> DEFINE b == req[q].b
  <2>1. PICK new : /\ rec' = [rec EXCEPT ![b] = new] \/ rec' = rec
                   /\ new \in {Reconciled(b, TRUE, allow), AfterUnregister(rec[b], owner[b])}
    BY <1>1 DEF ClaimReconcile, Refuse, Complete
  <2>2. b \in Boundaries
    OBVIOUS
  <2> HIDE DEF b
  <2>3. Advances(rec[b], new)
    BY <1>0, <2>1, <2>2, AdvancesReconciled, AdvancesUnregister
  <2> QED BY <2>1, <2>3, <1>0 DEF AllAdvance
<1>2. CASE ClaimDecision(q)
  BY <1>2, <1>0, AdvancesClaim, AdvancesUnregister DEF ClaimDecision, AllAdvance
<1>3. ASSUME NEW ok \in BOOLEAN, ClaimAudit(q, ok) PROVE AllAdvance
  BY <1>3, <1>0, AdvancesAudit DEF ClaimAudit, AllAdvance
<1>4. CASE ClaimBackedUp(q)
  BY <1>4, <1>0, AdvancesMarks DEF ClaimBackedUp, CanMarkBackedUp, AllAdvance
<1>5. CASE Deliver(q)
  BY <1>5, <1>0, AdvancesMarks DEF Deliver, CanMarkApplied, AllAdvance
<1>6. CASE DeliveryFails(q) \/ ClaimContinuation(q) \/ OwnerUnwound(q)
  BY <1>6, <1>0 DEF DeliveryFails, ClaimContinuation, OwnerUnwound, AllAdvance
<1> QED BY <1>1, <1>2, <1>3, <1>4, <1>5, <1>6 DEF LiveAnswer

\* The steps of an answer on the cold path, up to the end of its restoration.
LEMMA ColdLedger ==
  ASSUME TypeOK, AllSound, NEW q \in Requests, ColdAnswer(q) PROVE AllAdvance
<1> USE TypeFacts
<1>0. \A i \in Boundaries : Sound(rec[i]) /\ Advances(rec[i], rec[i])
  BY AdvancesSame DEF AllSound
<1>1. CASE \/ LoadCheckpoint(q) \/ AcquireRestore(q) \/ Admit(q) \/ RestoreBackupFails(q)
           \/ AcquireTurn(q) \/ \E ok \in BOOLEAN : ResumeBoundary(q, ok)
  BY <1>1, <1>0 DEF LoadCheckpoint, AcquireRestore, Admit, RestoreBackupFails, AcquireTurn,
                    ResumeBoundary, AllAdvance
<1>2. CASE ColdReconcile(q)
  BY <1>2, <1>0, AdvancesReconciled DEF ColdReconcile, AllAdvance
<1>3. CASE ColdClaim(q)
  BY <1>3, <1>0, AdvancesClaim DEF ColdClaim, AllAdvance
<1>4. ASSUME NEW ok \in BOOLEAN, ColdAudit(q, ok) PROVE AllAdvance
  BY <1>4, <1>0, AdvancesAudit DEF ColdAudit, AllAdvance
<1>5. CASE RestoreBackedUp(q)
  BY <1>5, <1>0, AdvancesMarks DEF RestoreBackedUp, CanMarkBackedUp, AllAdvance
<1>6. CASE BeginRestoration(q)
  <2> DEFINE b == req[q].b
  <2>1. PICK new : /\ \/ rec' = [rec EXCEPT ![b] = new]
                      \/ Relist([rec EXCEPT ![b] = new], reg)
                   /\ new \in {rec[b], BeginRestore(rec[b]), Reconciled(b, FALSE, TRUE)}
    BY <1>6 DEF BeginRestoration
  <2>2. b \in Boundaries
    OBVIOUS
  <2> HIDE DEF b
  <2>3. Advances(rec[b], new)
    BY <1>0, <2>1, <2>2, AdvancesPhase, AdvancesReconciled
  <2> DEFINE R == [rec EXCEPT ![b] = new]
  <2>4. \A i \in Boundaries : Advances(rec[i], R[i])
    BY <1>0, <2>2, <2>3
  <2>5. rec' = R \/ Relist(R, reg)
    BY <2>1
  <2> HIDE DEF R
  <2> QED BY <2>4, <2>5, AdvancesRelist DEF AllAdvance
<1>7. CASE ResumeRefused(q)
  <2> DEFINE root == run[q].root
             R == [rec EXCEPT ![root] = Reconciled(root, FALSE, TRUE)]
  <2>1. \A i \in Boundaries : Advances(rec[i], R[i])
    BY <1>0, AdvancesReconciled
  <2>2. Relist(R, reg)
    BY <1>7 DEF ResumeRefused
  <2> HIDE DEF R
  <2> QED BY <2>1, <2>2, AdvancesRelist
<1>8. CASE TerminateRestore(q)
  BY <1>8, <1>0, AdvancesPhase DEF TerminateRestore, AllAdvance
<1> QED BY <1>1, <1>2, <1>3, <1>4, <1>5, <1>6, <1>7, <1>8 DEF ColdAnswer

\* Every step obeys the rules and leaves well-formed checkpoints.
LEMMA StepLedger ==
  ASSUME TypeOK, AllSound, [Next]_vars PROVE AllAdvance /\ AllSound'
<1> USE TypeFacts
<1>0. \A i \in Boundaries : Sound(rec[i]) /\ Advances(rec[i], rec[i])
  BY AdvancesSame DEF AllSound
<1>1. ASSUME NEW q \in Requests, Submit(q) PROVE AllAdvance
  BY <1>1, <1>0 DEF Submit, SubmitA2A, SubmitWeb, AllAdvance
<1>2. ASSUME NEW stop \in BOOLEAN, InterruptSession(stop) PROVE AllAdvance
  BY <1>2, <1>0, AdvancesPhase, AdvancesReconciled DEF InterruptSession, AllAdvance
<1>3. ASSUME Crash PROVE AllAdvance
  <2> DEFINE L == [b \in Boundaries |-> "none"]
  <2>1. Relist(rec, L)
    BY <1>3 DEF Crash
  <2> HIDE DEF L
  <2> QED BY <2>1, <1>0, AdvancesRelist
<1>4. ASSUME UNCHANGED vars PROVE AllAdvance
  <2>1. rec' = rec
    BY <1>4 DEF vars
  <2> QED BY <2>1, <1>0 DEF AllAdvance
<1>5. AllAdvance
  BY <1>1, <1>2, <1>3, <1>4, RunLedger, BoundaryLedger, LiveLedger, ColdLedger DEF Next
<1> QED BY <1>5 DEF AllAdvance, AllSound, Advances

-----------------------------------------------------------------------------
(* Types and the ledger, proved together: the ledger lemmas need types,    *)
(* and that checkpoints stay checkpoints comes from them.                  *)

\* Every state variable but the checkpoints has its type.
RestOK ==
  /\ frame \in [Boundaries -> Decisions]
  /\ results \in BOOLEAN
  /\ clock \in [Boundaries -> 0..2]
  /\ owner \in [Boundaries -> Owner]
  /\ fut \in [Boundaries -> Outcomes]
  /\ restoring \subseteq Boundaries
  /\ reg \in [Boundaries -> Cards]
  /\ admission \in Requests \cup {None}
  /\ run \in [Runs -> RunState]
  /\ req \in [Requests -> RequestState]
  /\ busy \in Requests \cup {None}
  /\ ran \subseteq Boundaries
  /\ reactivations \in 0..MaxReactivations

\* The owner's updates give owners.
LEMMA OwnerFacts ==
  ASSUME NEW o \in Owner
  PROVE /\ Released(o) \in Owner
        /\ \A r \in Record : Held(o, r) \in Owner
        /\ \A l \in Requests \cup {None} : [o EXCEPT !.lock = l] \in Owner
        /\ \A t \in {"off", "on", "lost"} : [o EXCEPT !.timer = t] \in Owner
<1>1. /\ \A l \in Requests \cup {None} : [o EXCEPT !.lock = l] \in Owner
      /\ \A t \in {"off", "on", "lost"} : [o EXCEPT !.timer = t] \in Owner
      /\ \A x \in BOOLEAN : [o EXCEPT !.live = x] \in Owner
  BY DEF Owner
<1>2. \A r \in Record : Held(o, r) \in Owner
  BY DEF Owner, Held, Record
<1>3. Released(o) \in Owner
  <2> DEFINE s == [o EXCEPT !.live = FALSE]
             t == [s EXCEPT !.timer = "off"]
  <2>1. s \in Owner
    BY <1>1
  <2>2. Released(o) = t
    BY DEF Released
  <2> HIDE DEF s
  <2>3. t \in Owner
    BY <2>1 DEF Owner
  <2> QED BY <2>2, <2>3
<1> QED BY <1>1, <1>2, <1>3

\* New owners, runs and requests are well typed.
LEMMA FreshFacts ==
  /\ \A r \in Record : Registered(r) \in Owner
  /\ NoOwner \in Owner /\ NoRun \in RunState /\ NoRequest \in RequestState
  /\ Undecided \in Decisions
<1>1. 1 \in Boundaries
  BY ConstantsAssumption DEF Boundaries
<1>2. Undecided \in Decisions
  BY DEF Undecided, Decisions
<1>3. NoRun \in RunState
  BY <1>1, <1>2 DEF NoRun, RunState, RunStates
<1>4. NoRequest \in RequestState
  BY <1>1 DEF NoRequest, RequestState, RequestStates, Values
<1>5. NoOwner \in Owner
  BY DEF NoOwner, Owner
<1>6. \A r \in Record : Registered(r) \in Owner
  BY DEF Registered, Owner, Record
<1> QED BY <1>2, <1>3, <1>4, <1>5, <1>6

\* Moving a run or a request to another state keeps its type, and so does ending it.
LEMMA RunMoves ==
  ASSUME TypeOK, NEW r \in Runs
  PROVE /\ \A x \in RunStates : [run EXCEPT ![r].st = x] \in [Runs -> RunState]
        /\ EndRun(r) => run' \in [Runs -> RunState]
        /\ EndHost(r) => req' \in [Requests -> RequestState]
<1>1. run \in [Runs -> RunState] /\ req \in [Requests -> RequestState]
  BY DEF TypeOK
<1>2. \A s \in RunState, x \in RunStates : [s EXCEPT !.st = x] \in RunState
  BY DEF RunState
<1> QED BY <1>1, <1>2, FreshFacts DEF EndRun, EndHost

LEMMA RequestMoves ==
  ASSUME TypeOK, NEW q \in Requests
  PROVE /\ \A x \in RequestStates : Goto(q, x) => req' \in [Requests -> RequestState]
        /\ Finish(q) => req' \in [Requests -> RequestState]
        /\ \A x \in RequestStates, p \in Phases \cup {"ABSENT"} :
             [req EXCEPT ![q].st = x, ![q].phase = p] \in [Requests -> RequestState]
<1>1. req \in [Requests -> RequestState]
  BY DEF TypeOK
<1>2. \A s \in RequestState, x \in RequestStates : [s EXCEPT !.st = x] \in RequestState
  BY DEF RequestState
<1>3. \A s \in RequestState, p \in Phases \cup {"ABSENT"} : [s EXCEPT !.phase = p] \in RequestState
  BY DEF RequestState
<1>4. ASSUME NEW x \in RequestStates, NEW p \in Phases \cup {"ABSENT"}
      PROVE [req EXCEPT ![q].st = x, ![q].phase = p] \in [Requests -> RequestState]
  <2> DEFINE f == [req EXCEPT ![q].st = x]
             g == [f EXCEPT ![q].phase = p]
  <2>1. f \in [Requests -> RequestState]
    BY <1>1, <1>2
  <2> HIDE DEF f
  <2>2. g \in [Requests -> RequestState]
    BY <2>1, <1>3
  <2> QED BY <2>2 DEF f
<1>5. ASSUME NEW x \in RequestStates, Goto(q, x) PROVE req' \in [Requests -> RequestState]
  BY <1>1, <1>2, <1>5 DEF Goto
<1>6. Finish(q) => req' \in [Requests -> RequestState]
  BY <1>1, FreshFacts DEF Finish
<1> QED BY <1>4, <1>5, <1>6

\* Deciding the current tool stays inside the batch.
LEMMA AdvanceFacts ==
  ASSUME TypeOK, NEW r \in Runs, NEW d \in {"allow", "deny"}, Advance(r, d)
  PROVE run' \in [Runs -> RunState]
<1> DEFINE b == run[r].b
           s == run[r]
           s1 == [s EXCEPT !.dec[b] = d]
           s2 == [s1 EXCEPT !.st = IF b < NB THEN "open" ELSE "exec"]
           s3 == [s2 EXCEPT !.b = IF b < NB THEN b + 1 ELSE b]
<1>1. run \in [Runs -> RunState] /\ s \in RunState /\ b \in Boundaries
  BY DEF TypeOK, RunState
<1>2. run' = [run EXCEPT ![r] = s3]
  BY DEF Advance
<1>3. s1 \in RunState
  BY <1>1 DEF RunState, Decisions
<1>4. (IF b < NB THEN b + 1 ELSE b) \in Boundaries
  BY <1>1, ConstantsAssumption DEF Boundaries
<1> HIDE DEF s1, b
<1>5. s2 \in RunState
  BY <1>3 DEF RunState, RunStates
<1> HIDE DEF s2
<1>6. s3 \in RunState
  BY <1>4, <1>5 DEF RunState
<1> QED BY <1>1, <1>2, <1>6

\* Checkpoints stay checkpoints.
LEMMA RecordTypes ==
  ASSUME TypeOK, AllSound, [Next]_vars PROVE rec' \in [Boundaries -> Record]
<1>1. \A b \in Boundaries : rec'[b] \in Record
  BY StepLedger DEF AllSound, Sound
<1>2. rec' = [b \in Boundaries |-> rec'[b]]
  <2>0. rec = [b \in Boundaries |-> rec[b]]
    BY SMTT(60) DEF TypeOK
  <2>1. ASSUME NEW r \in Runs, RunStep(r) PROVE rec' = [b \in Boundaries |-> rec'[b]]
    BY <2>0, <2>1 DEF RunStep, OpenBoundary, ActivateBoundary, OpenBackupFails, TakeOutcome, Complete,
       Unwind, Execute, Persist, Conclude, RunFails, Relist
  <2>2. ASSUME NEW b \in Boundaries, BoundaryStep(b) PROVE rec' = [i \in Boundaries |-> rec'[i]]
    BY <2>0, <2>2 DEF BoundaryStep, RebuildCard, Tick, TimerFires, TimerLost, TimerRearmed, CancelTask
  <2>3. ASSUME NEW q \in Requests, Submit(q) \/ LiveAnswer(q)
        PROVE rec' = [i \in Boundaries |-> rec'[i]]
    BY <2>0, <2>3, ZenonT(60) DEF Submit, SubmitA2A, SubmitWeb, LiveAnswer, ClaimReconcile, Refuse, Complete,
       ClaimDecision, ClaimAudit, ClaimBackedUp, DeliveryFails, Deliver, ClaimContinuation,
       OwnerUnwound
  <2>4. ASSUME NEW q \in Requests, ColdAnswer(q) PROVE rec' = [i \in Boundaries |-> rec'[i]]
    BY <2>0, <2>4, ZenonT(30) DEF ColdAnswer, LoadCheckpoint, ColdReconcile, ColdClaim, ColdAudit,
       AcquireRestore, Admit, RestoreBackedUp, RestoreBackupFails, BeginRestoration, AcquireTurn,
       ResumeBoundary, ResumeRefused, TerminateRestore, Relist
  <2>5. ASSUME (\E stop \in BOOLEAN : InterruptSession(stop)) \/ Crash
        PROVE rec' = [i \in Boundaries |-> rec'[i]]
    BY <2>5 DEF InterruptSession, Crash, Relist
  <2>6. ASSUME UNCHANGED vars PROVE rec' = [i \in Boundaries |-> rec'[i]]
    BY <2>0, <2>6 DEF vars
  <2> QED BY <2>1, <2>2, <2>3, <2>4, <2>5, <2>6 DEF Next
<1> QED BY <1>1, <1>2

\* The steps of a run.
LEMMA RunTypes ==
  ASSUME TypeOK, rec' \in [Boundaries -> Record], NEW r \in Runs, RunStep(r) PROVE RestOK'
<1> USE TypeFacts, RunMoves DEF TypeOK, RestOK
<1>1. CASE OpenBoundary(r)
  <2>1. owner' \in [Boundaries -> Owner]
    BY <1>1, OwnerFacts, FreshFacts, CheckpointFacts DEF OpenBoundary
  <2>2. reg' \in [Boundaries -> Cards]
    BY <1>1 DEF OpenBoundary, Cards
  <2>3. run' \in [Runs -> RunState]
    BY <1>1 DEF OpenBoundary, RunStates
  <2>4. fut' \in [Boundaries -> Outcomes]
    BY <1>1 DEF OpenBoundary, Outcomes
  <2>5. clock' \in [Boundaries -> 0..2] /\ frame' \in [Boundaries -> Decisions]
    BY <1>1 DEF OpenBoundary
  <2> QED BY <1>1, <2>1, <2>2, <2>3, <2>4, <2>5 DEF OpenBoundary
<1>2. CASE ActivateBoundary(r)
  BY <1>2, FreshFacts DEF ActivateBoundary, RunStates
<1>3. CASE OpenBackupFails(r)
  BY <1>3 DEF OpenBackupFails, Unrestored, Outcomes
<1>4. ASSUME NEW ok \in BOOLEAN, TakeOutcome(r, ok) PROVE RestOK'
  <2>1. run' \in [Runs -> RunState]
    BY <1>4, AdvanceFacts DEF TakeOutcome
  <2>2. owner' \in [Boundaries -> Owner]
    <3>1. owner' = owner \/ owner' = [owner EXCEPT ![run[r].b] = Released(@)]
      BY <1>4 DEF TakeOutcome, Complete
    <3>2. run[r].b \in Boundaries /\ owner[run[r].b] \in Owner
      BY DEF TypeOK
    <3>3. Released(owner[run[r].b]) \in Owner
      BY <3>2, OwnerFacts
    <3> QED BY <3>1, <3>2, <3>3
  <2>3. reg' \in [Boundaries -> Cards]
    BY <1>4 DEF TakeOutcome, Complete, Cards
  <2> QED BY <1>4, <2>1, <2>2, <2>3 DEF TakeOutcome
<1>5. CASE Unwind(r)
  BY <1>5, OwnerFacts DEF Unwind, Unrestored, Cards
<1>6. CASE Execute(r)
  BY <1>6 DEF Execute, RunStates
<1>7. CASE Persist(r)
  BY <1>7 DEF Persist, RunStates
<1>8. CASE Conclude(r)
  BY <1>8, OwnerFacts DEF Conclude, Unrestored, Cards
<1>9. CASE RunFails(r)
  BY <1>9, OwnerFacts DEF RunFails, Unrestored, Relist, Cards
<1> QED BY <1>1, <1>2, <1>3, <1>4, <1>5, <1>6, <1>7, <1>8, <1>9 DEF RunStep

\* The steps of the timer, of re-issued cards and of a canceled task.
LEMMA BoundaryTypes ==
  ASSUME TypeOK, rec' \in [Boundaries -> Record], NEW b \in Boundaries, BoundaryStep(b)
  PROVE RestOK'
<1> USE DEF TypeOK, RestOK
<1>1. CASE RebuildCard(b)
  <2>1. [st |-> "opening", b |-> b, root |-> 0, dec |-> frame[b]] \in RunState
    BY DEF RunState, RunStates
  <2>2. reactivations' \in 0..MaxReactivations
    BY <1>1, ConstantsAssumption DEF RebuildCard
  <2>3. run' \in [Runs -> RunState]
    BY <1>1, <2>1 DEF RebuildCard
  <2>4. clock' \in [Boundaries -> 0..2]
    BY <1>1 DEF RebuildCard
  <2> QED BY <1>1, <2>2, <2>3, <2>4 DEF RebuildCard, Outcomes, Cards
<1>2. CASE Tick(b)
  <2>1. clock' \in [Boundaries -> 0..2]
    BY <1>2 DEF Tick
  <2> QED BY <1>2, <2>1 DEF Tick
<1>3. CASE TimerFires(b)
  <2> DEFINE fenced == rec[b].generation # owner[b].generation
             new == IF fenced THEN rec[b] ELSE Reconciled(b, TRUE, TRUE)
             suspended == ~fenced /\ new.phase = "SUSPENDING"
             again == ~suspended /\ new.phase \in {"WAITING", "TIMEOUT_GRACE"} /\ new.status = "none"
             t == IF again THEN "on" ELSE "off"
             o == IF fenced THEN owner[b] ELSE Held(owner[b], new)
  <2>1. rec' = [rec EXCEPT ![b] = new] /\ owner' = [owner EXCEPT ![b] = [o EXCEPT !.timer = t]]
    BY <1>3 DEF TimerFires
  <2>2. owner' \in [Boundaries -> Owner]
    <3>1. t \in {"on", "off"}
      OBVIOUS
    <3> HIDE DEF t, new
    <3>2. new \in Record
      BY <2>1
    <3>3. o \in Owner
      BY <3>2, OwnerFacts
    <3> HIDE DEF o
    <3> QED BY <2>1, <3>1, <3>3, OwnerFacts
  <2>3. fut' \in [Boundaries -> Outcomes]
    BY <1>3 DEF TimerFires, Outcomes
  <2> QED BY <1>3, <2>2, <2>3 DEF TimerFires
<1>4. CASE TimerLost(b)
  BY <1>4, OwnerFacts DEF TimerLost
<1>5. CASE TimerRearmed(b)
  BY <1>5, OwnerFacts DEF TimerRearmed, Rearmed
<1>6. CASE CancelTask(b)
  <2>1. /\ run' \in [Runs -> RunState] /\ req' \in [Requests -> RequestState]
        /\ restoring' \subseteq Boundaries
    BY <1>6, FreshFacts DEF CancelTask, EndRuns, Unrestored
  <2>2. owner' \in [Boundaries -> Owner]
    BY <1>6, OwnerFacts DEF CancelTask
  <2>3. reg' \in [Boundaries -> Cards] /\ fut' \in [Boundaries -> Outcomes]
    BY <1>6 DEF CancelTask, Outcomes, Cards
  <2> QED BY <1>6, <2>1, <2>2, <2>3 DEF CancelTask
<1> QED BY <1>1, <1>2, <1>3, <1>4, <1>5, <1>6 DEF BoundaryStep

\* The steps of an answer on the live path.
LEMMA LiveTypes ==
  ASSUME TypeOK, rec' \in [Boundaries -> Record], NEW q \in Requests, LiveAnswer(q) PROVE RestOK'
<1> DEFINE b == req[q].b
<1>0. b \in Boundaries /\ owner[b] \in Owner /\ Released(owner[b]) \in Owner
  BY TypeFacts, OwnerFacts
<1>a. \A x \in RequestStates : Goto(q, x) => req' \in [Requests -> RequestState]
  BY RequestMoves
<1>b. Finish(q) => req' \in [Requests -> RequestState]
  BY RequestMoves
<1>c. \A o \in Owner : [owner EXCEPT ![b] = o] \in [Boundaries -> Owner]
  BY DEF TypeOK
<1>d. ASSUME NEW new, rec' = [rec EXCEPT ![b] = new]
      PROVE new \in Record /\ new.phase \in Phases \cup {"ABSENT"} /\ Held(owner[b], new) \in Owner
  <2>1. new \in Record
    BY <1>0, <1>d DEF TypeOK
  <2> QED BY <1>0, <2>1, OwnerFacts DEF Record
<1> USE DEF TypeOK, RestOK
<1>1. ASSUME NEW allow \in BOOLEAN, ClaimReconcile(q, allow) PROVE RestOK'
  <2> DEFINE new == Reconciled(b, TRUE, allow)
  <2>1. CASE Refuse(q) /\ UNCHANGED busy
    <3>1. req' \in [Requests -> RequestState] /\ reg' \in [Boundaries -> Cards]
      BY <1>a, <1>b, <2>1 DEF Refuse, Complete, RequestStates, Cards
    <3>2. owner' \in [Boundaries -> Owner] /\ fut' = fut
      BY <1>0, <1>c, <2>1 DEF Refuse, Complete
    <3> QED BY <1>1, <2>1, <3>1, <3>2 DEF ClaimReconcile
  <2>2. CASE /\ rec' = [rec EXCEPT ![b] = new]
             /\ owner' = [owner EXCEPT ![b] = [Held(@, new) EXCEPT !.lock = q]]
             /\ busy' = q
             /\ Goto(q, "claim")
             /\ UNCHANGED <<fut, reg>>
    <3>1. [Held(owner[b], new) EXCEPT !.lock = q] \in Owner
      BY <1>d, <2>2, OwnerFacts
    <3>2. owner' \in [Boundaries -> Owner]
      BY <1>c, <2>2, <3>1
    <3>3. req' \in [Requests -> RequestState]
      BY <1>a, <2>2 DEF RequestStates
    <3> QED BY <1>1, <2>2, <3>2, <3>3 DEF ClaimReconcile
  <2> QED BY <1>1, <2>1, <2>2 DEF ClaimReconcile
<1>2. CASE ClaimDecision(q)
  <2> DEFINE new == Claim(rec[b], req[q].v)
  <2>1. reg' \in [Boundaries -> Cards] /\ busy' \in Requests \cup {None}
    BY <1>2 DEF ClaimDecision, Cards
  <2>2. req' \in [Requests -> RequestState]
    BY <1>a, <1>b, <1>2 DEF ClaimDecision, RequestStates
  <2>3. /\ [Released(owner[b]) EXCEPT !.lock = None] \in Owner
        /\ [owner[b] EXCEPT !.lock = None] \in Owner
    BY <1>0, OwnerFacts
  <2>4. owner' \in [Boundaries -> Owner]
    <3>1. \/ owner' = [owner EXCEPT ![b] = [Released(@) EXCEPT !.lock = None]]
          \/ owner' = [owner EXCEPT ![b] = [@ EXCEPT !.lock = None]]
          \/ rec' = [rec EXCEPT ![b] = new] /\ owner' = [owner EXCEPT ![b] = Held(@, new)]
      BY <1>2 DEF ClaimDecision
    <3> QED BY <1>c, <1>d, <2>3, <3>1
  <2> QED BY <1>2, <2>1, <2>2, <2>4 DEF ClaimDecision
<1>3. ASSUME NEW ok \in BOOLEAN, ClaimAudit(q, ok) PROVE RestOK'
  <2> DEFINE new == Audit(rec[b], ok)
             x == IF new.backup = "committed" THEN "release" ELSE "backup"
  <2>1. /\ rec' = [rec EXCEPT ![b] = new]
        /\ owner' = [owner EXCEPT ![b] = Held(@, new)]
        /\ req' = [req EXCEPT ![q].st = x, ![q].phase = new.phase]
    BY <1>3 DEF ClaimAudit
  <2>2. x \in RequestStates
    BY DEF RequestStates
  <2> HIDE DEF new, x
  <2>3. owner' \in [Boundaries -> Owner]
    BY <1>c, <1>d, <2>1
  <2>4. req' \in [Requests -> RequestState]
    BY <1>d, <2>1, <2>2, RequestMoves, ZenonT(30)
  <2> QED BY <1>3, <2>3, <2>4 DEF ClaimAudit
<1>4. CASE ClaimBackedUp(q)
  <2> DEFINE new == MarkBackedUp(rec[b])
  <2>1. /\ rec' = [rec EXCEPT ![b] = new]
        /\ owner' = [owner EXCEPT ![b] = Held(@, new)]
        /\ req' = [req EXCEPT ![q].st = "release", ![q].phase = new.phase]
    BY <1>4 DEF ClaimBackedUp
  <2> HIDE DEF new
  <2>2. owner' \in [Boundaries -> Owner]
    BY <1>c, <1>d, <2>1
  <2>3. req' \in [Requests -> RequestState]
    BY <1>d, <2>1, RequestMoves, ZenonT(60) DEF RequestStates
  <2> QED BY <1>4, <2>2, <2>3 DEF ClaimBackedUp
<1>5. CASE DeliveryFails(q)
  <2>1. owner' \in [Boundaries -> Owner]
    BY <1>0, <1>5, OwnerFacts DEF DeliveryFails
  <2> QED BY <1>b, <1>5, <2>1 DEF DeliveryFails
<1>6. CASE Deliver(q)
  <2>1. req' \in [Requests -> RequestState]
    BY <1>a, <1>b, <1>6 DEF Deliver, RequestStates
  <2>2. reg' \in [Boundaries -> Cards] /\ fut' \in [Boundaries -> Outcomes]
    BY <1>6 DEF Deliver, Cards, Outcomes
  <2>3. owner' \in [Boundaries -> Owner]
    <3> DEFINE suspended == req[q].phase \in {"SUSPENDING", "SUSPENDED", "RESTORING"}
               new == IF suspended THEN rec[b] ELSE MarkApplied(rec[b])
               h == Held(owner[b], new)
               h1 == [h EXCEPT !.lock = None]
               h2 == [h1 EXCEPT !.timer = "off"]
    <3>1. /\ rec' = [rec EXCEPT ![b] = new]
          /\ owner' = [owner EXCEPT ![b] = IF suspended THEN [@ EXCEPT !.lock = None] ELSE h2]
      BY <1>6 DEF Deliver
    <3>2. h \in Owner
      <4> HIDE DEF new
      <4> QED BY <1>d, <3>1
    <3> HIDE DEF h
    <3>3. h1 \in Owner
      BY <3>2, OwnerFacts
    <3> HIDE DEF h1
    <3>4. h2 \in Owner
      BY <3>3, OwnerFacts
    <3> HIDE DEF h2
    <3>5. [owner[b] EXCEPT !.lock = None] \in Owner
      BY <1>0, OwnerFacts
    <3> QED BY <1>c, <3>1, <3>4, <3>5
  <2> QED BY <1>6, <2>1, <2>2, <2>3 DEF Deliver
<1>7. CASE ClaimContinuation(q)
  <2>1. run' \in [Runs -> RunState]
    BY <1>7, RunMoves DEF ClaimContinuation, Runs, RunStates, RunState
  <2> QED BY <1>b, <1>7, <2>1 DEF ClaimContinuation, Cards
<1>8. CASE OwnerUnwound(q)
  BY <1>a, <1>8 DEF OwnerUnwound, RequestStates, Cards
<1> QED BY <1>1, <1>2, <1>3, <1>4, <1>5, <1>6, <1>7, <1>8 DEF LiveAnswer

\* The steps of an answer on the cold path.
LEMMA ColdTypes ==
  ASSUME TypeOK, rec' \in [Boundaries -> Record], NEW q \in Requests, ColdAnswer(q) PROVE RestOK'
<1>0. q \in Runs /\ req[q].b \in Boundaries /\ run[q].root \in Boundaries \cup {0}
  BY TypeFacts DEF Runs
<1>a. \A x \in RequestStates : Goto(q, x) => req' \in [Requests -> RequestState]
  BY RequestMoves
<1>b. Finish(q) => req' \in [Requests -> RequestState]
  BY RequestMoves
<1>c. EndRun(q) => run' \in [Runs -> RunState]
  BY <1>0, RunMoves
<1> USE DEF TypeOK, RestOK
<1>d. StartRestored(q) => run' \in [Runs -> RunState]
  <2>1. [st |-> "restored", b |-> req[q].b, root |-> req[q].b, dec |-> frame[req[q].b]] \in RunState
    BY <1>0 DEF RunState, RunStates
  <2> QED BY <1>0, <2>1 DEF StartRestored
<1>1. CASE LoadCheckpoint(q)
  BY <1>a, <1>b, <1>1 DEF LoadCheckpoint, RequestStates
<1>2. CASE ColdReconcile(q)
  BY <1>a, <1>2 DEF ColdReconcile, RequestStates
<1>3. CASE ColdClaim(q)
  BY <1>a, <1>b, <1>3 DEF ColdClaim, RequestStates
<1>4. ASSUME NEW ok \in BOOLEAN, ColdAudit(q, ok) PROVE RestOK'
  BY <1>a, <1>b, <1>4 DEF ColdAudit, RequestStates, Cards
<1>5. CASE AcquireRestore(q)
  BY <1>0, <1>a, <1>b, <1>5 DEF AcquireRestore, RequestStates
<1>6. CASE Admit(q)
  BY <1>a, <1>b, <1>6 DEF Admit, Unrestored, RequestStates
<1>7. CASE RestoreBackedUp(q)
  BY <1>a, <1>7 DEF RestoreBackedUp, RequestStates
<1>8. CASE RestoreBackupFails(q)
  BY <1>b, <1>8 DEF RestoreBackupFails, Unrestored
<1>9. CASE BeginRestoration(q)
  <2>1. reg' \in [Boundaries -> Cards]
    BY <1>9 DEF BeginRestoration, Relist, Cards
  <2>2. run' \in [Runs -> RunState]
    BY <1>d, <1>9 DEF BeginRestoration
  <2>3. req' \in [Requests -> RequestState]
    BY <1>a, <1>b, <1>9 DEF BeginRestoration, RequestStates
  <2> QED BY <1>9, <2>1, <2>2, <2>3 DEF BeginRestoration, Unrestored
<1>10. CASE AcquireTurn(q)
  BY <1>a, <1>d, <1>10 DEF AcquireTurn, RequestStates
<1>11. ASSUME NEW ok \in BOOLEAN, ResumeBoundary(q, ok) PROVE RestOK'
  <2>1. run' \in [Runs -> RunState]
    BY <1>0, <1>11, AdvanceFacts DEF ResumeBoundary
  <2> QED BY <1>11, <2>1 DEF ResumeBoundary
<1>12. CASE ResumeRefused(q)
  BY <1>b, <1>c, <1>12 DEF ResumeRefused, Relist, Unrestored, Cards
<1>13. CASE TerminateRestore(q)
  BY <1>b, <1>c, <1>13 DEF TerminateRestore, Unrestored
<1> QED BY <1>1, <1>2, <1>3, <1>4, <1>5, <1>6, <1>7, <1>8, <1>9, <1>10, <1>11, <1>12, <1>13
        DEF ColdAnswer

\* Every step preserves the types.
LEMMA StepTypes ==
  ASSUME TypeOK, AllSound, [Next]_vars PROVE TypeOK'
<1>0. rec' \in [Boundaries -> Record]
  BY RecordTypes
<1>1. ASSUME NEW q \in Requests, Submit(q) PROVE RestOK'
  <2>1. PICK b \in Boundaries, v \in Answers : SubmitA2A(q, b, v) \/ SubmitWeb(q, b, v)
    BY <1>1 DEF Submit
  <2>2. v \in Values /\ owner[b].id \in Nat
    BY ConstantsAssumption DEF TypeOK, Owner
  <2>3. \A x \in RequestStates :
          [st |-> x, b |-> b, v |-> v, id |-> owner[b].id, phase |-> "ABSENT"] \in RequestState
    BY <2>2 DEF RequestState
  <2>4. req' \in [Requests -> RequestState]
    BY ZenonT(60), <2>1, <2>3 DEF SubmitA2A, SubmitWeb, TypeOK, RequestStates
  <2> QED BY <2>1, <2>4 DEF SubmitA2A, SubmitWeb, TypeOK, RestOK, Cards
<1>2. ASSUME NEW stop \in BOOLEAN, InterruptSession(stop) PROVE RestOK'
  <2>1. /\ run' \in [Runs -> RunState] /\ req' \in [Requests -> RequestState]
        /\ restoring' \subseteq Boundaries
    BY <1>2, FreshFacts DEF InterruptSession, EndRuns, Unrestored, TypeOK
  <2>2. owner' \in [Boundaries -> Owner]
    BY <1>2, OwnerFacts DEF InterruptSession, TypeOK
  <2>3. reg' \in [Boundaries -> Cards] /\ fut' \in [Boundaries -> Outcomes]
    BY <1>2 DEF InterruptSession, TypeOK, Cards, Outcomes
  <2> QED BY <1>2, <2>1, <2>2, <2>3 DEF InterruptSession, TypeOK, RestOK
<1>3. ASSUME Crash PROVE RestOK'
  BY <1>3, FreshFacts DEF Crash, Relist, TypeOK, RestOK, Cards, Outcomes
<1>4. ASSUME UNCHANGED vars PROVE RestOK'
  BY <1>4 DEF vars, TypeOK, RestOK
<1>5. RestOK'
  BY <1>0, <1>1, <1>2, <1>3, <1>4, RunTypes, BoundaryTypes, LiveTypes, ColdTypes DEF Next
<1> QED BY <1>0, <1>5 DEF TypeOK, RestOK

\* The invariant both theorems rest on: types, and well-formed checkpoints.
Typed == TypeOK /\ AllSound

LEMMA TypedInvariant == Spec => []Typed
<1>1. Init => Typed
  <2> SUFFICES ASSUME Init PROVE TypeOK /\ AllSound
    BY DEF Typed
  <2>1. Absent \in Record
    BY DEF Absent, Record
  <2>2. TypeOK
    <3>1. \A s \in RunState : [s EXCEPT !.st = "open"] \in RunState
      BY DEF RunState, RunStates
    <3>2. run \in [Runs -> RunState]
      <4>1. [NoRun EXCEPT !.st = "open"] \in RunState
        BY <3>1, FreshFacts
      <4> QED BY <4>1, FreshFacts DEF Init
    <3>3. reactivations \in 0..MaxReactivations
      BY ConstantsAssumption DEF Init
    <3>4. /\ rec \in [Boundaries -> Record] /\ frame \in [Boundaries -> Decisions]
          /\ owner \in [Boundaries -> Owner] /\ req \in [Requests -> RequestState]
      BY <2>1, FreshFacts DEF Init
    <3>5. fut \in [Boundaries -> Outcomes] /\ reg \in [Boundaries -> Cards]
      BY DEF Init, Outcomes, Cards
    <3>6. clock \in [Boundaries -> 0..2]
      BY DEF Init
    <3> QED BY <3>2, <3>3, <3>4, <3>5, <3>6 DEF Init, TypeOK
  <2>3. AllSound
    BY <2>1 DEF Init, AllSound, Sound, Absent, Decided
  <2> QED BY <2>2, <2>3
<1>2. Typed /\ [Next]_vars => Typed'
  BY StepTypes, StepLedger DEF Typed
<1> QED BY <1>1, <1>2, PTL DEF Spec

\* Type correctness of the whole protocol: every answer, timer, cancellation,
\* crash and recovery leaves checkpoints, owners, cards, runs and requests in
\* the states the code gives them.
THEOREM Types == Spec => []TypeOK
  BY TypedInvariant, PTL DEF Typed

\* The ledger: no handler of the live path, the cold path, the timer, a
\* cancellation, an interrupt or a restart, in any order and from any number of
\* workers, rewrites or withdraws a decision or lowers a generation.
THEOREM Ledger == Spec => CheckpointLedger
<1>1. Typed /\ [Next]_vars => [\A b \in Boundaries : LedgerStep(rec[b], rec'[b])]_vars
  BY StepLedger DEF Typed, AllAdvance, Advances
<1> QED BY <1>1, TypedInvariant, PTL DEF Spec, CheckpointLedger

-----------------------------------------------------------------------------
(* One continuation.  OneContinuation is not inductive: an A2A restoration *)
(* starts its run some steps after it was admitted, and nothing looks at   *)
(* the other runs again.  Exclusive adds what the admission stands for in  *)
(* between.                                                                *)

\* The steps of a request that may still start a run on A2A, and the steps the
\* requests of another worker reach there.
Admitted == {"rbackup", "begin"}
ForeignSteps == {"idle", "load", "reconcile", "rclaim", "raudit"}

\* At most one run is active; on A2A a request that may still start one holds
\* the admission, and while it is held no run is active.
Exclusive ==
  /\ \A r1, r2 \in Runs : run[r1].st # "none" /\ run[r2].st # "none" => r1 = r2
  /\ A2A => /\ \A q \in Requests : req[q].st \in Admitted => admission = q
            /\ admission # None => \A r \in Runs : run[r].st = "none"
            /\ \A q \in Foreign : req[q].st \in ForeignSteps

\* A step that starts no run and touches no admission.
Quiet ==
  /\ \A r \in Runs : run'[r].st # "none" => run[r].st # "none"
  /\ admission' = admission
  /\ A2A => \A q \in Requests :
       \/ req'[q].st = req[q].st
       \/ req'[q].st \in ForeignSteps
       \/ req'[q].st \notin Admitted /\ q \notin Foreign

\* Quiet steps keep the invariant.
LEMMA QuietKeeps ==
  ASSUME TypeOK, Exclusive, Quiet PROVE Exclusive'
<1>1. Foreign \subseteq Requests
  BY ConstantsAssumption
<1> QED BY <1>1 DEF Quiet, Exclusive, A2A, Admitted, ForeignSteps

\* What moving or ending a request or a run changes.
LEMMA Moves ==
  ASSUME TypeOK
  PROVE /\ \A q \in Requests : \A x : Goto(q, x) =>
             \A p \in Requests : req'[p].st = IF p = q THEN x ELSE req[p].st
        /\ \A q \in Requests : Finish(q) =>
             \A p \in Requests : req'[p].st = IF p = q THEN "idle" ELSE req[p].st
        /\ \A r \in Runs : EndHost(r) =>
             \A p \in Requests : req'[p].st = req[p].st \/ req'[p].st = "idle"
        /\ \A r \in Runs : EndRun(r) =>
             \A p \in Runs : run'[p].st = IF p = r THEN "none" ELSE run[p].st
        /\ \A r \in Runs : \A d : Advance(r, d) =>
             \A p \in Runs : p # r => run'[p] = run[p]
        /\ \A rs : EndRuns(rs) =>
             /\ \A p \in Runs : run'[p].st # "none" => run'[p] = run[p]
             /\ \A p \in Requests : req'[p].st = req[p].st \/ req'[p].st = "idle"
<1>0. run \in [Runs -> RunState] /\ req \in [Requests -> RequestState]
  BY DEF TypeOK
<1>1. NoRun.st = "none" /\ NoRequest.st = "idle"
  BY DEF NoRun, NoRequest
<1>2. ASSUME NEW q \in Requests, NEW x, Goto(q, x)
      PROVE \A p \in Requests : req'[p].st = IF p = q THEN x ELSE req[p].st
  BY <1>0, <1>2 DEF Goto, RequestState
<1>3. ASSUME NEW q \in Requests, Finish(q)
      PROVE \A p \in Requests : req'[p].st = IF p = q THEN "idle" ELSE req[p].st
  BY <1>0, <1>1, <1>3 DEF Finish
<1>4. ASSUME NEW r \in Runs, EndHost(r)
      PROVE \A p \in Requests : req'[p].st = req[p].st \/ req'[p].st = "idle"
  BY <1>0, <1>1, <1>4 DEF EndHost
<1>5. ASSUME NEW r \in Runs, EndRun(r)
      PROVE \A p \in Runs : run'[p].st = IF p = r THEN "none" ELSE run[p].st
  BY <1>0, <1>1, <1>5 DEF EndRun
<1>6. ASSUME NEW r \in Runs, NEW d, Advance(r, d) PROVE \A p \in Runs : p # r => run'[p] = run[p]
  BY <1>0, <1>6 DEF Advance
<1>7. ASSUME NEW rs, EndRuns(rs)
      PROVE /\ \A p \in Runs : run'[p].st # "none" => run'[p] = run[p]
            /\ \A p \in Requests : req'[p].st = req[p].st \/ req'[p].st = "idle"
  BY <1>0, <1>1, <1>7 DEF EndRuns
<1> QED BY <1>2, <1>3, <1>4, <1>5, <1>6, <1>7

\* Every step of a run is quiet.
LEMMA RunQuiet ==
  ASSUME TypeOK, NEW r \in Runs, RunStep(r) PROVE Quiet
<1>0. run \in [Runs -> RunState]
  BY DEF TypeOK
<1>1. CASE OpenBoundary(r) \/ ActivateBoundary(r) \/ Execute(r) \/ Persist(r)
  BY SMTT(60), <1>0, <1>1 DEF OpenBoundary, ActivateBoundary, Execute, Persist, Quiet
<1>2. CASE OpenBackupFails(r) \/ Unwind(r) \/ Conclude(r) \/ RunFails(r)
  BY <1>2, Moves DEF OpenBackupFails, Unwind, Conclude, RunFails, Quiet, ForeignSteps
<1>3. ASSUME NEW ok \in BOOLEAN, TakeOutcome(r, ok) PROVE Quiet
  <2>1. run[r].st # "none" /\ req' = req /\ admission' = admission
    BY <1>3 DEF TakeOutcome
  <2>2. \A p \in Runs : p # r => run'[p] = run[p]
    BY <1>3, Moves DEF TakeOutcome
  <2> QED BY <2>1, <2>2 DEF Quiet
<1> QED BY <1>1, <1>2, <1>3 DEF RunStep

\* The steps of the timer, of re-issued cards and of a canceled task.
LEMMA BoundaryExclusive ==
  ASSUME TypeOK, Exclusive, NEW b \in Boundaries, BoundaryStep(b) PROVE Exclusive'
<1>1. CASE RebuildCard(b)
  <2>1. \A r \in Runs : run[r].st = "none"
    BY <1>1 DEF RebuildCard, Idle, ActiveRuns
  <2>2. \A r \in Runs : run'[r].st # "none" => r = Live
    BY <1>1, <2>1 DEF RebuildCard, TypeOK
  <2> QED BY <1>1, <2>1, <2>2 DEF RebuildCard, Exclusive, A2A
<1>2. CASE Tick(b) \/ TimerFires(b) \/ TimerLost(b) \/ TimerRearmed(b)
  BY <1>2, QuietKeeps DEF Tick, TimerFires, TimerLost, TimerRearmed, Quiet
<1>3. CASE CancelTask(b)
  <2>1. EndRuns({r \in Runs : run[r].st \in {"opening", "wait"} /\ run[r].b = b})
    BY <1>3 DEF CancelTask
  <2>2. Quiet
    BY <1>3, <2>1, Moves DEF CancelTask, Quiet, ForeignSteps
  <2> QED BY <2>2, QuietKeeps
<1> QED BY <1>1, <1>2, <1>3 DEF BoundaryStep

\* Every step of an answer on the live path is quiet.
LEMMA LiveQuiet ==
  ASSUME TypeOK, Exclusive, NEW q \in Requests, LiveAnswer(q) PROVE Quiet
<1>0. run \in [Runs -> RunState] /\ req \in [Requests -> RequestState]
  BY DEF TypeOK
<1>a. A2A => \A p \in Foreign : req[p].st \in ForeignSteps
  BY DEF Exclusive
<1>1. ASSUME NEW allow \in BOOLEAN, ClaimReconcile(q, allow) PROVE Quiet
  <2>1. req[q].st = "lock" /\ run' = run /\ admission' = admission
    BY <1>1 DEF ClaimReconcile
  <2>2. Goto(q, "load") \/ Finish(q) \/ Goto(q, "claim")
    BY <1>1 DEF ClaimReconcile, Refuse
  <2> QED BY <1>a, <2>1, <2>2, Moves DEF Quiet, ForeignSteps, Admitted
<1>2. CASE ClaimDecision(q)
  BY <1>2, <1>a, Moves, SMTT(60) DEF ClaimDecision, Quiet, ForeignSteps, Admitted
<1>3. ASSUME NEW ok \in BOOLEAN, ClaimAudit(q, ok) PROVE Quiet
  BY <1>3, <1>0, <1>a DEF ClaimAudit, RequestState, Quiet, ForeignSteps, Admitted
<1>4. CASE ClaimBackedUp(q)
  BY <1>4, <1>0, <1>a, SMTT(60) DEF ClaimBackedUp, RequestState, Quiet, ForeignSteps, Admitted
<1>5. CASE DeliveryFails(q) \/ Deliver(q) \/ OwnerUnwound(q)
  BY <1>5, <1>a, Moves DEF DeliveryFails, Deliver, OwnerUnwound, Quiet, ForeignSteps, Admitted
<1>6. CASE ClaimContinuation(q)
  <2>1. \A r \in Runs : run'[r].st # "none" => run[r].st # "none"
    BY <1>6, <1>0 DEF ClaimContinuation, RunState
  <2> QED BY <1>6, <2>1, Moves DEF ClaimContinuation, Quiet, ForeignSteps
<1> QED BY <1>1, <1>2, <1>3, <1>4, <1>5, <1>6 DEF LiveAnswer

\* The steps of an answer on the cold path.
LEMMA ColdExclusive ==
  ASSUME TypeOK, Exclusive, NEW q \in Requests, ColdAnswer(q) PROVE Exclusive'
<1>0. q \in Runs /\ q # None /\ run \in [Runs -> RunState] /\ Foreign \subseteq Requests
  BY ConstantsAssumption DEF TypeOK, Runs
<1>a. A2A => \A p \in Foreign : req[p].st \in ForeignSteps
  BY DEF Exclusive
<1>b. StartRestored(q) => \A r \in Runs : r # q => run'[r] = run[r]
  BY <1>0 DEF StartRestored
<1>1. CASE LoadCheckpoint(q) \/ ColdReconcile(q) \/ ColdClaim(q)
  <2>1. run' = run /\ admission' = admission
    BY <1>1 DEF LoadCheckpoint, ColdReconcile, ColdClaim
  <2>2. \/ Finish(q) \/ Goto(q, "reconcile") \/ Goto(q, "rclaim") \/ Goto(q, "raudit")
    BY <1>1 DEF LoadCheckpoint, ColdReconcile, ColdClaim
  <2>3. Quiet
    BY <2>1, <2>2, Moves DEF Quiet, ForeignSteps
  <2> QED BY <2>3, QuietKeeps
<1>2. ASSUME NEW ok \in BOOLEAN, ColdAudit(q, ok) PROVE Exclusive'
  <2>1. Quiet
    BY <1>2, <1>a, Moves DEF ColdAudit, Quiet, ForeignSteps, Admitted
  <2> QED BY <2>1, QuietKeeps
<1>3. CASE AcquireRestore(q)
  <2>1. Quiet
    BY <1>3, <1>a, Moves DEF AcquireRestore, Quiet, ForeignSteps, Admitted
  <2> QED BY <2>1, QuietKeeps
<1>4. CASE Admit(q)
  <2>1. CASE Idle /\ admission = None
    <3>1. \A r \in Runs : run'[r].st = "none"
      BY <1>4, <2>1 DEF Admit, Idle, ActiveRuns
    <3>2. admission' = q /\ Goto(q, "rbackup") /\ req[q].st = "admit"
      BY <1>4, <2>1 DEF Admit
    <3>3. \A p \in Requests : req'[p].st = IF p = q THEN "rbackup" ELSE req[p].st
      BY <3>2, Moves
    <3>4. A2A => \A p \in Requests : p # q => req[p].st \notin Admitted
      BY <2>1, <1>0, ConstantsAssumption DEF Exclusive
    <3> QED BY <1>0, <1>a, <3>1, <3>2, <3>3, <3>4 DEF Exclusive, A2A, ForeignSteps
  <2>2. CASE ~(Idle /\ admission = None)
    <3>1. run' = run /\ admission' = admission /\ Finish(q)
      BY <1>4, <2>2 DEF Admit
    <3>2. Quiet
      BY <3>1, Moves DEF Quiet, ForeignSteps
    <3> QED BY <3>2, QuietKeeps
  <2> QED BY <2>1, <2>2
<1>5. CASE RestoreBackedUp(q)
  <2>1. run' = run /\ admission' = admission /\ Goto(q, "begin") /\ req[q].st = "rbackup"
    BY <1>5 DEF RestoreBackedUp
  <2>2. \A p \in Requests : req'[p].st = IF p = q THEN "begin" ELSE req[p].st
    BY <2>1, Moves
  <2> QED BY <1>0, <1>a, <2>1, <2>2 DEF Exclusive, A2A, Admitted, ForeignSteps
<1>6. CASE RestoreBackupFails(q)
  <2>1. run' = run /\ admission' = None /\ Finish(q) /\ req[q].st = "rbackup"
    BY <1>6 DEF RestoreBackupFails
  <2>2. \A p \in Requests : req'[p].st = IF p = q THEN "idle" ELSE req[p].st
    BY <2>1, Moves
  <2> QED BY <1>0, <2>1, <2>2 DEF Exclusive, A2A, Admitted, ForeignSteps
<1>7. CASE BeginRestoration(q)
  <2>1. req[q].st = "begin" /\ (Finish(q) \/ Goto(q, IF A2A THEN "run" ELSE "turn"))
    BY <1>7 DEF BeginRestoration
  <2>2. /\ \A p \in Requests : p # q => req'[p].st = req[p].st
        /\ A2A => req'[q].st \in {"idle", "run"}
    BY <2>1, Moves
  <2>3. CASE A2A
    <3>1. admission' = None /\ (StartRestored(q) \/ run' = run)
      BY <1>7, <2>3 DEF BeginRestoration
    <3>2. /\ \A r \in Runs : run[r].st = "none"
          /\ \A p \in Requests : p # q => req[p].st \notin Admitted
          /\ q \notin Foreign
      BY <1>0, <1>a, <2>1, <2>3 DEF Exclusive, Admitted, ForeignSteps
    <3>3. \A r \in Runs : run'[r].st # "none" => r = q
      BY <1>b, <3>1, <3>2
    <3>4. \A p \in Requests : req'[p].st \notin Admitted
      BY <2>2, <2>3, <3>2 DEF Admitted
    <3>5. \A p \in Foreign : req'[p].st \in ForeignSteps
      BY <1>0, <1>a, <2>2, <2>3, <3>2
    <3> QED BY <3>1, <3>3, <3>4, <3>5 DEF Exclusive, A2A
  <2>4. CASE ~A2A
    <3>1. run' = run
      BY <1>7, <2>4 DEF BeginRestoration
    <3> QED BY <2>4, <3>1 DEF Exclusive, A2A
  <2> QED BY <2>3, <2>4
<1>8. CASE AcquireTurn(q)
  <2>1. ~A2A /\ \A r \in Runs : run[r].st = "none"
    BY <1>8 DEF AcquireTurn, Web, A2A, Idle, ActiveRuns
  <2>2. \A r \in Runs : run'[r].st # "none" => r = q
    BY <1>8, <1>b, <2>1 DEF AcquireTurn
  <2> QED BY <2>1, <2>2 DEF Exclusive, A2A
<1>9. ASSUME NEW ok \in BOOLEAN, ResumeBoundary(q, ok) PROVE Exclusive'
  <2>1. run[q].st # "none" /\ req' = req /\ admission' = admission
    BY <1>9 DEF ResumeBoundary
  <2>2. \A r \in Runs : r # q => run'[r] = run[r]
    BY <1>0, <1>9, Moves DEF ResumeBoundary
  <2>3. Quiet
    BY <2>1, <2>2 DEF Quiet
  <2> QED BY <2>3, QuietKeeps
<1>10. CASE ResumeRefused(q) \/ TerminateRestore(q)
  <2>1. Quiet
    BY <1>0, <1>10, Moves DEF ResumeRefused, TerminateRestore, Quiet, ForeignSteps
  <2> QED BY <2>1, QuietKeeps
<1> QED BY <1>1, <1>2, <1>3, <1>4, <1>5, <1>6, <1>7, <1>8, <1>9, <1>10 DEF ColdAnswer

\* Every step keeps the invariant.
LEMMA StepExclusive ==
  ASSUME TypeOK, Exclusive, [Next]_vars PROVE Exclusive'
<1>1. ASSUME NEW q \in Requests, Submit(q) PROVE Exclusive'
  <2>1. PICK b \in Boundaries, v \in Answers : SubmitA2A(q, b, v) \/ SubmitWeb(q, b, v)
    BY <1>1 DEF Submit
  <2>2. Quiet
    BY <2>1 DEF SubmitA2A, SubmitWeb, A2A, Web, TypeOK, Quiet, ForeignSteps, Admitted
  <2> QED BY <2>2, QuietKeeps
<1>2. ASSUME NEW stop \in BOOLEAN, InterruptSession(stop) PROVE Exclusive'
  <2>1. PICK rs : EndRuns(rs)
    BY <1>2 DEF InterruptSession
  <2>2. Quiet
    BY <1>2, <2>1, Moves DEF InterruptSession, Quiet, ForeignSteps
  <2> QED BY <2>2, QuietKeeps
<1>3. ASSUME Crash PROVE Exclusive'
  <2>1. \A r \in Runs : run'[r].st = "none"
    BY <1>3 DEF Crash, NoRun
  <2>2. \A q \in Requests : IF q \in Foreign THEN req'[q] = req[q] ELSE req'[q] = NoRequest
    BY <1>3 DEF Crash
  <2>3. admission' = None
    BY <1>3 DEF Crash
  <2>4. \A q \in Requests : q \notin Foreign => req'[q].st = "idle"
    BY <2>2 DEF NoRequest
  <2> QED BY <2>1, <2>2, <2>3, <2>4, ConstantsAssumption
          DEF Exclusive, A2A, Admitted, ForeignSteps
<1>4. ASSUME UNCHANGED vars PROVE Exclusive'
  BY <1>4 DEF vars, Exclusive, A2A
<1> QED BY <1>1, <1>2, <1>3, <1>4, RunQuiet, QuietKeeps, BoundaryExclusive, LiveQuiet, ColdExclusive
        DEF Next

\* Two continuations of the batch never coexist, however the resident run,
\* duplicate answers, timers, recoveries, crashes and other workers interleave.
THEOREM Continuation == Spec => []OneContinuation
<1>1. Init => Exclusive
  BY ConstantsAssumption
     DEF Init, Exclusive, NoRun, NoRequest, Runs, Admitted, ForeignSteps
<1>2. Typed /\ Exclusive /\ [Next]_vars => Exclusive'
  BY StepExclusive DEF Typed
<1>3. Exclusive => OneContinuation
  <2> SUFFICES ASSUME Exclusive PROVE Cardinality(ActiveRuns) <= 1
    BY DEF OneContinuation
  <2>1. CASE ActiveRuns = {}
    BY <2>1, FS_EmptySet
  <2>2. ASSUME NEW r \in ActiveRuns PROVE Cardinality(ActiveRuns) <= 1
    <3>1. ActiveRuns = {r}
      BY <2>2 DEF ActiveRuns, Exclusive
    <3>2. Cardinality({r}) = 1
      BY FS_Singleton, Zenon
    <3> QED BY <3>1, <3>2
  <2> QED BY <2>1, <2>2
<1> QED BY <1>1, <1>2, <1>3, TypedInvariant, PTL DEF Spec

-----------------------------------------------------------------------------
(* Decisions.                                                               *)

Resident == {"WAITING", "TIMEOUT_GRACE"}

\* What a checkpoint vouches for.
Audited(b) == Decided(rec[b]) /\ rec[b].audit \in {"recorded", "failed"}
Backed(b) == A2A => rec[b].backup = "committed"
Permitted(b) ==
  Decided(rec[b]) /\ rec[b].value = "allow_once" /\ rec[b].audit = "recorded" /\ Backed(b)

\* Too late for a cancellation: the decision was delivered or is restored.
Past(b) == Decided(rec[b]) /\ (rec[b].status = "applied" \/ rec[b].phase \notin Resident)

Canceled(b) == rec[b].phase = "CANCELED"

\* A future that was answered with a decision: the checkpoint says the same.
Told(b) ==
  /\ Audited(b) /\ rec[b].status = "applied"
  /\ fut[b] = "allow" => rec[b].value = "allow_once" /\ Backed(b)
  /\ fut[b] = "deny" => rec[b].value = "deny"

Futures ==
  \A b \in Boundaries :
    /\ fut[b] = "allow" => Told(b)
    /\ fut[b] = "pending" => rec[b].status # "applied"
    /\ fut[b] = "suspend" => rec[b].phase \notin Resident

\* The run x is at its card.
AtCard(x) == x.st \in {"opening", "wait", "woken"}
Executing(x) == x.st \in {"exec", "persist", "finish"}

\* An active run x: the tools it allows are permitted, their cards before the
\* current one are receipts, and all cards before it are decided.
Standing(x) ==
  /\ \A i \in Boundaries : x.dec[i] = "allow" =>
       /\ Permitted(i) /\ i <= x.b
       /\ ~Executing(x) => i < x.b
       /\ i < x.b /\ (x.st # "open" \/ i + 1 < x.b) => rec[i].phase = "RESOLVED"
  /\ \A i \in Boundaries : i < x.b => Decided(rec[i])
  /\ \A i \in Boundaries : x.st = "open" /\ i + 1 = x.b => Past(i) /\ ~Canceled(i)
  /\ AtCard(x) =>
       /\ fut[x.b] = "deny" => Told(x.b)
       /\ fut[x.b] \in {"pending", "allow", "deny"} => ~Canceled(x.b)
  /\ x.st = "woken" => fut[x.b] # "pending"
  /\ x.st = "restored" => Audited(x.b) /\ Backed(x.b) /\ Past(x.b) /\ ~Canceled(x.b)
  /\ Executing(x) => x.b = NB /\ Past(x.b) /\ ~Canceled(x.b)
  /\ x.st \in {"open", "opening", "wait", "woken", "exec", "persist"} => ~results

Runners == \A r \in Runs : run[r].st # "none" => Standing(run[r])

\* What a request has established about the card it answers.
Known(x) ==
  /\ x.st \in {"backup", "release", "restore", "admit", "rbackup", "begin", "turn"} => Audited(x.b)
  /\ x.st \in {"release", "begin"} => Backed(x.b)
  /\ x.st = "turn" => rec[x.b].phase \notin Resident
  /\ x.st = "unwind" => A2A
  /\ x.st = "delivered" => Decided(rec[x.b]) /\ fut[x.b] # "pending"

Answering == \A q \in Requests : Known(req[q])

\* On the Web an active card that is not listed has an audited decision, and a
\* canceled one has none.
Listing ==
  Web => \A b \in Boundaries :
           /\ reg[b] = "none" /\ rec[b].phase \in ActivePhases => Audited(b)
           /\ Canceled(b) => ~Decided(rec[b])

\* The history of the batch: what ran was permitted, frames hold receipts, and
\* cards are opened one after the other.
History ==
  /\ \A b \in ran : Permitted(b)
  /\ \A b, i \in Boundaries : frame[b][i] = "allow" =>
       i < b /\ Permitted(i) /\ rec[i].phase = "RESOLVED"
  /\ \A b, i \in Boundaries : rec[b].phase # "ABSENT" /\ i < b => Decided(rec[i])
  /\ results => \A b \in Boundaries : Decided(rec[b])

DInv == Futures /\ Runners /\ Answering /\ Listing /\ History

-----------------------------------------------------------------------------
(* What a step does to a checkpoint's phase and to a future.               *)

\* A transaction that neither opens, applies nor cancels: it leaves receipts
\* and cancellations alone and never makes a wait resident again.
Flow(r, s) ==
  /\ r.phase \in {"RESOLVED", "CANCELED"} => s.phase = r.phase
  /\ s.phase \in Resident => r.phase \in Resident
  /\ s.phase = "CANCELED" => r.phase = "CANCELED"
  /\ s.phase = "ABSENT" <=> r.phase = "ABSENT"
  /\ s.status = "applied" => r.status = "applied"
  /\ r.phase = "CANCELED" /\ ~Decided(r) => ~Decided(s)

\* A sequence of such transactions is one.
LEMMA FlowTrans ==
  ASSUME NEW r, NEW s, NEW t, Flow(r, s), Flow(s, t) PROVE Flow(r, t)
  BY DEF Flow

LEMMA FlowSame ==
  ASSUME NEW r PROVE Flow(r, r)
  BY DEF Flow

\* Entering a phase other than the resident ones and CANCELED.
LEMMA FlowEnter ==
  ASSUME NEW r, Sound(r), NEW p \in {"SUSPENDING", "SUSPENDED", "RESTORING", "RESOLVED"},
         r.phase \in ActivePhases
  PROVE Flow(r, Enter(r, p))
<1>1. r \in Record /\ p \in Phases
  BY DEF Sound, Phases, ActivePhases
<1>2. Enter(r, p).phase = p /\ Enter(r, p).status = r.status
  BY <1>1, EnterFacts
<1> QED BY <1>2 DEF Flow, Resident, ActivePhases

\* reconcile_deadline keeps the decision, and without a live owner it ends residency.
LEMMA ReconcileFacts ==
  ASSUME NEW r, Sound(r), NEW x, NEW y, NEW live \in BOOLEAN, NEW allow
  PROVE LET s == Reconcile(r, x, y, live, allow) IN
        Flow(r, s) /\ s.status = r.status /\ (~live => s.phase \notin Resident)
<1> DEFINE Good(s) == Flow(r, s) /\ s.status = r.status /\ (~live => s.phase \notin Resident)
<1>0. r \in Record
  BY DEF Sound
<1>1. ASSUME NEW p \in {"TIMEOUT_GRACE", "SUSPENDING", "SUSPENDED"}
      PROVE /\ Enter(r, p).phase = p /\ Enter(r, p).status = r.status
            /\ [Enter(r, p) EXCEPT !.graceDeadline = TRUE].phase = p
            /\ [Enter(r, p) EXCEPT !.graceDeadline = TRUE].status = r.status
  <2>1. Enter(r, p) \in Record /\ Enter(r, p).phase = p /\ Enter(r, p).status = r.status
    BY <1>0, EnterFacts DEF Phases, ActivePhases
  <2>2. ASSUME NEW e \in Record
        PROVE /\ [e EXCEPT !.graceDeadline = TRUE].phase = e.phase
              /\ [e EXCEPT !.graceDeadline = TRUE].status = e.status
    BY DEF Record
  <2> QED BY <2>1, <2>2
<1>2. ASSUME NEW s, NEW p \in {"TIMEOUT_GRACE", "SUSPENDING", "SUSPENDED"},
             s.phase = p, s.status = r.status, r.phase \in {"WAITING", "TIMEOUT_GRACE", "SUSPENDING"},
             p = "TIMEOUT_GRACE" => r.phase = "WAITING", ~live => p = "SUSPENDED"
      PROVE Good(s)
  BY <1>2 DEF Flow, Resident
<1> DEFINE s == Reconcile(r, x, y, live, allow)
<1>4. CASE ~live /\ r.phase \in {"WAITING", "TIMEOUT_GRACE", "SUSPENDING"}
  <2>1. s = Enter(r, "SUSPENDED")
    BY <1>4 DEF Reconcile
  <2> QED BY <1>1, <1>2, <1>4, <2>1
<1>5. CASE live /\ r.phase = "WAITING" /\ HasResident /\ x
  <2>1. \/ s = [Enter(r, "SUSPENDING") EXCEPT !.graceDeadline = TRUE]
        \/ s = [Enter(r, "TIMEOUT_GRACE") EXCEPT !.graceDeadline = TRUE]
    BY <1>5 DEF Reconcile, Expired
  <2> HIDE DEF s
  <2>2. Good(s)
    BY <1>1, <1>2, <1>5, <2>1
  <2> QED BY <2>2 DEF s
<1>6. CASE live /\ r.phase = "TIMEOUT_GRACE" /\ allow /\ r.status = "none" /\ r.graceDeadline /\ y
  <2>1. s = Enter(r, "SUSPENDING")
    BY <1>6 DEF Reconcile, Expired
  <2> HIDE DEF s
  <2>2. Good(s)
    BY <1>1, <1>2, <1>6, <2>1
  <2> QED BY <2>2 DEF s
<1>7. CASE /\ ~(~live /\ r.phase \in {"WAITING", "TIMEOUT_GRACE", "SUSPENDING"})
           /\ ~(live /\ r.phase = "WAITING" /\ HasResident /\ x)
           /\ ~(live /\ r.phase = "TIMEOUT_GRACE" /\ allow /\ r.status = "none"
                /\ r.graceDeadline /\ y)
  <2>1. s = r
    BY <1>7 DEF Reconcile
  <2> HIDE DEF s
  <2>2. Good(s)
    BY <1>7, <2>1, FlowSame DEF Resident
  <2> QED BY <2>2 DEF s
<1> QED BY <1>4, <1>5, <1>6, <1>7

\* The transactions on the decision of a checkpoint.
LEMMA DecisionFacts ==
  ASSUME NEW r, Sound(r)
  PROVE /\ \A v \in Values : CanClaim(r, v) => Flow(r, Claim(r, v)) /\ Decided(Claim(r, v))
        /\ Decided(r) => \A ok \in BOOLEAN :
             /\ Flow(r, Audit(r, ok)) /\ Audit(r, ok).audit \in {"recorded", "failed"}
             /\ Audit(r, ok).phase = r.phase
        /\ Flow(r, MarkBackedUp(r)) /\ MarkBackedUp(r).backup = "committed"
        /\ MarkApplied(r).status = "applied" /\ MarkApplied(r).phase = r.phase
<1>0. r \in Record
  BY DEF Sound
<1>1. Bump(r) \in Record /\ Bump(r).phase = r.phase /\ Bump(r).status = r.status
  BY <1>0, BumpFacts
<1>2. ASSUME NEW s \in Record
      PROVE /\ \A x \in {"recorded", "failed"} : [s EXCEPT !.audit = x].audit = x
            /\ \A x : [s EXCEPT !.audit = x].phase = s.phase /\ [s EXCEPT !.audit = x].status = s.status
            /\ \A x : [s EXCEPT !.backup = x].phase = s.phase /\ [s EXCEPT !.backup = x].status = s.status
            /\ \A x : [s EXCEPT !.backup = x].backup = x
            /\ \A x : [s EXCEPT !.status = x].phase = s.phase /\ [s EXCEPT !.status = x].status = x
            /\ \A x : [s EXCEPT !.value = x].phase = s.phase /\ [s EXCEPT !.value = x].status = s.status
  BY DEF Record
<1>3. ASSUME NEW v \in Values, CanClaim(r, v) PROVE Flow(r, Claim(r, v)) /\ Decided(Claim(r, v))
  <2>1. CASE Decided(r)
    BY <2>1, FlowSame DEF Claim
  <2>2. CASE ~Decided(r)
    <3> DEFINE s == Bump(r)
               s1 == [s EXCEPT !.status = "claimed"]
               s2 == [s1 EXCEPT !.value = v]
               s3 == [s2 EXCEPT !.audit = "pending"]
               s4 == [s3 EXCEPT !.backup = "pending"]
    <3>1. Claim(r, v) = s4
      BY <2>2 DEF Claim
    <3>2. s \in Record /\ s.phase = r.phase
      BY <1>1
    <3> HIDE DEF s
    <3>3. s1 \in Record /\ s1.phase = r.phase /\ s1.status = "claimed"
      <4>1. s1 \in Record
        BY <3>2, Fields
      <4> QED BY <1>2, <3>2, <4>1
    <3> HIDE DEF s1
    <3>4. s2 \in Record /\ s2.phase = r.phase /\ s2.status = "claimed"
      <4>1. s2 \in Record
        BY <3>3, Fields
      <4> QED BY <1>2, <3>3, <4>1
    <3> HIDE DEF s2
    <3>5. s3 \in Record /\ s3.phase = r.phase /\ s3.status = "claimed"
      <4>1. s3 \in Record
        BY <3>4, Fields
      <4> QED BY <1>2, <3>4, <4>1
    <3> HIDE DEF s3
    <3>6. s4.phase = r.phase /\ s4.status = "claimed"
      BY <1>2, <3>5
    <3> HIDE DEF s4
    <3> QED BY <1>3, <3>1, <3>6 DEF Flow, Decided, CanClaim
  <2> QED BY <2>1, <2>2
<1>4. ASSUME Decided(r), NEW ok \in BOOLEAN
      PROVE /\ Flow(r, Audit(r, ok)) /\ Audit(r, ok).audit \in {"recorded", "failed"}
            /\ Audit(r, ok).phase = r.phase
  <2>1. CASE r.audit # "pending"
    <3>1. Audit(r, ok) = r
      BY <2>1 DEF Audit
    <3>2. r.audit \in {"recorded", "failed"}
      BY <1>0, <1>4, <2>1 DEF Sound, Record
    <3> QED BY <3>1, <3>2, FlowSame
  <2>2. CASE r.audit = "pending"
    <3> DEFINE s == Bump(r)
               w == IF ok THEN s.value ELSE "deny"
               a == IF ok THEN "recorded" ELSE "failed"
               s1 == [s EXCEPT !.value = w]
               s2 == [s1 EXCEPT !.audit = a]
    <3>1. Audit(r, ok) = s2
      BY <2>2 DEF Audit
    <3>2. a \in {"recorded", "failed"}
      OBVIOUS
    <3>3. s \in Record /\ s.phase = r.phase /\ s.status = r.status /\ s.value = r.value
      BY <1>0, BumpFacts
    <3>4. w \in Values
      BY <1>4, <3>3 DEF Sound, Values
    <3> HIDE DEF s, w, a
    <3>5. s1 \in Record /\ s1.phase = r.phase /\ s1.status = r.status
      <4>1. s1 \in Record
        BY <3>3, <3>4, Fields
      <4> QED BY <1>2, <3>3, <4>1
    <3> HIDE DEF s1
    <3>6. s2.phase = r.phase /\ s2.status = r.status /\ s2.audit = a
      BY <1>2, <3>2, <3>5
    <3> HIDE DEF s2
    <3> QED BY <3>1, <3>2, <3>6 DEF Flow, Decided
  <2> QED BY <2>1, <2>2
<1>5. Flow(r, MarkBackedUp(r)) /\ MarkBackedUp(r).backup = "committed"
  <2> DEFINE s == Bump(r)
             t == [s EXCEPT !.backup = "committed"]
  <2>1. MarkBackedUp(r) = IF r.backup = "committed" THEN r ELSE t
    BY DEF MarkBackedUp
  <2>2. s \in Record /\ s.phase = r.phase /\ s.status = r.status
    BY <1>1
  <2> HIDE DEF s
  <2>3. t.phase = r.phase /\ t.status = r.status /\ t.backup = "committed"
    BY <1>2, <2>2
  <2> HIDE DEF t
  <2> QED BY <2>1, <2>3, FlowSame DEF Flow, Decided
<1>6. MarkApplied(r).status = "applied" /\ MarkApplied(r).phase = r.phase
  <2> DEFINE s == Bump(r)
             t == [s EXCEPT !.status = "applied"]
  <2>1. MarkApplied(r) = IF r.status = "applied" THEN r ELSE t
    BY DEF MarkApplied
  <2>2. s \in Record /\ s.phase = r.phase
    BY <1>1
  <2> HIDE DEF s
  <2>3. t.phase = r.phase /\ t.status = "applied"
    BY <1>2, <2>2
  <2> HIDE DEF t
  <2> QED BY <2>1, <2>3
<1> QED BY <1>3, <1>4, <1>5, <1>6

\* A cancellation, and the transactions that end a wait.
LEMMA EndFacts ==
  ASSUME NEW r, Sound(r)
  PROVE /\ Cancel(r).phase = "CANCELED" /\ Cancel(r).status = r.status
        /\ CanSucceed(r) => Flow(r, Succeeded(r)) /\ Succeeded(r).phase = "RESOLVED"
        /\ CanBeginRestore(r) => Flow(r, BeginRestore(r)) /\ BeginRestore(r).phase = "RESTORING"
        /\ r.phase \in ActivePhases \cup {"RESOLVED"} =>
             Flow(r, Resolve(r)) /\ Resolve(r).phase = "RESOLVED"
        /\ \A o : Flow(r, AfterUnregister(r, o)) /\ AfterUnregister(r, o).status = r.status
<1>0. r \in Record
  BY DEF Sound
<1>1. \A p \in Phases : Enter(r, p).phase = p /\ Enter(r, p).status = r.status
  BY <1>0, EnterFacts
<1>2. Cancel(r).phase = "CANCELED" /\ Cancel(r).status = r.status
  BY <1>1 DEF Cancel, Phases
<1>3. CanSucceed(r) => Flow(r, Succeeded(r)) /\ Succeeded(r).phase = "RESOLVED"
  BY <1>1, FlowEnter DEF CanSucceed, Succeeded, Phases
<1>4. CanBeginRestore(r) => Flow(r, BeginRestore(r)) /\ BeginRestore(r).phase = "RESTORING"
  BY <1>1, FlowEnter DEF CanBeginRestore, BeginRestore, Phases, ActivePhases
<1>5. r.phase \in ActivePhases \cup {"RESOLVED"} =>
        Flow(r, Resolve(r)) /\ Resolve(r).phase = "RESOLVED"
  BY <1>1, FlowEnter, FlowSame DEF Resolve, Phases, ActivePhases
<1>6. ASSUME NEW o PROVE Flow(r, AfterUnregister(r, o)) /\ AfterUnregister(r, o).status = r.status
  BY <1>1, FlowEnter, FlowSame DEF AfterUnregister, MarkSuspended, Phases, ActivePhases
<1> QED BY <1>2, <1>3, <1>4, <1>5, <1>6

-----------------------------------------------------------------------------
(* What every step does to checkpoints and futures, and why that keeps what *)
(* they vouch for.                                                          *)

\* No run is left, and no run that was active stayed as it is.
NoRuns == \A r \in Runs : run'[r].st = "none"
NoBystander == \A r \in Runs : run[r].st # "none" => run'[r] # run[r]
NobodyAt(b) == \A r \in Runs : AtCard(run'[r]) => run'[r].b # b

\* A card is canceled too early to matter, or with every run.
CancelStep(b) ==
  /\ Canceled(b)' => \/ Canceled(b) \/ NoRuns
                     \/ ~Past(b) /\ (fut'[b] = "pending" => NobodyAt(b))
  /\ Canceled(b) /\ ~Decided(rec[b]) => ~Decided(rec'[b])
  /\ Web /\ Canceled(b)' => Canceled(b) \/ ~Decided(rec'[b])

\* What may happen to a future.
FutureStep(b) ==
  \/ fut'[b] = fut[b]
  \/ fut'[b] \in {"none", "canceled"}
  \/ fut'[b] = "suspend" /\ rec'[b].phase \notin Resident
  \/ fut'[b] \in {"allow", "deny"} /\ fut[b] = "pending" /\ Told(b)' /\ (Canceled(b)' => Canceled(b))
  \/ fut'[b] = "pending" /\ rec[b].status = "none" /\ rec'[b].status = "none" /\ NoBystander
  \/ fut'[b] = "deny" /\ NobodyAt(b)

OrderlyAt(b) ==
  /\ Advances(rec[b], rec'[b])
  /\ rec[b].phase \in {"RESOLVED", "CANCELED"} => rec'[b].phase = rec[b].phase
  /\ rec'[b].phase \in Resident =>
       rec[b].phase \in Resident \/ (rec[b].status = "none" /\ fut'[b] = "pending")
  /\ rec[b].phase = "ABSENT" /\ rec'[b].phase # "ABSENT" =>
       \A i \in Boundaries : i < b => Decided(rec[i])
  /\ rec'[b].status = "applied" => rec[b].status = "applied" \/ fut'[b] # "pending"
  /\ CancelStep(b)
  /\ FutureStep(b)
  /\ Web /\ reg'[b] = "none" =>
       \/ reg[b] = "none" /\ rec[b].phase # "ABSENT"
       \/ rec'[b].phase \notin ActivePhases
       \/ Audited(b)'

Orderly == \A b \in Boundaries : OrderlyAt(b)

\* Steps that answer no future and cancel nothing are orderly.
LEMMA CalmIsOrderly ==
  ASSUME NEW b \in Boundaries, AllAdvance, Flow(rec[b], rec'[b]), fut'[b] = fut[b],
         Web /\ reg'[b] = "none" =>
           reg[b] = "none" \/ rec'[b].phase \notin ActivePhases \/ Audited(b)'
  PROVE OrderlyAt(b)
<1>1. rec'[b].phase \notin ActivePhases \/ rec[b].phase # "ABSENT"
  BY DEF Flow, ActivePhases
<1> QED BY <1>1 DEF OrderlyAt, AllAdvance, Flow, CancelStep, FutureStep, Canceled

\* What a checkpoint vouches for, it vouches for ever after.
LEMMA Kept ==
  ASSUME Typed, NEW b \in Boundaries, OrderlyAt(b)
  PROVE /\ Decided(rec[b]) => Decided(rec'[b])
        /\ Audited(b) => Audited(b)' /\ rec'[b].value = rec[b].value
        /\ Backed(b) => Backed(b)'
        /\ Permitted(b) => Permitted(b)'
        /\ Past(b) => Past(b)'
        /\ rec[b].phase = "RESOLVED" => rec'[b].phase = "RESOLVED"
        /\ rec[b].status = "applied" => rec'[b].status = "applied"
<1>1. LedgerStep(rec[b], rec'[b])
  BY DEF OrderlyAt, Advances
<1>2. Decided(rec[b]) => Decided(rec'[b])
  BY <1>1 DEF LedgerStep
<1>3. Audited(b) => Audited(b)' /\ rec'[b].value = rec[b].value /\ rec'[b].audit = rec[b].audit
  BY <1>1 DEF LedgerStep, Audited
<1>4. Backed(b) => Backed(b)'
  BY <1>1 DEF LedgerStep, Backed, A2A
<1>5. Permitted(b) => Permitted(b)'
  BY <1>2, <1>3, <1>4 DEF Permitted, Audited
<1>6. rec[b].status = "applied" => rec'[b].status = "applied"
  BY <1>1 DEF LedgerStep
<1>7. Past(b) => Past(b)'
  BY <1>2, <1>6 DEF Past, OrderlyAt, Decided
<1> QED BY <1>2, <1>3, <1>4, <1>5, <1>6, <1>7 DEF OrderlyAt

\* The outcomes of futures stay true.
LEMMA KeepsFutures ==
  ASSUME Typed, Futures, Orderly PROVE Futures'
<1> SUFFICES ASSUME NEW b \in Boundaries
             PROVE /\ fut'[b] = "allow" => Told(b)'
                   /\ fut'[b] = "pending" => rec'[b].status # "applied"
                   /\ fut'[b] = "suspend" => rec'[b].phase \notin Resident
  BY DEF Futures
<1>0. OrderlyAt(b)
  BY DEF Orderly
<1>1. /\ fut[b] = "allow" => Told(b)
      /\ fut[b] = "pending" => rec[b].status # "applied"
      /\ fut[b] = "suspend" => rec[b].phase \notin Resident
  BY DEF Futures
<1>2. fut'[b] = fut[b] => (Told(b) => Told(b)')
  BY <1>0, Kept DEF Told
<1> QED BY <1>0, <1>1, <1>2 DEF OrderlyAt, FutureStep

\* A run that a step leaves alone keeps its standing.
LEMMA KeepsRun ==
  ASSUME Typed, Futures, Orderly, NEW r \in Runs, run[r].st # "none", run'[r] = run[r],
         Standing(run[r]), results' = results
  PROVE Standing(run[r])'
<1> DEFINE x == run[r]
<1>0. x.b \in Boundaries /\ run'[r].st # "none" /\ ~NoRuns /\ ~NoBystander
  BY TypeFacts DEF Typed, NoRuns, NoBystander
<1>1. \A i \in Boundaries : OrderlyAt(i)
  BY DEF Orderly
<1>2. \A i \in Boundaries :
        /\ Decided(rec[i]) => Decided(rec'[i])
        /\ Audited(i) => Audited(i)' /\ rec'[i].value = rec[i].value
        /\ Backed(i) => Backed(i)'
        /\ Permitted(i) => Permitted(i)'
        /\ Past(i) => Past(i)'
        /\ rec[i].phase = "RESOLVED" => rec'[i].phase = "RESOLVED"
        /\ rec[i].status = "applied" => rec'[i].status = "applied"
  BY <1>1, Kept
<1>3. \A i \in Boundaries : Past(i) /\ ~Canceled(i) => ~Canceled(i)'
  BY <1>0, <1>1 DEF OrderlyAt, CancelStep
<1>4. PICK y : y = x
  OBVIOUS
<1>5. run'[r] = y
  BY <1>4
<1> HIDE DEF x
<1>6. AtCard(y) => /\ fut'[y.b] = "deny" => Told(y.b)'
                   /\ fut'[y.b] \in {"pending", "allow", "deny"} => ~Canceled(y.b)'
  <2> SUFFICES ASSUME AtCard(y)
               PROVE /\ fut'[y.b] = "deny" => Told(y.b)'
                     /\ fut'[y.b] \in {"pending", "allow", "deny"} => ~Canceled(y.b)'
    OBVIOUS
  <2>0. y.b \in Boundaries
    BY <1>0, <1>4
  <2>1. PICK c \in Boundaries : c = y.b
    BY <2>0
  <2>2. /\ fut[c] = "deny" => Told(c)
        /\ fut[c] \in {"pending", "allow", "deny"} => ~Canceled(c)
    BY <1>4, <2>1 DEF Standing, x
  <2>3. OrderlyAt(c) /\ ~NobodyAt(c)
    BY <1>1, <1>5, <2>1 DEF NobodyAt
  <2>4. fut[c] = "allow" => Told(c)
    BY DEF Futures
  <2>5. fut[c] \in {"allow", "deny"} => Past(c)
    BY <2>2, <2>4 DEF Told, Audited, Past
  <2>6. fut'[c] = fut[c] => (Told(c) => Told(c)')
    BY <1>2 DEF Told
  <2>7. fut'[c] = "deny" => Told(c)'
    BY <1>0, <2>2, <2>3, <2>6 DEF OrderlyAt, FutureStep
  <2>8. fut'[c] \in {"pending", "allow", "deny"} => ~Canceled(c)'
    BY <1>0, <1>3, <2>2, <2>3, <2>5 DEF OrderlyAt, FutureStep, CancelStep
  <2> QED BY <2>1, <2>7, <2>8
<1>7. y.st = "woken" => fut'[y.b] # "pending"
  BY <1>0, <1>1, <1>4 DEF Standing, OrderlyAt, FutureStep, x
<1>8. Standing(y)
  BY <1>4 DEF x
<1>9. y.b \in Boundaries
  BY <1>0, <1>4
<1>10. Standing(y)'
  BY <1>2, <1>3, <1>6, <1>7, <1>8, <1>9 DEF Standing
<1> QED BY <1>5, <1>10 DEF x

\* A request that a step leaves alone still knows what it knew.
LEMMA KeepsRequest ==
  ASSUME Typed, Orderly, NEW q \in Requests, Known(req[q]), req'[q] = req[q]
  PROVE Known(req[q])'
<1>1. PICK y : y = req[q]
  OBVIOUS
<1>2. y.b \in Boundaries /\ Known(y) /\ req'[q] = y
  BY <1>1, TypeFacts DEF Typed
<1>3. PICK c \in Boundaries : c = y.b
  BY <1>2
<1>4. OrderlyAt(c)
  BY DEF Orderly
<1>5. /\ Decided(rec[c]) => Decided(rec'[c])
      /\ Audited(c) => Audited(c)'
      /\ Backed(c) => Backed(c)'
  BY <1>4, Kept
<1>6. rec[c].phase \notin Resident /\ Audited(c) => rec'[c].phase \notin Resident
  BY <1>4 DEF OrderlyAt, Audited, Decided
<1>7. Decided(rec[c]) /\ fut[c] # "pending" => fut'[c] # "pending"
  BY <1>4 DEF OrderlyAt, FutureStep, Decided
<1>8. Known(y)'
  BY <1>2, <1>3, <1>5, <1>6, <1>7 DEF Known, A2A
<1> QED BY <1>2, <1>8

\* The cards of the Web surface.
LEMMA KeepsListing ==
  ASSUME Typed, Listing, Orderly PROVE Listing'
<1> SUFFICES ASSUME Web, NEW b \in Boundaries
             PROVE /\ reg'[b] = "none" /\ rec'[b].phase \in ActivePhases => Audited(b)'
                   /\ Canceled(b)' => ~Decided(rec'[b])
  BY DEF Listing, Web
<1>0. OrderlyAt(b)
  BY DEF Orderly
<1>1. Audited(b) => Audited(b)'
  BY <1>0, Kept
<1>2. rec[b].phase \in ActivePhases \cup {"RESOLVED", "CANCELED", "ABSENT"}
  BY DEF Typed, TypeOK, Record, Phases
<1>3. rec'[b].phase \in ActivePhases => rec[b].phase \notin {"RESOLVED", "CANCELED"}
  BY <1>0 DEF OrderlyAt, ActivePhases
<1> QED BY <1>0, <1>1, <1>2, <1>3 DEF OrderlyAt, CancelStep, Listing, Canceled

\* The history of the batch, when nothing is added to it.
LEMMA KeepsHistory ==
  ASSUME Typed, History, Orderly, ran' = ran, frame' = frame, results' = results
  PROVE History'
<1>1. \A i \in Boundaries : OrderlyAt(i)
  BY DEF Orderly
<1>2. \A i \in Boundaries :
        /\ Decided(rec[i]) => Decided(rec'[i])
        /\ Permitted(i) => Permitted(i)'
        /\ rec[i].phase = "RESOLVED" => rec'[i].phase = "RESOLVED"
  BY <1>1, Kept
<1>3. ran \subseteq Boundaries
  BY DEF Typed, TypeOK
<1>4. \A b, i \in Boundaries : rec'[b].phase # "ABSENT" /\ i < b => Decided(rec'[i])
  BY <1>1, <1>2 DEF History, OrderlyAt
<1> QED BY <1>2, <1>3, <1>4 DEF History

-----------------------------------------------------------------------------
(* Every step is orderly.                                                  *)

\* The well-formed checkpoints and what reconciling or relisting does to them.
LEMMA Basics ==
  ASSUME Typed
  PROVE /\ \A b \in Boundaries : Sound(rec[b]) /\ Flow(rec[b], rec[b])
        /\ \A b \in Boundaries, live \in BOOLEAN : \A allow :
             /\ Flow(rec[b], Reconciled(b, live, allow))
             /\ Reconciled(b, live, allow).status = rec[b].status
             /\ ~live => Reconciled(b, live, allow).phase \notin Resident
        /\ \A b \in Boundaries : \A o : Flow(rec[b], AfterUnregister(rec[b], o))
<1>1. \A b \in Boundaries : Sound(rec[b]) /\ Flow(rec[b], rec[b])
  BY FlowSame DEF Typed, AllSound
<1>2. ASSUME NEW b \in Boundaries, NEW live \in BOOLEAN, NEW allow
      PROVE /\ Flow(rec[b], Reconciled(b, live, allow))
            /\ Reconciled(b, live, allow).status = rec[b].status
            /\ ~live => Reconciled(b, live, allow).phase \notin Resident
  BY <1>1, ReconcileFacts DEF Reconciled
<1>3. \A b \in Boundaries : \A o : Flow(rec[b], AfterUnregister(rec[b], o))
  BY <1>1, EndFacts
<1> QED BY <1>1, <1>2, <1>3

\* restore_permission_requests on top of such transactions; every card that was
\* listed, or is active now, is listed afterwards.
LEMMA RelistFlow ==
  ASSUME NEW R, NEW L, Relist(R, L), \A b \in Boundaries : Flow(rec[b], R[b]) /\ Sound(R[b])
  PROVE \A b \in Boundaries :
          /\ Flow(rec[b], rec'[b])
          /\ Web /\ reg'[b] = "none" => rec'[b].phase \notin ActivePhases
<1> SUFFICES ASSUME NEW b \in Boundaries
             PROVE /\ Flow(rec[b], rec'[b])
                   /\ Web /\ reg'[b] = "none" => rec'[b].phase \notin ActivePhases
  OBVIOUS
<1> DEFINE t == Reconcile(R[b], FALSE, FALSE, FALSE, TRUE)
<1>1. Flow(R[b], t)
  BY ReconcileFacts
<1>2. Flow(rec[b], t)
  BY <1>1, FlowTrans
<1> HIDE DEF t
<1>3. /\ rec'[b] = IF b \in Unlisted(R, L) THEN t ELSE R[b]
      /\ reg'[b] = IF b \in Unlisted(R, L) THEN "card" ELSE L[b]
  BY DEF Relist, t
<1> QED BY <1>2, <1>3 DEF Unlisted

\* A run's steps.  Cards are opened behind decided ones; only a card that was
\* never published is canceled, with the run that opened it.
LEMMA RunOrderly ==
  ASSUME Typed, DInv, Exclusive, AllAdvance, NEW r \in Runs, RunStep(r) PROVE Orderly
<1>0. /\ DOMAIN rec = Boundaries /\ DOMAIN fut = Boundaries /\ DOMAIN reg = Boundaries
      /\ run[r].b \in Boundaries
  BY TypeFacts DEF Typed, TypeOK
<1>a. /\ \A b \in Boundaries : Sound(rec[b]) /\ Flow(rec[b], rec[b])
      /\ \A b \in Boundaries, live \in BOOLEAN : \A allow :
           /\ Flow(rec[b], Reconciled(b, live, allow))
           /\ Reconciled(b, live, allow).status = rec[b].status
           /\ ~live => Reconciled(b, live, allow).phase \notin Resident
      /\ \A b \in Boundaries : \A o : Flow(rec[b], AfterUnregister(rec[b], o))
  BY Basics
<1>b. run[r].st # "none" => Standing(run[r]) /\ \A p \in Runs : p # r => run[p].st = "none"
  BY DEF DInv, Runners, Exclusive
<1>1. CASE OpenBoundary(r)
  <2> SUFFICES ASSUME NEW b \in Boundaries PROVE OrderlyAt(b)
    BY DEF Orderly
  <2>1. PICK c \in Boundaries : c = run[r].b
    BY <1>0
  <2>2. /\ run[r].st = "open" /\ rec[c].phase = "ABSENT" /\ rec'[c] = Checkpoint
        /\ fut' = [fut EXCEPT ![c] = "pending"]
        /\ reg'[b] = IF b = c THEN "card" ELSE IF b + 1 = c THEN "none" ELSE reg[b]
        /\ b # c => rec'[b] = IF b + 1 = c THEN Succeeded(rec[b]) ELSE rec[b]
    BY <1>1, <2>1 DEF OpenBoundary, CanCreate, Create
  <2>3. CASE b = c
    <3>1. rec[c].status = "none" /\ rec'[c].status = "none" /\ rec'[c].phase = "WAITING"
      BY <1>a, <2>2, CheckpointFacts DEF Sound
    <3>2. fut'[c] = "pending" /\ reg'[c] = "card"
      BY <1>0, <2>2, <2>3
    <3>3. NoBystander
      <4>1. run'[r].st # "open"
        BY <1>1 DEF OpenBoundary, Typed, TypeOK, RunState
      <4> QED BY <1>b, <2>2, <4>1 DEF NoBystander
    <3>4. \A i \in Boundaries : i < c => Decided(rec[i])
      BY <1>b, <2>1, <2>2 DEF Standing
    <3> QED BY <2>2, <2>3, <3>1, <3>2, <3>3, <3>4
            DEF OrderlyAt, CancelStep, FutureStep, AllAdvance, Canceled, Resident, Decided
  <2>4. CASE b # c /\ b + 1 = c
    <3>1. CanSucceed(rec[b])
      BY <1>1, <2>1, <2>4 DEF OpenBoundary, Boundaries
    <3>2. Flow(rec[b], rec'[b]) /\ rec'[b].phase = "RESOLVED"
      BY <1>a, <2>2, <2>4, <3>1, EndFacts
    <3> QED BY <1>0, <2>2, <2>4, <3>2, CalmIsOrderly DEF ActivePhases
  <2>5. CASE b # c /\ b + 1 # c
    BY <1>0, <1>a, <2>2, <2>5, CalmIsOrderly
  <2> QED BY <2>3, <2>4, <2>5
<1>2. CASE ActivateBoundary(r) \/ Execute(r) \/ Persist(r)
  BY <1>2, <1>a, CalmIsOrderly DEF ActivateBoundary, Execute, Persist, Orderly
<1>3. CASE OpenBackupFails(r)
  <2> SUFFICES ASSUME NEW b \in Boundaries PROVE OrderlyAt(b)
    BY DEF Orderly
  <2>1. PICK c \in Boundaries : c = run[r].b
    BY <1>0
  <2>2. /\ run[r].st = "opening" /\ EndRun(r) /\ reg' = reg
        /\ fut' = [fut EXCEPT ![c] = "deny"]
        /\ rec' = [rec EXCEPT ![c] = IF CanCancel(rec[c], FALSE) THEN Cancel(rec[c]) ELSE rec[c]]
    BY <1>3, <2>1 DEF OpenBackupFails
  <2>3. NoRuns
    BY <1>b, <2>2, Moves DEF NoRuns, Typed
  <2>4. CASE b # c
    BY <1>0, <1>a, <2>2, <2>4, CalmIsOrderly
  <2>5. CASE b = c
    <3>1. fut'[c] = "deny" /\ NobodyAt(c)
      BY <1>0, <2>2, <2>3 DEF NobodyAt, NoRuns, AtCard
    <3>2. \/ rec'[c] = rec[c]
          \/ /\ rec[c].phase \in ActivePhases \cup {"CANCELED"} /\ rec'[c].phase = "CANCELED"
             /\ rec'[c].status = rec[c].status
             /\ rec[c].phase = "CANCELED" \/ rec[c].status = "none"
      <4>1. rec'[c] = IF CanCancel(rec[c], FALSE) THEN Cancel(rec[c]) ELSE rec[c]
        BY <1>0, <2>2
      <4>2. Cancel(rec[c]).phase = "CANCELED" /\ Cancel(rec[c]).status = rec[c].status
        BY <1>a, EndFacts
      <4> QED BY <4>1, <4>2 DEF CanCancel
    <3> QED BY <2>2, <2>3, <2>5, <3>1, <3>2
            DEF OrderlyAt, CancelStep, FutureStep, AllAdvance, Canceled, Resident, Decided,
                ActivePhases
  <2> QED BY <2>4, <2>5
<1>4. ASSUME NEW ok \in BOOLEAN, TakeOutcome(r, ok) PROVE Orderly
  <2> SUFFICES ASSUME NEW b \in Boundaries PROVE OrderlyAt(b)
    BY DEF Orderly
  <2>a. /\ fut' = fut
        /\ IF A2A /\ r # Live THEN Complete(run[r].b) ELSE UNCHANGED <<rec, owner, reg>>
    BY <1>4 DEF TakeOutcome
  <2>1. \/ rec' = [rec EXCEPT ![run[r].b] = AfterUnregister(@, owner[run[r].b])]
        \/ rec' = rec
    BY <2>a DEF Complete
  <2>2. Flow(rec[b], rec'[b])
    BY <1>0, <1>a, <2>1
  <2>3. Web => reg' = reg
    BY <2>a DEF A2A, Web
  <2> QED BY <2>a, <2>2, <2>3, CalmIsOrderly
<1>5. CASE Unwind(r)
  <2> SUFFICES ASSUME NEW b \in Boundaries PROVE OrderlyAt(b)
    BY DEF Orderly
  <2>1. Flow(rec[b], rec'[b]) /\ fut' = fut
    BY <1>0, <1>5, <1>a DEF Unwind
  <2>2. Web => reg'[b] = reg[b]
    BY <1>0, <1>5 DEF Unwind, A2A, Web
  <2> QED BY <2>1, <2>2, CalmIsOrderly
<1>6. CASE Conclude(r)
  <2> SUFFICES ASSUME NEW b \in Boundaries PROVE OrderlyAt(b)
    BY DEF Orderly
  <2>0. run[r].st = "finish" /\ fut' = fut
    BY <1>6 DEF Conclude
  <2>1. PICK c \in Boundaries : c = run[r].b
    BY <1>0
  <2>2. Past(c) /\ ~Canceled(c)
    BY <1>b, <2>0, <2>1 DEF Standing, Executing
  <2>3. rec[c].phase \in ActivePhases \cup {"RESOLVED"}
    BY <1>a, <2>2 DEF Past, Canceled, Sound, Record, Phases, Decided
  <2>4. \/ rec'[b] = rec[b] /\ (Web => b # c)
        \/ rec'[b] = Resolve(rec[b]) /\ (rec[b].phase \in ActivePhases \/ b = c)
    BY <1>6, <2>1 DEF Conclude, A2A, Web
  <2>5. Flow(rec[b], rec'[b]) /\ (Web /\ b = c => rec'[b].phase = "RESOLVED")
    BY <1>a, <2>3, <2>4, EndFacts
  <2>6. b # c => reg'[b] = reg[b]
    BY <1>0, <1>6, <2>1 DEF Conclude
  <2> QED BY <2>0, <2>5, <2>6, CalmIsOrderly DEF ActivePhases
<1>7. CASE RunFails(r)
  <2> SUFFICES ASSUME NEW b \in Boundaries PROVE OrderlyAt(b)
    BY DEF Orderly
  <2> DEFINE root == run[r].root
             orphaned == IF Web /\ root = 0 THEN {i \in Boundaries : reg[i] # "none"} ELSE {}
             R == [i \in Boundaries |-> IF i = root \/ i \in orphaned
                                        THEN Reconciled(i, FALSE, TRUE) ELSE rec[i]]
  <2>1. fut' = fut /\ ((rec' = R /\ reg' = reg) \/ Relist(R, reg))
    BY <1>7 DEF RunFails
  <2>2. \A i \in Boundaries : R[i] = Reconciled(i, FALSE, TRUE) \/ R[i] = rec[i]
    OBVIOUS
  <2> HIDE DEF R
  <2>3. \A i \in Boundaries : Flow(rec[i], R[i])
    BY <1>a, <2>2
  <2>4. \A i \in Boundaries : Sound(R[i])
    BY <1>a, <2>2, AdvancesReconciled DEF Advances, Typed
  <2>5. CASE rec' = R /\ reg' = reg
    BY <2>1, <2>3, <2>5, CalmIsOrderly
  <2>6. CASE Relist(R, reg)
    <3>1. Flow(rec[b], rec'[b]) /\ (Web /\ reg'[b] = "none" => rec'[b].phase \notin ActivePhases)
      BY <2>3, <2>4, <2>6, RelistFlow
    <3> QED BY <2>1, <3>1, CalmIsOrderly
  <2> QED BY <2>1, <2>5, <2>6
<1> QED BY <1>1, <1>2, <1>3, <1>4, <1>5, <1>6, <1>7 DEF RunStep

\* The steps of the timer, of re-issued cards and of a canceled task: a card
\* with a delivered decision is never canceled.
LEMMA BoundaryOrderly ==
  ASSUME Typed, DInv, Exclusive, AllAdvance, NEW c \in Boundaries, BoundaryStep(c) PROVE Orderly
<1>0. DOMAIN rec = Boundaries /\ DOMAIN fut = Boundaries /\ DOMAIN reg = Boundaries
  BY TypeFacts DEF Typed, TypeOK
<1>a. /\ \A b \in Boundaries : Sound(rec[b]) /\ Flow(rec[b], rec[b])
      /\ \A b \in Boundaries, live \in BOOLEAN : \A allow :
           /\ Flow(rec[b], Reconciled(b, live, allow))
           /\ Reconciled(b, live, allow).status = rec[b].status
           /\ ~live => Reconciled(b, live, allow).phase \notin Resident
      /\ \A b \in Boundaries : \A o : Flow(rec[b], AfterUnregister(rec[b], o))
  BY Basics
<1>1. CASE RebuildCard(c)
  <2> SUFFICES ASSUME NEW b \in Boundaries PROVE OrderlyAt(b)
    BY DEF Orderly
  <2>1. /\ CanReactivate(rec[c]) /\ A2A /\ Idle
        /\ rec' = [rec EXCEPT ![c] = Reactivate(rec[c])]
        /\ fut' = [fut EXCEPT ![c] = "pending"]
        /\ reg' = [reg EXCEPT ![c] = "card"]
    BY <1>1 DEF RebuildCard
  <2>2. CASE b # c
    BY <1>0, <1>a, <2>1, <2>2, CalmIsOrderly
  <2>3. CASE b = c
    <3>1. NoBystander
      BY <2>1 DEF Idle, ActiveRuns, NoBystander
    <3>2. rec[c].phase = "SUSPENDED" /\ rec[c].status = "none"
      BY <2>1 DEF CanReactivate
    <3>3. \A k \in Record, n \in Nat :
            [k EXCEPT !.generation = n].phase = k.phase /\ [k EXCEPT !.generation = n].status = k.status
      BY DEF Record
    <3>4. rec[c].generation + 1 \in Nat
      BY <1>a DEF Sound, Record
    <3>5. Reactivate(rec[c]).phase = "WAITING" /\ Reactivate(rec[c]).status = "none"
      BY <3>3, <3>4, CheckpointFacts DEF Reactivate
    <3>6. rec'[c].phase = "WAITING" /\ rec'[c].status = "none" /\ fut'[c] = "pending"
      BY <1>0, <2>1, <3>5
    <3> QED BY <2>1, <2>3, <3>1, <3>2, <3>6
            DEF OrderlyAt, CancelStep, FutureStep, AllAdvance, Canceled, Resident, Decided, A2A, Web
  <2> QED BY <2>2, <2>3
<1>2. CASE Tick(c) \/ TimerLost(c) \/ TimerRearmed(c)
  BY <1>2, <1>a, CalmIsOrderly DEF Tick, TimerLost, TimerRearmed, Orderly
<1>3. CASE TimerFires(c)
  <2> SUFFICES ASSUME NEW b \in Boundaries PROVE OrderlyAt(b)
    BY DEF Orderly
  <2> DEFINE fenced == rec[c].generation # owner[c].generation
             new == IF fenced THEN rec[c] ELSE Reconciled(c, TRUE, TRUE)
             suspended == ~fenced /\ new.phase = "SUSPENDING"
  <2>1. /\ rec' = [rec EXCEPT ![c] = new] /\ reg' = reg
        /\ fut' = [fut EXCEPT ![c] = IF suspended THEN "suspend" ELSE fut[c]]
    BY <1>3 DEF TimerFires
  <2>2. Flow(rec[c], new) /\ new.status = rec[c].status
    BY <1>a
  <2>3. suspended => new.phase = "SUSPENDING"
    OBVIOUS
  <2> HIDE DEF new, suspended, fenced
  <2>4. Flow(rec[b], rec'[b])
    BY <1>0, <1>a, <2>1, <2>2
  <2>5. CASE b # c \/ ~suspended
    <3>1. fut'[b] = fut[b] /\ reg'[b] = reg[b]
      BY <1>0, <2>1, <2>5
    <3> QED BY <2>4, <3>1, CalmIsOrderly
  <2>6. CASE b = c /\ suspended
    <3>1. fut'[b] = "suspend" /\ rec'[b].phase = "SUSPENDING" /\ reg'[b] = reg[b]
      BY <1>0, <2>1, <2>3, <2>6
    <3> QED BY <2>4, <3>1 DEF OrderlyAt, CancelStep, FutureStep, AllAdvance, Flow, Canceled, Resident
  <2> QED BY <2>5, <2>6
<1>4. CASE CancelTask(c)
  <2> SUFFICES ASSUME NEW b \in Boundaries PROVE OrderlyAt(b)
    BY DEF Orderly
  <2> DEFINE o == owner[c]
             unreleased == fut[c] = "pending"
             owned == o.live /\ o.generation = rec[c].generation /\ CanCancel(rec[c], unreleased)
             claimed == o.live /\ ~owned /\ Decided(rec[c])
             canceled == IF owned THEN Cancel(rec[c])
                         ELSE IF ~claimed /\ CanCancel(rec[c], FALSE) THEN Cancel(rec[c]) ELSE rec[c]
             new == AfterUnregister(canceled, o)
             ended == {r \in Runs : run[r].st \in {"opening", "wait"} /\ run[r].b = c}
  <2>1. /\ A2A /\ rec' = [rec EXCEPT ![c] = new]
        /\ EndRuns(ended)
    BY <1>4 DEF CancelTask
  <2>2. fut' = [fut EXCEPT ![c] = IF fut[c] # "pending" \/ claimed THEN fut[c]
                                  ELSE IF ~o.live THEN fut[c]
                                  ELSE IF owned \/ rec[c].phase = "CANCELED" THEN "canceled"
                                  ELSE "deny"]
    BY <1>4 DEF CancelTask
  <2>3. \/ canceled = rec[c]
        \/ canceled = Cancel(rec[c]) /\ (CanCancel(rec[c], unreleased) \/ CanCancel(rec[c], FALSE))
    BY DEF CanCancel
  <2>4. Cancel(rec[c]).phase = "CANCELED" /\ Cancel(rec[c]).status = rec[c].status
    BY <1>a, EndFacts
  <2>5. fut'[c] = fut[c] \/ (fut[c] = "pending" /\ fut'[c] \in {"canceled", "deny"})
    BY <1>0, <2>2
  <2>6. b # c => fut'[b] = fut[b] /\ rec'[b] = rec[b]
    BY <1>0, <2>1, <2>2
  <2>7. new = rec[c] \/ Flow(rec[c], new) \/
        (canceled = Cancel(rec[c]) /\ new = canceled)
    <3> HIDE DEF canceled, owned, claimed
    <3>1. canceled.phase = "CANCELED" => new = canceled
      BY DEF AfterUnregister
    <3> QED BY <1>a, <2>3, <2>4, <3>1
  <2>8. rec'[c] = new
    BY <1>0, <2>1
  <2> HIDE DEF canceled, new, owned, claimed
  <2>9. \/ Flow(rec[c], rec'[c])
        \/ /\ rec'[c].phase = "CANCELED" /\ rec'[c].status = rec[c].status
           /\ \/ rec[c].phase = "CANCELED"
              \/ /\ rec[c].phase \in ActivePhases
                 /\ rec[c].status = "none" \/ (rec[c].status = "claimed" /\ rec[c].phase \in Resident)
    <3>1. canceled = Cancel(rec[c]) =>
             \/ rec[c].phase = "CANCELED"
             \/ /\ rec[c].phase \in ActivePhases
                /\ rec[c].status = "none" \/ (rec[c].status = "claimed" /\ rec[c].phase \in Resident)
             \/ canceled = rec[c]
      BY <2>3 DEF CanCancel, Resident
    <3>2. Flow(rec[c], rec[c])
      BY <1>a
    <3> QED BY <2>4, <2>7, <2>8, <3>1, <3>2
  <2>10. fut[c] = "pending" => NobodyAt(c)
    <3>0. Runners
      BY DEF DInv
    <3>1. ASSUME NEW r \in Runs, AtCard(run'[r]), fut[c] = "pending" PROVE run'[r].b # c
      <4>1. run'[r].st # "none"
        BY <3>1 DEF AtCard
      <4>2. r \notin ended /\ run'[r] = run[r]
        <5> HIDE DEF ended
        <5> QED BY <2>1, <4>1 DEF EndRuns, NoRun
      <4>3. run[r].st = "woken" => fut[run[r].b] # "pending"
        BY <3>0, <4>1, <4>2 DEF Runners, Standing
      <4> QED BY <3>1, <4>2, <4>3 DEF AtCard
    <3> QED BY <3>1 DEF NobodyAt
  <2>11. CASE b # c
    BY <1>a, <2>1, <2>6, <2>11, CalmIsOrderly DEF A2A, Web
  <2>12. CASE b = c
    <3>1. FutureStep(c)
      BY <2>5, <2>10 DEF FutureStep
    <3>2. CancelStep(c) /\ (rec'[c].status = "applied" => rec[c].status = "applied")
      BY <2>1, <2>9, <2>10, <2>5 DEF CancelStep, Flow, Past, Canceled, Decided, A2A, Web
    <3>3. /\ rec[c].phase \in {"RESOLVED", "CANCELED"} => rec'[c].phase = rec[c].phase
          /\ rec'[c].phase \in Resident => rec[c].phase \in Resident
          /\ rec[c].phase = "ABSENT" => rec'[c].phase = "ABSENT"
      BY <2>9 DEF Flow, Resident, ActivePhases
    <3> QED BY <2>1, <2>12, <3>1, <3>2, <3>3 DEF OrderlyAt, AllAdvance, A2A, Web
  <2> QED BY <2>11, <2>12
<1> QED BY <1>1, <1>2, <1>3, <1>4 DEF BoundaryStep

\* The steps of an answer on the live path: a future is answered with the
\* decision of an audited and, on A2A, backed up checkpoint.
LEMMA LiveOrderly ==
  ASSUME Typed, DInv, AllAdvance, NEW q \in Requests, LiveAnswer(q) PROVE Orderly
<1>0. /\ DOMAIN rec = Boundaries /\ DOMAIN fut = Boundaries /\ DOMAIN reg = Boundaries
      /\ req[q].b \in Boundaries /\ req[q].v \in Values
  BY TypeFacts DEF Typed, TypeOK
<1>a. /\ \A b \in Boundaries : Sound(rec[b]) /\ Flow(rec[b], rec[b])
      /\ \A b \in Boundaries, live \in BOOLEAN : \A allow :
           /\ Flow(rec[b], Reconciled(b, live, allow))
           /\ Reconciled(b, live, allow).status = rec[b].status
           /\ ~live => Reconciled(b, live, allow).phase \notin Resident
      /\ \A b \in Boundaries : \A o : Flow(rec[b], AfterUnregister(rec[b], o))
  BY Basics
<1>b. PICK c \in Boundaries : c = req[q].b
  BY <1>0
<1>c. ASSUME NEW new, rec' = [rec EXCEPT ![c] = new] \/ rec' = rec, Flow(rec[c], new), fut' = fut,
             Web => reg' = reg
      PROVE Orderly
  <2> SUFFICES ASSUME NEW b \in Boundaries PROVE OrderlyAt(b)
    BY DEF Orderly
  <2>1. Flow(rec[b], rec'[b])
    BY <1>0, <1>a, <1>c
  <2> QED BY <1>c, <2>1, CalmIsOrderly
<1>1. ASSUME NEW allow \in BOOLEAN, ClaimReconcile(q, allow) PROVE Orderly
  <2>1. \/ rec' = [rec EXCEPT ![c] = Reconciled(c, TRUE, allow)] /\ reg' = reg /\ fut' = fut
        \/ /\ rec' = [rec EXCEPT ![c] = AfterUnregister(rec[c], owner[c])]
           /\ fut' = fut /\ A2A
        \/ rec' = rec /\ reg' = reg /\ fut' = fut
    BY <1>1, <1>b DEF ClaimReconcile, Refuse, Complete
  <2> QED BY <1>a, <1>c, <2>1 DEF A2A, Web
<1>2. CASE ClaimDecision(q)
  <2>1. \/ /\ rec' = [rec EXCEPT ![c] = Claim(rec[c], req[q].v)] /\ reg' = reg
           /\ CanClaim(rec[c], req[q].v)
        \/ rec' = [rec EXCEPT ![c] = AfterUnregister(rec[c], owner[c])] /\ A2A
        \/ rec' = rec /\ reg' = reg
    BY <1>2, <1>b DEF ClaimDecision
  <2>2. fut' = fut
    BY <1>2 DEF ClaimDecision
  <2>3. CanClaim(rec[c], req[q].v) => Flow(rec[c], Claim(rec[c], req[q].v))
    BY <1>0, <1>a, DecisionFacts
  <2> QED BY <1>a, <1>c, <2>1, <2>2, <2>3 DEF A2A, Web
<1>3. ASSUME NEW ok \in BOOLEAN, ClaimAudit(q, ok) PROVE Orderly
  <2>1. rec' = [rec EXCEPT ![c] = Audit(rec[c], ok)] /\ reg' = reg /\ fut' = fut /\ Decided(rec[c])
    BY <1>3, <1>b DEF ClaimAudit, CanAudit
  <2>2. Flow(rec[c], Audit(rec[c], ok))
    BY <1>a, <2>1, DecisionFacts
  <2> QED BY <1>c, <2>1, <2>2
<1>4. CASE ClaimBackedUp(q)
  <2>1. rec' = [rec EXCEPT ![c] = MarkBackedUp(rec[c])] /\ reg' = reg /\ fut' = fut
    BY <1>4, <1>b DEF ClaimBackedUp
  <2>2. Flow(rec[c], MarkBackedUp(rec[c]))
    BY <1>a, DecisionFacts
  <2> QED BY <1>c, <2>1, <2>2
<1>5. CASE DeliveryFails(q) \/ ClaimContinuation(q) \/ OwnerUnwound(q)
  <2>1. rec' = rec /\ fut' = fut
    BY <1>5 DEF DeliveryFails, ClaimContinuation, OwnerUnwound
  <2>2. ASSUME NEW b \in Boundaries, Web, reg'[b] = "none" PROVE reg[b] = "none"
    <3>1. req[q].st = "unwind" => A2A
      BY DEF DInv, Answering, Known
    <3> QED BY <1>0, <1>5, <2>2, <3>1
            DEF DeliveryFails, ClaimContinuation, OwnerUnwound, A2A, Web
  <2> QED BY <1>a, <2>1, <2>2, CalmIsOrderly DEF Orderly
<1>6. CASE Deliver(q)
  <2> SUFFICES ASSUME NEW b \in Boundaries PROVE OrderlyAt(b)
    BY DEF Orderly
  <2> DEFINE suspended == req[q].phase \in {"SUSPENDING", "SUSPENDED", "RESTORING"}
             new == IF suspended THEN rec[c] ELSE MarkApplied(rec[c])
             told == IF rec[c].value = "allow_once" THEN "allow" ELSE "deny"
  <2>1. /\ req[q].st = "release" /\ rec' = [rec EXCEPT ![c] = new] /\ Decided(rec[c])
        /\ fut' = [fut EXCEPT ![c] = IF suspended \/ fut[c] # "pending" THEN fut[c] ELSE told]
        /\ reg' = [reg EXCEPT ![c] = IF suspended /\ Web THEN "none" ELSE reg[c]]
    BY <1>6, <1>b DEF Deliver, CanMarkApplied, DeliveredValue
  <2>2. Audited(c) /\ Backed(c)
    BY <1>b, <2>1 DEF DInv, Answering, Known
  <2>3. b # c => rec'[b] = rec[b] /\ fut'[b] = fut[b] /\ reg'[b] = reg[b]
    BY <1>0, <2>1
  <2>4. /\ rec'[c] = new /\ (~suspended => reg'[c] = reg[c])
        /\ fut'[c] = IF suspended \/ fut[c] # "pending" THEN fut[c] ELSE told
    BY <1>0, <2>1
  <2>5. CASE b # c
    BY <1>a, <2>3, <2>5, CalmIsOrderly
  <2>6. CASE b = c /\ suspended
    <3>1. rec'[c] = rec[c] /\ fut'[c] = fut[c]
      BY <2>4, <2>6
    <3>2. Audited(c)'
      BY <2>2, <3>1 DEF Audited
    <3> QED BY <1>a, <2>6, <3>1, <3>2, CalmIsOrderly
  <2>7. CASE b = c /\ ~suspended
    <3>1. /\ rec'[c].status = "applied" /\ rec'[c].phase = rec[c].phase
      BY <1>a, <2>4, <2>7, DecisionFacts
    <3>2. LedgerStep(rec[c], rec'[c])
      BY DEF AllAdvance, Advances
    <3>3. Audited(c)' /\ rec'[c].value = rec[c].value /\ Backed(c)'
      BY <2>2, <3>2 DEF LedgerStep, Audited, Backed, A2A
    <3>4. rec[c].value \in Values
      BY <1>a, <2>1 DEF Sound
    <3>5. fut[c] = "pending" => fut'[c] = told
      BY <2>4, <2>7
    <3>6. fut[c] = "pending" => fut'[c] \in {"allow", "deny"} /\ Told(c)'
      BY <3>1, <3>3, <3>4, <3>5 DEF Told, Values
    <3>7. fut[c] # "pending" => fut'[c] = fut[c]
      BY <2>4, <2>7
    <3>8. reg'[c] = reg[c] /\ rec[c].phase # "ABSENT"
      BY <1>a, <2>1, <2>4, <2>7 DEF Sound, Decided
    <3>9. FutureStep(c) /\ fut'[c] # "pending"
      BY <3>1, <3>6, <3>7 DEF FutureStep, Canceled
    <3>10. CancelStep(c)
      BY <2>1, <3>1 DEF CancelStep, Canceled
    <3> QED BY <2>7, <3>1, <3>8, <3>9, <3>10 DEF OrderlyAt, AllAdvance
  <2> QED BY <2>5, <2>6, <2>7
<1> QED BY <1>1, <1>2, <1>3, <1>4, <1>5, <1>6 DEF LiveAnswer

\* The steps of an answer on the cold path: only the termination of a restored
\* run cancels a decided card, and it ends that run.
LEMMA ColdOrderly ==
  ASSUME Typed, DInv, Exclusive, AllAdvance, NEW q \in Requests, ColdAnswer(q) PROVE Orderly
<1>0. /\ DOMAIN rec = Boundaries /\ DOMAIN fut = Boundaries /\ DOMAIN reg = Boundaries
      /\ req[q].b \in Boundaries /\ req[q].v \in Values /\ q \in Runs
  BY TypeFacts DEF Typed, TypeOK, Runs
<1>a. /\ \A b \in Boundaries : Sound(rec[b]) /\ Flow(rec[b], rec[b])
      /\ \A b \in Boundaries, live \in BOOLEAN : \A allow :
           /\ Flow(rec[b], Reconciled(b, live, allow))
           /\ Reconciled(b, live, allow).status = rec[b].status
           /\ ~live => Reconciled(b, live, allow).phase \notin Resident
  BY Basics
<1>b. PICK c \in Boundaries : c = req[q].b
  BY <1>0
<1>c. ASSUME NEW new, rec' = [rec EXCEPT ![c] = new] \/ rec' = rec, Flow(rec[c], new), fut' = fut,
             Web => reg' = reg
      PROVE Orderly
  <2> SUFFICES ASSUME NEW b \in Boundaries PROVE OrderlyAt(b)
    BY DEF Orderly
  <2>1. Flow(rec[b], rec'[b])
    BY <1>0, <1>a, <1>c
  <2> QED BY <1>c, <2>1, CalmIsOrderly
<1>d. ASSUME NEW R, Relist(R, reg), fut' = fut, \A b \in Boundaries : Flow(rec[b], R[b]) /\ Sound(R[b])
      PROVE Orderly
  <2>1. \A b \in Boundaries :
          Flow(rec[b], rec'[b]) /\ (Web /\ reg'[b] = "none" => rec'[b].phase \notin ActivePhases)
    BY <1>d, RelistFlow
  <2> QED BY <1>d, <2>1, CalmIsOrderly DEF Orderly
<1>e. \A b \in Boundaries : Sound(Reconciled(b, FALSE, TRUE))
  BY AdvancesReconciled DEF Advances, Typed
<1>1. CASE LoadCheckpoint(q) \/ AcquireRestore(q) \/ Admit(q) \/ RestoreBackupFails(q) \/ AcquireTurn(q)
           \/ (\E ok \in BOOLEAN : ResumeBoundary(q, ok))
  <2>1. rec' = rec /\ reg' = reg /\ fut' = fut
    BY <1>1 DEF LoadCheckpoint, AcquireRestore, Admit, RestoreBackupFails, AcquireTurn, ResumeBoundary
  <2> QED BY <1>a, <1>c, <2>1
<1>2. CASE ColdReconcile(q)
  <2>1. rec' = [rec EXCEPT ![c] = Reconciled(c, FALSE, TRUE)] /\ reg' = reg /\ fut' = fut
    BY <1>2, <1>b DEF ColdReconcile
  <2> QED BY <1>a, <1>c, <2>1
<1>3. CASE ColdClaim(q)
  <2>1. /\ \/ /\ rec' = [rec EXCEPT ![c] = Claim(rec[c], req[q].v)]
              /\ CanClaim(rec[c], req[q].v)
           \/ rec' = [rec EXCEPT ![c] = rec[c]]
        /\ reg' = reg /\ fut' = fut
    BY <1>3, <1>b DEF ColdClaim
  <2>2. CanClaim(rec[c], req[q].v) => Flow(rec[c], Claim(rec[c], req[q].v))
    BY <1>0, <1>a, DecisionFacts
  <2> QED BY <1>a, <1>c, <2>1, <2>2
<1>4. ASSUME NEW ok \in BOOLEAN, ColdAudit(q, ok) PROVE Orderly
  <2> SUFFICES ASSUME NEW b \in Boundaries PROVE OrderlyAt(b)
    BY DEF Orderly
  <2>1. /\ rec' = [rec EXCEPT ![c] = Audit(rec[c], ok)] /\ fut' = fut /\ Decided(rec[c])
        /\ reg' = [reg EXCEPT ![c] = IF Web THEN "none" ELSE reg[c]]
    BY <1>4, <1>b DEF ColdAudit, CanAudit
  <2>2. Flow(rec[c], Audit(rec[c], ok)) /\ Audit(rec[c], ok).audit \in {"recorded", "failed"}
    BY <1>a, <2>1, DecisionFacts
  <2>3. rec'[c] = Audit(rec[c], ok)
    BY <1>0, <2>1
  <2>4. Decided(rec'[c])
    BY <2>1 DEF AllAdvance, Advances, LedgerStep
  <2>5. Audited(c)'
    BY <2>2, <2>3, <2>4 DEF Audited
  <2>6. b # c => rec'[b] = rec[b] /\ reg'[b] = reg[b]
    BY <1>0, <2>1
  <2> QED BY <1>a, <2>1, <2>2, <2>3, <2>5, <2>6, CalmIsOrderly
<1>5. CASE RestoreBackedUp(q)
  <2>1. rec' = [rec EXCEPT ![c] = MarkBackedUp(rec[c])] /\ reg' = reg /\ fut' = fut
    BY <1>5, <1>b DEF RestoreBackedUp
  <2>2. Flow(rec[c], MarkBackedUp(rec[c]))
    BY <1>a, DecisionFacts
  <2> QED BY <1>c, <2>1, <2>2
<1>6. CASE BeginRestoration(q)
  <2> DEFINE again == Web /\ rec[c].phase = "RESTORING"
             ok == again \/ CanBeginRestore(rec[c])
             new == IF again THEN rec[c] ELSE IF ok THEN BeginRestore(rec[c])
                    ELSE IF Web THEN Reconciled(c, FALSE, TRUE) ELSE rec[c]
  <2>1. /\ fut' = fut
        /\ IF ok THEN rec' = [rec EXCEPT ![c] = new] /\ reg' = reg
           ELSE Relist([rec EXCEPT ![c] = new], reg)
    BY <1>6, <1>b DEF BeginRestoration
  <2>2. CanBeginRestore(rec[c]) => Flow(rec[c], BeginRestore(rec[c]))
    BY <1>a, EndFacts
  <2>3. \/ new = rec[c] \/ new = Reconciled(c, FALSE, TRUE)
        \/ new = BeginRestore(rec[c]) /\ CanBeginRestore(rec[c])
    BY DEF CanBeginRestore
  <2>4. ~ok => new = rec[c] \/ new = Reconciled(c, FALSE, TRUE)
    OBVIOUS
  <2> HIDE DEF new, ok
  <2>5. Flow(rec[c], new)
    BY <1>a, <2>2, <2>3
  <2>6. CASE ok
    BY <1>c, <2>1, <2>5, <2>6
  <2>7. CASE ~ok
    <3> DEFINE R == [rec EXCEPT ![c] = new]
    <3>1. \A b \in Boundaries : R[b] = IF b = c THEN new ELSE rec[b]
      BY <1>0
    <3>2. Relist(R, reg)
      BY <2>1, <2>7
    <3>3. Sound(new)
      BY <1>a, <1>e, <2>4, <2>7
    <3> HIDE DEF R
    <3>4. \A b \in Boundaries : Flow(rec[b], R[b]) /\ Sound(R[b])
      BY <1>a, <2>5, <3>1, <3>3
    <3> QED BY <1>d, <2>1, <3>2, <3>4
  <2> QED BY <2>6, <2>7
<1>7. CASE ResumeRefused(q)
  <2> DEFINE root == run[q].root
             R == [rec EXCEPT ![root] = Reconciled(root, FALSE, TRUE)]
  <2>1. Relist(R, reg) /\ fut' = fut
    BY <1>7 DEF ResumeRefused
  <2>2. \A b \in Boundaries : R[b] = rec[b] \/ R[b] = Reconciled(b, FALSE, TRUE)
    BY <1>0
  <2> HIDE DEF R
  <2>3. \A b \in Boundaries : Flow(rec[b], R[b]) /\ Sound(R[b])
    BY <1>a, <1>e, <2>2
  <2> QED BY <1>d, <2>1, <2>3
<1>8. CASE TerminateRestore(q)
  <2> SUFFICES ASSUME NEW b \in Boundaries PROVE OrderlyAt(b)
    BY DEF Orderly
  <2>1. /\ A2A /\ fut' = fut /\ EndRun(q) /\ run[q].st # "none"
        /\ rec'[b] = IF rec[b].phase # "RESTORING" THEN rec[b]
                     ELSE IF run[q].st = "finish" THEN Resolve(rec[b]) ELSE CancelRestore(rec[b])
    BY <1>8 DEF TerminateRestore
  <2>2. NoRuns
    <3>1. \A p \in Runs : p # q => run[p].st = "none"
      BY <1>0, <2>1 DEF Exclusive
    <3> QED BY <1>0, <2>1, <3>1, Moves DEF NoRuns, Typed
  <2>3. CASE rec[b].phase # "RESTORING"
    BY <1>a, <2>1, <2>3, CalmIsOrderly DEF A2A, Web
  <2>4. CASE rec[b].phase = "RESTORING"
    <3>1. /\ Cancel(rec[b]).phase = "CANCELED" /\ Cancel(rec[b]).status = rec[b].status
          /\ Flow(rec[b], Resolve(rec[b]))
      BY <1>a, <2>4, EndFacts DEF ActivePhases
    <3>2. CASE rec'[b] = Resolve(rec[b])
      BY <2>1, <3>1, <3>2, CalmIsOrderly DEF A2A, Web
    <3>3. CASE rec'[b] = Cancel(rec[b])
      BY <2>1, <2>2, <2>4, <3>1, <3>3
         DEF OrderlyAt, CancelStep, FutureStep, AllAdvance, Canceled, Resident, A2A, Web
    <3> QED BY <2>1, <2>4, <3>2, <3>3 DEF CancelRestore
  <2> QED BY <2>3, <2>4
<1> QED BY <1>1, <1>2, <1>3, <1>4, <1>5, <1>6, <1>7, <1>8 DEF ColdAnswer

\* Every step is orderly.
LEMMA StepOrderly ==
  ASSUME Typed, DInv, Exclusive, [Next]_vars PROVE Orderly
<1>0. DOMAIN rec = Boundaries /\ DOMAIN fut = Boundaries /\ DOMAIN reg = Boundaries
  BY TypeFacts DEF Typed, TypeOK
<1>a. /\ \A b \in Boundaries : Sound(rec[b]) /\ Flow(rec[b], rec[b])
      /\ \A b \in Boundaries, live \in BOOLEAN : \A allow :
           /\ Flow(rec[b], Reconciled(b, live, allow))
           /\ Reconciled(b, live, allow).status = rec[b].status
           /\ ~live => Reconciled(b, live, allow).phase \notin Resident
  BY Basics
<1>b. AllAdvance
  BY StepLedger DEF Typed
<1>1. ASSUME NEW q \in Requests, Submit(q) PROVE Orderly
  <2>1. rec' = rec /\ fut' = fut /\ (Web => reg' = reg)
    BY <1>1 DEF Submit, SubmitA2A, SubmitWeb, A2A, Web
  <2> QED BY <1>a, <1>b, <2>1, CalmIsOrderly DEF Orderly
<1>2. ASSUME NEW stop \in BOOLEAN, InterruptSession(stop) PROVE Orderly
  <2> SUFFICES ASSUME NEW b \in Boundaries PROVE OrderlyAt(b)
    BY DEF Orderly
  <2> DEFINE listed == {i \in Boundaries : reg[i] # "none"}
             gone == {i \in listed : CanCancel(rec[i], FALSE)}
             ended == {r \in Runs : run[r].st = "wait" /\ (run[r].b \in gone \/ stop)}
             orphaned == IF Live \in ended THEN listed \ gone ELSE {}
  <2>1. /\ rec'[b] = IF b \in gone THEN Cancel(rec[b])
                     ELSE IF b \in orphaned THEN Reconciled(b, FALSE, TRUE) ELSE rec[b]
        /\ fut'[b] = IF b \in gone /\ fut[b] = "pending" THEN "canceled" ELSE fut[b]
        /\ reg'[b] = IF b \in gone THEN "none" ELSE reg[b]
    BY <1>2 DEF InterruptSession
  <2>2. b \in gone => rec[b].phase = "CANCELED" \/ (rec[b].phase \in ActivePhases /\ rec[b].status = "none")
    BY DEF CanCancel
  <2> HIDE DEF gone, orphaned
  <2>3. CASE b \notin gone
    BY <1>a, <1>b, <2>1, <2>3, CalmIsOrderly
  <2>4. CASE b \in gone
    <3>1. rec'[b].phase = "CANCELED" /\ rec'[b].status = rec[b].status
      BY <1>a, <2>1, <2>4, EndFacts
    <3>2. fut'[b] # "pending" /\ (fut'[b] = "canceled" \/ fut'[b] = fut[b])
      BY <2>1, <2>4
    <3> QED BY <1>b, <2>2, <2>4, <3>1, <3>2
            DEF OrderlyAt, CancelStep, FutureStep, AllAdvance, Canceled, Past, Resident, Decided,
                ActivePhases
  <2> QED BY <2>3, <2>4
<1>3. ASSUME Crash PROVE Orderly
  <2> SUFFICES ASSUME NEW b \in Boundaries PROVE OrderlyAt(b)
    BY DEF Orderly
  <2> DEFINE L == [i \in Boundaries |-> "none"]
  <2>1. Relist(rec, L) /\ fut'[b] = "none"
    BY <1>3 DEF Crash
  <2> HIDE DEF L
  <2>2. Flow(rec[b], rec'[b]) /\ (Web /\ reg'[b] = "none" => rec'[b].phase \notin ActivePhases)
    BY <1>a, <2>1, RelistFlow
  <2> QED BY <1>b, <2>1, <2>2 DEF OrderlyAt, CancelStep, FutureStep, AllAdvance, Flow, Canceled
<1>4. ASSUME UNCHANGED vars PROVE Orderly
  <2>1. rec' = rec /\ fut' = fut /\ reg' = reg
    BY <1>4 DEF vars
  <2> QED BY <1>a, <1>b, <2>1, CalmIsOrderly DEF Orderly
<1> QED BY <1>b, <1>1, <1>2, <1>3, <1>4, RunOrderly, BoundaryOrderly, LiveOrderly, ColdOrderly DEF Next

-----------------------------------------------------------------------------
(* Every step keeps the invariant.                                         *)

\* The steps of a request that establish nothing.
Plain == {"idle", "lock", "claim", "audit", "load", "reconcile", "rclaim", "raudit", "run"}

\* Only the runs and the requests a step moves have to be looked at.
LEMMA RunnersKept ==
  ASSUME Typed, Futures, Runners, Orderly, results' = results,
         \A r \in Runs : run'[r] = run[r] \/ run'[r].st = "none" \/ Standing(run[r])'
  PROVE Runners'
<1> SUFFICES ASSUME NEW r \in Runs, run'[r].st # "none" PROVE Standing(run[r])'
  BY DEF Runners
<1>1. CASE run'[r] = run[r]
  BY <1>1, KeepsRun DEF Runners
<1> QED BY <1>1

LEMMA AnsweringKept ==
  ASSUME Typed, Answering, Orderly,
         \A q \in Requests : req'[q] = req[q] \/ req'[q].st \in Plain \/ Known(req[q])'
  PROVE Answering'
<1> SUFFICES ASSUME NEW q \in Requests PROVE Known(req[q])'
  BY DEF Answering
<1>1. CASE req'[q] = req[q]
  BY <1>1, KeepsRequest DEF Answering
<1>2. CASE req'[q].st \in Plain
  BY <1>2 DEF Plain, Known
<1> QED BY <1>1, <1>2

\* A run at a card whose decision was delivered or is being restored goes on.
LEMMA AdvanceStands ==
  ASSUME Typed, Orderly, NEW r \in Runs, NEW d \in {"allow", "deny"}, Advance(r, d),
         run[r].st \in {"wait", "woken", "restored"}, Standing(run[r]),
         Past(run[r].b), ~Canceled(run[r].b), d = "allow" => Permitted(run[r].b), ~results'
  PROVE Standing(run[r])'
<1> DEFINE s == run[r]
           b == s.b
           s1 == [s EXCEPT !.dec[b] = d]
           s2 == [s1 EXCEPT !.st = IF b < NB THEN "open" ELSE "exec"]
           s3 == [s2 EXCEPT !.b = IF b < NB THEN b + 1 ELSE b]
<1>1. run \in [Runs -> RunState] /\ s \in RunState /\ b \in Boundaries
  BY DEF Typed, TypeOK, RunState
<1>2. run'[r] = s3
  BY <1>1 DEF Advance
<1>3. s1 \in RunState /\ \A i \in Boundaries : s1.dec[i] = IF i = b THEN d ELSE s.dec[i]
  BY <1>1 DEF RunState, Decisions
<1>4. PICK c \in Boundaries : c = b
  BY <1>1
<1>a. Standing(s) /\ s.st \in {"wait", "woken", "restored"}
  OBVIOUS
<1> HIDE DEF s1
<1>5. s2 \in RunState /\ s2.dec = s1.dec /\ s2.st = IF b < NB THEN "open" ELSE "exec"
  BY <1>3 DEF RunState, RunStates
<1> HIDE DEF s2
<1>6. s3.dec = s2.dec /\ s3.st = s2.st /\ s3.b = IF b < NB THEN b + 1 ELSE b
  BY <1>5 DEF RunState
<1> HIDE DEF s3
<1>7. PICK y : y = s3
  OBVIOUS
<1>8. /\ y.st = IF c < NB THEN "open" ELSE "exec"
      /\ y.b = IF c < NB THEN c + 1 ELSE c
      /\ \A i \in Boundaries : y.dec[i] = IF i = c THEN d ELSE s.dec[i]
  BY <1>3, <1>4, <1>5, <1>6, <1>7
<1>9. y.st \in {"open", "exec"} /\ (y.st = "exec" => c = NB /\ y.b = NB) /\ (y.st = "open" => y.b = c + 1)
  BY <1>8, ConstantsAssumption DEF Boundaries
<1>10. run'[r] = y /\ ~NoRuns
  BY <1>2, <1>7, <1>9 DEF NoRuns
<1>11. \A i \in Boundaries : OrderlyAt(i)
  BY DEF Orderly
<1>12. \A i \in Boundaries :
         /\ Decided(rec[i]) => Decided(rec'[i])
         /\ Permitted(i) => Permitted(i)'
         /\ Past(i) => Past(i)'
         /\ rec[i].phase = "RESOLVED" => rec'[i].phase = "RESOLVED"
  BY <1>11, Kept
<1>13. Past(c)' /\ ~Canceled(c)'
  BY <1>4, <1>10, <1>11, <1>12 DEF OrderlyAt, CancelStep
<1>14. d = "allow" => Permitted(c)'
  BY <1>4, <1>12
<1>15. \A i \in Boundaries : s.dec[i] = "allow" => i < c /\ Permitted(i)' /\ rec'[i].phase = "RESOLVED"
  BY <1>a, <1>4, <1>12 DEF Standing, Executing
<1>16. \A i \in Boundaries : i < c => Decided(rec'[i])
  BY <1>a, <1>4, <1>12 DEF Standing
<1>17. Decided(rec'[c])
  BY <1>13 DEF Past
<1> HIDE DEF s, b
<1>18. \A i \in Boundaries : y.dec[i] = "allow" =>
         /\ Permitted(i)' /\ i <= y.b
         /\ ~Executing(y) => i < y.b
         /\ i < y.b /\ (y.st # "open" \/ i + 1 < y.b) => rec'[i].phase = "RESOLVED"
  <2> SUFFICES ASSUME NEW i \in Boundaries, y.dec[i] = "allow"
               PROVE /\ Permitted(i)' /\ i <= y.b
                     /\ ~Executing(y) => i < y.b
                     /\ i < y.b /\ (y.st # "open" \/ i + 1 < y.b) => rec'[i].phase = "RESOLVED"
    OBVIOUS
  <2>1. CASE i = c
    <3>1. Permitted(i)'
      BY <1>8, <1>14, <2>1
    <3>2. /\ i <= y.b
          /\ y.st # "exec" => i < y.b
          /\ ~(i < y.b /\ (y.st # "open" \/ i + 1 < y.b))
      BY <1>9, <2>1 DEF Boundaries
    <3> QED BY <1>9, <3>1, <3>2 DEF Executing
  <2>2. CASE i # c
    <3>1. i < c /\ Permitted(i)' /\ rec'[i].phase = "RESOLVED"
      BY <1>8, <1>15, <2>2
    <3>2. i <= y.b /\ i < y.b
      BY <1>9, <3>1 DEF Boundaries
    <3> QED BY <3>1, <3>2
  <2> QED BY <2>1, <2>2
<1>19. \A i \in Boundaries : i < y.b => Decided(rec'[i])
  <2> SUFFICES ASSUME NEW i \in Boundaries, i < y.b PROVE Decided(rec'[i])
    OBVIOUS
  <2>1. i < c \/ i = c
    BY <1>9 DEF Boundaries
  <2> QED BY <2>1, <1>16, <1>17
<1>20. \A i \in Boundaries : y.st = "open" /\ i + 1 = y.b => Past(i)' /\ ~Canceled(i)'
  <2> SUFFICES ASSUME NEW i \in Boundaries, y.st = "open", i + 1 = y.b PROVE i = c
    BY <1>13
  <2> QED BY <1>9 DEF Boundaries
<1>21. Executing(y) => y.b = NB /\ Past(y.b)' /\ ~Canceled(y.b)'
  BY <1>9, <1>13 DEF Executing
<1>22. Standing(y)'
  BY <1>9, <1>18, <1>19, <1>20, <1>21 DEF Standing, AtCard
<1> QED BY <1>10, <1>22

\* Moving a run to another state changes nothing else.
LEMMA RunMoved ==
  ASSUME TypeOK, NEW r \in Runs, NEW x, run' = [run EXCEPT ![r].st = x]
  PROVE /\ run'[r].st = x /\ run'[r].b = run[r].b /\ run'[r].dec = run[r].dec
        /\ \A p \in Runs : p # r => run'[p] = run[p]
<1>1. run \in [Runs -> RunState]
  BY DEF TypeOK
<1> QED BY <1>1 DEF RunState

\* What all checkpoints vouch for is kept by an orderly step.
LEMMA AllKept ==
  ASSUME Typed, Orderly
  PROVE \A i \in Boundaries :
          /\ Decided(rec[i]) => Decided(rec'[i])
          /\ Audited(i) => Audited(i)'
          /\ Backed(i) => Backed(i)'
          /\ Permitted(i) => Permitted(i)'
          /\ Past(i) => Past(i)'
          /\ rec[i].phase = "RESOLVED" => rec'[i].phase = "RESOLVED"
<1>1. \A i \in Boundaries : OrderlyAt(i)
  BY DEF Orderly
<1> QED BY <1>1, Kept

\* A new card: the decisions so far are written into its frame.
LEMMA OpenKeeps ==
  ASSUME Typed, DInv, Exclusive, Orderly, NEW r \in Runs, OpenBoundary(r)
  PROVE Runners' /\ Answering' /\ History'
<1>1. PICK c \in Boundaries : c = run[r].b
  BY TypeFacts DEF Typed
<1>2. PICK d : d = run[r].dec
  OBVIOUS
<1>3. /\ run[r].st = "open" /\ results' = results /\ req' = req /\ ran' = ran
      /\ fut' = [fut EXCEPT ![c] = "pending"]
      /\ frame' = [frame EXCEPT ![c] = d]
      /\ run' = [run EXCEPT ![r].st = IF Web THEN "wait" ELSE "opening"]
      /\ rec'[c] = Checkpoint
      /\ \A i \in Boundaries : i # c /\ i + 1 = c => rec'[i] = Succeeded(rec[i]) /\ CanSucceed(rec[i])
  <2>1. \A i \in Boundaries : i # c /\ i + 1 = c => c > 1 /\ i = c - 1
    BY DEF Boundaries
  <2> QED BY <1>1, <1>2, <2>1, OpenBoundary(r) DEF OpenBoundary, Create
<1>4. PICK y : y = run'[r]
  OBVIOUS
<1>5. y.st \in {"wait", "opening"} /\ y.b = c /\ y.dec = d
  BY <1>1, <1>2, <1>3, <1>4, RunMoved DEF Typed
<1>6. Standing(run[r])
  BY <1>3 DEF DInv, Runners
<1>7. \A i \in Boundaries : d[i] = "allow" =>
        Permitted(i) /\ i < c /\ (i + 1 < c => rec[i].phase = "RESOLVED")
  BY <1>1, <1>2, <1>3, <1>6 DEF Standing, Executing
<1>8. \A i \in Boundaries : i < c => Decided(rec[i])
  BY <1>1, <1>6 DEF Standing
<1>9. ~results
  BY <1>3, <1>6 DEF Standing
<1>10. \A i \in Boundaries :
          /\ Decided(rec[i]) => Decided(rec'[i])
          /\ Permitted(i) => Permitted(i)'
          /\ rec[i].phase = "RESOLVED" => rec'[i].phase = "RESOLVED"
  BY AllKept
<1>11. \A i \in Boundaries : d[i] = "allow" => Permitted(i)' /\ i < c /\ rec'[i].phase = "RESOLVED"
  <2> SUFFICES ASSUME NEW i \in Boundaries, d[i] = "allow"
               PROVE Permitted(i)' /\ i < c /\ rec'[i].phase = "RESOLVED"
    OBVIOUS
  <2>1. Permitted(i)' /\ i < c /\ (i + 1 < c => rec'[i].phase = "RESOLVED")
    BY <1>7, <1>10
  <2>2. i # c /\ (i + 1 = c \/ i + 1 < c)
    BY <2>1 DEF Boundaries
  <2>3. CASE i + 1 = c
    <3>1. rec'[i] = Succeeded(rec[i]) /\ CanSucceed(rec[i]) /\ Sound(rec[i])
      BY <1>3, <2>2, <2>3 DEF Typed, AllSound
    <3>2. rec'[i].phase = "RESOLVED"
      BY <3>1, EndFacts
    <3> QED BY <2>1, <3>2
  <2> QED BY <2>1, <2>2, <2>3
<1>12. fut'[c] = "pending" /\ ~Canceled(c)'
  <2>1. fut'[c] = "pending"
    BY <1>3 DEF Typed, TypeOK
  <2> QED BY <1>3, <2>1, CheckpointFacts DEF Canceled
<1>13. Standing(y)'
  <2>1. \A i \in Boundaries : y.dec[i] = "allow" => i <= y.b
    BY <1>5, <1>11 DEF Boundaries
  <2> QED BY <1>3, <1>5, <1>8, <1>9, <1>10, <1>11, <1>12, <2>1 DEF Standing, AtCard, Executing
<1>14. Runners'
  <2>1. \A p \in Runs : p # r => run'[p] = run[p]
    BY <1>3, RunMoved DEF Typed
  <2>2. \A p \in Runs : run'[p] = run[p] \/ run'[p].st = "none" \/ Standing(run[p])'
    BY <1>4, <1>13, <2>1
  <2> QED BY <1>3, <2>2, RunnersKept DEF DInv
<1>15. Answering'
  BY <1>3, AnsweringKept DEF DInv
<1>16. History'
  <2>0. History /\ ran \subseteq Boundaries
    BY DEF DInv, Typed, TypeOK
  <2>1. \A b \in ran : Permitted(b)'
    BY <1>10, <2>0 DEF History
  <2>2. \A b, i \in Boundaries : frame'[b][i] = "allow" =>
          i < b /\ Permitted(i)' /\ rec'[i].phase = "RESOLVED"
    <3> SUFFICES ASSUME NEW b \in Boundaries, NEW i \in Boundaries, frame'[b][i] = "allow"
                 PROVE i < b /\ Permitted(i)' /\ rec'[i].phase = "RESOLVED"
      OBVIOUS
    <3>1. frame'[b] = IF b = c THEN d ELSE frame[b]
      BY <1>3 DEF Typed, TypeOK
    <3>2. CASE b = c
      BY <1>11, <3>1, <3>2
    <3>3. CASE b # c
      BY <1>10, <2>0, <3>1, <3>3 DEF History
    <3> QED BY <3>2, <3>3
  <2>3. \A b, i \in Boundaries : rec'[b].phase # "ABSENT" /\ i < b => Decided(rec'[i])
    BY <1>10, <2>0 DEF History, Orderly, OrderlyAt
  <2> QED BY <1>3, <1>9, <2>1, <2>2, <2>3 DEF History
<1> QED BY <1>14, <1>15, <1>16

\* A run's steps: what it is told becomes a decision, its decisions become
\* executions.
LEMMA RunKeeps ==
  ASSUME Typed, DInv, Exclusive, Orderly, NEW r \in Runs, RunStep(r)
  PROVE Runners' /\ Answering' /\ History'
<1>0. Futures /\ Runners /\ Answering /\ Listing /\ History /\ TypeOK
  BY DEF DInv, Typed
<1>a. run[r].st # "none" => Standing(run[r]) /\ \A p \in Runs : p # r => run[p].st = "none"
  BY DEF DInv, Runners, Exclusive
<1>b. \A i \in Boundaries :
          /\ Decided(rec[i]) => Decided(rec'[i])
          /\ Permitted(i) => Permitted(i)'
          /\ Past(i) => Past(i)'
          /\ rec[i].phase = "RESOLVED" => rec'[i].phase = "RESOLVED"
  BY AllKept
<1>1. CASE OpenBoundary(r)
  BY <1>1, OpenKeeps
<1>2. CASE ActivateBoundary(r)
  <2>1. /\ run[r].st = "opening" /\ run' = [run EXCEPT ![r].st = "wait"] /\ rec' = rec
        /\ fut' = fut /\ results' = results /\ req' = req /\ ran' = ran /\ frame' = frame
    BY <1>2 DEF ActivateBoundary
  <2>2. PICK x : x = run[r]
    OBVIOUS
  <2>3. PICK y : y = run'[r]
    OBVIOUS
  <2>4. y.st = "wait" /\ y.b = x.b /\ y.dec = x.dec /\ \A p \in Runs : p # r => run'[p] = run[p]
    BY <1>0, <2>1, <2>2, <2>3, RunMoved
  <2>5. Standing(y)
    BY <1>a, <2>1, <2>2, <2>4 DEF Standing, AtCard, Executing
  <2>6. Standing(y)'
    BY <2>1, <2>5 DEF Standing, Permitted, Past, Canceled, Told, Audited, Backed, A2A
  <2>7. \A p \in Runs : run'[p] = run[p] \/ run'[p].st = "none" \/ Standing(run[p])'
    BY <2>3, <2>4, <2>6
  <2> QED BY <1>0, <2>1, <2>7, RunnersKept, AnsweringKept, KeepsHistory
<1>3. ASSUME NEW ok \in BOOLEAN, TakeOutcome(r, ok) PROVE Runners' /\ Answering' /\ History'
  <2> DEFINE d == IF fut[run[r].b] = "allow" /\ ok THEN "allow" ELSE "deny"
  <2>1. /\ fut[run[r].b] \in {"allow", "deny"} /\ run[r].st \in {"wait", "woken"}
        /\ Advance(r, d) /\ results' = results /\ req' = req /\ ran' = ran /\ frame' = frame
    BY <1>3 DEF TakeOutcome
  <2>2. PICK c \in Boundaries : c = run[r].b
    BY <1>0, TypeFacts
  <2>3. Told(c) /\ ~Canceled(c)
    BY <1>0, <1>a, <2>1, <2>2 DEF Futures, Standing, AtCard
  <2>4. Past(c)
    BY <2>3 DEF Told, Audited, Past
  <2>5. d = "allow" => Permitted(c)
    <3>1. Sound(rec[c])
      BY DEF Typed, AllSound
    <3> QED BY <2>2, <2>3, <3>1 DEF Told, Audited, Permitted, Sound
  <2>6. ~results'
    BY <1>a, <2>1 DEF Standing
  <2>7. d \in {"allow", "deny"}
    OBVIOUS
  <2> HIDE DEF d
  <2>8. Standing(run[r])'
    BY <1>a, <2>1, <2>2, <2>3, <2>4, <2>5, <2>6, <2>7, AdvanceStands
  <2>9. \A p \in Runs : p # r => run'[p] = run[p]
    BY <1>0, <2>1, Moves
  <2>10. \A p \in Runs : run'[p] = run[p] \/ run'[p].st = "none" \/ Standing(run[p])'
    BY <2>8, <2>9
  <2> QED BY <1>0, <2>1, <2>10, RunnersKept, AnsweringKept, KeepsHistory
<1>4. CASE OpenBackupFails(r) \/ Unwind(r) \/ Conclude(r) \/ RunFails(r)
  <2>1. EndRun(r) /\ EndHost(r) /\ results' = results /\ ran' = ran /\ frame' = frame
    BY <1>4 DEF OpenBackupFails, Unwind, Conclude, RunFails
  <2>2. \A p \in Runs : run'[p] = run[p] \/ run'[p].st = "none"
    BY <1>0, <2>1 DEF EndRun, NoRun, TypeOK
  <2>3. \A q \in Requests : req'[q] = req[q] \/ req'[q].st = "idle"
    BY <1>0, <2>1 DEF EndHost, NoRequest, TypeOK
  <2>4. Runners'
    BY <1>0, <2>1, <2>2, RunnersKept
  <2>5. Answering'
    BY <1>0, <2>3, AnsweringKept DEF Plain
  <2> QED BY <1>0, <2>1, <2>4, <2>5, KeepsHistory
<1>5. CASE Execute(r)
  <2>1. /\ run[r].st = "exec" /\ run' = [run EXCEPT ![r].st = "persist"] /\ rec' = rec
        /\ fut' = fut /\ results' = results /\ req' = req /\ frame' = frame
        /\ ran' = ran \cup {b \in Boundaries : run[r].dec[b] = "allow"}
    BY <1>5 DEF Execute
  <2>2. PICK x : x = run[r]
    OBVIOUS
  <2>3. PICK y : y = run'[r]
    OBVIOUS
  <2>4. y.st = "persist" /\ y.b = x.b /\ y.dec = x.dec /\ \A p \in Runs : p # r => run'[p] = run[p]
    BY <1>0, <2>1, <2>2, <2>3, RunMoved
  <2>5. Standing(y)
    BY <1>a, <2>1, <2>2, <2>4 DEF Standing, AtCard, Executing
  <2>6. Standing(y)'
    BY <2>1, <2>5 DEF Standing, Permitted, Past, Canceled, Told, Audited, Backed, A2A
  <2>7. \A p \in Runs : run'[p] = run[p] \/ run'[p].st = "none" \/ Standing(run[p])'
    BY <2>3, <2>4, <2>6
  <2>8. Runners' /\ Answering'
    BY <1>0, <2>1, <2>7, RunnersKept, AnsweringKept
  <2>9. \A b \in ran' : Permitted(b)
    BY <1>0, <1>a, <2>1 DEF History, Standing
  <2>10. \A b \in ran' : Permitted(b)'
    BY <2>1, <2>9 DEF Permitted, Backed, A2A
  <2>11. History'
    BY <1>0, <2>1, <2>10 DEF History, Permitted, Backed, A2A
  <2> QED BY <2>8, <2>11
<1>6. CASE Persist(r)
  <2>1. /\ run[r].st = "persist" /\ run' = [run EXCEPT ![r].st = "finish"] /\ rec' = rec
        /\ fut' = fut /\ results' = TRUE /\ req' = req /\ frame' = frame /\ ran' = ran
    BY <1>6 DEF Persist
  <2>2. PICK x : x = run[r]
    OBVIOUS
  <2>3. PICK y : y = run'[r]
    OBVIOUS
  <2>4. y.st = "finish" /\ y.b = x.b /\ y.dec = x.dec /\ \A p \in Runs : p # r => run'[p] = run[p]
    BY <1>0, <2>1, <2>2, <2>3, RunMoved
  <2>5. Standing(y)
    BY <1>a, <2>1, <2>2, <2>4 DEF Standing, AtCard, Executing
  <2>6. Standing(y)'
    BY <2>1, <2>4, <2>5 DEF Standing, Permitted, Past, Canceled, Told, Audited, Backed, A2A
  <2>7. Runners'
    <3>1. \A p \in Runs : p # r => run'[p].st = "none"
      BY <1>a, <2>1, <2>4
    <3> QED BY <2>3, <2>6, <3>1 DEF Runners
  <2>8. Answering'
    BY <1>0, <2>1, AnsweringKept
  <2>9. \A b \in Boundaries : Decided(rec[b])
    <3>1. x.b = NB /\ Past(x.b) /\ \A i \in Boundaries : i < x.b => Decided(rec[i])
      BY <1>a, <2>1, <2>2 DEF Standing, Executing
    <3>2. \A i \in Boundaries : i < NB \/ i = NB
      BY ConstantsAssumption DEF Boundaries
    <3> QED BY <3>1, <3>2 DEF Past
  <2>10. History'
    BY <1>0, <2>1, <2>9 DEF History, Permitted, Backed, A2A
  <2> QED BY <2>7, <2>8, <2>10
<1> QED BY <1>1, <1>2, <1>3, <1>4, <1>5, <1>6 DEF RunStep

\* The steps of the timer, of re-issued cards and of a canceled task.
LEMMA BoundaryKeeps ==
  ASSUME Typed, DInv, Exclusive, Orderly, NEW c \in Boundaries, BoundaryStep(c)
  PROVE Runners' /\ Answering' /\ History'
<1>0. Futures /\ Runners /\ Answering /\ Listing /\ History /\ TypeOK
  BY DEF DInv, Typed
<1>1. CASE RebuildCard(c)
  <2>1. /\ CanReactivate(rec[c]) /\ results' = results /\ req' = req /\ ran' = ran /\ frame' = frame
        /\ fut' = [fut EXCEPT ![c] = "pending"]
        /\ rec' = [rec EXCEPT ![c] = Reactivate(rec[c])]
        /\ run' = [run EXCEPT ![Live] = [st |-> "opening", b |-> c, root |-> 0, dec |-> frame[c]]]
    BY <1>1 DEF RebuildCard
  <2>2. PICK y : y = [st |-> "opening", b |-> c, root |-> 0, dec |-> frame[c]]
    OBVIOUS
  <2>3. y.st = "opening" /\ y.b = c /\ y.dec = frame[c]
    BY <2>2
  <2>4. run'[Live] = y /\ \A p \in Runs : p # Live => run'[p] = run[p]
    BY <1>0, <2>1, <2>2 DEF TypeOK, Runs
  <2>5. rec[c].phase = "SUSPENDED" /\ rec[c].status = "none"
    BY <2>1 DEF CanReactivate
  <2>6. ~results
    BY <1>0, <2>5 DEF History, Decided
  <2>7. \A i \in Boundaries :
          /\ Decided(rec[i]) => Decided(rec'[i])
          /\ Permitted(i) => Permitted(i)'
          /\ rec[i].phase = "RESOLVED" => rec'[i].phase = "RESOLVED"
    BY AllKept
  <2>8. \A i \in Boundaries : y.dec[i] = "allow" => i < c /\ Permitted(i)' /\ rec'[i].phase = "RESOLVED"
    BY <1>0, <2>3, <2>7 DEF History
  <2>9. \A i \in Boundaries : i < c => Decided(rec'[i])
    BY <1>0, <2>5, <2>7 DEF History
  <2>10. fut'[c] = "pending" /\ ~Canceled(c)'
    <3>1. \A k \in Record, n \in Nat : [k EXCEPT !.generation = n].phase = k.phase
      BY DEF Record
    <3>2. rec[c].generation + 1 \in Nat
      BY DEF Typed, AllSound, Sound, Record
    <3>3. Reactivate(rec[c]).phase = "WAITING"
      BY <3>1, <3>2, CheckpointFacts DEF Reactivate
    <3> QED BY <1>0, <2>1, <3>3 DEF TypeOK, Canceled
  <2>11. Standing(y)'
    <3>1. \A i \in Boundaries : y.dec[i] = "allow" => i <= y.b
      BY <2>3, <2>8 DEF Boundaries
    <3> QED BY <2>1, <2>3, <2>6, <2>8, <2>9, <2>10, <3>1 DEF Standing, AtCard, Executing
  <2>12. \A p \in Runs : run'[p] = run[p] \/ run'[p].st = "none" \/ Standing(run[p])'
    BY <2>4, <2>11
  <2> QED BY <1>0, <2>1, <2>12, RunnersKept, AnsweringKept, KeepsHistory
<1>2. CASE Tick(c) \/ TimerFires(c) \/ TimerLost(c) \/ TimerRearmed(c)
  <2>1. run' = run /\ req' = req /\ results' = results /\ ran' = ran /\ frame' = frame
    BY <1>2 DEF Tick, TimerFires, TimerLost, TimerRearmed
  <2> QED BY <1>0, <2>1, RunnersKept, AnsweringKept, KeepsHistory
<1>3. CASE CancelTask(c)
  <2>1. PICK rs : EndRuns(rs)
    BY <1>3 DEF CancelTask
  <2>2. results' = results /\ ran' = ran /\ frame' = frame
    BY <1>3 DEF CancelTask
  <2>3. \A p \in Runs : run'[p] = run[p] \/ run'[p].st = "none"
    BY <2>1 DEF EndRuns, NoRun
  <2>4. \A q \in Requests : req'[q] = req[q] \/ req'[q].st = "idle"
    BY <2>1 DEF EndRuns, NoRequest
  <2>5. Runners'
    BY <1>0, <2>2, <2>3, RunnersKept
  <2>6. Answering'
    BY <1>0, <2>4, AnsweringKept DEF Plain
  <2> QED BY <1>0, <2>2, <2>5, <2>6, KeepsHistory
<1> QED BY <1>1, <1>2, <1>3 DEF BoundaryStep

\* Moving or ending a request changes nothing else.
LEMMA RequestMoved ==
  ASSUME TypeOK, NEW q \in Requests
  PROVE /\ \A x : Goto(q, x) => /\ req'[q].st = x /\ req'[q].b = req[q].b
                                /\ \A p \in Requests : p # q => req'[p] = req[p]
        /\ Finish(q) => req'[q].st = "idle" /\ \A p \in Requests : p # q => req'[p] = req[p]
        /\ \A x, p : req' = [req EXCEPT ![q].st = x, ![q].phase = p] =>
             /\ req'[q].st = x /\ req'[q].b = req[q].b
             /\ \A k \in Requests : k # q => req'[k] = req[k]
<1>1. req \in [Requests -> RequestState]
  BY DEF TypeOK
<1>2. ASSUME NEW x, Goto(q, x)
      PROVE /\ req'[q].st = x /\ req'[q].b = req[q].b
            /\ \A p \in Requests : p # q => req'[p] = req[p]
  BY <1>1, <1>2 DEF Goto, RequestState
<1>3. Finish(q) => req'[q].st = "idle" /\ \A p \in Requests : p # q => req'[p] = req[p]
  BY <1>1 DEF Finish, NoRequest
<1>4. ASSUME NEW x, NEW p, req' = [req EXCEPT ![q].st = x, ![q].phase = p]
      PROVE /\ req'[q].st = x /\ req'[q].b = req[q].b
            /\ \A k \in Requests : k # q => req'[k] = req[k]
  BY <1>1, <1>4 DEF RequestState
<1> QED BY <1>2, <1>3, <1>4

\* The steps of an answer on the live path: what the request learned.
LEMMA LiveKeeps ==
  ASSUME Typed, DInv, Exclusive, Orderly, NEW q \in Requests, LiveAnswer(q)
  PROVE Runners' /\ Answering' /\ History'
<1>0. Futures /\ Runners /\ Answering /\ Listing /\ History /\ TypeOK
  BY DEF DInv, Typed
<1>a. PICK c \in Boundaries : c = req[q].b
  BY <1>0, TypeFacts
<1>b. Known(req[q])
  BY <1>0 DEF Answering
<1>c. /\ Decided(rec[c]) => Decided(rec'[c])
      /\ Audited(c) => Audited(c)'
      /\ Backed(c) => Backed(c)'
  BY AllKept
<1>d. Sound(rec[c]) /\ DOMAIN rec = Boundaries /\ DOMAIN fut = Boundaries
  BY <1>0, SMTT(60) DEF Typed, AllSound, TypeOK
<1>e. results' = results /\ ran' = ran /\ frame' = frame
  BY ZenonT(30) DEF LiveAnswer, ClaimReconcile, ClaimDecision, ClaimAudit, ClaimBackedUp, DeliveryFails,
         Deliver, ClaimContinuation, OwnerUnwound
<1>f. History'
  BY <1>0, <1>e, KeepsHistory
<1>g. ASSUME \A p \in Requests : p # q => req'[p] = req[p],
             req'[q].st \in Plain \/ Known(req[q])'
      PROVE Answering'
  BY <1>0, <1>g, AnsweringKept
<1>h. run' = run => Runners'
  BY <1>0, <1>e, RunnersKept
<1>1. ASSUME NEW allow \in BOOLEAN, ClaimReconcile(q, allow) PROVE Runners' /\ Answering'
  <2>1. run' = run /\ (Goto(q, "load") \/ Finish(q) \/ Goto(q, "claim"))
    BY <1>1 DEF ClaimReconcile, Refuse
  <2>2. req'[q].st \in Plain /\ \A p \in Requests : p # q => req'[p] = req[p]
    BY <1>0, <2>1, RequestMoved DEF Plain
  <2> QED BY <1>f, <1>g, <1>h, <2>1, <2>2
<1>2. CASE ClaimDecision(q)
  <2>1. run' = run /\ (Goto(q, "load") \/ Finish(q) \/ Goto(q, "audit"))
    BY <1>2 DEF ClaimDecision
  <2>2. req'[q].st \in Plain /\ \A p \in Requests : p # q => req'[p] = req[p]
    BY <1>0, <2>1, RequestMoved DEF Plain
  <2> QED BY <1>f, <1>g, <1>h, <2>1, <2>2
<1>3. ASSUME NEW ok \in BOOLEAN, ClaimAudit(q, ok) PROVE Runners' /\ Answering'
  <2> DEFINE new == Audit(rec[c], ok)
             x == IF new.backup = "committed" THEN "release" ELSE "backup"
  <2>1. /\ rec' = [rec EXCEPT ![c] = new] /\ Decided(rec[c]) /\ run' = run
        /\ req' = [req EXCEPT ![q].st = x, ![q].phase = new.phase]
    BY <1>3, <1>a DEF ClaimAudit, CanAudit
  <2>2. new.audit \in {"recorded", "failed"}
    BY <1>d, <2>1, DecisionFacts
  <2>3. rec'[c] = new
    BY <1>d, <2>1
  <2>4. Audited(c)'
    BY <1>c, <2>1, <2>2, <2>3 DEF Audited
  <2>5. /\ x \in {"release", "backup"}
        /\ x = "release" => Backed(c)'
    BY <2>3 DEF Backed, A2A
  <2> HIDE DEF new, x
  <2>6. req'[q].st = x /\ req'[q].b = c /\ \A p \in Requests : p # q => req'[p] = req[p]
    BY <1>0, <1>a, <2>1, RequestMoved
  <2>7. Known(req[q])'
    BY <2>4, <2>5, <2>6 DEF Known
  <2> QED BY <1>f, <1>g, <1>h, <2>1, <2>6, <2>7
<1>4. CASE ClaimBackedUp(q)
  <2> DEFINE new == MarkBackedUp(rec[c])
  <2>1. /\ rec' = [rec EXCEPT ![c] = new] /\ req[q].st = "backup" /\ run' = run
        /\ req' = [req EXCEPT ![q].st = "release", ![q].phase = new.phase]
    BY <1>4, <1>a DEF ClaimBackedUp
  <2>2. new.backup = "committed"
    BY <1>d, DecisionFacts
  <2>3. Audited(c)' /\ Backed(c)'
    <3>1. rec'[c] = new
      BY <1>d, <2>1
    <3>2. Audited(c)'
      BY <1>a, <1>b, <1>c, <2>1 DEF Known
    <3> HIDE DEF new
    <3> QED BY <2>2, <3>1, <3>2 DEF Backed, A2A
  <2> HIDE DEF new
  <2>4. req'[q].st = "release" /\ req'[q].b = c /\ \A p \in Requests : p # q => req'[p] = req[p]
    BY <1>0, <1>a, <2>1, RequestMoved
  <2>5. Known(req[q])'
    BY <2>3, <2>4 DEF Known
  <2> QED BY <1>f, <1>g, <1>h, <2>1, <2>4, <2>5
<1>5. CASE DeliveryFails(q) \/ OwnerUnwound(q)
  <2>1. run' = run /\ (Goto(q, "load") \/ Finish(q))
    BY <1>5 DEF DeliveryFails, OwnerUnwound
  <2>2. req'[q].st \in Plain /\ \A p \in Requests : p # q => req'[p] = req[p]
    BY <1>0, <2>1, RequestMoved DEF Plain
  <2> QED BY <1>f, <1>g, <1>h, <2>1, <2>2
<1>6. CASE Deliver(q)
  <2> DEFINE suspended == req[q].phase \in {"SUSPENDING", "SUSPENDED", "RESTORING"}
             told == IF rec[c].value = "allow_once" THEN "allow" ELSE "deny"
  <2>1. /\ req[q].st = "release" /\ Decided(rec[c]) /\ run' = run
        /\ fut' = [fut EXCEPT ![c] = IF suspended \/ fut[c] # "pending" THEN fut[c] ELSE told]
    BY <1>6, <1>a DEF Deliver, CanMarkApplied, DeliveredValue
  <2>2. \/ suspended /\ A2A /\ Goto(q, "unwind")
        \/ suspended /\ ~A2A /\ Goto(q, "restore")
        \/ ~suspended /\ Goto(q, "delivered")
        \/ Finish(q)
    <3>1. IF suspended THEN Goto(q, IF A2A THEN "unwind" ELSE "restore")
          ELSE IF A2A THEN Goto(q, "delivered") ELSE Finish(q)
      BY <1>6 DEF Deliver
    <3> HIDE DEF suspended
    <3> QED BY <3>1 DEF Goto, Finish
  <2>3. ~suspended => fut'[c] # "pending"
    BY <1>d, <2>1
  <2>4. Audited(c)' /\ Decided(rec'[c])
    BY <1>a, <1>b, <1>c, <2>1 DEF Known
  <2> HIDE DEF suspended
  <2>5. /\ \A p \in Requests : p # q => req'[p] = req[p]
        /\ \/ req'[q].st = "idle"
           \/ req'[q].b = c /\ req'[q].st = "restore"
           \/ req'[q].b = c /\ req'[q].st = "unwind" /\ A2A
           \/ req'[q].b = c /\ req'[q].st = "delivered" /\ ~suspended
    BY <1>0, <1>a, <2>2, RequestMoved
  <2>6. Known(req[q])'
    BY <2>3, <2>4, <2>5 DEF Known, A2A
  <2> QED BY <1>f, <1>g, <1>h, <2>1, <2>5, <2>6
<1>7. CASE ClaimContinuation(q)
  <2> DEFINE first == reg[c] = "card" /\ run[Live].st = "wait" /\ run[Live].b = c
             x == IF first THEN "woken" ELSE run[Live].st
  <2>1. /\ req[q].st = "delivered" /\ rec' = rec /\ fut' = fut /\ Finish(q)
        /\ run' = [run EXCEPT ![Live].st = x]
    BY <1>7, <1>a DEF ClaimContinuation
  <2>2. fut[c] # "pending"
    BY <1>a, <1>b, <2>1 DEF Known
  <2>3. first => run[Live].st = "wait" /\ run[Live].b = c
    OBVIOUS
  <2>4. Live \in Runs
    BY DEF Runs
  <2>5. Answering'
    <3>1. req'[q].st \in Plain /\ \A p \in Requests : p # q => req'[p] = req[p]
      BY <1>0, <2>1, RequestMoved DEF Plain
    <3> QED BY <1>g, <3>1
  <2>6. x = IF first THEN "woken" ELSE run[Live].st
    OBVIOUS
  <2> HIDE DEF first, x
  <2>7. /\ run'[Live].st = x /\ run'[Live].b = run[Live].b /\ run'[Live].dec = run[Live].dec
        /\ \A p \in Runs : p # Live => run'[p] = run[p]
    BY <1>0, <2>1, <2>4, RunMoved
  <2>8. CASE first
    <3>1. PICK k : k = run[Live]
      OBVIOUS
    <3>2. PICK y : y = run'[Live]
      OBVIOUS
    <3>3. y.st = "woken" /\ y.b = c /\ k.b = c /\ y.dec = k.dec /\ k.st = "wait"
      BY <2>3, <2>6, <2>7, <2>8, <3>1, <3>2
    <3>4. Standing(k)
      BY <1>0, <2>4, <3>1, <3>3 DEF Runners
    <3>5. Standing(y)
      BY <2>2, <3>3, <3>4 DEF Standing, AtCard, Executing
    <3>6. Standing(y)'
      BY <1>e, <2>1, <3>5 DEF Standing, Permitted, Past, Canceled, Told, Audited, Backed, A2A
    <3>7. \A p \in Runs : run'[p] = run[p] \/ run'[p].st = "none" \/ Standing(run[p])'
      BY <2>7, <3>2, <3>6
    <3> QED BY <1>0, <1>e, <1>f, <2>5, <3>7, RunnersKept
  <2>9. CASE ~first
    <3>1. run' = run
      BY <1>0, <2>1, <2>4, <2>6, <2>9 DEF TypeOK, RunState
    <3> QED BY <1>f, <1>h, <2>5, <3>1
  <2> QED BY <2>8, <2>9
<1> QED BY <1>f, <1>1, <1>2, <1>3, <1>4, <1>5, <1>6, <1>7 DEF LiveAnswer

\* A restored run starts from an audited decision and the frame of its card.
LEMMA RestoredStands ==
  ASSUME Typed, DInv, Orderly, NEW q \in Requests, NEW c \in Boundaries, c = req[q].b,
         StartRestored(q), Audited(c), Backed(c), rec'[c].phase \notin Resident, ~Canceled(c)'
  PROVE Standing(run[q])' /\ \A p \in Runs : p # q => run'[p] = run[p]
<1>0. History /\ TypeOK /\ q \in Runs /\ Sound(rec[c])
  BY DEF DInv, Typed, AllSound, Runs
<1>1. PICK y : y = [st |-> "restored", b |-> c, root |-> c, dec |-> frame[c]]
  OBVIOUS
<1>2. y.st = "restored" /\ y.b = c /\ y.dec = frame[c]
  BY <1>1
<1>3. run'[q] = y /\ \A p \in Runs : p # q => run'[p] = run[p]
  BY <1>0, <1>1 DEF StartRestored, TypeOK
<1>4. \A i \in Boundaries :
          /\ Decided(rec[i]) => Decided(rec'[i])
          /\ Audited(i) => Audited(i)'
          /\ Backed(i) => Backed(i)'
          /\ Permitted(i) => Permitted(i)'
          /\ rec[i].phase = "RESOLVED" => rec'[i].phase = "RESOLVED"
  BY AllKept
<1>5. Audited(c)' /\ Backed(c)' /\ Past(c)'
  BY <1>4 DEF Past, Audited
<1>6. \A i \in Boundaries : y.dec[i] = "allow" => i < c /\ Permitted(i)' /\ rec'[i].phase = "RESOLVED"
  BY <1>0, <1>2, <1>4 DEF History
<1>7. rec[c].phase # "ABSENT"
  BY <1>0 DEF Audited, Decided, Sound
<1>8. \A i \in Boundaries : i < c => Decided(rec'[i])
  BY <1>0, <1>4, <1>7 DEF History
<1>9. \A i \in Boundaries : y.dec[i] = "allow" => i <= y.b
  BY <1>2, <1>6 DEF Boundaries
<1>10. Standing(y)'
  BY <1>2, <1>5, <1>6, <1>8, <1>9 DEF Standing, AtCard, Executing
<1> QED BY <1>3, <1>10

\* The steps of an answer on the cold path.
LEMMA ColdKeeps ==
  ASSUME Typed, DInv, Exclusive, Orderly, NEW q \in Requests, ColdAnswer(q)
  PROVE Runners' /\ Answering' /\ History'
<1>0. Futures /\ Runners /\ Answering /\ Listing /\ History /\ TypeOK /\ q \in Runs
  BY DEF DInv, Typed, Runs
<1>a. PICK c \in Boundaries : c = req[q].b
  BY <1>0, TypeFacts
<1>b. Known(req[q])
  BY <1>0 DEF Answering
<1>c. /\ Decided(rec[c]) => Decided(rec'[c])
      /\ Audited(c) => Audited(c)'
      /\ Backed(c) => Backed(c)'
  BY AllKept
<1>d. Sound(rec[c]) /\ DOMAIN rec = Boundaries
  BY <1>0, SMTT(60) DEF Typed, AllSound, TypeOK
<1>e. results' = results /\ ran' = ran /\ frame' = frame
  BY DEF ColdAnswer, LoadCheckpoint, ColdReconcile, ColdClaim, ColdAudit, AcquireRestore, Admit,
         RestoreBackedUp, RestoreBackupFails, BeginRestoration, AcquireTurn, ResumeBoundary,
         ResumeRefused, TerminateRestore
<1>f. History'
  BY <1>0, <1>e, KeepsHistory
<1>g. ASSUME \A p \in Requests : p # q => req'[p] = req[p],
             req'[q].st \in Plain \/ Known(req[q])'
      PROVE Answering'
  BY <1>0, <1>g, AnsweringKept
<1>h. run' = run => Runners'
  BY <1>0, <1>e, RunnersKept
<1>i. ASSUME Finish(q) \/ Goto(q, "reconcile") \/ Goto(q, "rclaim") \/ Goto(q, "raudit") \/ Goto(q, "run")
      PROVE Answering'
  <2>1. req'[q].st \in Plain /\ \A p \in Requests : p # q => req'[p] = req[p]
    BY <1>0, <1>i, RequestMoved DEF Plain
  <2> QED BY <1>g, <2>1
<1>j. ASSUME NEW x, Goto(q, x)
      PROVE req'[q].st = x /\ req'[q].b = c /\ \A p \in Requests : p # q => req'[p] = req[p]
  BY <1>0, <1>a, <1>j, RequestMoved
<1>1. CASE LoadCheckpoint(q) \/ ColdReconcile(q) \/ ColdClaim(q) \/ RestoreBackupFails(q)
  <2>1. /\ run' = run
        /\ Finish(q) \/ Goto(q, "reconcile") \/ Goto(q, "rclaim") \/ Goto(q, "raudit")
    BY <1>1 DEF LoadCheckpoint, ColdReconcile, ColdClaim, RestoreBackupFails
  <2> QED BY <1>f, <1>h, <1>i, <2>1
<1>2. ASSUME NEW ok \in BOOLEAN, ColdAudit(q, ok) PROVE Runners' /\ Answering' /\ History'
  <2>1. /\ rec' = [rec EXCEPT ![c] = Audit(rec[c], ok)] /\ Decided(rec[c]) /\ run' = run
        /\ Finish(q) \/ Goto(q, "restore")
    BY <1>2, <1>a DEF ColdAudit, CanAudit
  <2>2. Audit(rec[c], ok).audit \in {"recorded", "failed"}
    BY <1>d, <2>1, DecisionFacts
  <2>3. Audited(c)'
    BY <1>c, <1>d, <2>1, <2>2 DEF Audited
  <2>4. CASE Goto(q, "restore")
    <3>1. Known(req[q])'
      BY <1>j, <2>3, <2>4 DEF Known
    <3> QED BY <1>f, <1>g, <1>h, <1>j, <2>1, <2>4, <3>1
  <2> QED BY <1>f, <1>h, <1>i, <2>1, <2>4
<1>3. CASE AcquireRestore(q)
  <2>1. /\ req[q].st = "restore" /\ run' = run
        /\ Finish(q) \/ Goto(q, IF A2A THEN "admit" ELSE "begin")
    BY <1>3 DEF AcquireRestore
  <2>2. Audited(c)'
    BY <1>a, <1>b, <1>c, <2>1 DEF Known
  <2>3. CASE Goto(q, IF A2A THEN "admit" ELSE "begin")
    <3>1. req'[q].st = IF A2A THEN "admit" ELSE "begin"
      BY <1>j, <2>3
    <3>2. Known(req[q])'
      BY <1>j, <2>2, <2>3, <3>1 DEF Known, Backed, A2A
    <3> QED BY <1>f, <1>g, <1>h, <1>j, <2>1, <2>3, <3>2
  <2> QED BY <1>f, <1>h, <1>i, <2>1, <2>3
<1>4. CASE Admit(q)
  <2>1. req[q].st = "admit" /\ run' = run /\ (Finish(q) \/ Goto(q, "rbackup"))
    BY <1>4 DEF Admit
  <2>2. Audited(c)'
    BY <1>a, <1>b, <1>c, <2>1 DEF Known
  <2>3. CASE Goto(q, "rbackup")
    <3>1. Known(req[q])'
      BY <1>j, <2>2, <2>3 DEF Known
    <3> QED BY <1>f, <1>g, <1>h, <1>j, <2>1, <2>3, <3>1
  <2> QED BY <1>f, <1>h, <1>i, <2>1, <2>3
<1>5. CASE RestoreBackedUp(q)
  <2>1. /\ rec' = [rec EXCEPT ![c] = MarkBackedUp(rec[c])] /\ req[q].st = "rbackup" /\ run' = run
        /\ Goto(q, "begin")
    BY <1>5, <1>a DEF RestoreBackedUp
  <2>2. MarkBackedUp(rec[c]).backup = "committed"
    BY <1>d, DecisionFacts
  <2>3. Audited(c)'
    BY <1>a, <1>b, <1>c, <2>1 DEF Known
  <2>4. Backed(c)'
    BY <1>d, <2>1, <2>2 DEF Backed, A2A
  <2>5. Known(req[q])'
    BY <1>j, <2>1, <2>3, <2>4 DEF Known
  <2> QED BY <1>f, <1>g, <1>h, <1>j, <2>1, <2>5
<1>6. CASE BeginRestoration(q)
  <2> DEFINE again == Web /\ rec[c].phase = "RESTORING"
             ok == again \/ CanBeginRestore(rec[c])
             new == IF again THEN rec[c] ELSE BeginRestore(rec[c])
  <2>1. /\ req[q].st = "begin"
        /\ ok => rec' = [rec EXCEPT ![c] = new] /\ Goto(q, IF A2A THEN "run" ELSE "turn")
        /\ ~ok => Finish(q)
    BY <1>6, <1>a DEF BeginRestoration
  <2>2. IF ok /\ A2A THEN StartRestored(q) ELSE run' = run
    BY <1>6, <1>a DEF BeginRestoration
  <2>3. ok => new.phase = "RESTORING"
    BY <1>d, EndFacts DEF CanBeginRestore
  <2>4. Audited(c) /\ Backed(c)
    BY <1>a, <1>b, <2>1 DEF Known
  <2> HIDE DEF ok, new
  <2>5. ok => rec'[c].phase = "RESTORING"
    BY <1>d, <2>1, <2>3
  <2>6. CASE ~ok
    BY <1>f, <1>h, <1>i, <2>1, <2>2, <2>6
  <2>7. CASE ok /\ A2A
    <3>1. StartRestored(q) /\ Goto(q, "run") /\ rec'[c].phase = "RESTORING"
      BY <2>1, <2>2, <2>5, <2>7
    <3>2. Standing(run[q])' /\ \A p \in Runs : p # q => run'[p] = run[p]
      BY <1>a, <2>4, <3>1, RestoredStands DEF Resident, Canceled
    <3>3. \A p \in Runs : run'[p] = run[p] \/ run'[p].st = "none" \/ Standing(run[p])'
      BY <3>2
    <3> QED BY <1>0, <1>e, <1>f, <1>i, <3>1, <3>3, RunnersKept
  <2>8. CASE ok /\ ~A2A
    <3>1. run' = run /\ Goto(q, "turn") /\ rec'[c].phase = "RESTORING"
      BY <2>1, <2>2, <2>5, <2>8
    <3>2. Known(req[q])'
      BY <1>c, <1>j, <2>4, <3>1 DEF Known, Resident
    <3> QED BY <1>f, <1>g, <1>h, <1>j, <3>1, <3>2
  <2> QED BY <2>6, <2>7, <2>8
<1>7. CASE AcquireTurn(q)
  <2>1. Web /\ req[q].st = "turn" /\ StartRestored(q) /\ Goto(q, "run") /\ rec' = rec
    BY <1>7 DEF AcquireTurn
  <2>2. Audited(c) /\ rec[c].phase \notin Resident
    BY <1>a, <1>b, <2>1 DEF Known
  <2>3. Backed(c) /\ ~Canceled(c)
    BY <1>0, <2>1, <2>2 DEF Backed, A2A, Web, Listing, Audited
  <2>4. rec'[c].phase \notin Resident /\ ~Canceled(c)'
    BY <2>1, <2>2, <2>3 DEF Canceled
  <2>5. Standing(run[q])' /\ \A p \in Runs : p # q => run'[p] = run[p]
    BY <1>a, <2>1, <2>2, <2>3, <2>4, RestoredStands
  <2>6. \A p \in Runs : run'[p] = run[p] \/ run'[p].st = "none" \/ Standing(run[p])'
    BY <2>5
  <2> QED BY <1>0, <1>e, <1>f, <1>i, <2>1, <2>6, RunnersKept
<1>8. ASSUME NEW ok \in BOOLEAN, ResumeBoundary(q, ok) PROVE Runners' /\ Answering' /\ History'
  <2>1. PICK k \in Boundaries : k = run[q].b
    BY <1>0, TypeFacts
  <2> DEFINE d == IF rec[k].value = "allow_once" /\ ok THEN "allow" ELSE "deny"
  <2>2. run[q].st = "restored" /\ ~results /\ Advance(q, d) /\ req' = req
    BY <1>8, <2>1 DEF ResumeBoundary, CanonicalTail
  <2>3. Standing(run[q]) /\ Audited(k) /\ Backed(k) /\ Past(k) /\ ~Canceled(k)
    BY <1>0, <2>1, <2>2 DEF Runners, Standing
  <2>4. d = "allow" => Permitted(k)
    <3>1. Sound(rec[k])
      BY DEF Typed, AllSound
    <3> QED BY <2>3, <3>1 DEF Audited, Permitted, Sound
  <2>5. d \in {"allow", "deny"}
    OBVIOUS
  <2> HIDE DEF d
  <2>6. Standing(run[q])'
    BY <1>0, <1>e, <2>1, <2>2, <2>3, <2>4, <2>5, AdvanceStands
  <2>7. \A p \in Runs : p # q => run'[p] = run[p]
    BY <1>0, <2>2, Moves
  <2>8. \A p \in Runs : run'[p] = run[p] \/ run'[p].st = "none" \/ Standing(run[p])'
    BY <2>6, <2>7
  <2> QED BY <1>0, <1>e, <1>f, <2>2, <2>8, RunnersKept, AnsweringKept
<1>9. CASE ResumeRefused(q) \/ TerminateRestore(q)
  <2>1. EndRun(q) /\ Finish(q)
    BY <1>9 DEF ResumeRefused, TerminateRestore
  <2>2. \A p \in Runs : run'[p] = run[p] \/ run'[p].st = "none"
    BY <1>0, <2>1 DEF EndRun, NoRun, TypeOK
  <2> QED BY <1>0, <1>e, <1>f, <1>i, <2>1, <2>2, RunnersKept
<1> QED BY <1>1, <1>2, <1>3, <1>4, <1>5, <1>6, <1>7, <1>8, <1>9 DEF ColdAnswer

\* Every step keeps the invariant.
LEMMA StepKeeps ==
  ASSUME Typed, DInv, Exclusive, [Next]_vars PROVE DInv'
<1>0. Futures /\ Runners /\ Answering /\ Listing /\ History /\ TypeOK
  BY DEF DInv, Typed
<1>a. Orderly
  BY StepOrderly
<1>b. Futures' /\ Listing'
  BY <1>0, <1>a, KeepsFutures, KeepsListing
<1>1. ASSUME NEW q \in Requests, Submit(q) PROVE Runners' /\ Answering' /\ History'
  <2>1. PICK b \in Boundaries, v \in Answers : SubmitA2A(q, b, v) \/ SubmitWeb(q, b, v)
    BY <1>1 DEF Submit
  <2>2. run' = run /\ rec' = rec /\ results' = results /\ ran' = ran /\ frame' = frame
    BY <2>1 DEF SubmitA2A, SubmitWeb
  <2>3. PICK x : req' = [req EXCEPT ![q] = [st |-> x, b |-> b, v |-> v, id |-> owner[b].id,
                                            phase |-> "ABSENT"]]
                 /\ \/ x \in {"lock", "load", "reconcile"}
                    \/ /\ x = "restore" /\ Web /\ reg[b] = "none" /\ Decided(rec[b])
                       /\ rec[b].phase # "RESOLVED"
    BY <2>1 DEF SubmitA2A, SubmitWeb
  <2>4. req'[q].st = x /\ req'[q].b = b /\ \A p \in Requests : p # q => req'[p] = req[p]
    BY <1>0, <2>3 DEF TypeOK
  <2>5. x = "restore" => Audited(b)'
    <3>1. Sound(rec[b])
      BY DEF Typed, AllSound
    <3>2. x = "restore" => rec[b].phase \in ActivePhases
      BY <1>0, <2>3, <3>1 DEF Listing, Canceled, Sound, Record, Phases, Decided
    <3>3. x = "restore" => Audited(b)
      BY <1>0, <2>3, <3>2 DEF Listing
    <3> QED BY <2>2, <3>3 DEF Audited
  <2>6. req'[q].st \in Plain \/ Known(req[q])'
    BY <2>3, <2>4, <2>5 DEF Plain, Known
  <2>7. \A p \in Requests : req'[p] = req[p] \/ req'[p].st \in Plain \/ Known(req[p])'
    BY <2>4, <2>6
  <2> QED BY <1>0, <1>a, <2>2, <2>7, RunnersKept, AnsweringKept, KeepsHistory
<1>2. ASSUME NEW stop \in BOOLEAN, InterruptSession(stop) PROVE Runners' /\ Answering' /\ History'
  <2>1. PICK rs : EndRuns(rs)
    BY <1>2 DEF InterruptSession
  <2>2. results' = results /\ ran' = ran /\ frame' = frame
    BY <1>2 DEF InterruptSession
  <2>3. \A p \in Runs : run'[p] = run[p] \/ run'[p].st = "none"
    BY <2>1 DEF EndRuns, NoRun
  <2>4. \A q \in Requests : req'[q] = req[q] \/ req'[q].st \in Plain
    BY <2>1 DEF EndRuns, NoRequest, Plain
  <2> QED BY <1>0, <1>a, <2>2, <2>3, <2>4, RunnersKept, AnsweringKept, KeepsHistory
<1>3. ASSUME Crash PROVE Runners' /\ Answering' /\ History'
  <2>1. results' = results /\ ran' = ran /\ frame' = frame
    BY <1>3 DEF Crash
  <2>2. \A p \in Runs : run'[p].st = "none"
    BY <1>3 DEF Crash, NoRun
  <2>3. \A q \in Requests : req'[q] = req[q] \/ req'[q].st \in Plain
    BY <1>3 DEF Crash, NoRequest, Plain
  <2> QED BY <1>0, <1>a, <2>1, <2>2, <2>3, RunnersKept, AnsweringKept, KeepsHistory
<1>4. ASSUME UNCHANGED vars PROVE Runners' /\ Answering' /\ History'
  <2>1. run' = run /\ req' = req /\ results' = results /\ ran' = ran /\ frame' = frame
    BY <1>4 DEF vars
  <2> QED BY <1>0, <1>a, <2>1, RunnersKept, AnsweringKept, KeepsHistory
<1>5. Runners' /\ Answering' /\ History'
  BY <1>a, <1>1, <1>2, <1>3, <1>4, RunKeeps, BoundaryKeeps, LiveKeeps, ColdKeeps DEF Next
<1> QED BY <1>b, <1>5 DEF DInv

\* The invariant holds initially: only the run that opened the batch exists.
LEMMA InitDInv == Init => DInv
<1> SUFFICES ASSUME Init PROVE DInv
  OBVIOUS
<1>1. \A b \in Boundaries : rec[b] = Absent /\ frame[b] = Undecided /\ fut[b] = "none"
  BY DEF Init
<1>2. Absent.phase = "ABSENT" /\ Absent.status = "none"
  BY DEF Absent
<1>3. Futures
  BY <1>1 DEF Futures
<1>4. Answering
  BY DEF Init, NoRequest, Answering, Known
<1>5. Listing
  BY <1>1, <1>2 DEF Listing, Canceled, ActivePhases
<1>6. History
  BY <1>1, <1>2 DEF Init, History, Undecided
<1>7. Runners
  <2> SUFFICES ASSUME NEW r \in Runs, run[r].st # "none" PROVE Standing(run[r])
    BY DEF Runners
  <2>1. NoRun \in RunState /\ NoRun.st = "none" /\ NoRun.b = 1 /\ NoRun.dec = Undecided
    BY FreshFacts DEF NoRun
  <2>2. r = Live /\ run[r] = [NoRun EXCEPT !.st = "open"]
    BY <2>1 DEF Init
  <2>3. run[r].st = "open" /\ run[r].b = 1 /\ run[r].dec = Undecided
    BY <2>1, <2>2 DEF RunState
  <2>4. \A i \in Boundaries : ~(i < 1) /\ i + 1 # 1
    BY DEF Boundaries
  <2>5. ~results
    BY DEF Init
  <2> QED BY <2>3, <2>4, <2>5 DEF Standing, Undecided, AtCard, Executing
<1> QED BY <1>3, <1>4, <1>5, <1>6, <1>7 DEF DInv

LEMMA DecisionsInvariant == Spec => [](Typed /\ Exclusive /\ DInv)
<1>1. Init => Exclusive
  BY ConstantsAssumption
     DEF Init, Exclusive, NoRun, NoRequest, Runs, Admitted, ForeignSteps
<1>2. Typed /\ Exclusive /\ [Next]_vars => Exclusive'
  BY StepExclusive DEF Typed
<1>3. Typed /\ Exclusive /\ DInv /\ [Next]_vars => DInv'
  BY StepKeeps
<1> QED BY <1>1, <1>2, <1>3, InitDInv, TypedInvariant, PTL DEF Spec

-----------------------------------------------------------------------------
(* The theorems.                                                           *)

\* A tool runs only on a durable, audited allow, on A2A only once it is backed
\* up, however many cards, restarts and restorations lie between the decision
\* (_claim_live_and_deliver, resume_permission_boundary) and the execution of
\* the batch by agent_loop.  The surface is the one the session is served on.
THEOREM Permission == Spec /\ [](surface = Surface) => []ServedExecutedWithPermission
<1>1. DInv /\ surface = Surface => ServedExecutedWithPermission
  <2> SUFFICES ASSUME DInv, surface = Surface PROVE ServedExecutedWithPermission
    OBVIOUS
  <2>1. \A b \in ran : Permitted(b)
    BY DEF DInv, History
  <2>2. ExecutedWithPermission
    BY <2>1 DEF ExecutedWithPermission, Permitted, Backed
  <2>3. surface # "a2a" => WebSide!ExecutedWithPermission
    BY <2>1 DEF WebSide!ExecutedWithPermission, WebSide!A2A, WebSide!Decided, Permitted, Decided
  <2> QED BY <2>2, <2>3 DEF ServedExecutedWithPermission
<1> QED BY <1>1, DecisionsInvariant, PTL

\* What a run is told agrees with its checkpoint, and no decision is marked
\* applied behind the back of the run that waits (_claim_live_and_deliver).
THEOREM Outcome == Spec => []OutcomesAgree
<1>1. Typed /\ DInv => OutcomesAgree
  <2> SUFFICES ASSUME Typed, DInv PROVE OutcomesAgree
    OBVIOUS
  <2>1. ASSUME NEW r \in Runs, run[r].st \in {"wait", "woken"}
        PROVE LET b == run[r].b IN
              /\ fut[b] = "allow" => Decided(rec[b]) /\ rec[b].value = "allow_once"
              /\ fut[b] = "deny" => Decided(rec[b]) /\ rec[b].value = "deny"
              /\ fut[b] = "suspend" => rec[b].phase \notin {"WAITING", "TIMEOUT_GRACE"}
    <3>1. PICK c \in Boundaries : c = run[r].b
      BY TypeFacts DEF Typed
    <3>2. Standing(run[r]) /\ AtCard(run[r])
      BY <2>1 DEF DInv, Runners, AtCard
    <3>3. fut[c] \in {"allow", "deny"} => Told(c)
      BY <3>1, <3>2 DEF Standing, DInv, Futures
    <3>4. fut[c] = "suspend" => rec[c].phase \notin Resident
      BY DEF DInv, Futures
    <3> QED BY <3>1, <3>3, <3>4 DEF Told, Audited, Resident
  <2>2. OutcomeMatchesRecord
    BY <2>1 DEF OutcomeMatchesRecord
  <2>3. AppliedWasDelivered
    <3>1. \A r \in Runs : run[r].b \in Boundaries
      BY TypeFacts DEF Typed
    <3> QED BY <3>1 DEF AppliedWasDelivered, DInv, Futures
  <2> QED BY <2>2, <2>3 DEF OutcomesAgree
<1> QED BY <1>1, DecisionsInvariant, PTL

\* Nobody acts on a canceled card: whatever cancel_task, an interrupt, a failed
\* backup or a terminated restoration cancels, no run holds an allow for it.
THEOREM Cancellation == Spec => []CanceledIsNotActedOn
<1>1. Typed /\ DInv => CanceledIsNotActedOn
  <2> SUFFICES ASSUME Typed, DInv, NEW r \in Runs, NEW b \in Boundaries, rec[b].phase = "CANCELED",
                      run[r].st # "none", run[r].dec[b] = "allow"
               PROVE FALSE
    BY DEF CanceledIsNotActedOn
  <2>1. Standing(run[r])
    BY DEF DInv, Runners
  <2>2. PICK c \in Boundaries : c = run[r].b
    BY TypeFacts DEF Typed
  <2>3. /\ b <= c /\ (~Executing(run[r]) => b < c)
        /\ ~(b < c /\ (run[r].st # "open" \/ b + 1 < c))
        /\ ~(run[r].st = "open" /\ b + 1 = c) /\ ~(Executing(run[r]) /\ b = c)
    BY <2>1, <2>2 DEF Standing, Canceled
  <2>4. b < c \/ b = c
    BY <2>3 DEF Boundaries
  <2>5. b < c => b + 1 < c \/ b + 1 = c
    BY DEF Boundaries
  <2> QED BY <2>3, <2>4, <2>5
<1> QED BY <1>1, DecisionsInvariant, PTL

\* What is finished stays so: no late handler opens or seals a receipt or a
\* cancellation again, and no run executes a batch whose results are persisted.
THEOREM Finality == Spec => FinishedIsFinal
<1>1. Typed /\ Exclusive /\ DInv /\ [Next]_vars =>
        [\A b \in Boundaries : rec[b].phase \in {"RESOLVED", "CANCELED"}
                                 => rec'[b].phase = rec[b].phase]_vars
  BY StepOrderly DEF Orderly, OrderlyAt
<1>2. Typed /\ Exclusive /\ DInv /\ [Next]_vars =>
        [ran' # ran \/ (\E r \in Runs : run[r].st = "exec" /\ run'[r].st = "persist")
           => ~results]_vars
  <2> SUFFICES ASSUME Typed, Exclusive, DInv, [Next]_vars,
                      ran' # ran \/ (\E r \in Runs : run[r].st = "exec" /\ run'[r].st = "persist")
               PROVE ~results
    OBVIOUS
  <2>1. ran' # ran => \E r \in Runs : run[r].st = "exec"
    <3>1. ASSUME NEW r \in Runs, RunStep(r), ran' # ran PROVE run[r].st = "exec"
      BY <3>1 DEF RunStep, OpenBoundary, ActivateBoundary, OpenBackupFails, TakeOutcome, Unwind,
         Execute, Persist, Conclude, RunFails
    <3>2. ASSUME NEW b \in Boundaries, BoundaryStep(b) PROVE ran' = ran
      BY <3>2 DEF BoundaryStep, RebuildCard, Tick, TimerFires, TimerLost, TimerRearmed, CancelTask
    <3>3. ASSUME NEW q \in Requests, Submit(q) \/ LiveAnswer(q) PROVE ran' = ran
      BY <3>3, ZenonT(60) DEF Submit, SubmitA2A, SubmitWeb, LiveAnswer, ClaimReconcile, ClaimDecision,
         ClaimAudit, ClaimBackedUp, DeliveryFails, Deliver, ClaimContinuation, OwnerUnwound
    <3>4. ASSUME NEW q \in Requests, ColdAnswer(q) PROVE ran' = ran
      BY <3>4 DEF ColdAnswer, LoadCheckpoint, ColdReconcile, ColdClaim, ColdAudit, AcquireRestore,
         Admit, RestoreBackedUp, RestoreBackupFails, BeginRestoration, AcquireTurn, ResumeBoundary,
         ResumeRefused, TerminateRestore
    <3>5. ASSUME (\E stop \in BOOLEAN : InterruptSession(stop)) \/ Crash \/ UNCHANGED vars
          PROVE ran' = ran
      BY <3>5 DEF InterruptSession, Crash, vars
    <3> QED BY <3>1, <3>2, <3>3, <3>4, <3>5, SMTT(60) DEF Next
  <2>2. PICK r \in Runs : run[r].st = "exec"
    BY <2>1
  <2> QED BY <2>2 DEF DInv, Runners, Standing
<1> QED BY <1>1, <1>2, DecisionsInvariant, PTL
        DEF Spec, FinishedIsFinal, ReceiptsAreFinal, NoRerunAfterResults

-----------------------------------------------------------------------------
(* The order of the cards.                                                  *)

\* A transaction that neither opens nor resolves a card, and makes no wait
\* resident again.
Still(r, s) ==
  /\ s.phase = "RESOLVED" => r.phase = "RESOLVED"
  /\ s.phase = "ABSENT" <=> r.phase = "ABSENT"
  /\ s.phase \in Resident => r.phase \in Resident

AllStill == \A b \in Boundaries : Still(rec[b], rec'[b])

LEMMA StillTrans ==
  ASSUME NEW r, NEW s, NEW t, Still(r, s), Still(s, t) PROVE Still(r, t)
  BY DEF Still

\* reconcile_deadline resolves nothing, and a live, answered wait stays resident.
LEMMA StillReconcile ==
  ASSUME NEW r, Sound(r), NEW x, NEW y, NEW live \in BOOLEAN, NEW allow
  PROVE LET s == Reconcile(r, x, y, live, allow) IN
        /\ Still(r, s)
        /\ live /\ Decided(r) /\ r.phase \in Resident => s.phase \in Resident
<1> DEFINE Good(s) == /\ Still(r, s)
                      /\ live /\ Decided(r) /\ r.phase \in Resident => s.phase \in Resident
<1>0. r \in Record
  BY DEF Sound
<1>1. ASSUME NEW p \in {"TIMEOUT_GRACE", "SUSPENDING", "SUSPENDED"}
      PROVE /\ Enter(r, p).phase = p
            /\ [Enter(r, p) EXCEPT !.graceDeadline = TRUE].phase = p
  <2>1. Enter(r, p) \in Record /\ Enter(r, p).phase = p
    BY <1>0, EnterFacts DEF Phases, ActivePhases
  <2>2. ASSUME NEW e \in Record PROVE [e EXCEPT !.graceDeadline = TRUE].phase = e.phase
    BY DEF Record
  <2> QED BY <2>1, <2>2
<1>2. ASSUME NEW s, s.phase \in {"SUSPENDING", "SUSPENDED"},
             r.phase \in {"WAITING", "TIMEOUT_GRACE", "SUSPENDING"}, ~live \/ ~Decided(r)
      PROVE Good(s)
  BY <1>2 DEF Still, Resident
<1>3. ASSUME NEW s, s.phase = "TIMEOUT_GRACE", r.phase = "WAITING" PROVE Good(s)
  BY <1>3 DEF Still, Resident
<1> DEFINE s == Reconcile(r, x, y, live, allow)
<1>4. CASE ~live /\ r.phase \in {"WAITING", "TIMEOUT_GRACE", "SUSPENDING"}
  <2>1. s = Enter(r, "SUSPENDED")
    BY <1>4 DEF Reconcile
  <2> QED BY <1>1, <1>2, <1>4, <2>1
<1>5. CASE live /\ r.phase = "WAITING" /\ HasResident /\ x
  <2>1. \/ s = [Enter(r, "SUSPENDING") EXCEPT !.graceDeadline = TRUE] /\ ~Decided(r)
        \/ s = [Enter(r, "TIMEOUT_GRACE") EXCEPT !.graceDeadline = TRUE]
    <3>1. s = [IF r.status = "none" /\ GraceZero /\ allow
                 THEN Enter(r, "SUSPENDING") ELSE Enter(r, "TIMEOUT_GRACE")
               EXCEPT !.graceDeadline = TRUE]
      BY <1>5 DEF Reconcile, Expired
    <3> HIDE DEF s
    <3>2. CASE r.status = "none" /\ GraceZero /\ allow
      BY <3>1, <3>2 DEF Decided
    <3>3. CASE ~(r.status = "none" /\ GraceZero /\ allow)
      BY <3>1, <3>3
    <3> QED BY <3>2, <3>3
  <2> HIDE DEF s
  <2>2. (s.phase = "SUSPENDING" /\ ~Decided(r)) \/ s.phase = "TIMEOUT_GRACE"
    BY <1>1, <2>1
  <2>3. Good(s)
    BY <1>2, <1>3, <1>5, <2>2
  <2> QED BY <2>3 DEF s
<1>6. CASE live /\ r.phase = "TIMEOUT_GRACE" /\ allow /\ r.status = "none" /\ r.graceDeadline /\ y
  <2>1. s = Enter(r, "SUSPENDING") /\ ~Decided(r)
    BY <1>6 DEF Reconcile, Expired, Decided
  <2> HIDE DEF s
  <2>2. Good(s)
    BY <1>1, <1>2, <1>6, <2>1
  <2> QED BY <2>2 DEF s
<1>7. CASE /\ ~(~live /\ r.phase \in {"WAITING", "TIMEOUT_GRACE", "SUSPENDING"})
           /\ ~(live /\ r.phase = "WAITING" /\ HasResident /\ x)
           /\ ~(live /\ r.phase = "TIMEOUT_GRACE" /\ allow /\ r.status = "none"
                /\ r.graceDeadline /\ y)
  <2>1. s = r
    BY <1>7 DEF Reconcile
  <2> HIDE DEF s
  <2>2. Good(s)
    BY <2>1 DEF Still
  <2> QED BY <2>2 DEF s
<1> QED BY <1>4, <1>5, <1>6, <1>7

\* The transactions that answer, cancel or restore a card.
LEMMA StillFacts ==
  ASSUME NEW r, Sound(r)
  PROVE /\ Still(r, r)
        /\ r.phase # "ABSENT" => Still(r, Cancel(r))
        /\ \A o : Still(r, AfterUnregister(r, o))
        /\ CanBeginRestore(r) => Still(r, BeginRestore(r)) /\ BeginRestore(r).phase = "RESTORING"
        /\ \A v \in Values : CanClaim(r, v) => Claim(r, v).phase = r.phase
        /\ MarkBackedUp(r).phase = r.phase
<1>0. r \in Record
  BY DEF Sound
<1>1. \A p \in Phases : Enter(r, p).phase = p
  BY <1>0, EnterFacts
<1>2. Still(r, r)
  BY DEF Still
<1>3. r.phase # "ABSENT" => Still(r, Cancel(r))
  <2>1. Cancel(r).phase = "CANCELED"
    BY EndFacts
  <2> QED BY <2>1 DEF Still, Resident
<1>4. ASSUME NEW o PROVE Still(r, AfterUnregister(r, o))
  <2>1. AfterUnregister(r, o) = r \/ (r.phase = "SUSPENDING" /\ AfterUnregister(r, o) = Enter(r, "SUSPENDED"))
    BY DEF AfterUnregister, MarkSuspended
  <2>2. Enter(r, "SUSPENDED").phase = "SUSPENDED"
    BY <1>1 DEF Phases, ActivePhases
  <2> QED BY <2>1, <2>2 DEF Still, Resident
<1>5. CanBeginRestore(r) => Still(r, BeginRestore(r)) /\ BeginRestore(r).phase = "RESTORING"
  BY EndFacts DEF Still, Resident, CanBeginRestore
<1>6. ASSUME NEW e \in Record
      PROVE /\ \A p : [e EXCEPT !.status = p].phase = e.phase
            /\ \A p : [e EXCEPT !.value = p].phase = e.phase
            /\ \A p : [e EXCEPT !.audit = p].phase = e.phase
            /\ \A p : [e EXCEPT !.backup = p].phase = e.phase
  BY DEF Record
<1>7. Bump(r) \in Record /\ Bump(r).phase = r.phase
  BY <1>0, BumpFacts
<1>8. MarkBackedUp(r).phase = r.phase
  BY <1>6, <1>7 DEF MarkBackedUp
<1>9. ASSUME NEW v \in Values, CanClaim(r, v) PROVE Claim(r, v).phase = r.phase
  <2>1. CASE Decided(r)
    BY <2>1 DEF Claim
  <2>2. CASE ~Decided(r)
    <3> DEFINE s == Bump(r)
               s1 == [s EXCEPT !.status = "claimed"]
               s2 == [s1 EXCEPT !.value = v]
               s3 == [s2 EXCEPT !.audit = "pending"]
               s4 == [s3 EXCEPT !.backup = "pending"]
    <3>1. Claim(r, v) = s4
      BY <2>2 DEF Claim
    <3> HIDE DEF s
    <3>2. s \in Record /\ s.phase = r.phase
      BY <1>7 DEF s
    <3>3. s1 \in Record /\ s1.phase = s.phase
      BY <3>2, <1>6, Fields
    <3> HIDE DEF s1
    <3>4. s2 \in Record /\ s2.phase = s1.phase
      BY <3>3, <1>6, Fields
    <3> HIDE DEF s2
    <3>5. s3 \in Record /\ s3.phase = s2.phase
      BY <3>4, <1>6, Fields
    <3> HIDE DEF s3
    <3>6. s4.phase = s3.phase
      BY <3>5, <1>6
    <3> QED BY <3>1, <3>2, <3>3, <3>4, <3>5, <3>6
  <2> QED BY <2>1, <2>2
<1> QED BY <1>2, <1>3, <1>4, <1>5, <1>8, <1>9

\* The same for the checkpoints of a state.
LEMMA StillBasics ==
  ASSUME Typed
  PROVE \A b \in Boundaries :
          /\ Sound(rec[b]) /\ Still(rec[b], rec[b])
          /\ rec[b].phase # "ABSENT" => Still(rec[b], Cancel(rec[b]))
          /\ \A o : Still(rec[b], AfterUnregister(rec[b], o))
          /\ \A live \in BOOLEAN : \A allow :
               /\ Still(rec[b], Reconciled(b, live, allow))
               /\ live /\ Decided(rec[b]) /\ rec[b].phase \in Resident
                    => Reconciled(b, live, allow).phase \in Resident
          /\ Sound(Reconciled(b, FALSE, TRUE))
<1> SUFFICES ASSUME NEW b \in Boundaries
             PROVE /\ Sound(rec[b]) /\ Still(rec[b], rec[b])
                   /\ rec[b].phase # "ABSENT" => Still(rec[b], Cancel(rec[b]))
                   /\ \A o : Still(rec[b], AfterUnregister(rec[b], o))
                   /\ \A live \in BOOLEAN : \A allow :
                        /\ Still(rec[b], Reconciled(b, live, allow))
                        /\ live /\ Decided(rec[b]) /\ rec[b].phase \in Resident
                             => Reconciled(b, live, allow).phase \in Resident
                   /\ Sound(Reconciled(b, FALSE, TRUE))
  OBVIOUS
<1>1. Sound(rec[b])
  BY DEF Typed, AllSound
<1>2. ASSUME NEW live \in BOOLEAN, NEW allow
      PROVE /\ Still(rec[b], Reconciled(b, live, allow))
            /\ live /\ Decided(rec[b]) /\ rec[b].phase \in Resident
                 => Reconciled(b, live, allow).phase \in Resident
  BY <1>1, StillReconcile DEF Reconciled
<1>3. Sound(Reconciled(b, FALSE, TRUE))
  BY AdvancesReconciled DEF Advances, Typed
<1> QED BY <1>1, <1>2, <1>3, StillFacts

\* restore_permission_requests on top of such transactions.
LEMMA RelistStill ==
  ASSUME NEW R, NEW L, Relist(R, L), \A b \in Boundaries : Still(rec[b], R[b]) /\ Sound(R[b])
  PROVE AllStill
<1> SUFFICES ASSUME NEW b \in Boundaries PROVE Still(rec[b], rec'[b])
  BY DEF AllStill
<1> DEFINE t == Reconcile(R[b], FALSE, FALSE, FALSE, TRUE)
<1>1. Still(R[b], t)
  BY StillReconcile
<1>2. Still(rec[b], t)
  BY <1>1, StillTrans
<1> HIDE DEF t
<1>3. rec'[b] = t \/ rec'[b] = R[b]
  BY DEF Relist, t
<1> QED BY <1>2, <1>3

\* Only a run that opens a card or concludes, a re-issued card and the
\* termination of a restored run do more to a phase.
LEMMA RunStill ==
  ASSUME Typed, NEW r \in Runs, RunStep(r) PROVE AllStill \/ OpenBoundary(r) \/ Conclude(r)
<1>0. DOMAIN rec = Boundaries /\ run[r].b \in Boundaries
  BY TypeFacts DEF Typed, TypeOK
<1>a. \A b \in Boundaries :
        /\ Sound(rec[b]) /\ Still(rec[b], rec[b])
        /\ rec[b].phase # "ABSENT" => Still(rec[b], Cancel(rec[b]))
        /\ \A o : Still(rec[b], AfterUnregister(rec[b], o))
        /\ Still(rec[b], Reconciled(b, FALSE, TRUE)) /\ Sound(Reconciled(b, FALSE, TRUE))
  BY StillBasics
<1>1. ASSUME rec' = rec PROVE AllStill
  BY <1>1, <1>a DEF AllStill
<1>2. CASE ActivateBoundary(r) \/ Execute(r) \/ Persist(r)
  BY <1>1, <1>2 DEF ActivateBoundary, Execute, Persist
<1>3. CASE OpenBackupFails(r)
  <2>1. PICK c \in Boundaries : c = run[r].b
    BY <1>0
  <2>2. rec' = [rec EXCEPT ![c] = IF CanCancel(rec[c], FALSE) THEN Cancel(rec[c]) ELSE rec[c]]
    BY <1>3, <2>1 DEF OpenBackupFails
  <2>3. CanCancel(rec[c], FALSE) => rec[c].phase # "ABSENT"
    BY DEF CanCancel, ActivePhases
  <2>4. PICK new : new = IF CanCancel(rec[c], FALSE) THEN Cancel(rec[c]) ELSE rec[c]
    OBVIOUS
  <2>5. Still(rec[c], new)
    BY <1>a, <2>3, <2>4
  <2> QED BY <1>0, <1>a, <2>2, <2>4, <2>5 DEF AllStill
<1>4. CASE (\E ok \in BOOLEAN : TakeOutcome(r, ok)) \/ Unwind(r)
  <2>1. PICK c \in Boundaries : c = run[r].b
    BY <1>0
  <2>2. rec' = [rec EXCEPT ![c] = AfterUnregister(rec[c], owner[c])] \/ rec' = rec
    BY <1>4, <2>1 DEF TakeOutcome, Complete, Unwind
  <2>3. PICK new : new = AfterUnregister(rec[c], owner[c])
    OBVIOUS
  <2>4. Still(rec[c], new)
    BY <1>a, <2>3
  <2> QED BY <1>0, <1>a, <2>2, <2>3, <2>4 DEF AllStill
<1>5. CASE RunFails(r)
  <2> DEFINE root == run[r].root
             orphaned == IF Web /\ root = 0 THEN {i \in Boundaries : reg[i] # "none"} ELSE {}
             R == [i \in Boundaries |-> IF i = root \/ i \in orphaned
                                        THEN Reconciled(i, FALSE, TRUE) ELSE rec[i]]
  <2>1. rec' = R \/ Relist(R, reg)
    BY <1>5 DEF RunFails
  <2>2. \A i \in Boundaries : R[i] = Reconciled(i, FALSE, TRUE) \/ R[i] = rec[i]
    OBVIOUS
  <2> HIDE DEF R
  <2>3. \A i \in Boundaries : Still(rec[i], R[i]) /\ Sound(R[i])
    BY <1>a, <2>2
  <2> QED BY <2>1, <2>3, RelistStill DEF AllStill
<1> QED BY <1>2, <1>3, <1>4, <1>5 DEF RunStep

LEMMA BoundaryStill ==
  ASSUME Typed, NEW c \in Boundaries, BoundaryStep(c) PROVE AllStill \/ RebuildCard(c)
<1>0. DOMAIN rec = Boundaries
  BY TypeFacts DEF Typed
<1>a. \A b \in Boundaries :
        /\ Sound(rec[b]) /\ Still(rec[b], rec[b])
        /\ rec[b].phase # "ABSENT" => Still(rec[b], Cancel(rec[b]))
        /\ \A o : Still(rec[b], AfterUnregister(rec[b], o))
        /\ Still(rec[b], Reconciled(b, TRUE, TRUE))
  BY StillBasics
<1>1. CASE Tick(c) \/ TimerLost(c) \/ TimerRearmed(c)
  BY <1>1, <1>a DEF Tick, TimerLost, TimerRearmed, AllStill
<1>2. CASE TimerFires(c)
  <2>1. rec' = [rec EXCEPT ![c] = Reconciled(c, TRUE, TRUE)] \/ rec' = [rec EXCEPT ![c] = rec[c]]
    BY <1>2 DEF TimerFires
  <2> QED BY <1>0, <1>a, <2>1 DEF AllStill
<1>3. CASE CancelTask(c)
  <2> DEFINE o == owner[c]
             unreleased == fut[c] = "pending"
             owned == o.live /\ o.generation = rec[c].generation /\ CanCancel(rec[c], unreleased)
             claimed == o.live /\ ~owned /\ Decided(rec[c])
             canceled == IF owned THEN Cancel(rec[c])
                         ELSE IF ~claimed /\ CanCancel(rec[c], FALSE) THEN Cancel(rec[c]) ELSE rec[c]
             new == AfterUnregister(canceled, o)
  <2>1. rec' = [rec EXCEPT ![c] = new]
    BY <1>3 DEF CancelTask
  <2>2. \/ canceled = rec[c]
        \/ canceled = Cancel(rec[c]) /\ rec[c].phase # "ABSENT"
    BY DEF CanCancel, ActivePhases
  <2> HIDE DEF canceled
  <2>3. canceled = Cancel(rec[c]) => new = canceled
    <3>1. Cancel(rec[c]).phase = "CANCELED"
      BY <1>a, EndFacts
    <3> QED BY <3>1 DEF AfterUnregister
  <2>4. Still(rec[c], new)
    BY <1>a, <2>2, <2>3
  <2> HIDE DEF new
  <2> QED BY <1>0, <1>a, <2>1, <2>4 DEF AllStill
<1> QED BY <1>1, <1>2, <1>3 DEF BoundaryStep

LEMMA LiveStill ==
  ASSUME Typed, NEW q \in Requests, LiveAnswer(q) PROVE AllStill
<1>0. DOMAIN rec = Boundaries /\ req[q].b \in Boundaries /\ req[q].v \in Values
  BY TypeFacts DEF Typed
<1>a. \A b \in Boundaries :
        /\ Sound(rec[b]) /\ Still(rec[b], rec[b])
        /\ \A o : Still(rec[b], AfterUnregister(rec[b], o))
        /\ \A allow : Still(rec[b], Reconciled(b, TRUE, allow))
  BY StillBasics
<1>b. PICK c \in Boundaries : c = req[q].b
  BY <1>0
<1>c. ASSUME NEW new, rec' = [rec EXCEPT ![c] = new] \/ rec' = rec, Still(rec[c], new) PROVE AllStill
  BY <1>0, <1>a, <1>c DEF AllStill
<1>d. ASSUME NEW new, new.phase = rec[c].phase PROVE Still(rec[c], new)
  BY <1>d DEF Still
<1>1. ASSUME NEW allow \in BOOLEAN, ClaimReconcile(q, allow) PROVE AllStill
  <2>1. \/ rec' = [rec EXCEPT ![c] = Reconciled(c, TRUE, allow)]
        \/ rec' = [rec EXCEPT ![c] = AfterUnregister(rec[c], owner[c])]
        \/ rec' = rec
    BY <1>1, <1>b DEF ClaimReconcile, Refuse, Complete
  <2> QED BY <1>a, <1>c, <2>1
<1>2. CASE ClaimDecision(q)
  <2>1. \/ rec' = [rec EXCEPT ![c] = Claim(rec[c], req[q].v)] /\ CanClaim(rec[c], req[q].v)
        \/ rec' = [rec EXCEPT ![c] = AfterUnregister(rec[c], owner[c])]
        \/ rec' = rec
    BY <1>2, <1>b DEF ClaimDecision
  <2>2. CanClaim(rec[c], req[q].v) => Still(rec[c], Claim(rec[c], req[q].v))
    BY <1>0, <1>a, <1>d, StillFacts
  <2> QED BY <1>a, <1>c, <2>1, <2>2
<1>3. ASSUME NEW ok \in BOOLEAN, ClaimAudit(q, ok) PROVE AllStill
  <2>1. rec' = [rec EXCEPT ![c] = Audit(rec[c], ok)] /\ Decided(rec[c])
    BY <1>3, <1>b DEF ClaimAudit, CanAudit
  <2>2. Audit(rec[c], ok).phase = rec[c].phase
    BY <1>a, <2>1, DecisionFacts
  <2> QED BY <1>c, <1>d, <2>1, <2>2
<1>4. CASE ClaimBackedUp(q)
  <2>1. rec' = [rec EXCEPT ![c] = MarkBackedUp(rec[c])]
    BY <1>4, <1>b DEF ClaimBackedUp
  <2>2. MarkBackedUp(rec[c]).phase = rec[c].phase
    BY <1>a, StillFacts
  <2> QED BY <1>c, <1>d, <2>1, <2>2
<1>5. CASE DeliveryFails(q) \/ ClaimContinuation(q) \/ OwnerUnwound(q)
  BY <1>a, <1>5 DEF DeliveryFails, ClaimContinuation, OwnerUnwound, AllStill
<1>6. CASE Deliver(q)
  <2>1. rec' = [rec EXCEPT ![c] = rec[c]] \/ rec' = [rec EXCEPT ![c] = MarkApplied(rec[c])]
    BY <1>6, <1>b DEF Deliver
  <2>2. MarkApplied(rec[c]).phase = rec[c].phase
    BY <1>a, DecisionFacts
  <2> QED BY <1>a, <1>c, <1>d, <2>1, <2>2
<1> QED BY <1>1, <1>2, <1>3, <1>4, <1>5, <1>6 DEF LiveAnswer

LEMMA ColdStill ==
  ASSUME Typed, NEW q \in Requests, ColdAnswer(q) PROVE AllStill \/ TerminateRestore(q)
<1>0. DOMAIN rec = Boundaries /\ req[q].b \in Boundaries /\ req[q].v \in Values
  BY TypeFacts DEF Typed
<1>a. \A b \in Boundaries :
        /\ Sound(rec[b]) /\ Still(rec[b], rec[b])
        /\ Still(rec[b], Reconciled(b, FALSE, TRUE)) /\ Sound(Reconciled(b, FALSE, TRUE))
  BY StillBasics
<1>b. PICK c \in Boundaries : c = req[q].b
  BY <1>0
<1>c. ASSUME NEW new, rec' = [rec EXCEPT ![c] = new] \/ rec' = rec, Still(rec[c], new) PROVE AllStill
  BY <1>0, <1>a, <1>c DEF AllStill
<1>d. ASSUME NEW new, new.phase = rec[c].phase PROVE Still(rec[c], new)
  BY <1>d DEF Still
<1>1. CASE LoadCheckpoint(q) \/ AcquireRestore(q) \/ Admit(q) \/ RestoreBackupFails(q) \/ AcquireTurn(q)
           \/ (\E ok \in BOOLEAN : ResumeBoundary(q, ok))
  BY <1>a, <1>1 DEF LoadCheckpoint, AcquireRestore, Admit, RestoreBackupFails, AcquireTurn,
                    ResumeBoundary, AllStill
<1>2. CASE ColdReconcile(q)
  <2>1. rec' = [rec EXCEPT ![c] = Reconciled(c, FALSE, TRUE)]
    BY <1>2, <1>b DEF ColdReconcile
  <2> QED BY <1>a, <1>c, <2>1
<1>3. CASE ColdClaim(q)
  <2>1. \/ rec' = [rec EXCEPT ![c] = Claim(rec[c], req[q].v)] /\ CanClaim(rec[c], req[q].v)
        \/ rec' = [rec EXCEPT ![c] = rec[c]]
    BY <1>3, <1>b DEF ColdClaim
  <2>2. CanClaim(rec[c], req[q].v) => Still(rec[c], Claim(rec[c], req[q].v))
    BY <1>0, <1>a, <1>d, StillFacts
  <2> QED BY <1>a, <1>c, <2>1, <2>2
<1>4. ASSUME NEW ok \in BOOLEAN, ColdAudit(q, ok) PROVE AllStill
  <2>1. rec' = [rec EXCEPT ![c] = Audit(rec[c], ok)] /\ Decided(rec[c])
    BY <1>4, <1>b DEF ColdAudit, CanAudit
  <2>2. Audit(rec[c], ok).phase = rec[c].phase
    BY <1>a, <2>1, DecisionFacts
  <2> QED BY <1>c, <1>d, <2>1, <2>2
<1>5. CASE RestoreBackedUp(q)
  <2>1. rec' = [rec EXCEPT ![c] = MarkBackedUp(rec[c])]
    BY <1>5, <1>b DEF RestoreBackedUp
  <2>2. MarkBackedUp(rec[c]).phase = rec[c].phase
    BY <1>a, StillFacts
  <2> QED BY <1>c, <1>d, <2>1, <2>2
<1>6. CASE BeginRestoration(q)
  <2> DEFINE again == Web /\ rec[c].phase = "RESTORING"
             ok == again \/ CanBeginRestore(rec[c])
             new == IF again THEN rec[c] ELSE IF ok THEN BeginRestore(rec[c])
                    ELSE IF Web THEN Reconciled(c, FALSE, TRUE) ELSE rec[c]
  <2>1. \/ ok /\ rec' = [rec EXCEPT ![c] = new]
        \/ ~ok /\ Relist([rec EXCEPT ![c] = new], reg)
    BY <1>6, <1>b DEF BeginRestoration
  <2>2. CanBeginRestore(rec[c]) => Still(rec[c], BeginRestore(rec[c]))
    BY <1>a, StillFacts
  <2>3. \/ new = rec[c] \/ new = Reconciled(c, FALSE, TRUE)
        \/ new = BeginRestore(rec[c]) /\ CanBeginRestore(rec[c])
    BY DEF CanBeginRestore
  <2>4. ~ok => new = rec[c] \/ new = Reconciled(c, FALSE, TRUE)
    OBVIOUS
  <2> HIDE DEF new, ok
  <2>5. Still(rec[c], new)
    BY <1>a, <2>2, <2>3
  <2>6. CASE rec' = [rec EXCEPT ![c] = new]
    BY <1>c, <2>5, <2>6
  <2>7. CASE ~ok /\ Relist([rec EXCEPT ![c] = new], reg)
    <3> DEFINE R == [rec EXCEPT ![c] = new]
    <3>1. \A b \in Boundaries : R[b] = IF b = c THEN new ELSE rec[b]
      BY <1>0
    <3>2. Relist(R, reg)
      BY <2>7
    <3>3. Sound(new)
      BY <1>a, <2>4, <2>7
    <3> HIDE DEF R
    <3>4. \A b \in Boundaries : Still(rec[b], R[b]) /\ Sound(R[b])
      BY <1>a, <2>5, <3>1, <3>3
    <3> QED BY <3>2, <3>4, RelistStill
  <2> QED BY <2>1, <2>6, <2>7
<1>7. CASE ResumeRefused(q)
  <2> DEFINE root == run[q].root
             R == [rec EXCEPT ![root] = Reconciled(root, FALSE, TRUE)]
  <2>1. Relist(R, reg)
    BY <1>7 DEF ResumeRefused
  <2>2. \A b \in Boundaries : R[b] = rec[b] \/ R[b] = Reconciled(b, FALSE, TRUE)
    BY <1>0
  <2> HIDE DEF R
  <2>3. \A b \in Boundaries : Still(rec[b], R[b]) /\ Sound(R[b])
    BY <1>a, <2>2
  <2> QED BY <2>1, <2>3, RelistStill
<1> QED BY <1>1, <1>2, <1>3, <1>4, <1>5, <1>6, <1>7 DEF ColdAnswer

LEMMA StepStill ==
  ASSUME Typed, [Next]_vars
  PROVE \/ AllStill
        \/ \E r \in Runs : OpenBoundary(r) \/ Conclude(r)
        \/ \E b \in Boundaries : RebuildCard(b)
        \/ \E q \in Requests : TerminateRestore(q)
<1>a. \A b \in Boundaries :
        /\ Sound(rec[b]) /\ Still(rec[b], rec[b])
        /\ rec[b].phase # "ABSENT" => Still(rec[b], Cancel(rec[b]))
        /\ Still(rec[b], Reconciled(b, FALSE, TRUE))
  BY StillBasics
<1>1. ASSUME NEW q \in Requests, Submit(q) PROVE AllStill
  BY <1>1, <1>a DEF Submit, SubmitA2A, SubmitWeb, AllStill
<1>2. ASSUME NEW stop \in BOOLEAN, InterruptSession(stop) PROVE AllStill
  <2> SUFFICES ASSUME NEW b \in Boundaries PROVE Still(rec[b], rec'[b])
    BY DEF AllStill
  <2>1. \/ rec'[b] = Cancel(rec[b]) /\ CanCancel(rec[b], FALSE)
        \/ rec'[b] = Reconciled(b, FALSE, TRUE)
        \/ rec'[b] = rec[b]
    BY <1>2 DEF InterruptSession
  <2>2. CanCancel(rec[b], FALSE) => rec[b].phase # "ABSENT"
    BY DEF CanCancel, ActivePhases
  <2> QED BY <1>a, <2>1, <2>2
<1>3. ASSUME Crash PROVE AllStill
  <2> DEFINE L == [i \in Boundaries |-> "none"]
  <2>1. Relist(rec, L)
    BY <1>3 DEF Crash
  <2> HIDE DEF L
  <2> QED BY <1>a, <2>1, RelistStill
<1>4. ASSUME UNCHANGED vars PROVE AllStill
  BY <1>4, <1>a DEF vars, AllStill
<1> QED BY <1>1, <1>2, <1>3, <1>4, RunStill, BoundaryStill, LiveStill, ColdStill DEF Next

-----------------------------------------------------------------------------
(* Who moves a run or a request.                                            *)

\* Going on to the next tool changes nothing else of the run's place.
LEMMA Advanced ==
  ASSUME TypeOK, NEW r \in Runs, NEW d \in {"allow", "deny"}, Advance(r, d)
  PROVE LET c == run[r].b
            y == run'[r]
        IN /\ y.st = IF c < NB THEN "open" ELSE "exec"
           /\ y.b = IF c < NB THEN c + 1 ELSE c
           /\ y.root = run[r].root
           /\ \A p \in Runs : p # r => run'[p] = run[p]
<1> DEFINE s == run[r]
           b == s.b
           s1 == [s EXCEPT !.dec[b] = d]
           s2 == [s1 EXCEPT !.st = IF b < NB THEN "open" ELSE "exec"]
           s3 == [s2 EXCEPT !.b = IF b < NB THEN b + 1 ELSE b]
<1>1. run \in [Runs -> RunState] /\ s \in RunState /\ b \in Boundaries
  BY DEF TypeOK, RunState
<1>2. run'[r] = s3
  BY <1>1 DEF Advance
<1>3. s1 \in RunState /\ s1.root = s.root
  BY <1>1 DEF RunState, Decisions
<1> HIDE DEF s1
<1>4. s2 \in RunState /\ s2.root = s1.root /\ s2.st = IF b < NB THEN "open" ELSE "exec"
  BY <1>3 DEF RunState, RunStates
<1> HIDE DEF s2
<1>5. s3.root = s2.root /\ s3.st = s2.st /\ s3.b = IF b < NB THEN b + 1 ELSE b
  BY <1>4 DEF RunState
<1> HIDE DEF s3
<1> QED BY <1>2, <1>3, <1>4, <1>5, Moves

\* Moving a run to another state keeps its root.
LEMMA RunRoot ==
  ASSUME TypeOK, NEW r \in Runs, NEW x, run' = [run EXCEPT ![r].st = x]
  PROVE run'[r].root = run[r].root
<1>1. run \in [Runs -> RunState]
  BY DEF TypeOK
<1> QED BY <1>1 DEF RunState

\* A run is started, moved or ended by these steps only.
Mover(r) ==
  \/ OpenBoundary(r) \/ ActivateBoundary(r) \/ Execute(r) \/ Persist(r)
  \/ \E ok \in BOOLEAN : TakeOutcome(r, ok)
  \/ r = Live /\ \E b \in Boundaries : RebuildCard(b)
  \/ r = Live /\ \E q \in Requests : ClaimContinuation(q)
  \/ r \in Requests /\ A2A /\ BeginRestoration(r) /\ StartRestored(r)
  \/ r \in Requests /\ AcquireTurn(r)
  \/ r \in Requests /\ \E ok \in BOOLEAN : ResumeBoundary(r, ok)

LEMMA WhoMoves ==
  ASSUME TypeOK, [Next]_vars, NEW r \in Runs, run'[r] # run[r], run'[r].st # "none" PROVE Mover(r)
<1>0. run \in [Runs -> RunState] /\ Requests \subseteq Runs
  BY DEF TypeOK, Runs
<1>a. \A p \in Runs : EndRun(p) => run'[r] = run[r] \/ run'[r].st = "none"
  BY <1>0 DEF EndRun, NoRun
<1>b. \A rs : EndRuns(rs) => run'[r] = run[r] \/ run'[r].st = "none"
  BY <1>0 DEF EndRuns, NoRun
<1>c. \A q \in Requests : StartRestored(q) => r = q \/ run'[r] = run[r]
  BY <1>0 DEF StartRestored
<1>d. \A p \in Runs : \A d : Advance(p, d) => r = p \/ run'[r] = run[r]
  BY Moves
<1>1. ASSUME NEW p \in Runs, RunStep(p) PROVE Mover(r)
  <2>1. CASE OpenBoundary(p) \/ ActivateBoundary(p) \/ Execute(p) \/ Persist(p)
    <3>1. PICK x : run' = [run EXCEPT ![p].st = x]
      BY <2>1 DEF OpenBoundary, ActivateBoundary, Execute, Persist
    <3>2. r = p
      BY <1>0, <3>1
    <3> QED BY <2>1, <3>2 DEF Mover
  <2>2. ASSUME NEW ok \in BOOLEAN, TakeOutcome(p, ok) PROVE Mover(r)
    <3>1. PICK d : Advance(p, d)
      BY <2>2 DEF TakeOutcome
    <3>2. r = p
      BY <1>d, <3>1
    <3> QED BY <2>2, <3>2 DEF Mover
  <2>3. CASE OpenBackupFails(p) \/ Unwind(p) \/ Conclude(p) \/ RunFails(p)
    BY <1>a, <2>3 DEF OpenBackupFails, Unwind, Conclude, RunFails
  <2> QED BY <1>1, <2>1, <2>2, <2>3 DEF RunStep
<1>2. ASSUME NEW b \in Boundaries, BoundaryStep(b) PROVE Mover(r)
  <2>1. CASE RebuildCard(b)
    <3>1. r = Live
      BY <1>0, <2>1 DEF RebuildCard
    <3> QED BY <2>1, <3>1 DEF Mover
  <2>2. CASE CancelTask(b)
    BY <1>b, <2>2 DEF CancelTask
  <2>3. CASE Tick(b) \/ TimerFires(b) \/ TimerLost(b) \/ TimerRearmed(b)
    BY <2>3 DEF Tick, TimerFires, TimerLost, TimerRearmed
  <2> QED BY <1>2, <2>1, <2>2, <2>3 DEF BoundaryStep
<1>3. ASSUME NEW q \in Requests, Submit(q) PROVE Mover(r)
  BY <1>3 DEF Submit, SubmitA2A, SubmitWeb
<1>4. ASSUME NEW q \in Requests, LiveAnswer(q) PROVE Mover(r)
  <2>1. CASE ClaimContinuation(q)
    <3>1. r = Live
      BY SMTT(60), <1>0, <2>1 DEF ClaimContinuation
    <3> QED BY <2>1, <3>1 DEF Mover
  <2>2. CASE \/ \E allow \in BOOLEAN : ClaimReconcile(q, allow)
             \/ ClaimDecision(q)
             \/ \E ok \in BOOLEAN : ClaimAudit(q, ok)
    BY <2>2 DEF ClaimReconcile, ClaimDecision, ClaimAudit
  <2>3. CASE ClaimBackedUp(q) \/ DeliveryFails(q) \/ Deliver(q) \/ OwnerUnwound(q)
    BY <2>3 DEF ClaimBackedUp, DeliveryFails, Deliver, OwnerUnwound
  <2> QED BY <1>4, <2>1, <2>2, <2>3 DEF LiveAnswer
<1>5. ASSUME NEW q \in Requests, ColdAnswer(q) PROVE Mover(r)
  <2>1. CASE BeginRestoration(q)
    <3>1. (A2A /\ StartRestored(q)) \/ run' = run
      BY <2>1 DEF BeginRestoration
    <3> QED BY <1>c, <2>1, <3>1 DEF Mover
  <2>2. CASE AcquireTurn(q)
    <3>1. StartRestored(q)
      BY <2>2 DEF AcquireTurn
    <3> QED BY <1>c, <2>2, <3>1 DEF Mover
  <2>3. ASSUME NEW ok \in BOOLEAN, ResumeBoundary(q, ok) PROVE Mover(r)
    <3>1. PICK d : Advance(q, d)
      BY <2>3 DEF ResumeBoundary
    <3>2. r = q
      BY <1>0, <1>d, <3>1
    <3> QED BY <2>3, <3>2 DEF Mover
  <2>4. CASE ResumeRefused(q) \/ TerminateRestore(q)
    BY <1>0, <1>a, <2>4 DEF ResumeRefused, TerminateRestore
  <2>5. CASE LoadCheckpoint(q) \/ ColdReconcile(q) \/ ColdClaim(q)
             \/ \E ok \in BOOLEAN : ColdAudit(q, ok)
    BY <2>5 DEF LoadCheckpoint, ColdReconcile, ColdClaim, ColdAudit
  <2>6. CASE AcquireRestore(q) \/ Admit(q) \/ RestoreBackedUp(q) \/ RestoreBackupFails(q)
    BY <2>6 DEF AcquireRestore, Admit, RestoreBackedUp, RestoreBackupFails
  <2> QED BY <1>5, <2>1, <2>2, <2>3, <2>4, <2>5, <2>6 DEF ColdAnswer
<1>6. ASSUME NEW stop \in BOOLEAN, InterruptSession(stop) PROVE Mover(r)
  BY <1>b, <1>6 DEF InterruptSession
<1>7. ASSUME Crash PROVE Mover(r)
  BY <1>7 DEF Crash, NoRun
<1>8. ASSUME UNCHANGED vars PROVE Mover(r)
  BY <1>8 DEF vars
<1> QED BY <1>1, <1>2, <1>3, <1>4, <1>5, <1>6, <1>7, <1>8 DEF Next

\* What opening a card does.
LEMMA Opened ==
  ASSUME Typed, NEW r \in Runs, NEW c \in Boundaries, c = run[r].b, OpenBoundary(r)
  PROVE /\ run[r].st = "open" /\ rec[c].phase = "ABSENT" /\ rec'[c].phase = "WAITING"
        /\ \A i \in Boundaries : i + 1 = c =>
             /\ rec[i].phase \in ActivePhases /\ Decided(rec[i]) /\ rec'[i].phase = "RESOLVED"
        /\ \A i \in Boundaries : i # c /\ i + 1 # c => rec'[i] = rec[i]
        /\ run'[r].st = (IF Web THEN "wait" ELSE "opening") /\ run'[r].b = c
        /\ run'[r].root = run[r].root
        /\ \A p \in Runs : p # r => run'[p] = run[p]
        /\ fut' = [fut EXCEPT ![c] = "pending"]
        /\ owner' = [i \in Boundaries |-> IF i = c /\ Web THEN Registered(Checkpoint)
                                          ELSE IF i + 1 = c THEN Released(owner[i]) ELSE owner[i]]
        /\ \A i \in Boundaries : reg'[i] = "none" => reg[i] = "none" \/ i + 1 = c
        /\ req' = req /\ restoring' = restoring /\ busy' = busy /\ results' = results
<1>1. /\ run[r].st = "open" /\ rec[c].phase = "ABSENT" /\ rec'[c] = Checkpoint
      /\ \A i \in Boundaries : i # c => rec'[i] = IF i + 1 = c THEN Succeeded(rec[i]) ELSE rec[i]
      /\ c > 1 => CanSucceed(rec[c - 1])
      /\ run' = [run EXCEPT ![r].st = IF Web THEN "wait" ELSE "opening"]
      /\ fut' = [fut EXCEPT ![c] = "pending"]
      /\ owner' = [i \in Boundaries |-> IF i = c /\ Web THEN Registered(Checkpoint)
                                        ELSE IF i + 1 = c THEN Released(owner[i]) ELSE owner[i]]
      /\ \A i \in Boundaries : reg'[i] = "none" => reg[i] = "none" \/ i + 1 = c
      /\ req' = req /\ restoring' = restoring /\ busy' = busy /\ results' = results
  BY OpenBoundary(r) DEF OpenBoundary, CanCreate, Create
<1>2. ASSUME NEW i \in Boundaries, i + 1 = c
      PROVE rec[i].phase \in ActivePhases /\ Decided(rec[i]) /\ rec'[i].phase = "RESOLVED"
  <2>1. c > 1 /\ i = c - 1 /\ i # c
    BY <1>2 DEF Boundaries
  <2>2. CanSucceed(rec[i]) /\ rec'[i] = Succeeded(rec[i]) /\ Sound(rec[i])
    BY <1>1, <1>2, <2>1 DEF Typed, AllSound
  <2> QED BY <2>2, EndFacts DEF CanSucceed
<1>3. /\ run'[r].st = (IF Web THEN "wait" ELSE "opening") /\ run'[r].b = c
      /\ run'[r].root = run[r].root
      /\ \A p \in Runs : p # r => run'[p] = run[p]
  <2>1. PICK x : x = IF Web THEN "wait" ELSE "opening"
    OBVIOUS
  <2>2. run' = [run EXCEPT ![r].st = x]
    BY <1>1, <2>1
  <2>3. TypeOK
    BY DEF Typed
  <2>4. run'[r].st = x /\ run'[r].b = run[r].b /\ \A p \in Runs : p # r => run'[p] = run[p]
    BY <2>2, <2>3, RunMoved
  <2>5. run'[r].root = run[r].root
    BY <2>2, <2>3, RunRoot
  <2> QED BY <2>1, <2>4, <2>5
<1>4. rec'[c].phase = "WAITING"
  BY <1>1, CheckpointFacts
<1>5. \A i \in Boundaries : i # c /\ i + 1 # c => rec'[i] = rec[i]
  BY <1>1
<1> QED BY <1>1, <1>2, <1>3, <1>4, <1>5, Zenon

-----------------------------------------------------------------------------
(* What a step opens and seals.                                             *)

\* Every card before an opened one is a receipt.
Order ==
  \A b, i \in Boundaries : rec[b].phase # "ABSENT" /\ i < b => rec[i].phase = "RESOLVED"

\* The cards around the active run x: its own card is not sealed while it waits
\* for it, and it opens the card behind one that is not sealed yet.
Placed(x) ==
  /\ AtCard(x) => rec[x.b].phase # "RESOLVED"
  /\ x.st = "restored" => results \/ rec[x.b].phase # "RESOLVED"
  /\ x.st = "open" => /\ rec[x.b].phase = "ABSENT"
                      /\ \A i \in Boundaries : i + 1 = x.b => rec[i].phase # "RESOLVED"
  /\ x.st = "finish" => results

Places == \A r \in Runs : run[r].st # "none" => Placed(run[r])

\* A card appears when a run opens it; it is sealed when the results of the batch
\* are persisted or the next card is opened.
Opens(b) == \E r \in Runs : OpenBoundary(r) /\ run[r].b = b
SealStep(b) ==
  /\ rec'[b].phase = "ABSENT" => rec[b].phase = "ABSENT"
  /\ rec[b].phase = "ABSENT" => rec'[b].phase = "ABSENT" \/ Opens(b)
  /\ rec'[b].phase = "RESOLVED" => rec[b].phase = "RESOLVED" \/ results' \/ Opens(b + 1)
Seals == \A b \in Boundaries : SealStep(b)

LEMMA OpenSeals ==
  ASSUME Typed, NEW r \in Runs, OpenBoundary(r) PROVE Seals
<1>0. PICK c \in Boundaries : c = run[r].b
  BY TypeFacts DEF Typed
<1>1. Opens(c)
  BY <1>0 DEF Opens
<1>2. /\ rec[c].phase = "ABSENT" /\ rec'[c].phase = "WAITING"
      /\ \A i \in Boundaries : i + 1 = c => rec[i].phase \in ActivePhases /\ rec'[i].phase = "RESOLVED"
      /\ \A i \in Boundaries : i # c /\ i + 1 # c => rec'[i] = rec[i]
  BY <1>0, Opened
<1> SUFFICES ASSUME NEW b \in Boundaries PROVE SealStep(b)
  BY DEF Seals
<1>3. CASE b = c
  BY <1>1, <1>2, <1>3 DEF SealStep
<1>4. CASE b + 1 = c /\ b # c
  BY <1>1, <1>2, <1>4 DEF SealStep, ActivePhases
<1>5. CASE b # c /\ b + 1 # c
  BY <1>2, <1>5 DEF SealStep
<1> QED BY <1>3, <1>4, <1>5

\* A turn that ends seals cards that exist, and the results are persisted.
LEMMA ConcludeSeals ==
  ASSUME Typed, DInv, Places, NEW r \in Runs, Conclude(r) PROVE Seals
<1>0. DOMAIN rec = Boundaries /\ run[r].b \in Boundaries /\ run[r].st = "finish" /\ results' = results
  BY TypeFacts DEF Typed, Conclude
<1>1. results'
  BY <1>0 DEF Places, Placed
<1>2. \A b \in Boundaries : Sound(rec[b]) /\ Decided(rec[b])
  BY <1>0, <1>1 DEF Typed, AllSound, DInv, History
<1> SUFFICES ASSUME NEW b \in Boundaries PROVE SealStep(b)
  BY DEF Seals
<1>3. rec[b].phase # "ABSENT"
  BY <1>2 DEF Sound, Decided
<1>4. rec'[b] = rec[b] \/ rec'[b] = Resolve(rec[b])
  BY DEF Conclude
<1>5. Resolve(rec[b]).phase = "RESOLVED"
  <2>1. rec[b] \in Record /\ "RESOLVED" \in Phases
    BY <1>2 DEF Sound, Phases
  <2>2. Enter(rec[b], "RESOLVED").phase = "RESOLVED"
    BY <2>1, EnterFacts
  <2> QED BY <2>2 DEF Resolve
<1> QED BY <1>1, <1>3, <1>4, <1>5 DEF SealStep

LEMMA TerminateSeals ==
  ASSUME Typed, Places, NEW q \in Requests, TerminateRestore(q) PROVE Seals
<1>0. q \in Runs /\ results' = results
  BY DEF Runs, TerminateRestore
<1>1. run[q].st = "finish" => results'
  BY <1>0 DEF Places, Placed
<1> SUFFICES ASSUME NEW b \in Boundaries PROVE SealStep(b)
  BY DEF Seals
<1>2. Sound(rec[b])
  BY DEF Typed, AllSound
<1>3. \/ rec'[b] = rec[b]
      \/ rec[b].phase = "RESTORING" /\ rec'[b] = Resolve(rec[b]) /\ run[q].st = "finish"
      \/ rec[b].phase = "RESTORING" /\ rec'[b] = Cancel(rec[b])
  BY DEF TerminateRestore, CancelRestore
<1>4. /\ rec[b].phase = "RESTORING" => Resolve(rec[b]).phase = "RESOLVED"
      /\ Cancel(rec[b]).phase = "CANCELED"
  BY <1>2, EndFacts DEF ActivePhases
<1> QED BY <1>1, <1>3, <1>4 DEF SealStep

LEMMA StepSeals ==
  ASSUME Typed, DInv, Places, [Next]_vars PROVE Seals
<1>1. CASE AllStill
  BY <1>1 DEF AllStill, Still, Seals, SealStep
<1>2. ASSUME NEW b \in Boundaries, RebuildCard(b) PROVE Seals
  <2> SUFFICES ASSUME NEW i \in Boundaries PROVE SealStep(i)
    BY DEF Seals
  <2>1. rec' = [rec EXCEPT ![b] = Reactivate(rec[b])] /\ rec[b].phase = "SUSPENDED"
    BY <1>2 DEF RebuildCard, CanReactivate
  <2>2. Reactivate(rec[b]).phase = "WAITING"
    <3>1. Checkpoint \in Record /\ Checkpoint.phase = "WAITING"
      BY CheckpointFacts DEF Sound
    <3> QED BY <3>1 DEF Reactivate, Record
  <2>3. DOMAIN rec = Boundaries
    BY TypeFacts DEF Typed
  <2> QED BY <2>1, <2>2, <2>3 DEF SealStep
<1> QED BY <1>1, <1>2, StepStill, OpenSeals, ConcludeSeals, TerminateSeals

\* Cards are opened in order.
LEMMA StepOrder ==
  ASSUME Typed, DInv, Exclusive, Places, Order, [Next]_vars PROVE Order'
<1> SUFFICES ASSUME NEW b \in Boundaries, NEW i \in Boundaries, rec'[b].phase # "ABSENT", i < b
             PROVE rec'[i].phase = "RESOLVED"
  BY DEF Order
<1>1. /\ Seals
      /\ \A j \in Boundaries : rec[j].phase = "RESOLVED" => rec'[j].phase = "RESOLVED"
  BY StepSeals, StepOrderly DEF Orderly, OrderlyAt
<1>2. CASE rec[b].phase # "ABSENT"
  BY <1>1, <1>2 DEF Order
<1>3. CASE rec[b].phase = "ABSENT"
  <2>1. PICK r \in Runs : OpenBoundary(r) /\ run[r].b = b
    BY <1>1, <1>3 DEF Seals, SealStep, Opens
  <2>2. \A j \in Boundaries : j + 1 = b => rec[j].phase \in ActivePhases /\ rec'[j].phase = "RESOLVED"
    BY <2>1, Opened
  <2>3. CASE i + 1 = b
    BY <2>2, <2>3
  <2>4. CASE i + 1 # b
    <3>0. b \in Int /\ i \in Int /\ 1 <= i /\ b <= NB /\ NB \in Nat
      BY ConstantsAssumption DEF Boundaries
    <3>1. PICK d \in Boundaries : d + 1 = b /\ i < d
      <4>1. b - 1 \in 1..NB /\ (b - 1) + 1 = b /\ i < b - 1
        BY <2>4, <3>0
      <4> QED BY <4>1 DEF Boundaries
    <3>2. rec[d].phase # "ABSENT"
      BY <2>2, <3>1 DEF ActivePhases
    <3> QED BY <1>1, <3>1, <3>2 DEF Order
  <2> QED BY <2>3, <2>4
<1> QED BY <1>2, <1>3

\* While a run is active only that run opens cards.
LEMMA NothingOpened ==
  ASSUME Exclusive, Seals, NEW r \in Runs, run[r].st # "none", ~OpenBoundary(r)
  PROVE \A b \in Boundaries :
          /\ rec[b].phase = "ABSENT" => rec'[b].phase = "ABSENT"
          /\ rec'[b].phase = "RESOLVED" => rec[b].phase = "RESOLVED" \/ results'
<1>1. ASSUME NEW p \in Runs, OpenBoundary(p) PROVE FALSE
  <2>1. run[p].st = "open"
    BY <1>1 DEF OpenBoundary
  <2>2. p = r
    BY <2>1 DEF Exclusive
  <2> QED BY <1>1, <2>2
<1>2. \A b : ~Opens(b)
  BY <1>1 DEF Opens
<1> QED BY <1>2 DEF Seals, SealStep

\* The results of the batch are persisted once.
LEMMA ResultsKept ==
  ASSUME [Next]_vars PROVE results => results'
<1>1. ASSUME NEW r \in Runs, RunStep(r) PROVE results => results'
  BY <1>1 DEF RunStep, OpenBoundary, ActivateBoundary, OpenBackupFails, TakeOutcome, Unwind, Execute,
              Persist, Conclude, RunFails
<1>2. ASSUME NEW b \in Boundaries, BoundaryStep(b) PROVE results' = results
  BY ZenonT(60), <1>2 DEF BoundaryStep, RebuildCard, Tick, TimerFires, TimerLost, TimerRearmed, CancelTask
<1>3. ASSUME NEW q \in Requests, LiveAnswer(q) PROVE results' = results
  BY <1>3, ZenonT(30) DEF LiveAnswer, ClaimReconcile, ClaimDecision, ClaimAudit, ClaimBackedUp, DeliveryFails,
              Deliver, ClaimContinuation, OwnerUnwound
<1>4. ASSUME NEW q \in Requests, ColdAnswer(q) PROVE results' = results
  BY <1>4 DEF ColdAnswer, LoadCheckpoint, ColdReconcile, ColdClaim, ColdAudit, AcquireRestore, Admit,
              RestoreBackedUp, RestoreBackupFails, BeginRestoration, AcquireTurn, ResumeBoundary,
              ResumeRefused, TerminateRestore
<1>5. ASSUME NEW q \in Requests, Submit(q) PROVE results' = results
  BY <1>5 DEF Submit, SubmitA2A, SubmitWeb
<1>6. ASSUME NEW stop \in BOOLEAN, InterruptSession(stop) PROVE results' = results
  BY <1>6 DEF InterruptSession
<1>7. ASSUME Crash \/ UNCHANGED vars PROVE results' = results
  BY <1>7 DEF Crash, vars
<1> QED BY <1>1, <1>2, <1>3, <1>4, <1>5, <1>6, <1>7 DEF Next

\* A run that a step leaves alone keeps its place.
LEMMA PlaceKept ==
  ASSUME Typed, DInv', Exclusive, Seals, NEW r \in Runs, run[r].st # "none", run'[r] = run[r],
         Placed(run[r]), results => results'
  PROVE Placed(run[r])'
<1>1. PICK x \in RunState : x = run[r]
  BY TypeFacts DEF Typed
<1>2. run'[r] = x /\ Placed(x) /\ x.b \in Boundaries
  BY <1>1 DEF RunState
<1>3. ~OpenBoundary(r)
  <2> SUFFICES ASSUME OpenBoundary(r) PROVE FALSE
    OBVIOUS
  <2>1. run'[r].st # "open" /\ run[r].st = "open"
    BY Opened, <1>1, <1>2
  <2> QED BY <2>1
<1>4. \A b \in Boundaries :
        /\ rec[b].phase = "ABSENT" => rec'[b].phase = "ABSENT"
        /\ rec'[b].phase = "RESOLVED" => rec[b].phase = "RESOLVED" \/ results'
  BY <1>3, NothingOpened
<1>5. AtCard(x) \/ x.st = "open" => ~results'
  <2>1. Standing(run[r])'
    BY DEF DInv, Runners
  <2> QED BY <1>2, <2>1 DEF Standing, AtCard
<1>6. Placed(x)'
  BY <1>2, <1>4, <1>5 DEF Placed, AtCard
<1> QED BY <1>2, <1>6

\* A run goes on to the next tool from a card that is not sealed.
LEMMA AdvancePlaced ==
  ASSUME Typed, DInv', Exclusive, Seals, Order, NEW r \in Runs, NEW d \in {"allow", "deny"},
         Advance(r, d), run[r].st \in {"wait", "woken", "restored"}, rec[run[r].b].phase # "RESOLVED"
  PROVE Placed(run[r])'
<1>1. PICK c \in Boundaries : c = run[r].b
  BY TypeFacts DEF Typed
<1>2. TypeOK
  BY DEF Typed
<1>3. run'[r].st = (IF c < NB THEN "open" ELSE "exec") /\ run'[r].b = IF c < NB THEN c + 1 ELSE c
  BY <1>1, <1>2, Advanced
<1>4. ~OpenBoundary(r)
  BY DEF OpenBoundary
<1>5. \A b \in Boundaries :
        /\ rec[b].phase = "ABSENT" => rec'[b].phase = "ABSENT"
        /\ rec'[b].phase = "RESOLVED" => rec[b].phase = "RESOLVED" \/ results'
  BY <1>4, NothingOpened
<1>6. CASE c < NB
  <2>1. Standing(run[r])'
    BY <1>3, <1>6 DEF DInv, Runners
  <2>2. ~results'
    BY <1>3, <1>6, <2>1 DEF Standing
  <2>3. PICK n \in Boundaries : n = c + 1 /\ c < n
    BY <1>6, ConstantsAssumption DEF Boundaries
  <2>4. rec'[n].phase = "ABSENT"
    BY <1>1, <1>5, <2>3 DEF Order
  <2>5. \A i \in Boundaries : i + 1 = n => rec'[i].phase # "RESOLVED"
    <3>1. \A i \in Boundaries : i + 1 = n => i = c
      BY <2>3 DEF Boundaries
    <3> QED BY <1>1, <1>5, <2>2, <3>1
  <2>6. run'[r].st = "open" /\ run'[r].b = n
    BY <1>3, <1>6, <2>3
  <2> QED BY <2>4, <2>5, <2>6 DEF Placed, AtCard
<1>7. CASE ~(c < NB)
  BY <1>3, <1>7 DEF Placed, AtCard
<1> QED BY <1>6, <1>7

\* What the turn lock of a Web session protects.
TurnSafe ==
  \A q \in Requests : Web /\ req[q].st = "turn" => results \/ rec[req[q].b].phase # "RESOLVED"

\* A run that a step starts or moves stands at a card in its place.
LEMMA MoverPlaced ==
  ASSUME Typed, DInv, DInv', Exclusive, Seals, Order, Places, TurnSafe, NEW r \in Runs, Mover(r),
         results => results'
  PROVE Placed(run[r])'
<1>0. TypeOK /\ run[r].b \in Boundaries /\ run \in [Runs -> RunState]
  BY TypeFacts DEF Typed, TypeOK
<1>a. run[r].st # "none" => Placed(run[r])
  BY DEF Places
<1>b. ASSUME NEW q \in Requests, StartRestored(q)
      PROVE /\ run'[q].st = "restored" /\ run'[q].b = req[q].b
            /\ req[q].b \in Boundaries
  <2>1. q \in Runs /\ req[q].b \in Boundaries
    BY TypeFacts DEF Typed, Runs
  <2> QED BY <1>0, <1>b, <2>1 DEF StartRestored
<1>1. CASE OpenBoundary(r)
  <2>1. PICK c \in Boundaries : c = run[r].b
    BY <1>0
  <2>2. rec'[c].phase = "WAITING" /\ run'[r].st \in {"wait", "opening"} /\ run'[r].b = c
    BY <1>1, <2>1, Opened
  <2> QED BY <2>2 DEF Placed, AtCard
<1>2. CASE ActivateBoundary(r)
  <2>1. run' = [run EXCEPT ![r].st = "wait"] /\ run[r].st = "opening" /\ rec' = rec
    BY <1>2 DEF ActivateBoundary
  <2>2. run'[r].st = "wait" /\ run'[r].b = run[r].b
    BY <1>0, <2>1, RunMoved
  <2> QED BY <1>a, <2>1, <2>2 DEF Placed, AtCard
<1>3. CASE Execute(r)
  <2>1. run' = [run EXCEPT ![r].st = "persist"]
    BY <1>3 DEF Execute
  <2>2. run'[r].st = "persist"
    BY <1>0, <2>1, RunMoved
  <2> QED BY <2>2 DEF Placed, AtCard
<1>4. CASE Persist(r)
  <2>1. run' = [run EXCEPT ![r].st = "finish"] /\ results'
    BY <1>4 DEF Persist
  <2>2. run'[r].st = "finish"
    BY <1>0, <2>1, RunMoved
  <2> QED BY <2>1, <2>2 DEF Placed, AtCard
<1>5. ASSUME NEW ok \in BOOLEAN, TakeOutcome(r, ok) PROVE Placed(run[r])'
  <2>1. run[r].st \in {"wait", "woken"}
    BY <1>5 DEF TakeOutcome
  <2>2. PICK d \in {"allow", "deny"} : Advance(r, d)
    BY <1>5 DEF TakeOutcome
  <2>3. rec[run[r].b].phase # "RESOLVED"
    BY <1>a, <2>1 DEF Placed, AtCard
  <2> QED BY <2>1, <2>2, <2>3, AdvancePlaced
<1>6. ASSUME NEW b \in Boundaries, RebuildCard(b), r = Live PROVE Placed(run[r])'
  <2>1. /\ run' = [run EXCEPT ![Live] = [st |-> "opening", b |-> b, root |-> 0, dec |-> frame[b]]]
        /\ rec' = [rec EXCEPT ![b] = Reactivate(rec[b])]
    BY <1>6 DEF RebuildCard
  <2>2. run'[r].st = "opening" /\ run'[r].b = b
    BY <1>0, <1>6, <2>1
  <2>3. Reactivate(rec[b]).phase = "WAITING"
    <3>1. Checkpoint \in Record /\ Checkpoint.phase = "WAITING"
      BY CheckpointFacts DEF Sound
    <3> QED BY <3>1 DEF Reactivate, Record
  <2>4. rec'[b].phase = "WAITING"
    <3>1. DOMAIN rec = Boundaries
      BY <1>0, TypeFacts
    <3> QED BY <2>1, <2>3, <3>1
  <2> QED BY <2>2, <2>4 DEF Placed, AtCard
<1>7. ASSUME NEW q \in Requests, ClaimContinuation(q), r = Live PROVE Placed(run[r])'
  <2> DEFINE first == reg[req[q].b] = "card" /\ run[Live].st = "wait" /\ run[Live].b = req[q].b
  <2>1. run' = [run EXCEPT ![Live].st = IF first THEN "woken" ELSE run[Live].st] /\ rec' = rec
        /\ results' = results
    BY <1>7 DEF ClaimContinuation
  <2>2. PICK x : x = IF first THEN "woken" ELSE run[Live].st
    OBVIOUS
  <2>3. run' = [run EXCEPT ![r].st = x]
    BY <1>7, <2>1, <2>2
  <2>4. run'[r].st = x /\ run'[r].b = run[r].b
    BY <1>0, <2>3, RunMoved
  <2>5. x = run[r].st \/ (x = "woken" /\ run[r].st = "wait")
    BY <1>7, <2>2
  <2>6. x = "none" \/ (run[r].st # "none" /\ Placed(run[r]))
    BY <1>a, <2>5
  <2> HIDE DEF first
  <2> QED BY <2>1, <2>4, <2>5, <2>6 DEF Placed, AtCard
<1>8. CASE r \in Requests /\ A2A /\ BeginRestoration(r) /\ StartRestored(r)
  <2>1. PICK c \in Boundaries : c = req[r].b
    BY <1>8, TypeFacts DEF Typed
  <2>2. run'[r].st = "restored" /\ run'[r].b = c
    BY <1>b, <1>8, <2>1
  <2>3. rec'[c].phase # "RESOLVED"
    <3>1. A2A /\ ~Web
      BY <1>8 DEF A2A, Web
    <3>2. \/ rec' = [rec EXCEPT ![c] = BeginRestore(rec[c])] /\ CanBeginRestore(rec[c])
          \/ run' = run /\ ~CanBeginRestore(rec[c])
      BY <1>8, <2>1, <3>1 DEF BeginRestoration
    <3>3. CASE rec' = [rec EXCEPT ![c] = BeginRestore(rec[c])] /\ CanBeginRestore(rec[c])
      <4>1. Sound(rec[c]) /\ DOMAIN rec = Boundaries
        BY TypeFacts DEF Typed, AllSound
      <4>2. BeginRestore(rec[c]).phase = "RESTORING"
        BY <3>3, <4>1, EndFacts
      <4> QED BY <3>3, <4>1, <4>2
    <3>4. CASE run' = run /\ ~CanBeginRestore(rec[c])
      <4>1. run[r].st = "restored"
        BY <2>2, <3>4
      <4>2. req[r].st = "begin"
        BY <1>8 DEF BeginRestoration
      <4>3. admission # None
        BY <1>8, <4>2, ConstantsAssumption DEF Exclusive, Admitted
      <4> QED BY <1>8, <4>1, <4>3 DEF Exclusive
    <3> QED BY <3>2, <3>3, <3>4
  <2> QED BY <2>2, <2>3 DEF Placed, AtCard
<1>9. CASE r \in Requests /\ AcquireTurn(r)
  <2>1. PICK c \in Boundaries : c = req[r].b
    BY <1>9, TypeFacts DEF Typed
  <2>2. StartRestored(r) /\ Web /\ req[r].st = "turn" /\ rec' = rec /\ results' = results
    BY <1>9 DEF AcquireTurn
  <2>3. run'[r].st = "restored" /\ run'[r].b = c
    BY <1>b, <1>9, <2>1, <2>2
  <2>4. results \/ rec[c].phase # "RESOLVED"
    BY <1>9, <2>1, <2>2 DEF TurnSafe
  <2> QED BY <2>2, <2>3, <2>4 DEF Placed, AtCard
<1>10. ASSUME r \in Requests, NEW ok \in BOOLEAN, ResumeBoundary(r, ok) PROVE Placed(run[r])'
  <2>1. run[r].st = "restored" /\ ~results
    BY <1>10 DEF ResumeBoundary, CanonicalTail
  <2>2. PICK d \in {"allow", "deny"} : Advance(r, d)
    BY <1>10 DEF ResumeBoundary
  <2>3. rec[run[r].b].phase # "RESOLVED"
    BY <1>a, <2>1 DEF Placed
  <2> QED BY <2>1, <2>2, <2>3, AdvancePlaced
<1> QED BY <1>1, <1>2, <1>3, <1>4, <1>5, <1>6, <1>7, <1>8, <1>9, <1>10 DEF Mover

LEMMA StepPlaces ==
  ASSUME Typed, DInv, Exclusive, Order, Places, TurnSafe, [Next]_vars PROVE Places'
<1>0. DInv' /\ Seals /\ (results => results') /\ TypeOK
  BY StepKeeps, StepSeals, ResultsKept DEF Typed
<1> SUFFICES ASSUME NEW r \in Runs, run'[r].st # "none" PROVE Placed(run[r])'
  BY DEF Places
<1>1. CASE run'[r] = run[r]
  BY <1>0, <1>1, PlaceKept DEF Places
<1>2. CASE run'[r] # run[r]
  BY <1>0, <1>2, WhoMoves, MoverPlaced
<1> QED BY <1>1, <1>2

-----------------------------------------------------------------------------
(* The Web surface.  There the turn lock is taken after the restoration has *)
(* begun (resume_permission), so that nobody seals the card in between has  *)
(* to be argued from the listed cards, the live owners and the restorations.*)

\* The steps a Web request goes through; those past reconcile_deadline; and those
\* in which it holds a restoration.
WebSteps ==
  {"idle", "lock", "claim", "audit", "backup", "release", "reconcile", "rclaim", "raudit",
   "restore", "begin", "turn", "run"}
Recovering == {"rclaim", "raudit", "restore", "begin", "turn"}
Holding(x) == x.st \in {"begin", "turn"}

\* What a Web request x relies on.
Relies(x) ==
  /\ x.st \in WebSteps
  /\ x.st \notin {"idle", "run"} => rec[x.b].phase # "ABSENT"
  /\ x.st = "reconcile" => ~owner[x.b].live
  /\ x.st \in Recovering => rec[x.b].phase \notin Resident
  /\ x.st = "turn" => results \/ rec[x.b].phase # "RESOLVED"

\* Inside its section without awaits the phase it audited is the current one.
Current(q) ==
  busy = q /\ req[q].st \in {"backup", "release"} => req[q].phase = rec[req[q].b].phase

WebRequests ==
  \A q \in Requests : Relies(req[q]) /\ Current(q) /\ (q \in Foreign => req[q].st = "idle")

\* A card that is not listed is not resident.
WebCards == \A b \in Boundaries : reg[b] = "none" => rec[b].phase \notin Resident

\* One request or one run at a time holds the restoration of a card.
WebHolders ==
  /\ \A q \in Requests : Holding(req[q]) => req[q].b \in restoring
  /\ \A q, p \in Requests : Holding(req[q]) /\ Holding(req[p]) /\ req[p].b = req[q].b => p = q
  /\ \A q \in Requests : Holding(req[q]) =>
       \A r \in Runs : run[r].st # "none" => run[r].root # req[q].b
  /\ \A r \in Runs : run[r].st # "none" /\ run[r].root # 0 => run[r].root \in restoring

\* The future of card b was answered.
IsTold(b) == fut[b] \in {"allow", "deny"}

\* A resident wait has a live owner, a told one is still resident, and the run
\* that opens the next card either was restored from this one or still owns it.
Fits(x) ==
  /\ x.st # "opening"
  /\ x.st = "wait" => owner[x.b].live
  /\ x.st = "wait" /\ IsTold(x.b) => rec[x.b].phase \in Resident
  /\ x.st = "restored" => x.root = x.b
  /\ x.st = "open" => \A i \in Boundaries : i + 1 = x.b /\ x.root # i =>
                        owner[i].live /\ rec[i].phase \in Resident /\ fut[i] # "pending"

WebRuns == \A r \in Runs : run[r].st # "none" => Fits(run[r])

WebInv == WebRequests /\ WebCards /\ WebHolders /\ WebRuns

\* The turn lock is safe.
LEMMA WebTurnSafe ==
  ASSUME Web => WebInv PROVE TurnSafe
  BY DEF WebInv, WebRequests, Relies, TurnSafe

\* The updates of an owner that keep it registered.
LEMMA OwnerLive ==
  ASSUME NEW o \in Owner
  PROVE /\ Released(o).live = FALSE
        /\ \A r : Held(o, r).live = o.live
        /\ \A x : [o EXCEPT !.lock = x].live = o.live
        /\ \A x : [o EXCEPT !.timer = x].live = o.live
<1>1. /\ \A x : [o EXCEPT !.lock = x].live = o.live
      /\ \A x : [o EXCEPT !.timer = x].live = o.live
  BY DEF Owner
<1>2. \A r : Held(o, r).live = o.live
  BY DEF Owner, Held
<1>3. Released(o).live = FALSE
  <2> DEFINE s == [o EXCEPT !.live = FALSE]
  <2>1. s \in Owner /\ s.live = FALSE
    BY DEF Owner
  <2>2. Released(o) = [s EXCEPT !.timer = "off"]
    BY DEF Released
  <2> HIDE DEF s
  <2>3. [s EXCEPT !.timer = "off"].live = s.live
    BY <2>1 DEF Owner
  <2> QED BY <2>1, <2>2, <2>3
<1> QED BY <1>1, <1>2, <1>3

\* A step of a run moves or ends it, so that no other run sees it.
LEMMA RunAlone ==
  ASSUME TypeOK, Exclusive, NEW r \in Runs,
         \/ RunStep(r)
         \/ \E ok \in BOOLEAN : ResumeBoundary(r, ok)
         \/ ResumeRefused(r) \/ TerminateRestore(r)
  PROVE run[r].st # "none" /\ run'[r] # run[r] /\ NoBystander
<1>0. run \in [Runs -> RunState] /\ run[r].b \in Boundaries
  BY TypeFacts DEF TypeOK
<1>a. EndRun(r) => run'[r].st = "none"
  BY <1>0 DEF EndRun, NoRun
<1>1. \A x : run' = [run EXCEPT ![r].st = x] => run'[r].st = x
  BY RunMoved
<1>2. \A d \in {"allow", "deny"} : Advance(r, d) => run'[r].st \in {"open", "exec"}
  BY Advanced
<1>3. CASE OpenBoundary(r) \/ ActivateBoundary(r) \/ Execute(r) \/ Persist(r)
  <2>1. PICK x \in {"wait", "opening", "persist", "finish"} :
          run' = [run EXCEPT ![r].st = x] /\ run[r].st # x /\ run[r].st # "none"
    BY <1>3 DEF OpenBoundary, ActivateBoundary, Execute, Persist
  <2>2. run'[r].st = x
    BY <1>1, <2>1
  <2>3. run[r].st # "none" /\ run'[r] # run[r]
    BY <2>1, <2>2
  <2> QED BY <2>3 DEF Exclusive, NoBystander
<1>4. CASE (\E ok \in BOOLEAN : TakeOutcome(r, ok)) \/ \E ok \in BOOLEAN : ResumeBoundary(r, ok)
  <2>1. run[r].st \in {"wait", "woken", "restored"}
    BY <1>4 DEF TakeOutcome, ResumeBoundary
  <2>2. PICK d \in {"allow", "deny"} : Advance(r, d)
    BY <1>4 DEF TakeOutcome, ResumeBoundary
  <2>3. run[r].st # "none" /\ run'[r] # run[r]
    BY <1>2, <2>1, <2>2
  <2> QED BY <2>3 DEF Exclusive, NoBystander
<1>5. CASE \/ OpenBackupFails(r) \/ Unwind(r) \/ Conclude(r) \/ RunFails(r)
           \/ ResumeRefused(r) \/ TerminateRestore(r)
  <2>1. run[r].st # "none" /\ EndRun(r)
    BY <1>5 DEF OpenBackupFails, Unwind, Conclude, RunFails, ResumeRefused, TerminateRestore
  <2>2. run'[r] # run[r]
    BY <1>a, <2>1
  <2> QED BY <2>1, <2>2 DEF Exclusive, NoBystander
<1> QED BY <1>3, <1>4, <1>5 DEF RunStep

\* No card is opened behind one whose restoration waits for the turn lock.
LEMMA TurnNotPassed ==
  ASSUME Typed, WebInv, NEW q \in Requests, req[q].st = "turn" PROVE ~Opens(req[q].b + 1)
<1> SUFFICES ASSUME NEW r \in Runs, OpenBoundary(r), run[r].b = req[q].b + 1 PROVE FALSE
  BY DEF Opens
<1>1. PICK c \in Boundaries : c = req[q].b
  BY TypeFacts DEF Typed
<1>2. rec[c].phase \notin Resident /\ Holding(req[q])
  BY <1>1 DEF WebInv, WebRequests, Relies, Recovering, Holding
<1>3. run[r].st = "open"
  BY DEF OpenBoundary
<1>4. run[r].root # c
  BY <1>1, <1>2, <1>3 DEF WebInv, WebHolders
<1>5. rec[c].phase \in Resident
  BY <1>1, <1>3, <1>4 DEF WebInv, WebRuns, Fits
<1> QED BY <1>2, <1>5

\* What every step leaves to those it does not move: a card that exists does not
\* become resident or owned again,
NotRevived(b) ==
  rec[b].phase # "ABSENT" => /\ rec'[b].phase \in Resident => rec[b].phase \in Resident
                             /\ owner'[b].live => owner[b].live

\* an owner is only taken away with the run, or from a card that is not decided
\* and nobody waits for, a told card stays resident, and only a resident card is told,
Deserted(b) == \A r \in Runs : run[r].st = "wait" /\ run[r].b = b => run'[r] # run[r]
HoldStep(b) ==
  /\ owner[b].live => owner'[b].live \/ NoBystander \/ (~Decided(rec[b]) /\ Deserted(b))
  /\ owner[b].live /\ Decided(rec[b]) /\ rec[b].phase \in Resident /\ fut[b] # "pending" =>
       rec'[b].phase \in Resident \/ NoBystander
  /\ IsTold(b)' => IsTold(b) \/ rec'[b].phase \in Resident \/ Deserted(b)
  /\ fut'[b] = "pending" => fut[b] = "pending" \/ NoBystander

\* a resident card stays listed,
ListStep(b) == reg'[b] = "none" => reg[b] = "none" \/ rec'[b].phase \notin Resident

\* and a request that is moved relies on what it found.
RequestStep(q) ==
  \/ /\ req'[q] = req[q]
     /\ busy' = q /\ req[q].st \in {"backup", "release"} => busy = q /\ rec'[req[q].b] = rec[req[q].b]
  \/ req'[q].st \in {"idle", "run"} /\ (q \in Foreign => req'[q].st = "idle")
  \/ Relies(req[q])' /\ Current(q)' /\ q \notin Foreign

Tame ==
  /\ \A b \in Boundaries : HoldStep(b) /\ ListStep(b)
  /\ \A q \in Requests : RequestStep(q)

\* Requests that a step leaves alone.
LEMMA RequestsKept ==
  ASSUME Typed, WebInv, Seals, results => results', \A b \in Boundaries : NotRevived(b), Tame
  PROVE WebRequests'
<1> SUFFICES ASSUME NEW q \in Requests
             PROVE Relies(req[q])' /\ Current(q)' /\ (q \in Foreign => req'[q].st = "idle")
  BY DEF WebRequests
<1>1. RequestStep(q)
  BY DEF Tame
<1>2. Relies(req[q]) /\ Current(q) /\ (q \in Foreign => req[q].st = "idle")
  BY DEF WebInv, WebRequests
<1>3. CASE /\ req'[q] = req[q]
           /\ busy' = q /\ req[q].st \in {"backup", "release"} =>
                busy = q /\ rec'[req[q].b] = rec[req[q].b]
  <2>1. PICK x : x = req[q]
    OBVIOUS
  <2>2. PICK c \in Boundaries : c = x.b
    BY <2>1, TypeFacts DEF Typed
  <2>3. req'[q] = x /\ Relies(x)
    BY <1>2, <1>3, <2>1
  <2>4. SealStep(c) /\ NotRevived(c)
    BY DEF Seals
  <2>5. x.st = "turn" /\ rec'[c].phase = "RESOLVED" => rec[c].phase = "RESOLVED" \/ results'
    <3>1. x.st = "turn" => ~Opens(c + 1)
      BY <2>1, <2>2, TurnNotPassed
    <3> QED BY <2>4, <3>1 DEF SealStep
  <2>6. Relies(x)'
    BY <2>2, <2>3, <2>4, <2>5 DEF Relies, SealStep, NotRevived, Recovering
  <2>7. Current(q)'
    BY <1>2, <1>3 DEF Current
  <2> QED BY <1>2, <1>3, <2>3, <2>6, <2>7
<1>4. CASE req'[q].st \in {"idle", "run"} /\ (q \in Foreign => req'[q].st = "idle")
  BY <1>4 DEF Relies, Current, WebSteps, Recovering
<1>5. CASE Relies(req[q])' /\ Current(q)' /\ q \notin Foreign
  BY <1>5
<1> QED BY <1>1, <1>3, <1>4, <1>5 DEF RequestStep

\* A card that is opened is listed.
LEMMA OpensLists ==
  ASSUME Typed, NEW b \in Boundaries, Opens(b) PROVE reg'[b] = "card"
<1>1. PICK r \in Runs : OpenBoundary(r) /\ run[r].b = b
  BY DEF Opens
<1>2. reg' = [i \in Boundaries |-> IF i = b THEN "card" ELSE IF i + 1 = b THEN "none" ELSE reg[i]]
  BY <1>1 DEF OpenBoundary
<1> QED BY <1>2

\* Listed cards.
LEMMA CardsKept ==
  ASSUME Typed, WebInv, Seals, \A b \in Boundaries : NotRevived(b), Tame PROVE WebCards'
<1> SUFFICES ASSUME NEW b \in Boundaries, reg'[b] = "none" PROVE rec'[b].phase \notin Resident
  BY DEF WebCards
<1>1. SealStep(b) /\ NotRevived(b) /\ ListStep(b)
  BY DEF Seals, Tame
<1>2. reg[b] = "none" => rec[b].phase \notin Resident
  BY DEF WebInv, WebCards
<1>3. ~Opens(b)
  BY OpensLists
<1> QED BY <1>1, <1>2, <1>3 DEF SealStep, NotRevived, ListStep, Resident

\* A run that a step leaves alone.
LEMMA FitKept ==
  ASSUME Typed, DInv, WebInv, Tame, NEW r \in Runs, run[r].st # "none", run'[r] = run[r]
  PROVE Fits(run[r])'
<1>1. PICK x \in RunState : x = run[r]
  BY TypeFacts DEF Typed
<1>2. run'[r] = x /\ Fits(x) /\ Standing(x) /\ x.b \in Boundaries
  BY <1>1 DEF WebInv, WebRuns, RunState, DInv, Runners
<1>3. ~NoBystander
  BY DEF NoBystander
<1>4. \A b \in Boundaries : HoldStep(b)
  BY DEF Tame
<1>5. x.st = "wait" => owner'[x.b].live /\ (IsTold(x.b)' => rec'[x.b].phase \in Resident)
  <2> SUFFICES ASSUME x.st = "wait"
               PROVE owner'[x.b].live /\ (IsTold(x.b)' => rec'[x.b].phase \in Resident)
    OBVIOUS
  <2>1. PICK c \in Boundaries : c = x.b
    BY <1>2
  <2>2. owner[c].live /\ (IsTold(c) => rec[c].phase \in Resident) /\ HoldStep(c)
    BY <1>2, <1>4, <2>1 DEF Fits
  <2>3. ~Deserted(c)
    BY <1>1, <1>2, <2>1 DEF Deserted
  <2>4. IsTold(c) => Decided(rec[c]) /\ fut[c] # "pending"
    <3>1. fut[c] = "allow" => Told(c)
      BY DEF DInv, Futures
    <3>2. fut[c] = "deny" => Told(c)
      BY <1>2, <2>1 DEF Standing, AtCard
    <3> QED BY <3>1, <3>2 DEF IsTold, Told, Audited
  <2> QED BY <1>3, <2>1, <2>2, <2>3, <2>4 DEF HoldStep
<1>6. ASSUME x.st = "open", NEW i \in Boundaries, i + 1 = x.b, x.root # i
      PROVE owner'[i].live /\ rec'[i].phase \in Resident /\ fut'[i] # "pending"
  <2>1. owner[i].live /\ rec[i].phase \in Resident /\ fut[i] # "pending" /\ HoldStep(i)
    BY <1>2, <1>4, <1>6 DEF Fits
  <2>2. Decided(rec[i])
    BY <1>2, <1>6 DEF Standing, Past
  <2> QED BY <1>3, <2>1, <2>2 DEF HoldStep
<1>7. Fits(x)'
  BY <1>2, <1>5, <1>6 DEF Fits
<1> QED BY <1>2, <1>7

\* A run that a step starts or moves.
LEMMA AdvanceFits ==
  ASSUME Typed, NEW r \in Runs, NEW d \in {"allow", "deny"}, Advance(r, d),
         \A i \in Boundaries : i = run[r].b /\ run[r].root # i =>
           owner'[i].live /\ rec'[i].phase \in Resident /\ fut'[i] # "pending"
  PROVE Fits(run[r])'
<1>1. PICK c \in Boundaries : c = run[r].b
  BY TypeFacts DEF Typed
<1>2. TypeOK /\ NB \in Nat
  BY ConstantsAssumption DEF Typed
<1>3. /\ run'[r].st = (IF c < NB THEN "open" ELSE "exec") /\ run'[r].b = IF c < NB THEN c + 1 ELSE c
      /\ run'[r].root = run[r].root
  BY <1>1, <1>2, Advanced
<1>4. PICK y : y = run'[r]
  OBVIOUS
<1>5. ASSUME y.st = "open", NEW i \in Boundaries, i + 1 = y.b, y.root # i
      PROVE owner'[i].live /\ rec'[i].phase \in Resident /\ fut'[i] # "pending"
  <2>1. i = c
    BY <1>2, <1>3, <1>4, <1>5 DEF Boundaries
  <2> QED BY <1>1, <1>3, <1>4, <1>5, <2>1
<1>6. y.st \in {"open", "exec"}
  BY <1>3, <1>4
<1>7. Fits(y)'
  BY <1>5, <1>6 DEF Fits
<1> QED BY <1>4, <1>7

LEMMA MoverFits ==
  ASSUME Web, Typed, WebInv, NEW r \in Runs, Mover(r) PROVE Fits(run[r])'
<1>0. TypeOK /\ ~A2A
  BY DEF Typed, A2A, Web
<1>a. run[r].st # "none" => Fits(run[r])
  BY DEF WebInv, WebRuns
<1>1. CASE OpenBoundary(r)
  <2>1. PICK c \in Boundaries : c = run[r].b
    BY <1>0, TypeFacts
  <2>2. /\ run'[r].st = "wait" /\ run'[r].b = c /\ fut' = [fut EXCEPT ![c] = "pending"]
        /\ owner' = [i \in Boundaries |-> IF i = c /\ Web THEN Registered(Checkpoint)
                                          ELSE IF i + 1 = c THEN Released(owner[i]) ELSE owner[i]]
    BY <1>1, <2>1, Opened
  <2>3. owner'[c].live /\ fut'[c] = "pending"
    BY <2>2, TypeFacts DEF Registered, Typed, TypeOK
  <2> QED BY <2>2, <2>3 DEF Fits, IsTold
<1>2. CASE ActivateBoundary(r)
  BY <1>a, <1>2 DEF ActivateBoundary, Fits
<1>3. CASE Execute(r) \/ Persist(r)
  <2>1. PICK x \in {"persist", "finish"} : run' = [run EXCEPT ![r].st = x]
    BY <1>3 DEF Execute, Persist
  <2>2. run'[r].st = x
    BY <1>0, <2>1, RunMoved
  <2> QED BY <2>2 DEF Fits
<1>4. ASSUME NEW ok \in BOOLEAN, TakeOutcome(r, ok) PROVE Fits(run[r])'
  <2>1. /\ run[r].st = "wait" /\ IsTold(run[r].b)
        /\ rec' = rec /\ owner' = owner /\ fut' = fut
    BY <1>0, <1>4 DEF TakeOutcome, IsTold
  <2>2. PICK d \in {"allow", "deny"} : Advance(r, d)
    BY <1>4 DEF TakeOutcome
  <2>3. owner[run[r].b].live /\ rec[run[r].b].phase \in Resident
    BY <1>a, <2>1 DEF Fits
  <2> QED BY <2>1, <2>2, <2>3, AdvanceFits DEF IsTold
<1>5. ASSUME NEW b \in Boundaries, RebuildCard(b) PROVE FALSE
  BY <1>0, <1>5 DEF RebuildCard
<1>6. ASSUME NEW q \in Requests, ClaimContinuation(q) PROVE FALSE
  BY <1>6 DEF ClaimContinuation, WebInv, WebRequests, Relies, WebSteps
<1>7. CASE r \in Requests /\ AcquireTurn(r)
  <2>1. StartRestored(r)
    BY <1>7 DEF AcquireTurn
  <2>2. run'[r].st = "restored" /\ run'[r].root = run'[r].b
    BY <1>0, <2>1 DEF StartRestored, TypeOK
  <2> QED BY <2>2 DEF Fits
<1>8. ASSUME r \in Requests, NEW ok \in BOOLEAN, ResumeBoundary(r, ok) PROVE Fits(run[r])'
  <2>1. run[r].st = "restored"
    BY <1>8 DEF ResumeBoundary
  <2>2. PICK d \in {"allow", "deny"} : Advance(r, d)
    BY <1>8 DEF ResumeBoundary
  <2>3. run[r].root = run[r].b
    BY <1>a, <2>1 DEF Fits
  <2> QED BY <2>2, <2>3, AdvanceFits
<1> QED BY <1>0, <1>1, <1>2, <1>3, <1>4, <1>5, <1>6, <1>7, <1>8 DEF Mover

LEMMA RunsKept ==
  ASSUME Web, Typed, DInv, WebInv, Tame, [Next]_vars PROVE WebRuns'
<1> SUFFICES ASSUME NEW r \in Runs, run'[r].st # "none" PROVE Fits(run[r])'
  BY DEF WebRuns
<1>0. TypeOK
  BY DEF Typed
<1>1. CASE run'[r] = run[r]
  BY <1>1, FitKept
<1>2. CASE run'[r] # run[r]
  BY <1>0, <1>2, WhoMoves, MoverFits
<1> QED BY <1>1, <1>2

\* Steps that let nobody take a restoration: one is released with its run.
LEMMA HoldersKept ==
  ASSUME WebHolders,
         \A b \in restoring : b \in restoring' \/ (NoRuns /\ \E r \in Runs : run[r].st # "none" /\ run[r].root = b),
         \A q \in Requests : Holding(req'[q]) => Holding(req[q]) /\ req'[q].b = req[q].b,
         \A r \in Runs : run'[r].st # "none" => run[r].st # "none" /\ run'[r].root = run[r].root
  PROVE WebHolders'
<1>1. \A q \in Requests : Holding(req'[q]) => req'[q].b \in restoring'
  <2> SUFFICES ASSUME NEW q \in Requests, Holding(req'[q]) PROVE req'[q].b \in restoring'
    OBVIOUS
  <2>1. /\ Holding(req[q]) /\ req'[q].b = req[q].b
        /\ req[q].b \in restoring
        /\ \A r \in Runs : run[r].st # "none" => run[r].root # req[q].b
    BY DEF WebHolders
  <2> QED BY <2>1
<1>2. \A q, p \in Requests : Holding(req'[q]) /\ Holding(req'[p]) /\ req'[p].b = req'[q].b => p = q
  BY DEF WebHolders
<1>3. \A q \in Requests : Holding(req'[q]) =>
        \A r \in Runs : run'[r].st # "none" => run'[r].root # req'[q].b
  BY DEF WebHolders
<1>4. \A r \in Runs : run'[r].st # "none" /\ run'[r].root # 0 => run'[r].root \in restoring'
  BY DEF WebHolders, NoRuns
<1> QED BY <1>1, <1>2, <1>3, <1>4 DEF WebHolders, Holding

\* A card that exists is not made resident again on the Web.
LEMMA NotResidentAgain ==
  ASSUME Web, Typed, [Next]_vars
  PROVE \A b \in Boundaries :
          rec[b].phase # "ABSENT" /\ rec'[b].phase \in Resident => rec[b].phase \in Resident
<1> SUFFICES ASSUME NEW b \in Boundaries, rec[b].phase # "ABSENT", rec'[b].phase \in Resident
             PROVE rec[b].phase \in Resident
  OBVIOUS
<1>0. ~A2A
  BY DEF A2A, Web
<1>1. CASE AllStill
  BY <1>1 DEF AllStill, Still
<1>2. ASSUME NEW r \in Runs, OpenBoundary(r) PROVE rec[b].phase \in Resident
  <2>1. PICK c \in Boundaries : c = run[r].b
    BY TypeFacts DEF Typed
  <2>2. /\ rec[c].phase = "ABSENT"
        /\ \A i \in Boundaries : i + 1 = c => rec'[i].phase = "RESOLVED"
        /\ \A i \in Boundaries : i # c /\ i + 1 # c => rec'[i] = rec[i]
    BY <1>2, <2>1, Opened
  <2> QED BY <2>2 DEF Resident
<1>3. ASSUME NEW r \in Runs, Conclude(r) PROVE rec[b].phase \in Resident
  <2>1. rec'[b] = rec[b] \/ rec'[b] = Resolve(rec[b])
    BY <1>3 DEF Conclude
  <2>2. Resolve(rec[b]).phase = "RESOLVED"
    <3>1. rec[b] \in Record /\ "RESOLVED" \in Phases
      BY DEF Typed, AllSound, Sound, Phases
    <3>2. Enter(rec[b], "RESOLVED").phase = "RESOLVED"
      BY <3>1, EnterFacts
    <3> QED BY <3>2 DEF Resolve
  <2> QED BY <2>1, <2>2 DEF Resident
<1> QED BY <1>0, <1>1, <1>2, <1>3, StepStill DEF RebuildCard, TerminateRestore

\* Owners are registered with new cards only.
OwnersGiven == \A b \in Boundaries : owner'[b].live => owner[b].live \/ rec[b].phase = "ABSENT"

\* A run is ended: nobody else had one, and its restoration may be released.
LEMMA EndedHolders ==
  ASSUME TypeOK, Exclusive, WebHolders, NEW r \in Runs, run[r].st # "none", EndRun(r),
         restoring' = Unrestored({run[r].root}),
         \A q \in Requests : Holding(req'[q]) => Holding(req[q]) /\ req'[q].b = req[q].b
  PROVE WebHolders'
<1>1. \A p \in Runs : run'[p].st = "none"
  BY Moves DEF Exclusive
<1>2. \A b \in restoring : b \in restoring' \/ (NoRuns /\ \E p \in Runs : run[p].st # "none" /\ run[p].root = b)
  BY <1>1 DEF NoRuns, Unrestored
<1> QED BY <1>1, <1>2, HoldersKept

\* A step of a run on the Web.
LEMMA RunTame ==
  ASSUME Web, Typed, Exclusive, WebInv, NEW r \in Runs, RunStep(r)
  PROVE Tame /\ WebHolders' /\ OwnersGiven
<1>0. /\ TypeOK /\ ~A2A /\ run[r].b \in Boundaries /\ DOMAIN rec = Boundaries /\ DOMAIN reg = Boundaries
      /\ \A b \in Boundaries : owner[b] \in Owner
      /\ DOMAIN owner = Boundaries
  BY TypeFacts DEF Typed, TypeOK, A2A, Web
<1>a. run[r].st # "none" /\ NoBystander
  BY <1>0, RunAlone
<1>b. run[r].st # "opening"
  BY <1>a DEF WebInv, WebRuns, Fits
<1>c. ~ActivateBoundary(r) /\ ~OpenBackupFails(r)
  BY <1>b DEF ActivateBoundary, OpenBackupFails
<1>1. \A b \in Boundaries : HoldStep(b)
  BY <1>a DEF HoldStep, NoBystander, Deserted
<1>2. /\ busy = None /\ busy' = busy
      /\ req' = req \/ EndHost(r)
  BY <1>c DEF RunStep, Free, OpenBoundary, TakeOutcome, Unwind, Execute, Persist, Conclude, RunFails
<1>3. \A q \in Requests : req'[q] = req[q] \/ req'[q] = NoRequest
  BY <1>0, <1>2 DEF EndHost, TypeOK
<1>4. \A q \in Requests : RequestStep(q)
  <2>1. \A q \in Requests : busy' # q
    BY <1>2, ConstantsAssumption
  <2> QED BY <1>3, <2>1 DEF RequestStep, NoRequest
<1>5. \A q \in Requests : Holding(req'[q]) => Holding(req[q]) /\ req'[q].b = req[q].b
  BY <1>3 DEF Holding, NoRequest
<1>6. \A b \in Boundaries : ListStep(b)
  <2> SUFFICES ASSUME NEW b \in Boundaries, reg'[b] = "none"
               PROVE reg[b] = "none" \/ rec'[b].phase \notin Resident
    BY DEF ListStep
  <2>1. CASE OpenBoundary(r)
    <3>1. PICK c \in Boundaries : c = run[r].b
      BY <1>0
    <3>a. /\ reg' = [i \in Boundaries |-> IF i = c THEN "card" ELSE IF i + 1 = c THEN "none" ELSE reg[i]]
          /\ run[r].st = "open"
      BY <2>1, <3>1 DEF OpenBoundary
    <3>b. \A i \in Boundaries : i + 1 = c => rec'[i].phase = "RESOLVED"
      BY <2>1, <3>1, Opened
    <3>2. /\ reg' = [i \in Boundaries |-> IF i = c THEN "card" ELSE IF i + 1 = c THEN "none" ELSE reg[i]]
          /\ \A i \in Boundaries : i + 1 = c => rec'[i].phase = "RESOLVED"
          /\ run[r].st = "open"
      BY <3>a, <3>b
    <3>3. b # c /\ (b + 1 # c => reg[b] = "none")
      BY <3>2
    <3> QED BY <3>2, <3>3 DEF Resident
  <2>2. CASE ~OpenBoundary(r)
    <3>2. CASE Conclude(r)
      <4>1. PICK c \in Boundaries : c = run[r].b
        BY <1>0
      <4>2. reg' = [reg EXCEPT ![c] = "none"]
            /\ rec' = [i \in Boundaries |-> IF i \in {c} THEN Resolve(rec[i]) ELSE rec[i]]
        BY <1>0, <3>2, <4>1 DEF Conclude
      <4>3. Resolve(rec[c]).phase = "RESOLVED"
        <5>1. rec[c] \in Record /\ "RESOLVED" \in Phases
          BY DEF Typed, AllSound, Sound, Phases
        <5>2. Enter(rec[c], "RESOLVED").phase = "RESOLVED"
          BY <5>1, EnterFacts
        <5> QED BY <5>2 DEF Resolve
      <4>4. rec'[c].phase = "RESOLVED"
        BY <4>2, <4>3
      <4> QED BY <1>0, <4>2, <4>4 DEF Resident
    <3>3. CASE RunFails(r)
      <4>1. reg' = reg \/ \E R : Relist(R, reg)
        BY <3>3 DEF RunFails
      <4>2. reg[b] = "none"
        BY <4>1 DEF Relist
      <4> QED BY <4>2
    <3>4. CASE (\E ok \in BOOLEAN : TakeOutcome(r, ok)) \/ Unwind(r) \/ Execute(r) \/ Persist(r)
      <4>1. reg' = reg \/ reg' = [reg EXCEPT ![run[r].b] = reg[run[r].b]]
        BY <1>0, <3>4 DEF TakeOutcome, Unwind, Execute, Persist
      <4>2. reg[b] = "none"
        BY <1>0, <4>1
      <4> QED BY <4>2
    <3> QED BY <1>c, <2>2, <3>2, <3>3, <3>4 DEF RunStep
  <2> QED BY <2>1, <2>2
<1>7. WebHolders'
  <2>0. WebHolders
    BY DEF WebInv
  <2>1. CASE OpenBoundary(r) \/ Execute(r) \/ Persist(r)
    <3>1. PICK x : run' = [run EXCEPT ![r].st = x] /\ restoring' = restoring
      BY <2>1 DEF OpenBoundary, Execute, Persist
    <3>2. run'[r].root = run[r].root /\ \A p \in Runs : p # r => run'[p] = run[p]
      BY <1>0, <3>1, RunMoved, RunRoot
    <3> QED BY <1>5, <1>a, <2>0, <3>1, <3>2, HoldersKept
  <2>2. ASSUME NEW ok \in BOOLEAN, TakeOutcome(r, ok) PROVE WebHolders'
    <3>1. PICK d \in {"allow", "deny"} : Advance(r, d)
      BY <2>2 DEF TakeOutcome
    <3>2. restoring' = restoring
      BY <2>2 DEF TakeOutcome
    <3>3. run'[r].root = run[r].root /\ \A p \in Runs : p # r => run'[p] = run[p]
      BY <1>0, <3>1, Advanced
    <3> QED BY <1>5, <1>a, <2>0, <3>2, <3>3, HoldersKept
  <2>3. CASE Unwind(r) \/ Conclude(r) \/ RunFails(r)
    <3>1. EndRun(r) /\ restoring' = Unrestored({run[r].root})
      BY <2>3 DEF Unwind, Conclude, RunFails
    <3> QED BY <1>0, <1>5, <1>a, <2>0, <3>1, EndedHolders
  <2> QED BY <1>c, <2>1, <2>2, <2>3 DEF RunStep
<1>8. OwnersGiven
  <2> SUFFICES ASSUME NEW b \in Boundaries, owner'[b].live PROVE owner[b].live \/ rec[b].phase = "ABSENT"
    BY DEF OwnersGiven
  <2>1. Released(owner[b]).live = FALSE
    BY <1>0, OwnerLive
  <2>2. CASE OpenBoundary(r)
    <3>1. PICK c \in Boundaries : c = run[r].b
      BY <1>0
    <3>2. /\ owner' = [i \in Boundaries |-> IF i = c /\ Web THEN Registered(Checkpoint)
                                            ELSE IF i + 1 = c THEN Released(owner[i]) ELSE owner[i]]
          /\ rec[c].phase = "ABSENT"
      BY <2>2, <3>1, Opened
    <3> QED BY <2>1, <3>2
  <2>3. CASE (\E ok \in BOOLEAN : TakeOutcome(r, ok)) \/ Execute(r) \/ Persist(r)
    BY <1>0, <2>3 DEF TakeOutcome, Execute, Persist
  <2>4. CASE Unwind(r) \/ Conclude(r)
    <3>1. owner' = [owner EXCEPT ![run[r].b] = Released(owner[run[r].b])]
      BY <1>0, <2>4 DEF Unwind, Conclude
    <3> QED BY <1>0, <2>1, <3>1
  <2>5. CASE RunFails(r)
    <3>1. owner'[b] = Released(owner[b]) \/ owner'[b] = owner[b]
      BY <2>5 DEF RunFails
    <3> QED BY <2>1, <3>1
  <2> QED BY <1>c, <2>2, <2>3, <2>4, <2>5 DEF RunStep
<1> QED BY <1>1, <1>4, <1>6, <1>7, <1>8 DEF Tame

\* A step that answers no future and takes no owner away.
LEMMA CalmHolds ==
  ASSUME NEW b \in Boundaries, owner'[b].live = owner[b].live, fut'[b] = fut[b],
         owner[b].live /\ Decided(rec[b]) /\ rec[b].phase \in Resident => rec'[b].phase \in Resident
  PROVE HoldStep(b)
  BY DEF HoldStep, IsTold

\* The timer on the Web.
LEMMA BoundaryTame ==
  ASSUME Web, Typed, WebInv, NEW c \in Boundaries, BoundaryStep(c)
  PROVE Tame /\ WebHolders' /\ OwnersGiven
<1>0. /\ ~A2A /\ DOMAIN rec = Boundaries /\ DOMAIN owner = Boundaries /\ DOMAIN fut = Boundaries
      /\ \A b \in Boundaries : owner[b] \in Owner
  BY TypeFacts DEF Typed, TypeOK, A2A, Web
<1>1. Tick(c) \/ TimerFires(c) \/ TimerLost(c) \/ TimerRearmed(c)
  BY <1>0 DEF BoundaryStep, RebuildCard, CancelTask
<1>2. /\ req' = req /\ run' = run /\ restoring' = restoring /\ busy' = busy /\ reg' = reg
      /\ rec' = rec \/ busy = None
  BY <1>1 DEF Tick, TimerFires, TimerLost, TimerRearmed, Free
<1>3. \A q \in Requests : RequestStep(q)
  BY <1>2, ConstantsAssumption DEF RequestStep
<1>4. \A b \in Boundaries : ListStep(b)
  BY <1>2 DEF ListStep
<1>5. WebHolders'
  BY <1>2 DEF WebInv, WebHolders
<1>6. \A b \in Boundaries : HoldStep(b) /\ owner'[b].live = owner[b].live
  <2> SUFFICES ASSUME NEW b \in Boundaries PROVE HoldStep(b) /\ owner'[b].live = owner[b].live
    OBVIOUS
  <2>1. CASE Tick(c) \/ TimerLost(c) \/ TimerRearmed(c)
    <3>1. PICK x : owner' = owner \/ owner' = [owner EXCEPT ![c] = [owner[c] EXCEPT !.timer = x]]
      BY <1>0, <2>1 DEF Tick, TimerLost, TimerRearmed
    <3>2. [owner[c] EXCEPT !.timer = x].live = owner[c].live
      BY <1>0, OwnerLive
    <3>3. owner'[b].live = owner[b].live
      BY <1>0, <3>1, <3>2
    <3>4. rec' = rec /\ fut' = fut
      BY <2>1 DEF Tick, TimerLost, TimerRearmed
    <3> QED BY <3>3, <3>4, CalmHolds
  <2>2. CASE TimerFires(c)
    <3> DEFINE fenced == rec[c].generation # owner[c].generation
               new == IF fenced THEN rec[c] ELSE Reconciled(c, TRUE, TRUE)
               suspended == ~fenced /\ new.phase = "SUSPENDING"
               o == IF fenced THEN owner[c] ELSE Held(owner[c], new)
    <3>1. PICK x : owner' = [owner EXCEPT ![c] = [o EXCEPT !.timer = x]]
      BY <1>0, <2>2 DEF TimerFires
    <3>2. /\ fut[c] = "pending" /\ rec' = [rec EXCEPT ![c] = new]
          /\ fut' = [fut EXCEPT ![c] = IF suspended THEN "suspend" ELSE fut[c]]
      BY <2>2 DEF TimerFires
    <3>3. new \in Record
      BY AdvancesReconciled DEF Typed, AllSound, Advances, Sound
    <3> HIDE DEF new, fenced
    <3>4. o \in Owner /\ o.live = owner[c].live
      BY <1>0, <3>3, OwnerFacts, OwnerLive
    <3> HIDE DEF o, suspended
    <3>5. [o EXCEPT !.timer = x].live = owner[c].live
      BY <3>4, OwnerLive
    <3>6. owner'[b].live = owner[b].live
      BY <1>0, <3>1, <3>5
    <3>7. CASE b = c
      BY <1>0, <3>2, <3>6, <3>7 DEF HoldStep, IsTold
    <3>8. CASE b # c
      BY <1>0, <3>2, <3>6, <3>8, CalmHolds
    <3> QED BY <3>6, <3>7, <3>8
  <2> QED BY <1>1, <2>1, <2>2
<1> QED BY <1>3, <1>4, <1>5, <1>6 DEF Tame, OwnersGiven

\* A client's answer arrives.
LEMMA SubmitTame ==
  ASSUME Web, Typed, WebInv, NEW q \in Requests, Submit(q)
  PROVE Tame /\ WebHolders' /\ OwnersGiven
<1>0. ~A2A /\ TypeOK
  BY DEF Typed, A2A, Web
<1>1. PICK c \in Boundaries, v \in Answers : SubmitWeb(q, c, v)
  BY <1>0 DEF Submit, SubmitA2A
<1> DEFINE to == IF reg[c] = "none" THEN "restore" ELSE IF owner[c].live THEN "lock" ELSE "reconcile"
<1>2. /\ req' = [req EXCEPT ![q] = [st |-> to, b |-> c, v |-> v, id |-> owner[c].id, phase |-> "ABSENT"]]
      /\ rec' = rec /\ owner' = owner /\ fut' = fut /\ reg' = reg /\ run' = run
      /\ restoring' = restoring /\ busy' = busy /\ busy = None /\ q \notin Foreign
      /\ rec[c].phase # "ABSENT" /\ results' = results
  BY <1>1 DEF SubmitWeb, Free, Published
<1>3. /\ req'[q].st = to /\ req'[q].b = c
      /\ \A p \in Requests : p # q => req'[p] = req[p]
  BY <1>0, <1>2 DEF TypeOK
<1>4. Relies(req[q])'
  <2>1. PICK y : y = req'[q]
    OBVIOUS
  <2>2. /\ y.b = c
        /\ \/ y.st = "restore" /\ reg[c] = "none"
           \/ y.st = "lock"
           \/ y.st = "reconcile" /\ ~owner[c].live
    BY <1>3, <2>1
  <2>3. reg[c] = "none" => rec[c].phase \notin Resident
    BY DEF WebInv, WebCards
  <2>4. Relies(y)'
    BY <1>2, <2>2, <2>3 DEF Relies, WebSteps, Recovering
  <2> QED BY <2>1, <2>4
<1>5. busy' # q /\ \A p \in Requests : busy' # p
  BY <1>2, ConstantsAssumption
<1>6. \A p \in Requests : RequestStep(p)
  BY <1>2, <1>3, <1>4, <1>5 DEF RequestStep, Current
<1>7. \A b \in Boundaries : HoldStep(b) /\ ListStep(b)
  BY <1>2 DEF HoldStep, ListStep, IsTold
<1>8. \A p \in Requests : Holding(req'[p]) => Holding(req[p]) /\ req'[p].b = req[p].b
  BY <1>3 DEF Holding
<1>9. WebHolders'
  BY <1>2, <1>8, HoldersKept DEF WebInv
<1> QED BY <1>2, <1>6, <1>7, <1>9 DEF Tame, OwnersGiven

\* A step of one request: the others rely on what they relied on.
LEMMA OneRequest ==
  ASSUME Typed, WebInv, NEW q \in Requests, q \notin Foreign,
         \A p \in Requests : p # q => req'[p] = req[p] /\ busy' # p,
         \/ req'[q].st \in {"idle", "run"}
         \/ Relies(req[q])' /\ Current(q)'
  PROVE \A p \in Requests : RequestStep(p)
<1> SUFFICES ASSUME NEW p \in Requests PROVE RequestStep(p)
  OBVIOUS
<1>1. CASE p = q
  BY <1>1 DEF RequestStep
<1>2. CASE p # q
  BY <1>2 DEF RequestStep
<1> QED BY <1>1, <1>2

\* An answer to a live owner.
LEMMA LiveTame ==
  ASSUME Web, Typed, DInv, WebInv, Places, NEW q \in Requests, LiveAnswer(q)
  PROVE Tame /\ WebHolders' /\ OwnersGiven
<1>0. /\ ~A2A /\ TypeOK /\ DOMAIN rec = Boundaries /\ DOMAIN owner = Boundaries
      /\ DOMAIN fut = Boundaries /\ DOMAIN reg = Boundaries
      /\ req[q].b \in Boundaries /\ req[q].v \in Values /\ None \notin Requests
  BY TypeFacts, ConstantsAssumption DEF Typed, TypeOK, A2A, Web
<1>1. PICK c \in Boundaries : c = req[q].b
  BY <1>0
<1>2. Relies(req[q]) /\ Current(q) /\ (q \in Foreign => req[q].st = "idle")
  BY DEF WebInv, WebRequests
<1>3. Sound(rec[c]) /\ rec[c] \in Record /\ owner[c] \in Owner
  BY TypeFacts DEF Typed, AllSound
<1>4. ~DeliveryFails(q) /\ ~ClaimContinuation(q) /\ ~OwnerUnwound(q)
  BY SMTT(60), <1>0, <1>2 DEF DeliveryFails, ClaimContinuation, OwnerUnwound, Relies, WebSteps
<1>5. req[q].st \in {"lock", "claim", "audit", "backup", "release"}
  BY <1>4, ZenonT(30) DEF LiveAnswer, ClaimReconcile, ClaimDecision, ClaimAudit, ClaimBackedUp, Deliver
<1>6. q \notin Foreign /\ rec[c].phase # "ABSENT"
  BY SMTT(60), <1>1, <1>2, <1>5 DEF Relies
<1>7. run' = run /\ restoring' = restoring
  BY <1>4, ZenonT(30) DEF LiveAnswer, ClaimReconcile, ClaimDecision, ClaimAudit, ClaimBackedUp, Deliver
<1>a. ASSUME NEW s, NEW o, rec' = [rec EXCEPT ![c] = s] \/ (rec' = rec /\ s = rec[c]),
             owner' = [owner EXCEPT ![c] = o] \/ (owner' = owner /\ o = owner[c]),
             o.live = owner[c].live,
             owner[c].live /\ Decided(rec[c]) /\ rec[c].phase \in Resident => s.phase \in Resident,
             fut' = fut
      PROVE (\A b \in Boundaries : HoldStep(b)) /\ OwnersGiven
  <2>1. ASSUME NEW b \in Boundaries
        PROVE /\ owner'[b].live = owner[b].live
              /\ owner[b].live /\ Decided(rec[b]) /\ rec[b].phase \in Resident =>
                   rec'[b].phase \in Resident
    BY <1>0, <1>a
  <2>2. \A b \in Boundaries : HoldStep(b)
    BY <1>a, <2>1, CalmHolds
  <2> QED BY <2>1, <2>2 DEF OwnersGiven
<1>b. ASSUME \A p \in Requests : p # q => req'[p] = req[p],
             busy' = q \/ busy' = None, ~Holding(req'[q]),
             req'[q].st = "idle" \/ (Relies(req[q])' /\ Current(q)')
      PROVE (\A p \in Requests : RequestStep(p)) /\ WebHolders'
  <2>1. \A p \in Requests : p # q => busy' # p
    BY <1>0, <1>b
  <2>2. \A p \in Requests : RequestStep(p)
    BY <1>6, <1>b, <2>1, OneRequest
  <2>3. \A p \in Requests : Holding(req'[p]) => Holding(req[p]) /\ req'[p].b = req[p].b
    BY <1>b
  <2>4. WebHolders'
    BY <1>7, <2>3, HoldersKept DEF WebInv
  <2> QED BY <2>2, <2>4
<1>c. ASSUME NEW x \in {"claim", "audit", "backup", "release"}, req'[q].st = x, req'[q].b = c,
             rec'[c].phase # "ABSENT", x \in {"backup", "release"} => req'[q].phase = rec'[c].phase
      PROVE Relies(req[q])' /\ Current(q)' /\ ~Holding(req'[q])
  <2>1. PICK y : y = req'[q]
    OBVIOUS
  <2>2. Relies(y)'
    BY <1>c, <2>1 DEF Relies, WebSteps, Recovering
  <2> QED BY <1>c, <2>1, <2>2 DEF Current, Holding
<1>8. ASSUME NEW allow \in BOOLEAN, ClaimReconcile(q, allow) PROVE Tame /\ WebHolders' /\ OwnersGiven
  <2>0. reg' = reg /\ fut' = fut
    BY <1>0, <1>8 DEF ClaimReconcile, Refuse
  <2>1. \A b \in Boundaries : ListStep(b)
    BY <2>0 DEF ListStep
  <2>2. CASE Finish(q) /\ rec' = rec /\ owner' = owner /\ busy' = busy
    <3>1. req'[q].st = "idle" /\ \A p \in Requests : p # q => req'[p] = req[p]
      BY <1>0, <2>2, RequestMoved
    <3>2. busy' = None
      BY <1>8, <2>2 DEF ClaimReconcile, Free
    <3>3. (\A p \in Requests : RequestStep(p)) /\ WebHolders'
      BY <1>b, <3>1, <3>2 DEF Holding
    <3>4. (\A b \in Boundaries : HoldStep(b)) /\ OwnersGiven
      BY <1>a, <2>0, <2>2
    <3> QED BY <2>1, <3>3, <3>4 DEF Tame
  <2>3. CASE Goto(q, "claim")
    <3> DEFINE new == Reconciled(c, TRUE, allow)
               o == Held(owner[c], new)
    <3>1. /\ rec' = [rec EXCEPT ![c] = new] /\ busy' = q
          /\ owner' = [owner EXCEPT ![c] = [o EXCEPT !.lock = q]]
      <4>1. \/ Finish(q)
            \/ /\ rec' = [rec EXCEPT ![c] = new] /\ busy' = q
               /\ owner' = [owner EXCEPT ![c] = [o EXCEPT !.lock = q]]
        BY <1>0, <1>1, <1>8 DEF ClaimReconcile, Refuse
      <4>2. ~Finish(q)
        BY <1>0, <2>3, RequestMoved
      <4> QED BY <4>1, <4>2
    <3>2. /\ Still(rec[c], new) /\ new \in Record
          /\ owner[c].live /\ Decided(rec[c]) /\ rec[c].phase \in Resident => new.phase \in Resident
      <4>1. new \in Record
        BY AdvancesReconciled DEF Typed, AllSound, Advances, Sound
      <4>2. /\ Still(rec[c], new)
            /\ Decided(rec[c]) /\ rec[c].phase \in Resident => new.phase \in Resident
        BY StillBasics
      <4> QED BY <4>1, <4>2
    <3> HIDE DEF new
    <3>3. o \in Owner /\ o.live = owner[c].live
      BY <1>3, <3>2, OwnerFacts, OwnerLive
    <3> HIDE DEF o
    <3>4. [o EXCEPT !.lock = q].live = owner[c].live
      BY <3>3, OwnerLive
    <3>5. (\A b \in Boundaries : HoldStep(b)) /\ OwnersGiven
      BY <1>a, <2>0, <3>1, <3>2, <3>4
    <3>6. /\ req'[q].st = "claim" /\ req'[q].b = c
          /\ \A p \in Requests : p # q => req'[p] = req[p]
      BY <1>0, <1>1, <2>3, RequestMoved
    <3>7. rec'[c].phase # "ABSENT"
      BY <1>0, <1>6, <3>1, <3>2 DEF Still
    <3>8. Relies(req[q])' /\ Current(q)' /\ ~Holding(req'[q])
      BY <1>c, <3>6, <3>7
    <3>9. (\A p \in Requests : RequestStep(p)) /\ WebHolders'
      BY <1>b, <3>1, <3>6, <3>8
    <3> QED BY <2>1, <3>5, <3>9 DEF Tame
  <2> QED BY <1>0, <1>8, <2>2, <2>3 DEF ClaimReconcile, Refuse
<1>9. CASE ClaimDecision(q)
  <2>0. reg' = reg /\ fut' = fut
    BY <1>0, <1>9 DEF ClaimDecision
  <2>1. \A b \in Boundaries : ListStep(b)
    BY <2>0 DEF ListStep
  <2>2. CASE Finish(q) /\ rec' = rec /\ busy' = None /\ owner' = [owner EXCEPT ![c].lock = None]
    <3>1. req'[q].st = "idle" /\ \A p \in Requests : p # q => req'[p] = req[p]
      BY <1>0, <2>2, RequestMoved
    <3>2. (\A p \in Requests : RequestStep(p)) /\ WebHolders'
      BY <1>b, <2>2, <3>1 DEF Holding
    <3>3. owner' = [owner EXCEPT ![c] = [owner[c] EXCEPT !.lock = None]]
      BY <1>0, <2>2
    <3>4. [owner[c] EXCEPT !.lock = None].live = owner[c].live
      BY <1>3, OwnerLive
    <3>5. (\A b \in Boundaries : HoldStep(b)) /\ OwnersGiven
      BY <1>a, <2>0, <2>2, <3>3, <3>4
    <3> QED BY <2>1, <3>2, <3>5 DEF Tame
  <2>3. CASE /\ CanClaim(rec[c], req[q].v) /\ Goto(q, "audit") /\ busy' = busy
             /\ rec' = [rec EXCEPT ![c] = Claim(rec[c], req[q].v)]
             /\ owner' = [owner EXCEPT ![c] = Held(owner[c], Claim(rec[c], req[q].v))]
    <3>1. Claim(rec[c], req[q].v).phase = rec[c].phase
      BY <1>0, <1>3, <2>3, StillFacts
    <3>2. Held(owner[c], Claim(rec[c], req[q].v)).live = owner[c].live
      BY <1>3, OwnerLive
    <3>3. (\A b \in Boundaries : HoldStep(b)) /\ OwnersGiven
      BY <1>a, <2>0, <2>3, <3>1, <3>2
    <3>4. /\ req'[q].st = "audit" /\ req'[q].b = c
          /\ \A p \in Requests : p # q => req'[p] = req[p]
      BY <1>0, <1>1, <2>3, RequestMoved
    <3>5. rec'[c].phase # "ABSENT"
      BY <1>0, <1>6, <2>3, <3>1
    <3>6. Relies(req[q])' /\ Current(q)' /\ ~Holding(req'[q])
      BY <1>c, <3>4, <3>5
    <3>7. busy' = q
      BY <1>9, <2>3 DEF ClaimDecision
    <3>8. (\A p \in Requests : RequestStep(p)) /\ WebHolders'
      BY <1>b, <3>4, <3>6, <3>7
    <3> QED BY <2>1, <3>3, <3>8 DEF Tame
  <2> QED BY <1>0, <1>1, <1>9, <2>2, <2>3 DEF ClaimDecision
<1>10. ASSUME NEW s, NEW x \in {"backup", "release"}, s.phase = rec[c].phase,
              rec' = [rec EXCEPT ![c] = s], owner' = [owner EXCEPT ![c] = Held(owner[c], s)],
              req' = [req EXCEPT ![q].st = x, ![q].phase = s.phase],
              fut' = fut, reg' = reg, busy' = q
       PROVE Tame /\ WebHolders' /\ OwnersGiven
  <2>1. \A b \in Boundaries : ListStep(b)
    BY <1>10 DEF ListStep
  <2>2. Held(owner[c], s).live = owner[c].live
    BY <1>3, OwnerLive
  <2>3. (\A b \in Boundaries : HoldStep(b)) /\ OwnersGiven
    BY <1>a, <1>10, <2>2
  <2>4. PICK p0 : p0 = s.phase
    OBVIOUS
  <2>5. req' = [req EXCEPT ![q].st = x, ![q].phase = p0]
    BY <1>10, <2>4
  <2>6. /\ req'[q].st = x /\ req'[q].b = c
        /\ \A p \in Requests : p # q => req'[p] = req[p]
    BY <1>0, <1>1, <2>5, RequestMoved
  <2>7. req'[q].phase = p0
    <3>1. req \in [Requests -> RequestState]
      BY <1>0 DEF TypeOK
    <3> QED BY <2>5, <3>1 DEF RequestState
  <2>8. rec'[c] = s
    BY <1>0, <1>10
  <2>9. Relies(req[q])' /\ Current(q)' /\ ~Holding(req'[q])
    BY <1>c, <1>6, <1>10, <2>4, <2>6, <2>7, <2>8
  <2>10. (\A p \in Requests : RequestStep(p)) /\ WebHolders'
    BY <1>b, <1>10, <2>6, <2>9
  <2> QED BY <2>1, <2>3, <2>10 DEF Tame
<1>11. ASSUME NEW ok \in BOOLEAN, ClaimAudit(q, ok) PROVE Tame /\ WebHolders' /\ OwnersGiven
  <2> DEFINE s == Audit(rec[c], ok)
  <2>1. PICK x \in {"backup", "release"} : req' = [req EXCEPT ![q].st = x, ![q].phase = s.phase]
    BY <1>1, <1>11 DEF ClaimAudit
  <2>2. /\ rec' = [rec EXCEPT ![c] = s] /\ owner' = [owner EXCEPT ![c] = Held(owner[c], s)]
        /\ fut' = fut /\ reg' = reg /\ busy' = q /\ Decided(rec[c])
    BY <1>0, <1>1, <1>11 DEF ClaimAudit, CanAudit
  <2>3. s.phase = rec[c].phase
    BY <1>3, <2>2, DecisionFacts
  <2> HIDE DEF s
  <2> QED BY <1>10, <2>1, <2>2, <2>3
<1>12. CASE ClaimBackedUp(q)
  <2> DEFINE s == MarkBackedUp(rec[c])
  <2>1. /\ rec' = [rec EXCEPT ![c] = s] /\ owner' = [owner EXCEPT ![c] = Held(owner[c], s)]
        /\ fut' = fut /\ reg' = reg /\ busy' = q
        /\ req' = [req EXCEPT ![q].st = "release", ![q].phase = s.phase]
    BY <1>0, <1>1, <1>12 DEF ClaimBackedUp
  <2>2. s.phase = rec[c].phase
    BY <1>3, StillFacts
  <2> HIDE DEF s
  <2> QED BY <1>10, <2>1, <2>2
<1>13. CASE Deliver(q)
  <2>1. req[q].phase = rec[c].phase /\ busy = q /\ busy' = None
    BY <1>0, <1>1, <1>2, <1>13 DEF Deliver, Current
  <2>2. CASE req[q].phase \in {"SUSPENDING", "SUSPENDED", "RESTORING"}
    <3>1. /\ rec' = [rec EXCEPT ![c] = rec[c]] /\ fut' = [fut EXCEPT ![c] = fut[c]]
          /\ owner' = [owner EXCEPT ![c] = [owner[c] EXCEPT !.lock = None]]
          /\ reg' = [reg EXCEPT ![c] = "none"] /\ Goto(q, "restore")
      BY <1>0, <1>1, <1>13, <2>2 DEF Deliver
    <3>2. fut' = fut /\ rec' = rec
      BY <1>0, <3>1 DEF TypeOK
    <3>3. [owner[c] EXCEPT !.lock = None].live = owner[c].live
      BY <1>3, OwnerLive
    <3>4. (\A b \in Boundaries : HoldStep(b)) /\ OwnersGiven
      BY <1>a, <3>1, <3>2, <3>3
    <3>5. \A b \in Boundaries : ListStep(b)
      BY <1>0, <2>1, <2>2, <3>1, <3>2 DEF ListStep, Resident
    <3>6. /\ req'[q].st = "restore" /\ req'[q].b = c
          /\ \A p \in Requests : p # q => req'[p] = req[p]
      BY <1>0, <1>1, <3>1, RequestMoved
    <3>7. Relies(req[q])' /\ Current(q)' /\ ~Holding(req'[q])
      <4>1. PICK y : y = req'[q]
        OBVIOUS
      <4>2. Relies(y)'
        BY <1>6, <2>1, <2>2, <3>2, <3>6, <4>1 DEF Relies, WebSteps, Recovering, Resident
      <4> QED BY <3>6, <4>1, <4>2 DEF Current, Holding
    <3>8. (\A p \in Requests : RequestStep(p)) /\ WebHolders'
      BY <1>b, <2>1, <3>6, <3>7
    <3> QED BY <3>4, <3>5, <3>8 DEF Tame
  <2>3. CASE req[q].phase \notin {"SUSPENDING", "SUSPENDED", "RESTORING"}
    <3> DEFINE new == MarkApplied(rec[c])
               h == Held(owner[c], new)
               l == [h EXCEPT !.lock = None]
    <3>1. /\ rec' = [rec EXCEPT ![c] = new]
          /\ owner' = [owner EXCEPT ![c] = [h EXCEPT !.lock = None, !.timer = "off"]]
          /\ reg' = reg /\ Finish(q) /\ Decided(rec[c])
      <4>1. rec' = [rec EXCEPT ![c] = new] /\ Finish(q) /\ Decided(rec[c])
        BY <1>0, <1>1, <1>13, <2>3 DEF Deliver, CanMarkApplied
      <4>2. reg' = [reg EXCEPT ![c] = reg[c]]
        BY <1>0, <1>1, <1>13, <2>3 DEF Deliver
      <4>3. reg' = reg
        BY <1>0, <4>2 DEF TypeOK
      <4>4. owner' = [owner EXCEPT ![c] = [h EXCEPT !.lock = None, !.timer = "off"]]
        BY <1>0, <1>1, <1>13, <2>3 DEF Deliver
      <4> QED BY <4>1, <4>3, <4>4
    <3>2. /\ \A b \in Boundaries : b # c => fut'[b] = fut[b]
          /\ fut[c] # "pending" => fut'[c] = fut[c]
          /\ fut[c] = "pending" => fut'[c] \in {"allow", "deny"}
      BY <1>0, <1>1, <1>13, <2>3 DEF Deliver
    <3>3. new.phase = rec[c].phase /\ new \in Record
      BY <1>3, <3>1, DecisionFacts, AdvancesMarks DEF Advances, Sound
    <3> HIDE DEF new
    <3>4. h \in Owner /\ h.live = owner[c].live
      BY <1>3, <3>3, OwnerFacts, OwnerLive
    <3> HIDE DEF h
    <3>5. l \in Owner /\ l.live = owner[c].live
      BY <1>0, <3>4, OwnerFacts, OwnerLive
    <3>6. [h EXCEPT !.lock = None, !.timer = "off"] = [l EXCEPT !.timer = "off"]
      OBVIOUS
    <3> HIDE DEF l
    <3>7. [h EXCEPT !.lock = None, !.timer = "off"].live = owner[c].live
      BY ZenonT(60), <3>5, <3>6, OwnerLive
    <3>8. \A b \in Boundaries : owner'[b].live = owner[b].live
      BY <1>0, <3>1, <3>7
    <3>9. \A b \in Boundaries : rec'[b].phase = rec[b].phase
      BY <1>0, <3>1, <3>3
    <3>10. fut[c] = "pending" => rec'[c].phase \in Resident \/ Deserted(c)
      <4> SUFFICES ASSUME fut[c] = "pending", NEW r \in Runs, run[r].st = "wait", run[r].b = c
                   PROVE rec'[c].phase \in Resident
        BY DEF Deserted
      <4>1. PICK x : x = run[r]
        OBVIOUS
      <4>2. Standing(x) /\ Placed(x) /\ x.st = "wait" /\ x.b = c
        BY <4>1 DEF DInv, Runners, Places
      <4>3. rec[c].phase # "CANCELED" /\ rec[c].phase # "RESOLVED"
        BY <4>2 DEF Standing, Placed, AtCard, Canceled
      <4>4. rec[c].phase \in Phases
        BY <1>3, <1>6 DEF Record
      <4> QED BY <2>1, <2>3, <3>9, <4>3, <4>4 DEF Phases, ActivePhases, Resident
    <3>11. \A b \in Boundaries : HoldStep(b)
      <4> SUFFICES ASSUME NEW b \in Boundaries PROVE HoldStep(b)
        OBVIOUS
      <4>1. CASE b = c
        BY <3>2, <3>8, <3>9, <3>10, <4>1 DEF HoldStep, IsTold
      <4>2. CASE b # c
        BY <3>2, <3>8, <3>9, <4>2, CalmHolds
      <4> QED BY <4>1, <4>2
    <3>12. OwnersGiven
      BY <3>8 DEF OwnersGiven
    <3>13. \A b \in Boundaries : ListStep(b)
      BY <3>1 DEF ListStep
    <3>14. req'[q].st = "idle" /\ \A p \in Requests : p # q => req'[p] = req[p]
      BY <1>0, <3>1, RequestMoved
    <3>15. (\A p \in Requests : RequestStep(p)) /\ WebHolders'
      BY <1>b, <2>1, <3>14 DEF Holding
    <3> QED BY <3>11, <3>12, <3>13, <3>15 DEF Tame
  <2> QED BY <2>2, <2>3
<1> QED BY <1>4, <1>8, <1>9, <1>11, <1>12, <1>13 DEF LiveAnswer

\* A restoration is taken, given back, or handed over to the run it starts.
LEMMA TakenHolders ==
  ASSUME WebHolders, NEW q \in Requests, req[q].b # 0, req[q].b \notin restoring,
         restoring' = restoring \cup {req[q].b}, run' = run, req'[q].b = req[q].b,
         \A p \in Requests : p # q => req'[p] = req[p]
  PROVE WebHolders'
<1> DEFINE c == req[q].b
<1>1. \A p \in Requests : Holding(req[p]) => req[p].b \in restoring /\ req[p].b # c
  BY DEF WebHolders
<1>2. \A r \in Runs : run[r].st # "none" => run[r].root # c
  BY DEF WebHolders
<1>3. \A r \in Runs : run[r].st # "none" /\ run[r].root # 0 => run[r].root \in restoring /\ run[r].root # c
  BY DEF WebHolders
<1>4. \A p \in Requests : Holding(req'[p]) => req'[p].b \in restoring'
  BY <1>1
<1>5. \A p, k \in Requests : Holding(req'[p]) /\ Holding(req'[k]) /\ req'[k].b = req'[p].b => k = p
  BY <1>1 DEF WebHolders
<1>6. \A p \in Requests : Holding(req'[p]) =>
        \A r \in Runs : run'[r].st # "none" => run'[r].root # req'[p].b
  <2>1. \A p \in Requests : Holding(req'[p]) => p = q \/ (Holding(req[p]) /\ req'[p].b = req[p].b)
    OBVIOUS
  <2>2. \A p \in Requests : Holding(req[p]) =>
          \A r \in Runs : run[r].st # "none" => run[r].root # req[p].b
    BY DEF WebHolders
  <2> QED BY <1>2, <2>1, <2>2
<1>7. \A r \in Runs : run'[r].st # "none" /\ run'[r].root # 0 => run'[r].root \in restoring'
  BY <1>3
<1> QED BY <1>4, <1>5, <1>6, <1>7 DEF WebHolders, Holding

LEMMA GivenHolders ==
  ASSUME WebHolders, NEW q \in Requests, Holding(req[q]), ~Holding(req'[q]),
         \A p \in Requests : p # q => req'[p] = req[p],
         \/ restoring' = Unrestored({req[q].b}) /\ run' = run
         \/ /\ restoring' = restoring /\ q \in Runs
            /\ run'[q].root = req[q].b /\ \A r \in Runs : run[r].st = "none"
            /\ \A r \in Runs : r # q => run'[r] = run[r]
  PROVE WebHolders'
<1> DEFINE c == req[q].b
<1>1. \A p \in Requests : Holding(req'[p]) =>
        /\ p # q /\ req'[p] = req[p] /\ Holding(req[p]) /\ req[p].b \in restoring /\ req[p].b # c
  BY DEF WebHolders
<1>2. \A r \in Runs : run[r].st # "none" => run[r].root # c
  BY DEF WebHolders
<1>3. \A p, k \in Requests : Holding(req'[p]) /\ Holding(req'[k]) /\ req'[k].b = req'[p].b => k = p
  BY <1>1 DEF WebHolders
<1>4. \A p \in Requests : Holding(req'[p]) => req'[p].b \in restoring'
  BY <1>1 DEF Unrestored
<1>5. \A p \in Requests : Holding(req'[p]) =>
        \A r \in Runs : run'[r].st # "none" => run'[r].root # req'[p].b
  BY <1>1 DEF WebHolders
<1>6. \A r \in Runs : run'[r].st # "none" /\ run'[r].root # 0 => run'[r].root \in restoring'
  BY <1>2 DEF WebHolders, Unrestored
<1> QED BY <1>3, <1>4, <1>5, <1>6 DEF WebHolders, Holding

\* A recovery.
LEMMA ColdTame ==
  ASSUME Web, Typed, Exclusive, WebInv, NEW q \in Requests, ColdAnswer(q)
  PROVE Tame /\ WebHolders' /\ OwnersGiven
<1>0. /\ ~A2A /\ TypeOK /\ DOMAIN rec = Boundaries /\ DOMAIN reg = Boundaries
      /\ req[q].b \in Boundaries /\ req[q].v \in Values /\ None \notin Requests /\ q \in Runs
  BY TypeFacts, ConstantsAssumption DEF Typed, TypeOK, A2A, Web, Runs
<1>1. PICK c \in Boundaries : c = req[q].b
  BY <1>0
<1>2. Relies(req[q]) /\ Current(q) /\ (q \in Foreign => req[q].st = "idle")
  BY DEF WebInv, WebRequests
<1>3. Sound(rec[c]) /\ rec[c] \in Record /\ c # 0
  BY TypeFacts DEF Typed, AllSound, Boundaries
<1>4. WebHolders /\ WebCards
  BY DEF WebInv
<1>5. ~LoadCheckpoint(q) /\ ~Admit(q) /\ ~RestoreBackedUp(q) /\ ~RestoreBackupFails(q) /\ ~TerminateRestore(q)
  BY SMTT(60), <1>0, <1>2 DEF LoadCheckpoint, Admit, RestoreBackedUp, RestoreBackupFails, TerminateRestore, Relies, WebSteps
<1>6. owner' = owner /\ fut' = fut /\ results' = results
  BY <1>5 DEF ColdAnswer, ColdReconcile, ColdClaim, ColdAudit, AcquireRestore, BeginRestoration,
              AcquireTurn, ResumeBoundary, ResumeRefused
<1>7. OwnersGiven
  BY <1>6 DEF OwnersGiven
<1>a. ASSUME \A b \in Boundaries : owner[b].live /\ Decided(rec[b]) /\ rec[b].phase \in Resident =>
                rec'[b].phase \in Resident
      PROVE \A b \in Boundaries : HoldStep(b)
  BY <1>6, <1>a, CalmHolds
<1>b. ASSUME q \notin Foreign, \A p \in Requests : p # q => req'[p] = req[p],
             busy' = q \/ busy' = None,
             req'[q].st \in {"idle", "run"} \/ (Relies(req[q])' /\ Current(q)')
      PROVE \A p \in Requests : RequestStep(p)
  <2>1. \A p \in Requests : p # q => busy' # p
    BY <1>0, <1>b
  <2> QED BY <1>b, <2>1, OneRequest
<1>c. ASSUME run' = run, restoring' = restoring, \A p \in Requests : p # q => req'[p] = req[p],
             Holding(req'[q]) => Holding(req[q]) /\ req'[q].b = req[q].b
      PROVE WebHolders'
  <2>1. \A p \in Requests : Holding(req'[p]) => Holding(req[p]) /\ req'[p].b = req[p].b
    BY <1>c
  <2> QED BY <1>4, <1>c, <2>1, HoldersKept
<1>d. ASSUME NEW x \in Recovering, req'[q].st = x, req'[q].b = c, rec'[c].phase # "ABSENT",
             rec'[c].phase \notin Resident, x = "turn" => rec'[c].phase # "RESOLVED"
      PROVE Relies(req[q])' /\ Current(q)'
  <2>1. PICK y : y = req'[q]
    OBVIOUS
  <2>2. Relies(y)'
    BY <1>d, <2>1 DEF Relies, WebSteps, Recovering
  <2> QED BY <1>d, <2>1, <2>2 DEF Current, Recovering
<1>e. ASSUME req[q].st # "idle" PROVE q \notin Foreign
  BY <1>2, <1>e
<1>f. ASSUME req[q].st \in Recovering PROVE rec[c].phase \notin Resident /\ rec[c].phase # "ABSENT" /\ q \notin Foreign
  BY <1>1, <1>2, <1>f DEF Relies, Recovering
<1>8. CASE ColdReconcile(q)
  <2> DEFINE new == Reconciled(c, FALSE, TRUE)
  <2>1. req[q].st = "reconcile" /\ q \notin Foreign /\ ~owner[c].live /\ rec[c].phase # "ABSENT"
    BY <1>1, <1>2, <1>8 DEF ColdReconcile, Relies
  <2>2. /\ rec' = [rec EXCEPT ![c] = new] /\ busy' = q /\ Goto(q, "rclaim") /\ reg' = reg
        /\ run' = run /\ restoring' = restoring
    BY <1>1, <1>8, <2>1 DEF ColdReconcile
  <2>3. Still(rec[c], new) /\ new.phase \notin Resident
    BY StillBasics, Basics
  <2> HIDE DEF new
  <2>4. /\ req'[q].st = "rclaim" /\ req'[q].b = c
        /\ \A p \in Requests : p # q => req'[p] = req[p]
    BY <1>0, <1>1, <2>2, RequestMoved
  <2>5. Relies(req[q])' /\ Current(q)'
    <3>1. rec'[c].phase # "ABSENT" /\ rec'[c].phase \notin Resident
      BY <1>0, <2>1, <2>2, <2>3 DEF Still
    <3> QED BY <1>d, <2>4, <3>1 DEF Recovering
  <2>6. \A p \in Requests : RequestStep(p)
    BY <1>b, <2>1, <2>2, <2>4, <2>5
  <2>7. \A b \in Boundaries : HoldStep(b)
    BY <1>0, <1>a, <2>1, <2>2
  <2>8. WebHolders'
    BY <1>c, <2>2, <2>4 DEF Holding
  <2> QED BY <1>7, <2>2, <2>6, <2>7, <2>8 DEF Tame, ListStep
<1>9. CASE ColdClaim(q)
  <2> DEFINE ok == CanClaim(rec[c], req[q].v)
             new == IF ok THEN Claim(rec[c], req[q].v) ELSE rec[c]
  <2>1. /\ req[q].st = "rclaim" /\ rec[c].phase \notin Resident /\ rec[c].phase # "ABSENT"
        /\ q \notin Foreign
    BY <1>9, <1>f DEF ColdClaim, Recovering
  <2>2. /\ rec' = [rec EXCEPT ![c] = new] /\ busy' \in {q, None} /\ reg' = reg
        /\ Goto(q, "raudit") \/ Finish(q)
        /\ run' = run /\ restoring' = restoring
    BY <1>1, <1>9, <2>1 DEF ColdClaim
  <2>3. new.phase = rec[c].phase
    BY <1>0, <1>3, StillFacts
  <2> HIDE DEF new, ok
  <2>4. \A b \in Boundaries : rec'[b].phase = rec[b].phase
    BY <1>0, <2>2, <2>3
  <2>5. /\ \A p \in Requests : p # q => req'[p] = req[p]
        /\ (req'[q].st = "raudit" /\ req'[q].b = c) \/ req'[q].st = "idle"
    BY <1>0, <1>1, <2>2, RequestMoved
  <2>6. req'[q].st = "idle" \/ (Relies(req[q])' /\ Current(q)')
    BY <1>d, <2>1, <2>4, <2>5 DEF Recovering
  <2>7. \A p \in Requests : RequestStep(p)
    BY <1>b, <2>1, <2>2, <2>5, <2>6
  <2>8. \A b \in Boundaries : HoldStep(b)
    BY <1>a, <2>4
  <2>9. WebHolders'
    BY <1>c, <2>2, <2>5 DEF Holding
  <2> QED BY <1>7, <2>2, <2>7, <2>8, <2>9 DEF Tame, ListStep
<1>10. ASSUME NEW ok \in BOOLEAN, ColdAudit(q, ok) PROVE Tame /\ WebHolders' /\ OwnersGiven
  <2>1. /\ req[q].st = "raudit" /\ rec[c].phase \notin Resident /\ rec[c].phase # "ABSENT"
        /\ q \notin Foreign
    BY <1>10, <1>f DEF ColdAudit, Recovering
  <2>2. /\ rec' = [rec EXCEPT ![c] = Audit(rec[c], ok)] /\ busy' = None /\ Decided(rec[c])
        /\ reg' = [reg EXCEPT ![c] = "none"] /\ Goto(q, "restore")
        /\ run' = run /\ restoring' = restoring
    BY <1>1, <1>10, <2>1 DEF ColdAudit, CanAudit
  <2>3. Audit(rec[c], ok).phase = rec[c].phase
    BY <1>3, <2>2, DecisionFacts
  <2>4. \A b \in Boundaries : rec'[b].phase = rec[b].phase
    BY <1>0, <2>2, <2>3
  <2>5. /\ req'[q].st = "restore" /\ req'[q].b = c
        /\ \A p \in Requests : p # q => req'[p] = req[p]
    BY <1>0, <1>1, <2>2, RequestMoved
  <2>6. Relies(req[q])' /\ Current(q)'
    BY <1>d, <2>1, <2>4, <2>5 DEF Recovering
  <2>7. \A p \in Requests : RequestStep(p)
    BY <1>b, <2>1, <2>2, <2>5, <2>6
  <2>8. \A b \in Boundaries : HoldStep(b) /\ ListStep(b)
    BY <1>0, <1>a, <2>1, <2>2, <2>4 DEF ListStep
  <2>9. WebHolders'
    BY <1>c, <2>2, <2>5 DEF Holding
  <2> QED BY <1>7, <2>7, <2>8, <2>9 DEF Tame
<1>11. CASE AcquireRestore(q)
  <2>1. /\ req[q].st = "restore" /\ rec[c].phase \notin Resident /\ rec[c].phase # "ABSENT"
        /\ q \notin Foreign
    BY <1>11, <1>f DEF AcquireRestore, Recovering
  <2>2. /\ rec' = rec /\ reg' = reg /\ run' = run /\ busy' = None
        /\ restoring' = restoring \cup {c}
        /\ \/ c \in restoring /\ Finish(q)
           \/ c \notin restoring /\ Goto(q, "begin")
    BY <1>0, <1>1, <1>11 DEF AcquireRestore, Free
  <2>3. /\ \A p \in Requests : p # q => req'[p] = req[p]
        /\ \/ c \in restoring /\ req'[q].st = "idle"
           \/ c \notin restoring /\ req'[q].st = "begin" /\ req'[q].b = c
    BY <1>0, <1>1, <2>2, RequestMoved
  <2>4. req'[q].st = "idle" \/ (Relies(req[q])' /\ Current(q)')
    BY <1>d, <2>1, <2>2, <2>3 DEF Recovering
  <2>5. \A p \in Requests : RequestStep(p)
    BY <1>b, <2>1, <2>2, <2>3, <2>4
  <2>6. \A b \in Boundaries : HoldStep(b) /\ ListStep(b)
    BY <1>a, <2>2 DEF ListStep
  <2>7. WebHolders'
    <3>1. CASE c \in restoring /\ req'[q].st = "idle"
      <4>1. restoring' = restoring
        BY <2>2, <3>1
      <4> QED BY <1>c, <2>2, <2>3, <3>1, <4>1 DEF Holding
    <3>2. CASE c \notin restoring /\ req'[q].st = "begin" /\ req'[q].b = c
      <4>1. /\ WebHolders /\ req[q].b # 0 /\ req[q].b \notin restoring /\ run' = run
            /\ restoring' = restoring \cup {req[q].b} /\ req'[q].b = req[q].b
            /\ \A p \in Requests : p # q => req'[p] = req[p]
        BY <1>1, <1>3, <1>4, <2>2, <2>3, <3>2
      <4> QED BY <4>1, TakenHolders
    <3> QED BY <2>3, <3>1, <3>2
  <2> QED BY <1>7, <2>5, <2>6, <2>7 DEF Tame
<1>12. CASE BeginRestoration(q)
  <2> DEFINE again == rec[c].phase = "RESTORING"
             ok == again \/ CanBeginRestore(rec[c])
             new == IF again THEN rec[c] ELSE IF ok THEN BeginRestore(rec[c])
                    ELSE Reconciled(c, FALSE, TRUE)
  <2>1. /\ req[q].st = "begin" /\ rec[c].phase \notin Resident /\ rec[c].phase # "ABSENT"
        /\ q \notin Foreign
    BY <1>12, <1>f DEF BeginRestoration, Recovering
  <2>2. /\ run' = run /\ busy' = None
        /\ \/ /\ ok /\ rec' = [rec EXCEPT ![c] = new] /\ reg' = reg
              /\ restoring' = restoring /\ Goto(q, "turn")
           \/ /\ ~ok /\ Relist([rec EXCEPT ![c] = new], reg)
              /\ restoring' = Unrestored({c}) /\ Finish(q)
    BY <1>0, <1>1, <1>12 DEF BeginRestoration, Free
  <2>3. ok => new.phase = "RESTORING"
    BY <1>3, EndFacts
  <2>4. CASE /\ ok /\ rec' = [rec EXCEPT ![c] = new] /\ reg' = reg
             /\ restoring' = restoring /\ Goto(q, "turn")
    <3> HIDE DEF new, ok
    <3>1. rec'[c].phase = "RESTORING" /\ \A b \in Boundaries : b # c => rec'[b] = rec[b]
      BY <1>0, <2>3, <2>4
    <3>2. /\ req'[q].st = "turn" /\ req'[q].b = c
          /\ \A p \in Requests : p # q => req'[p] = req[p]
      BY <1>0, <1>1, <2>4, RequestMoved
    <3>3. Relies(req[q])' /\ Current(q)'
      BY <1>d, <3>1, <3>2 DEF Recovering, Resident
    <3>4. \A p \in Requests : RequestStep(p)
      BY <1>b, <2>1, <2>2, <3>2, <3>3
    <3>5. \A b \in Boundaries : HoldStep(b) /\ ListStep(b)
      BY <1>a, <2>1, <2>4, <3>1 DEF ListStep
    <3>6. WebHolders'
      BY <1>c, <1>1, <2>1, <2>2, <2>4, <3>2 DEF Holding
    <3> QED BY <1>7, <3>4, <3>5, <3>6 DEF Tame
  <2>5. CASE /\ ~ok /\ Relist([rec EXCEPT ![c] = new], reg)
             /\ restoring' = Unrestored({c}) /\ Finish(q)
    <3> HIDE DEF new, ok
    <3> DEFINE R == [rec EXCEPT ![c] = new]
    <3>1. \A b \in Boundaries : b # c => R[b] = rec[b]
      BY <1>0
    <3>2. Relist(R, reg)
      BY <2>5
    <3> HIDE DEF R
    <3>3. \A b \in Boundaries :
            /\ reg'[b] = "none" => reg[b] = "none"
            /\ reg[b] # "none" => rec'[b] = R[b]
      BY <3>2 DEF Relist, Unlisted
    <3>4. \A b \in Boundaries : rec[b].phase \in Resident => rec'[b] = rec[b]
      BY <1>4, <2>1, <3>1, <3>3 DEF WebCards
    <3>5. req'[q].st = "idle" /\ \A p \in Requests : p # q => req'[p] = req[p]
      BY <1>0, <2>5, RequestMoved
    <3>6. \A p \in Requests : RequestStep(p)
      BY <1>b, <2>1, <2>2, <3>5
    <3>7. \A b \in Boundaries : HoldStep(b)
      BY <1>a, <3>4
    <3>8. WebHolders'
      BY <1>1, <1>4, <2>1, <2>2, <2>5, <3>5, GivenHolders DEF Holding
    <3> QED BY <1>7, <3>3, <3>6, <3>7, <3>8 DEF Tame, ListStep
  <2> QED BY <2>2, <2>4, <2>5
<1>13. CASE AcquireTurn(q)
  <2>1. /\ req[q].st = "turn" /\ q \notin Foreign /\ StartRestored(q) /\ Goto(q, "run")
        /\ rec' = rec /\ reg' = reg /\ restoring' = restoring /\ busy' = None
        /\ \A r \in Runs : run[r].st = "none"
    BY <1>2, <1>13 DEF AcquireTurn, Idle, ActiveRuns, Free
  <2>2. req'[q].st = "run" /\ \A p \in Requests : p # q => req'[p] = req[p]
    BY <1>0, <2>1, RequestMoved
  <2>3. run'[q].root = req[q].b /\ \A r \in Runs : r # q => run'[r] = run[r]
    BY <1>0, <2>1 DEF StartRestored, TypeOK
  <2>4. \A p \in Requests : RequestStep(p)
    BY <1>b, <2>1, <2>2
  <2>5. \A b \in Boundaries : HoldStep(b) /\ ListStep(b)
    BY <1>a, <2>1 DEF ListStep
  <2>6. WebHolders'
    BY <1>0, <1>4, <2>1, <2>2, <2>3, GivenHolders DEF Holding
  <2> QED BY <1>7, <2>4, <2>5, <2>6 DEF Tame
<1>14. ASSUME NEW ok \in BOOLEAN, ResumeBoundary(q, ok) PROVE Tame /\ WebHolders' /\ OwnersGiven
  <2>1. /\ rec' = rec /\ reg' = reg /\ restoring' = restoring /\ busy' = None /\ req' = req
        /\ run[q].st = "restored"
    BY <1>14 DEF ResumeBoundary, Free
  <2>2. PICK d \in {"allow", "deny"} : Advance(q, d)
    BY <1>14 DEF ResumeBoundary
  <2>3. run'[q].root = run[q].root /\ \A r \in Runs : r # q => run'[r] = run[r]
    BY <1>0, <2>2, Advanced
  <2>4. \A p \in Requests : RequestStep(p)
    BY <1>0, <2>1 DEF RequestStep
  <2>5. \A b \in Boundaries : HoldStep(b) /\ ListStep(b)
    BY <1>a, <2>1 DEF ListStep
  <2>6. WebHolders'
    BY <1>4, <2>1, <2>3, HoldersKept
  <2> QED BY <1>7, <2>4, <2>5, <2>6 DEF Tame
<1>15. CASE ResumeRefused(q)
  <2>1. NoBystander /\ run[q].st # "none"
    BY <1>0, <1>15, RunAlone
  <2>2. \A b \in Boundaries : HoldStep(b)
    BY <2>1 DEF HoldStep, NoBystander, Deserted
  <2>3. /\ busy' = None /\ EndRun(q) /\ Finish(q) /\ restoring' = Unrestored({run[q].root})
        /\ \E R : Relist(R, reg)
    BY <1>15 DEF ResumeRefused, Free
  <2>4. \A b \in Boundaries : reg'[b] = "none" => reg[b] = "none"
    BY <2>3 DEF Relist
  <2>5. req'[q].st = "idle" /\ \A p \in Requests : p # q => req'[p] = req[p]
    BY <1>0, <2>3, RequestMoved
  <2>6. \A p \in Requests : RequestStep(p)
    BY <1>0, <2>3, <2>5 DEF RequestStep
  <2>7. \A p \in Requests : Holding(req'[p]) => Holding(req[p]) /\ req'[p].b = req[p].b
    BY <2>5 DEF Holding
  <2>8. WebHolders'
    BY <1>0, <1>4, <2>1, <2>3, <2>7, EndedHolders
  <2> QED BY <1>7, <2>2, <2>4, <2>6, <2>8 DEF Tame, ListStep
<1> QED BY <1>5, <1>8, <1>9, <1>10, <1>11, <1>12, <1>13, <1>14, <1>15 DEF ColdAnswer

\* An interrupted session, and a restart.
LEMMA InterruptTame ==
  ASSUME Web, Typed, DInv, Exclusive, WebInv, NEW stop \in BOOLEAN, InterruptSession(stop)
  PROVE Tame /\ WebHolders' /\ OwnersGiven
<1> DEFINE listed == {b \in Boundaries : reg[b] # "none"}
           gone == {b \in listed : CanCancel(rec[b], FALSE)}
           ended == {r \in Runs : run[r].st = "wait" /\ (run[r].b \in gone \/ stop)}
           orphaned == IF Live \in ended THEN listed \ gone ELSE {}
<1>0. \A b \in Boundaries : Sound(rec[b]) /\ owner[b] \in Owner
  BY TypeFacts DEF Typed, AllSound
<1>1. /\ \A b \in Boundaries :
           /\ rec'[b] = IF b \in gone THEN Cancel(rec[b])
                        ELSE IF b \in orphaned THEN Reconciled(b, FALSE, TRUE) ELSE rec[b]
           /\ fut'[b] = IF b \in gone /\ fut[b] = "pending" THEN "canceled" ELSE fut[b]
           /\ owner'[b] = IF b \in gone \cup orphaned THEN Released(owner[b]) ELSE owner[b]
           /\ reg'[b] = IF b \in gone THEN "none" ELSE reg[b]
      /\ EndRuns(ended) /\ busy = None /\ busy' = None
  BY DEF InterruptSession, Free
<1>2. /\ \A r \in Runs : run'[r] = IF r \in ended THEN NoRun ELSE run[r]
      /\ restoring' = Unrestored({run[r].root : r \in ended})
      /\ \A q \in Requests : req'[q] = IF q \in ended THEN NoRequest ELSE req[q]
  BY <1>1 DEF EndRuns
<1>3. \A b \in gone : rec[b].status = "none" \/ rec[b].phase = "CANCELED"
  BY DEF CanCancel
<1>4. \A r \in Runs : run[r].st = "wait" /\ run[r].b \in gone => r \in ended
  OBVIOUS
<1>6. \A b \in orphaned : Live \in ended
  OBVIOUS
<1>a. \A r \in ended : r \in Runs /\ run[r].st = "wait"
  OBVIOUS
<1>b. gone \subseteq Boundaries
  OBVIOUS
<1> HIDE DEF gone, ended, orphaned
<1>5. Live \in ended => NoBystander
  <2> SUFFICES ASSUME Live \in ended, NEW r \in Runs, run[r].st # "none" PROVE run'[r] # run[r]
    BY DEF NoBystander
  <2>1. Live \in Runs /\ run[Live].st = "wait" /\ run'[Live].st = "none"
    BY <1>2, <1>a DEF NoRun
  <2>2. r = Live
    BY <2>1 DEF Exclusive
  <2> QED BY <2>1, <2>2
<1>7. \A b \in gone : ~Decided(rec[b]) /\ Deserted(b)
  <2> SUFFICES ASSUME NEW b \in gone PROVE ~Decided(rec[b]) /\ Deserted(b)
    OBVIOUS
  <2>1. ~Decided(rec[b])
    BY <1>3, <1>b DEF DInv, Listing, Canceled, Decided
  <2>2. Deserted(b)
    BY <1>2, <1>4 DEF Deserted, NoRun
  <2> QED BY <2>1, <2>2
<1>8. \A b \in Boundaries : HoldStep(b) /\ ListStep(b)
  <2> SUFFICES ASSUME NEW b \in Boundaries PROVE HoldStep(b) /\ ListStep(b)
    OBVIOUS
  <2>0. IsTold(b)' => IsTold(b)
    BY <1>1 DEF IsTold
  <2>1. CASE b \in gone
    <3>0. Sound(rec[b]) /\ rec'[b] = Cancel(rec[b])
      BY <1>0, <1>1, <2>1
    <3>1. rec'[b].phase = "CANCELED"
      BY <3>0, EndFacts
    <3> QED BY <1>1, <1>7, <2>0, <2>1, <3>1 DEF HoldStep, ListStep, Resident
  <2>2. CASE b \notin gone /\ b \in orphaned
    <3>1. NoBystander /\ fut'[b] = fut[b] /\ reg'[b] = reg[b]
      BY <1>1, <1>5, <1>6, <2>2
    <3> QED BY <2>0, <3>1 DEF HoldStep, ListStep
  <2>3. CASE b \notin gone /\ b \notin orphaned
    BY <1>1, <2>3, CalmHolds DEF ListStep
  <2> QED BY <2>1, <2>2, <2>3
<1>9. \A q \in Requests : RequestStep(q)
  <2>1. \A q \in Requests : busy' # q
    BY <1>1, ConstantsAssumption
  <2> QED BY <1>2, <2>1 DEF RequestStep, NoRequest
<1>10. OwnersGiven
  BY <1>0, <1>1, OwnerLive DEF OwnersGiven
<1>11. WebHolders'
  <2>0. WebHolders
    BY DEF WebInv
  <2>1. \A q \in Requests : Holding(req'[q]) => Holding(req[q]) /\ req'[q].b = req[q].b
    BY <1>2 DEF Holding, NoRequest
  <2>2. \A r \in Runs : run'[r].st # "none" => run[r].st # "none" /\ run'[r].root = run[r].root
    BY <1>2 DEF NoRun
  <2>3. \A r \in ended : NoRuns
    BY <1>2, <1>a DEF NoRuns, Exclusive, NoRun
  <2>4. \A b \in restoring :
          b \in restoring' \/ (NoRuns /\ \E r \in Runs : run[r].st # "none" /\ run[r].root = b)
    BY <1>2, <1>a, <2>3 DEF Unrestored
  <2> QED BY <2>0, <2>1, <2>2, <2>4, HoldersKept
<1> QED BY <1>8, <1>9, <1>10, <1>11 DEF Tame

LEMMA CrashTame ==
  ASSUME Web, Typed, WebInv, Crash PROVE Tame /\ WebHolders' /\ OwnersGiven
<1> DEFINE L == [b \in Boundaries |-> "none"]
<1>1. /\ owner' = [b \in Boundaries |-> NoOwner] /\ fut' = [b \in Boundaries |-> "none"]
      /\ run' = [r \in Runs |-> NoRun] /\ restoring' = {} /\ busy' = None
      /\ req' = [q \in Requests |-> IF q \in Foreign THEN req[q] ELSE NoRequest]
      /\ Relist(rec, L)
  BY DEF Crash
<1>2. \A b \in Boundaries : reg'[b] = "none" => rec'[b].phase \notin Resident
  BY <1>1 DEF Relist, Unlisted, ActivePhases, Resident
<1>3. NoBystander
  BY <1>1 DEF NoBystander, NoRun
<1>4. \A q \in Requests : req'[q].st = "idle"
  BY <1>1 DEF WebInv, WebRequests, NoRequest
<1>5. \A b \in Boundaries : HoldStep(b) /\ ListStep(b)
  BY <1>1, <1>2, <1>3 DEF HoldStep, ListStep, IsTold
<1>6. \A q \in Requests : RequestStep(q)
  BY <1>4 DEF RequestStep
<1>7. OwnersGiven
  BY <1>1 DEF OwnersGiven, NoOwner
<1>8. WebHolders'
  BY <1>1, <1>4 DEF WebHolders, Holding, NoRun
<1> QED BY <1>5, <1>6, <1>7, <1>8 DEF Tame

\* The invariant of the Web surface.
LEMMA StepWeb ==
  ASSUME Web, Typed, DInv, Exclusive, Places, WebInv, [Next]_vars PROVE WebInv'
<1>0. /\ Seals /\ (results => results') /\ TypeOK
      /\ \A b \in Boundaries :
           rec[b].phase # "ABSENT" /\ rec'[b].phase \in Resident => rec[b].phase \in Resident
  BY StepSeals, ResultsKept, NotResidentAgain DEF Typed
<1>1. CASE UNCHANGED vars
  BY <1>1 DEF vars, WebInv, WebRequests, WebCards, WebHolders, WebRuns, Relies, Current, Fits, IsTold
<1>2. CASE Next
  <2>1. Tame /\ WebHolders' /\ OwnersGiven
    BY <1>2, RunTame, BoundaryTame, SubmitTame, LiveTame, ColdTame, InterruptTame, CrashTame DEF Next
  <2>2. \A b \in Boundaries : NotRevived(b)
    BY <1>0, <2>1 DEF OwnersGiven, NotRevived
  <2>3. WebRequests' /\ WebCards'
    BY <1>0, <2>1, <2>2, RequestsKept, CardsKept
  <2>4. WebRuns'
    BY <2>1, RunsKept
  <2> QED BY <2>1, <2>3, <2>4 DEF WebInv
<1> QED BY <1>1, <1>2

\* Initially only the run that opens the first card exists.
LEMMA InitPlaces == Init => Order /\ Places /\ WebInv
<1> SUFFICES ASSUME Init PROVE Order /\ Places /\ WebInv
  OBVIOUS
<1>1. /\ \A b \in Boundaries : rec[b].phase = "ABSENT"
      /\ \A q \in Requests : req[q].st = "idle"
      /\ restoring = {} /\ ~results
  BY DEF Init, Absent, NoRequest
<1>2. \A r \in Runs : run[r].st # "none" => run[r].st = "open" /\ run[r].b = 1 /\ run[r].root = 0
  <2>1. NoRun \in RunState /\ NoRun.st = "none" /\ NoRun.b = 1 /\ NoRun.root = 0
    BY FreshFacts DEF NoRun
  <2>2. [NoRun EXCEPT !.st = "open"].b = 1 /\ [NoRun EXCEPT !.st = "open"].st = "open"
        /\ [NoRun EXCEPT !.st = "open"].root = 0
    BY <2>1 DEF RunState
  <2> QED BY <2>1, <2>2 DEF Init
<1>3. \A i \in Boundaries : i + 1 # 1
  BY DEF Boundaries
<1>4. 1 \in Boundaries
  BY ConstantsAssumption DEF Boundaries
<1>5. Order
  BY <1>1 DEF Order
<1>6. Places
  BY <1>1, <1>2, <1>4 DEF Places, Placed, AtCard
<1>7. WebRequests
  BY <1>1 DEF WebRequests, Relies, Current, WebSteps, Recovering
<1>8. WebCards
  BY <1>1 DEF WebCards, Resident
<1>9. WebHolders
  BY <1>1, <1>2 DEF WebHolders, Holding
<1>10. WebRuns
  BY <1>2, <1>3 DEF WebRuns, Fits
<1> QED BY <1>5, <1>6, <1>7, <1>8, <1>9, <1>10 DEF WebInv

\* On top of the decisions: the order of the cards, the place of the run, and on
\* the Web what protects the turn lock.
LEMMA SuccessionInvariant ==
  Spec => [](Typed /\ Exclusive /\ DInv /\ Order /\ Places /\ (Web => WebInv))
<1>1. Typed /\ Exclusive /\ DInv /\ Order /\ Places /\ (Web => WebInv) /\ [Next]_vars =>
        Order' /\ Places' /\ (Web => WebInv)'
  <2> SUFFICES ASSUME Typed, Exclusive, DInv, Order, Places, Web => WebInv, [Next]_vars
               PROVE Order' /\ Places' /\ (Web => WebInv)'
    OBVIOUS
  <2>1. Order'
    BY StepOrder
  <2>2. Places'
    BY WebTurnSafe, StepPlaces
  <2>3. Web => WebInv'
    BY StepWeb
  <2> QED BY <2>1, <2>2, <2>3 DEF Web
<1> QED BY <1>1, InitPlaces, DecisionsInvariant, PTL DEF Spec

-----------------------------------------------------------------------------
\* create_successor never meets a predecessor it must refuse: the run that opens
\* the next card finds it absent and the previous one decided and not sealed yet,
\* whoever restored it; and the batch has one unresolved card at a time.
THEOREM Successor == Spec => []SuccessorReady
<1>1. Typed /\ DInv /\ Order /\ Places => SuccessorReady
  <2> SUFFICES ASSUME Typed, DInv, Order, Places PROVE SuccessorReady
    OBVIOUS
  <2>1. ASSUME NEW r \in Runs, run[r].st = "open"
        PROVE CanCreate(rec[run[r].b]) /\ (run[r].b > 1 => CanSucceed(rec[run[r].b - 1]))
    <3>1. PICK c \in Boundaries : c = run[r].b
      BY TypeFacts DEF Typed
    <3>2. Placed(run[r]) /\ Standing(run[r])
      BY <2>1 DEF Places, DInv, Runners
    <3>3. rec[c].phase = "ABSENT"
      BY <2>1, <3>1, <3>2 DEF Placed
    <3>4. ASSUME c > 1 PROVE CanSucceed(rec[c - 1])
      <4>1. PICK i \in Boundaries : i = c - 1 /\ i + 1 = c
        BY <3>4, ConstantsAssumption DEF Boundaries
      <4>2. rec[i].phase # "RESOLVED"
        BY <2>1, <3>1, <3>2, <4>1 DEF Placed
      <4>3. Decided(rec[i]) /\ rec[i].phase # "CANCELED"
        BY <2>1, <3>1, <3>2, <4>1 DEF Standing, Past, Canceled
      <4>4. Sound(rec[i])
        BY DEF Typed, AllSound
      <4>5. rec[i].phase \in ActivePhases
        BY <4>2, <4>3, <4>4 DEF Sound, Record, Phases, ActivePhases, Decided
      <4> QED BY <4>1, <4>3, <4>5 DEF CanSucceed
    <3> QED BY <3>1, <3>3, <3>4 DEF CanCreate
  <2> DEFINE A == {b \in Boundaries : rec[b].phase \in ActivePhases}
  <2>2. Cardinality(A) <= 1
    <3>1. CASE A = {}
      BY <3>1, FS_EmptySet
    <3>2. ASSUME NEW b \in A PROVE Cardinality(A) <= 1
      <4>1. \A i \in A : i = b
        <5> SUFFICES ASSUME NEW i \in A, i # b PROVE FALSE
          OBVIOUS
        <5>1. i < b \/ b < i
          BY DEF Boundaries
        <5> QED BY <5>1 DEF Order, ActivePhases
      <4>2. A = {b}
        BY <3>2, <4>1
      <4> HIDE DEF A
      <4>3. Cardinality({b}) = 1
        BY FS_Singleton, Zenon
      <4> QED BY <4>2, <4>3
    <3> QED BY <3>1, <3>2
  <2> QED BY <2>1, <2>2 DEF SuccessorReady
<1> QED BY <1>1, SuccessionInvariant, PTL
=============================================================================
