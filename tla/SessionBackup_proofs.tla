------------------------ MODULE SessionBackup_proofs ------------------------
(***************************************************************************)
(* Proofs about the session backup: what a reader of either directory      *)
(* finds is one whole capture, the captures have one history, and where    *)
(* failed backups are reconciled a failure costs no node its changes.      *)
(***************************************************************************)
EXTENDS SessionBackup, FiniteSetTheorems, TLAPS

----------------------------------------------------------------------------
(* The inductive invariant                                                 *)

Types == TypeOK /\ ops \in Nat /\ writes \in Nat

\* Who holds the local guard, and who the shared lock.
Guarding(p) == act[p].pc \notin {"idle", "try"}
Sharing(p) == act[p].pc \notin {"idle", "try", "local"}

Locked ==
  /\ \A p, q \in Procs : p[1] = q[1] /\ Guarding(p) /\ Guarding(q) => p = q
  /\ \A p, q \in Procs : Sharing(p) /\ Sharing(q) => p = q

\* A state of the one history that ends at the shared one.
Older(d) == d.gen <= shared.doc.gen /\ (d.gen = shared.doc.gen => d = shared.doc)

\* No local state is ahead of the capture its payload stems from.
Lineage ==
  /\ \A n \in Nodes : Older(from[n])
  /\ \A n \in Nodes : local[n] # None =>
       /\ Older(local[n].doc)
       /\ local[n].restore = None => local[n].doc.gen <= from[n].gen

\* The operations node n has under way, or failed at.
Owns(n, x) ==
  x # 0 /\ ((\E p \in Procs : p[1] = n /\ act[p].id = x) \/ (local[n] # None /\ local[n].att = x))

\* A publication that was begun and not committed.
Torn == shared.marker # None /\ shared.marker # shared.doc

\* Operations belong to one node; the node that committed one knows.
Identity ==
  /\ \A n \in Nodes, x \in Nat : Owns(n, x) => x <= ops
  /\ \A m, n \in Nodes, x \in Nat : Owns(m, x) /\ Owns(n, x) => m = n
  /\ shared.doc.commit <= ops
  /\ \A n \in Nodes : Owns(n, shared.doc.commit) => from[n] = shared.doc

\* A torn publication is of the next capture, by a node that was not being restored.
Tearing ==
  Torn =>
    /\ shared.marker.gen = shared.doc.gen + 1 /\ shared.marker.gen \in DOMAIN capture
    /\ shared.marker.commit <= ops
    /\ \A n \in Nodes : Owns(n, shared.marker.commit) => n = capture[shared.marker.gen].by
    /\ \A n \in Nodes : local[n] # None /\ local[n].restore # None => n # capture[shared.marker.gen].by

\* What is not being replaced is the capture committed last.
Whole == ~Torn /\ shared.doc.gen > 0 => shared.pay = capture[shared.doc.gen].pay

\* A session's metadata is there; hence a payload can be told from none.
Rooted ==
  /\ \A n \in Nodes : local[n] # None => local[n].pay[Meta] # 0
  /\ shared.doc.gen > 0 => shared.pay[Meta] # 0

\* How far an operation is.
Publishes(p) ==
  /\ act[p].tgt \in Doc /\ act[p].tgt.gen = shared.doc.gen + 1 /\ shared.marker = act[p].tgt
  /\ act[p].tgt.gen \in DOMAIN capture
  /\ capture[act[p].tgt.gen] = [pay |-> local[p[1]].pay, by |-> p[1]]
  /\ act[p].tgt.commit = act[p].id
  /\ from[p[1]] = shared.doc /\ local[p[1]].restore = None
  /\ \A f \in Files \ act[p].todo : shared.pay[f] = local[p[1]].pay[f]
  /\ act[p].pc = "state" => act[p].todo = {}

Recovers(p) ==
  /\ act[p].tgt = shared.doc /\ shared.doc.gen > 0 /\ ~Torn
  /\ local[p[1]].restore = act[p].tgt
  /\ \A f \in Files \ act[p].todo : local[p[1]].pay[f] = shared.pay[f]
  /\ act[p].pc # "rcopy" => act[p].todo = {}

Stage(p) ==
  /\ act[p].pc # "idle" => local[p[1]] # None
  /\ act[p].pc = "try" => act[p].kind = "backup"
  /\ act[p].kind = "backup" => act[p].id # 0
  /\ act[p].base # None => Older(act[p].base) /\ act[p].base.gen <= from[p[1]].gen
  /\ act[p].pc \in {"copy", "state"} => Publishes(p)
  /\ act[p].pc = "unmark" => act[p].tgt = shared.doc /\ from[p[1]] = shared.doc /\ ~Torn
  /\ act[p].pc = "local" => act[p].tgt \in Doc /\ Older(act[p].tgt) /\ act[p].tgt.gen <= from[p[1]].gen
  /\ act[p].pc \in {"rcopy", "rstate", "runlink"} => Recovers(p)

IInv ==
  /\ Types /\ Locked /\ Lineage /\ Identity /\ Tearing /\ Whole /\ Rooted /\ LocalIsWhole
  /\ \A p \in Procs : Stage(p)

----------------------------------------------------------------------------
(* What steps have in common                                               *)

LEMMA Parameters == Home \in Nodes /\ Meta \in Files /\ None \notin Doc /\ None \notin Copy
BY BackupAssumption

LEMMA Fields ==
  ASSUME Types
  PROVE  /\ \A p \in Procs : p[1] \in Nodes /\ act[p] \in Op /\ act[p].id \in Nat /\ act[p].todo \subseteq Files
         /\ \A n \in Nodes : local[n] # None =>
              /\ local[n] \in Copy /\ local[n].doc \in Doc /\ local[n].att \in Nat /\ local[n].pay \in Payload
              /\ local[n].restore \in Doc \cup {None} /\ local[n].doc.gen \in Nat
         /\ shared.doc \in Doc /\ shared.doc.gen \in Nat /\ shared.doc.commit \in Nat
         /\ shared.pay \in Payload /\ shared.marker \in Doc \cup {None}
         /\ \A n \in Nodes : from[n] \in Doc /\ from[n].gen \in Nat
         /\ DOMAIN capture \subseteq Nat
         /\ \A g \in Nat : g <= shared.doc.gen => g \in DOMAIN capture
         /\ \A g \in DOMAIN capture : g <= shared.doc.gen + 1 /\ capture[g].pay \in Payload /\ capture[g].by \in Nodes
<1>1. \A p \in Procs : p[1] \in Nodes /\ act[p] \in Op /\ act[p].id \in Nat /\ act[p].todo \subseteq Files
  BY DEF Types, TypeOK, Procs, Op
<1>2. ASSUME NEW n \in Nodes, local[n] # None
      PROVE  /\ local[n] \in Copy /\ local[n].doc \in Doc /\ local[n].att \in Nat /\ local[n].pay \in Payload
             /\ local[n].restore \in Doc \cup {None} /\ local[n].doc.gen \in Nat
  <2>1. local[n] \in Copy
    BY <1>2 DEF Types, TypeOK
  <2> QED BY <2>1 DEF Copy, Doc
<1>3. /\ shared.doc \in Doc /\ shared.doc.gen \in Nat /\ shared.doc.commit \in Nat
      /\ shared.pay \in Payload /\ shared.marker \in Doc \cup {None}
      /\ \A n \in Nodes : from[n] \in Doc /\ from[n].gen \in Nat
  BY DEF Types, TypeOK, Doc
<1>4. PICK k \in {shared.doc.gen, shared.doc.gen + 1} : capture \in [0..k -> [pay : Payload, by : Nodes]]
  BY DEF Types, TypeOK
<1>5. /\ DOMAIN capture \subseteq Nat
      /\ \A g \in Nat : g <= shared.doc.gen => g \in DOMAIN capture
      /\ \A g \in DOMAIN capture : g <= shared.doc.gen + 1 /\ capture[g].pay \in Payload /\ capture[g].by \in Nodes
  <2>1. k \in Nat /\ shared.doc.gen <= k /\ k <= shared.doc.gen + 1
    BY <1>3
  <2>2. DOMAIN capture = 0..k
    BY <1>4
  <2>3. \A g \in DOMAIN capture : capture[g] \in [pay : Payload, by : Nodes]
    BY <1>4
  <2> QED BY <1>3, <2>1, <2>2, <2>3
<1> QED BY <1>1, <1>2, <1>3, <1>5

\* Nobody else holds the local guard of p's node, or the shared lock.
GuardFree(p) == Guarding(p) \/ ~LocalHeld(p[1])
SharedFree(p) == Sharing(p) \/ ~SharedHeld

LEMMA Alone ==
  ASSUME Locked, NEW p \in Procs, NEW q \in Procs, p # q
  PROVE  /\ GuardFree(p) /\ q[1] = p[1] => ~Guarding(q)
         /\ SharedFree(p) => ~Sharing(q)
BY DEF Locked, GuardFree, SharedFree, LocalHeld, SharedHeld, Guarding, Sharing

\* Process p goes on as x, and takes no lock that another holds.
Passes(p, x) ==
  /\ act' = [act EXCEPT ![p] = x]
  /\ x.pc \notin {"idle", "try"} => GuardFree(p)
  /\ x.pc \notin {"idle", "try", "local"} => SharedFree(p)

LEMMA PassesIs ==
  ASSUME Types, NEW p \in Procs, NEW x \in Op, Passes(p, x)
  PROVE  act' \in [Procs -> Op] /\ act'[p] = x /\ \A q \in Procs : q # p => act'[q] = act[q]
BY DEF Passes, Types, TypeOK

LEMMA PassesLocked ==
  ASSUME Types, Locked, NEW p \in Procs, NEW x \in Op, Passes(p, x)
  PROVE  Locked'
<1>1. act'[p] = x /\ \A q \in Procs : q # p => act'[q] = act[q]
  BY PassesIs
<1>2. \A q \in Procs : q # p => (Guarding(q)' <=> Guarding(q)) /\ (Sharing(q)' <=> Sharing(q))
  BY <1>1 DEF Guarding, Sharing
<1>3. ASSUME NEW q \in Procs, q # p PROVE (q[1] = p[1] => ~(Guarding(p)' /\ Guarding(q)')) /\ ~(Sharing(p)' /\ Sharing(q)')
  BY <1>1, <1>2, <1>3, Alone DEF Passes, Guarding, Sharing
<1>4. \A q, r \in Procs : q[1] = r[1] /\ Guarding(q)' /\ Guarding(r)' => q = r
  BY <1>2, <1>3 DEF Locked
<1>5. \A q, r \in Procs : Sharing(q)' /\ Sharing(r)' => q = r
  BY <1>2, <1>3 DEF Locked
<1> QED BY <1>4, <1>5 DEF Locked

\* What p does to the files leaves those alone that others work on.
Respects(p) ==
  /\ \A n \in Nodes : local[n] # None => local'[n] # None
  /\ \A n \in Nodes : n # p[1] => local'[n] = local[n] /\ from'[n] = from[n]
  /\ from[p[1]].gen <= from'[p[1]].gen
  /\ GuardFree(p) \/ (local'[p[1]].pay = local[p[1]].pay /\ local'[p[1]].restore = local[p[1]].restore)
  /\ SharedFree(p) \/ (shared' = shared /\ capture' = capture /\ from' = from)

Grows == \A d \in Doc : Older(d) => Older(d)'

LEMMA OthersKept ==
  ASSUME Types, Types', Locked, NEW p \in Procs, NEW x \in Op, Passes(p, x), Respects(p), Grows,
         NEW q \in Procs, q # p, Stage(q)
  PROVE  Stage(q)'
<1>1. act'[q] = act[q] /\ act[q] \in Op /\ q[1] \in Nodes /\ p[1] \in Nodes
  BY PassesIs, Fields
<1>2. (GuardFree(p) /\ q[1] = p[1] => ~Guarding(q)) /\ (SharedFree(p) => ~Sharing(q))
  BY Alone
<1>3. act[q].base \in Doc \cup {None} /\ act[q].tgt \in Doc \cup {None}
  BY <1>1 DEF Op
<1>4. from[q[1]].gen <= from'[q[1]].gen /\ from[q[1]].gen \in Nat /\ from'[q[1]].gen \in Nat
  <2>1. from[q[1]].gen \in Nat /\ from'[q[1]].gen \in Nat
    BY <1>1, Fields DEF Types, TypeOK, Doc
  <2> QED BY <2>1, <1>1 DEF Respects
<1>5. act[q].pc # "idle" => local'[q[1]] # None
  BY <1>1 DEF Respects, Stage
<1>6. act[q].base # None => Older(act[q].base)' /\ act[q].base.gen <= from'[q[1]].gen
  <2>1. ASSUME act[q].base # None PROVE act[q].base.gen \in Nat
    BY <1>3, <2>1 DEF Doc
  <2> QED BY <1>1, <1>3, <1>4, <2>1 DEF Stage, Grows, Older
<1>7. act[q].pc = "local" => act[q].tgt \in Doc /\ Older(act[q].tgt)' /\ act[q].tgt.gen <= from'[q[1]].gen
  <2>1. ASSUME act[q].tgt \in Doc PROVE act[q].tgt.gen \in Nat
    BY <2>1 DEF Doc
  <2> QED BY <1>1, <1>4, <2>1 DEF Stage, Grows, Older
<1>8. ASSUME Sharing(q)
      PROVE  /\ shared' = shared /\ capture' = capture /\ from' = from
             /\ local'[q[1]].pay = local[q[1]].pay /\ local'[q[1]].restore = local[q[1]].restore
  BY <1>1, <1>2, <1>8 DEF Respects, Guarding, Sharing
<1>9. act[q].pc \in {"copy", "state"} => Publishes(q)'
  BY <1>1, <1>8 DEF Stage, Sharing, Publishes
<1>10. act[q].pc = "unmark" => act[q].tgt = shared'.doc /\ from'[q[1]] = shared'.doc /\ ~Torn'
  BY <1>1, <1>8 DEF Stage, Sharing, Torn
<1>11. act[q].pc \in {"rcopy", "rstate", "runlink"} => Recovers(q)'
  BY <1>1, <1>8 DEF Stage, Sharing, Recovers, Torn
<1> QED BY <1>1, <1>5, <1>6, <1>7, <1>9, <1>10, <1>11 DEF Stage

\* p names no operation that its node did not name.
Names(p, x) ==
  /\ x.id = 0 \/ x.id = act[p].id \/ (local[p[1]] # None /\ x.id = local[p[1]].att)
  /\ \A n \in Nodes : local'[n] # None =>
       \/ local'[n].att = 0 \/ (local[n] # None /\ local'[n].att = local[n].att)
       \/ n = p[1] /\ local'[n].att = act[p].id

Disowns == \A n \in Nodes, y \in Nat : Owns(n, y)' => Owns(n, y)

LEMMA NamesDisown ==
  ASSUME Types, NEW p \in Procs, NEW x \in Op, Passes(p, x), Names(p, x)
  PROVE  Disowns
<1>1. act'[p] = x /\ (\A q \in Procs : q # p => act'[q] = act[q]) /\ p[1] \in Nodes
  BY PassesIs, Fields
<1>2. ASSUME NEW n \in Nodes, NEW y \in Nat, Owns(n, y)' PROVE Owns(n, y)
  <2>1. y # 0 /\ ((\E q \in Procs : q[1] = n /\ act'[q].id = y) \/ (local'[n] # None /\ local'[n].att = y))
    BY <1>2 DEF Owns
  <2>2. CASE local'[n] # None /\ local'[n].att = y
    BY <2>1, <2>2 DEF Names, Owns
  <2>3. CASE \E q \in Procs : q[1] = n /\ act'[q].id = y
    BY <1>1, <2>1, <2>3 DEF Names, Owns
  <2> QED BY <2>1, <2>2, <2>3
<1> QED BY <1>2 DEF Disowns

LEMMA IdentityKept ==
  ASSUME Types, Identity, Disowns, ops' = ops, shared'.doc = shared.doc,
         \A n \in Nodes : from[n] = shared.doc => from'[n] = shared.doc
  PROVE  Identity'
<1>1. shared.doc.commit \in Nat
  BY Fields
<1>2. \A n \in Nodes, x \in Nat : Owns(n, x)' => x <= ops'
  BY DEF Identity, Disowns
<1>3. \A m, n \in Nodes, x \in Nat : Owns(m, x)' /\ Owns(n, x)' => m = n
  BY DEF Identity, Disowns
<1>4. \A n \in Nodes : Owns(n, shared.doc.commit)' => from'[n] = shared.doc
  <2>1. \A n \in Nodes, y \in Nat : y = shared.doc.commit => (Owns(n, y) => from[n] = shared.doc)
    BY DEF Identity
  <2>2. \A n \in Nodes, y \in Nat : y = shared.doc.commit => (Owns(n, y)' => from'[n] = shared.doc)
    BY <2>1 DEF Disowns
  <2> QED BY <1>1, <2>2 DEF Owns
<1> QED BY <1>2, <1>3, <1>4 DEF Identity, Owns

\* A step that moves p and leaves documents, payloads and history alone.
Quiet(p) ==
  /\ UNCHANGED <<setting, ops, writes, capture, from, dirty>>
  /\ \/ shared' = shared
     \/ shared' = [shared EXCEPT !.marker = None] /\ SharedFree(p) /\ (~Torn \/ shared.doc.gen = 0)
  /\ local' \in [Nodes -> Copy \cup {None}]
  /\ \A n \in Nodes : n # p[1] => local'[n] = local[n]
  /\ local[p[1]] = None <=> local'[p[1]] = None
  /\ local[p[1]] # None =>
       /\ local'[p[1]].pay = local[p[1]].pay /\ local'[p[1]].restore = local[p[1]].restore
       /\ Older(local'[p[1]].doc)
       /\ local[p[1]].restore = None => local'[p[1]].doc.gen <= from[p[1]].gen

LEMMA QuietKeeps ==
  ASSUME IInv, NEW p \in Procs, NEW x \in Op, Passes(p, x), Names(p, x), Quiet(p), Stage(p)'
  PROVE  IInv'
<1> USE DEF IInv
<1>1. p[1] \in Nodes
  BY Fields
<1>2. shared'.doc = shared.doc /\ shared'.pay = shared.pay /\ shared' \in [doc : Doc, pay : Payload, marker : Doc \cup {None}]
      /\ (Torn' => Torn /\ shared' = shared)
  <2>1. shared \in [doc : Doc, pay : Payload, marker : Doc \cup {None}]
    BY DEF Types, TypeOK
  <2> QED BY <2>1 DEF Quiet, Torn
<1>3. Types'
  <2>1. act' \in [Procs -> Op]
    BY PassesIs
  <2> QED BY <1>2, <2>1 DEF Types, TypeOK, Quiet
<1>4. Locked'
  BY PassesLocked
<1>5. \A n \in Nodes : /\ local[n] = None <=> local'[n] = None
                       /\ local[n] # None => local'[n].pay = local[n].pay /\ local'[n].restore = local[n].restore
  BY <1>1 DEF Quiet
<1>6. Lineage'
  BY <1>1, <1>2, <1>5 DEF Quiet, Lineage, Older
<1>7. Disowns
  BY NamesDisown
<1>8. Identity'
  BY <1>2, <1>7, IdentityKept DEF Quiet
<1>9. Tearing'
  <2>1. SUFFICES ASSUME Torn' PROVE Tearing'
    BY DEF Tearing
  <2>2. Torn /\ shared' = shared /\ capture' = capture /\ ops' = ops
    BY <1>2, <2>1 DEF Quiet
  <2>3. shared.marker.commit \in Nat
    BY <2>2, Fields DEF Torn, Doc
  <2>4. \A n \in Nodes : Owns(n, shared.marker.commit)' => Owns(n, shared.marker.commit)
    <3>1. \A n \in Nodes, y \in Nat : y = shared.marker.commit => (Owns(n, y)' => Owns(n, shared.marker.commit))
      BY <1>7 DEF Disowns
    <3> QED BY <2>2, <2>3, <3>1 DEF Owns
  <2> QED BY <1>5, <2>2, <2>4 DEF Tearing, Owns
<1>10. Whole'
  BY <1>2 DEF Whole, Quiet, Torn
<1>11. Rooted'
  BY <1>2, <1>5 DEF Rooted
<1>12. LocalIsWhole'
  BY <1>5 DEF LocalIsWhole, Quiet
<1>13. \A q \in Procs : Stage(q)'
  <2>1. Respects(p)
    <3>1. from[p[1]].gen \in Nat
      BY <1>1, Fields
    <3> QED BY <1>1, <1>5, <3>1 DEF Respects, Quiet
  <2>2. Grows
    BY <1>2 DEF Grows, Older
  <2> QED BY <1>3, <2>1, <2>2, OthersKept
<1> QED BY <1>3, <1>4, <1>6, <1>8, <1>9, <1>10, <1>11, <1>12, <1>13

----------------------------------------------------------------------------
(* The steps that leave documents and payloads alone                       *)

\* A state a failed attempt may go back to.
Base(p, b) == b = None \/ (b \in Doc /\ Older(b) /\ b.gen <= from[p[1]].gen)

\* p ends an attempt and changes at most the state file of its copy.
Retreats(p, x) ==
  /\ Passes(p, x) /\ Names(p, x) /\ x.pc \in {"idle", "try"}
  /\ local' \in [Nodes -> Copy \cup {None}]
  /\ \A n \in Nodes : n # p[1] => local'[n] = local[n]
  /\ local[p[1]] = None <=> local'[p[1]] = None
  /\ local[p[1]] # None =>
       /\ local'[p[1]].pay = local[p[1]].pay /\ local'[p[1]].restore = local[p[1]].restore
       /\ Older(local'[p[1]].doc)
       /\ local[p[1]].restore = None => local'[p[1]].doc.gen <= from[p[1]].gen

LEMMA RaiseRetreats ==
  ASSUME IInv, NEW p \in Procs, NEW b, Base(p, b), NEW m \in BOOLEAN,
         act[p].pc # "idle", act[p].kind = "backup", Raise(p, b, m)
  PROVE  \E x \in Op : /\ Retreats(p, x) /\ (x.pc = "try" => x.kind = "backup") /\ (x.kind = "backup" => x.id # 0)
                       /\ x.base = None \/ x.base = b
<1> USE DEF IInv
<1>1. p[1] \in Nodes /\ act[p] \in Op /\ local[p[1]] # None /\ act[p].id \in Nat /\ act[p].id # 0
  BY Fields DEF Stage
<1>2. /\ local[p[1]] \in Copy /\ local \in [Nodes -> Copy \cup {None}]
      /\ Older(local[p[1]].doc) /\ (local[p[1]].restore = None => local[p[1]].doc.gen <= from[p[1]].gen)
  BY <1>1, Fields DEF Types, TypeOK, Lineage
<1> DEFINE x == IF act[p].try < Attempts
                THEN [act[p] EXCEPT !.pc = "try", !.try = @ + 1, !.base = b, !.tgt = None, !.todo = {}, !.mirrored = m]
                ELSE Idle
<1>3. act' = [act EXCEPT ![p] = x]
  BY DEF Raise
<1>4. x \in Op /\ x.pc \in {"idle", "try"} /\ (x.id = 0 \/ x.id = act[p].id) /\ (x.base = None \/ x.base = b)
      /\ (x.pc = "try" => x.kind = "backup") /\ (x.kind = "backup" => x.id # 0)
  <2>1. CASE act[p].try < Attempts
    <3>1. x = [pc |-> "try", kind |-> act[p].kind, id |-> act[p].id, try |-> act[p].try + 1, base |-> b,
               tgt |-> None, todo |-> {}, mirrored |-> m]
      BY <1>1, <2>1 DEF Op
    <3>2. act[p].kind = "backup" /\ act[p].try + 1 \in Nat /\ b \in Doc \cup {None}
      BY <1>1 DEF Op, Base
    <3> HIDE DEF x
    <3> QED BY <1>1, <3>1, <3>2 DEF Op
  <2>2. CASE ~(act[p].try < Attempts)
    BY <2>2 DEF Idle, Op
  <2> QED BY <2>1, <2>2
<1> HIDE DEF x
<1>5. Passes(p, x)
  BY <1>3, <1>4 DEF Passes
<1>6. \/ local' = local
      \/ local' = [local EXCEPT ![p[1]] = FailedState(local[p[1]], b, act[p].id)] /\ b # None
  BY DEF Raise, KnownBase
<1>7. CASE local' = local
  <2>1. Names(p, x)
    BY <1>4, <1>7 DEF Names
  <2>2. Retreats(p, x)
    BY <1>1, <1>2, <1>4, <1>5, <1>7, <2>1 DEF Retreats
  <2> QED BY <1>4, <2>2
<1>8. CASE local' = [local EXCEPT ![p[1]] = FailedState(local[p[1]], b, act[p].id)] /\ b # None
  <2> DEFINE y == FailedState(local[p[1]], b, act[p].id)
  <2>1. /\ y \in Copy /\ y.doc = b /\ y.att = act[p].id /\ y.pay = local[p[1]].pay /\ y.restore = local[p[1]].restore
        /\ y # None
    <3>1. b \in Doc
      BY <1>8 DEF Base
    <3>2. /\ y \in Copy /\ y.doc = b /\ y.att = act[p].id /\ y.pay = local[p[1]].pay /\ y.restore = local[p[1]].restore
      BY <1>1, <1>2, <3>1 DEF FailedState, Copy
    <3> QED BY <3>2, Parameters
  <2> HIDE DEF y
  <2>2. local'[p[1]] = y /\ (\A n \in Nodes : n # p[1] => local'[n] = local[n]) /\ local' \in [Nodes -> Copy \cup {None}]
    BY <1>1, <1>2, <1>8, <2>1 DEF y
  <2>3. Names(p, x)
    BY <1>4, <2>1, <2>2 DEF Names
  <2>4. Retreats(p, x)
    BY <1>1, <1>2, <1>4, <1>5, <1>8, <2>1, <2>2, <2>3 DEF Retreats, Base
  <2> QED BY <1>4, <2>4
<1> QED BY <1>6, <1>7, <1>8

\* Such a step keeps the invariant, if it takes back at most a marker nothing stands behind.
LEMMA RetreatKeeps ==
  ASSUME IInv, NEW p \in Procs, NEW x \in Op, Retreats(p, x), Base(p, x.base),
         x.pc = "try" => x.kind = "backup", x.kind = "backup" => x.id # 0, x.pc # "idle" => local[p[1]] # None,
         UNCHANGED <<setting, ops, writes, capture, from, dirty>>,
         \/ shared' = shared
         \/ shared' = [shared EXCEPT !.marker = None] /\ SharedFree(p) /\ (~Torn \/ shared.doc.gen = 0)
  PROVE  IInv'
<1>1. Quiet(p)
  BY DEF Quiet, Retreats
<1>2. act'[p] = x
  BY PassesIs DEF Retreats, IInv
<1>3. shared'.doc = shared.doc
  BY DEF IInv, Types, TypeOK
<1>4. Stage(p)'
  BY <1>2, <1>3 DEF Stage, Retreats, Base, Older
<1> QED BY <1>1, <1>4, QuietKeeps DEF Retreats

LEMMA IdleIs ==
  /\ Idle \in Op /\ Idle.pc = "idle" /\ Idle.kind = "none" /\ Idle.id = 0 /\ Idle.base = None
  /\ Idle.tgt = None
BY DEF Idle, Op

\* Ending an operation with an unchanged copy.
LEMMA EndRetreats ==
  ASSUME IInv, NEW p \in Procs, act' = [act EXCEPT ![p] = Idle], local' = local
  PROVE  Retreats(p, Idle)
<1>1. p[1] \in Nodes /\ local \in [Nodes -> Copy \cup {None}]
  BY Fields DEF IInv, Types, TypeOK
<1>2. local[p[1]] # None => Older(local[p[1]].doc) /\ (local[p[1]].restore = None => local[p[1]].doc.gen <= from[p[1]].gen)
  BY <1>1 DEF IInv, Lineage
<1> QED BY <1>1, <1>2, IdleIs DEF Retreats, Passes, Names

LEMMA KillKeeps ==
  ASSUME IInv, NEW p \in Procs, Kill(p) \/ RestoreFault(p)
  PROVE  IInv'
<1>1. /\ act' = [act EXCEPT ![p] = Idle] /\ shared' = shared
      /\ UNCHANGED <<setting, ops, writes, capture, from, dirty>>
  BY DEF Kill, RestoreFault, disk, history
<1>2. local' = local
  <2>1. CASE Kill(p)
    BY <2>1 DEF Kill, disk
  <2>2. CASE RestoreFault(p)
    <3>1. local \in [Nodes -> Copy \cup {None}]
      BY DEF IInv, Types, TypeOK
    <3> QED BY <2>2, <3>1 DEF RestoreFault, AfterRestoreFault
  <2> QED BY <2>1, <2>2
<1> QED BY <1>1, <1>2, EndRetreats, RetreatKeeps, IdleIs DEF Base

LEMMA BaseFacts ==
  ASSUME IInv, NEW p \in Procs
  PROVE  Base(p, act[p].base) /\ (local[p[1]] # None => Base(p, BaseOf(p)))
         /\ (local[p[1]] # None /\ local[p[1]].restore = None => Base(p, local[p[1]].doc))
<1>1. act[p].base \in Doc \cup {None} /\ p[1] \in Nodes
  BY Fields DEF IInv, Op
<1>2. Base(p, act[p].base)
  BY <1>1 DEF IInv, Stage, Base
<1>3. local[p[1]] # None /\ local[p[1]].restore = None => Base(p, local[p[1]].doc)
  BY <1>1, Fields DEF IInv, Lineage, Base
<1> QED BY <1>2, <1>3 DEF BaseOf

LEMMA LockFaultKeeps ==
  ASSUME IInv, NEW p \in Procs, LockFault(p)
  PROVE  IInv'
<1>1. act[p].pc = "try" /\ act[p].mirrored \in BOOLEAN /\ local[p[1]] # None /\ act[p].kind = "backup"
  BY Fields DEF LockFault, IInv, Stage, Op
<1>2. PICK b : Base(p, b) /\ Raise(p, b, act[p].mirrored)
  BY <1>1, BaseFacts DEF LockFault
<1>3. shared' = shared /\ UNCHANGED <<setting, ops, writes, capture, from, dirty>>
  BY DEF LockFault, history
<1>4. PICK x \in Op : /\ Retreats(p, x) /\ (x.pc = "try" => x.kind = "backup") /\ (x.kind = "backup" => x.id # 0)
                      /\ x.base = None \/ x.base = b
  BY <1>1, <1>2, RaiseRetreats
<1> QED BY <1>1, <1>2, <1>3, <1>4, RetreatKeeps DEF Base

LEMMA FaultKeeps ==
  ASSUME IInv, NEW p \in Procs, Fault(p)
  PROVE  IInv'
<1> USE DEF IInv
<1>1. /\ act[p].pc \in {"copy", "state", "unmark", "local"} /\ local[p[1]] # None
      /\ act[p].mirrored \in BOOLEAN /\ act[p].pc # "idle" /\ Base(p, act[p].base)
      /\ UNCHANGED <<setting, ops, writes, capture, from, dirty>>
  BY Fields, BaseFacts DEF Fault, Stage, Op, history
<1>2. \/ shared' = shared
      \/ shared' = [shared EXCEPT !.marker = None] /\ SharedFree(p) /\ (~Torn \/ shared.doc.gen = 0)
  <2>1. shared \in [doc : Doc, pay : Payload, marker : Doc \cup {None}]
    BY DEF Types, TypeOK
  <2>2. CASE act[p].pc \in {"copy", "state"} /\ ~HasPayload(shared.pay)
    <3>1. shared' = [shared EXCEPT !.marker = None]
      BY <2>2 DEF Fault, MarkerAfterFault
    <3>2. SharedFree(p)
      BY <2>2 DEF SharedFree, Sharing
    <3>3. shared.pay[Meta] = 0
      BY <2>2, Parameters DEF HasPayload, Nothing
    <3>4. shared.doc.gen = 0
      BY <3>3, Fields DEF Rooted
    <3> QED BY <3>1, <3>2, <3>4
  <2>3. CASE ~(act[p].pc \in {"copy", "state"} /\ ~HasPayload(shared.pay))
    BY <2>1, <2>3 DEF Fault, MarkerAfterFault
  <2> QED BY <2>2, <2>3
<1>3. CASE act[p].kind = "backup"
  <2> DEFINE m == IF act[p].pc \in {"copy", "state"} /\ shared.doc.gen = 0 THEN HasPayload(shared.pay) ELSE act[p].mirrored
  <2>1. m \in BOOLEAN
    BY <1>1 DEF HasPayload
  <2>2. Raise(p, act[p].base, m)
    BY <1>3 DEF Fault
  <2> HIDE DEF m
  <2>3. PICK x \in Op : /\ Retreats(p, x) /\ (x.pc = "try" => x.kind = "backup") /\ (x.kind = "backup" => x.id # 0)
                        /\ x.base = None \/ x.base = act[p].base
    BY <1>1, <1>3, <2>1, <2>2, RaiseRetreats
  <2> QED BY <1>1, <1>2, <2>3, RetreatKeeps DEF Base
<1>4. CASE act[p].kind # "backup"
  <2>1. act' = [act EXCEPT ![p] = Idle] /\ local' = local
    BY <1>4 DEF Fault
  <2> QED BY <1>1, <1>2, <2>1, EndRetreats, RetreatKeeps, IdleIs DEF Base
<1> QED BY <1>3, <1>4

\* A copy's shared state is its own, and was committed by its node.
LEMMA CommittedIsOwn ==
  ASSUME IInv, NEW n \in Nodes, NEW d \in Doc, NEW id \in Nat, Owns(n, id), shared.doc = CommittedNext(d, id)
  PROVE  from[n] = shared.doc
<1>1. shared.doc.commit = id
  BY DEF CommittedNext
<1> QED BY <1>1 DEF IInv, Identity

\* An operation that finds its capture committed goes on to take the marker away.
Recognizing(p, x) ==
  /\ act' = [act EXCEPT ![p] = x] /\ UNCHANGED <<setting, disk, counts, history>>
  /\ x.pc = "unmark" /\ x.tgt = shared.doc /\ Base(p, x.base)
  /\ x.id = act[p].id \/ x.id = local[p[1]].att
  /\ x.kind = "backup" => x.id # 0

LEMMA RecognizingKeeps ==
  ASSUME IInv, NEW p \in Procs, NEW x \in Op, Recognizing(p, x), CanEnter(p), local[p[1]] # None, ~Torn,
         from[p[1]] = shared.doc
  PROVE  IInv'
<1>1. Passes(p, x) /\ Names(p, x)
  BY DEF Recognizing, Passes, Names, CanEnter, GuardFree, SharedFree, disk
<1>2. Quiet(p)
  <2>1. p[1] \in Nodes /\ local \in [Nodes -> Copy \cup {None}]
    BY Fields DEF IInv, Types, TypeOK
  <2> QED BY <2>1 DEF Recognizing, Quiet, disk, counts, history, IInv, Lineage
<1>3. act'[p] = x /\ UNCHANGED <<shared, local, from>>
  BY <1>1, PassesIs DEF Recognizing, disk, history, IInv
<1>4. Stage(p)'
  BY <1>3 DEF Recognizing, Stage, Base, Older, Torn
<1> QED BY <1>1, <1>2, <1>4, QuietKeeps

LEMMA RecognizeKeeps ==
  ASSUME IInv, NEW p \in Procs, Recognize(p)
  PROVE  IInv'
<1> DEFINE l == local[p[1]]
           x == [Idle EXCEPT !.pc = "unmark", !.kind = "repair", !.id = l.att, !.tgt = shared.doc]
<1>1. /\ l # None /\ Failed(l) /\ CommittedAttempt(l, l.att) /\ Sees(l) /\ CanEnter(p)
      /\ act' = [act EXCEPT ![p] = x] /\ UNCHANGED <<setting, disk, counts, history>>
  BY DEF Recognize, Recognizes
<1>2. p[1] \in Nodes /\ l.doc \in Doc /\ l.att \in Nat /\ shared.doc \in Doc
  BY <1>1, Fields DEF IInv
<1>3. Owns(p[1], l.att)
  BY <1>1 DEF Owns, Failed
<1>4. from[p[1]] = shared.doc
  BY <1>1, <1>2, <1>3, CommittedIsOwn DEF CommittedAttempt
<1>5. ~Torn
  BY <1>1 DEF Sees, MarkerAllows, CommittedAttempt, Torn
<1>6. x \in Op /\ x.pc = "unmark" /\ x.tgt = shared.doc /\ x.base = None /\ x.id = l.att /\ x.kind = "repair"
  BY <1>2 DEF Idle, Op
<1> HIDE DEF x
<1>7. Recognizing(p, x)
  BY <1>1, <1>6 DEF Recognizing, Base
<1> QED BY <1>1, <1>4, <1>5, <1>6, <1>7, RecognizingKeeps

\* A step that leaves the state files alone and takes no name.
Calm == UNCHANGED <<ops, capture>> /\ shared'.doc = shared.doc /\ shared'.marker = shared.marker

LEMMA TearingKept ==
  ASSUME IInv, Calm, Disowns, NEW n \in Nodes,
         \A m \in Nodes : m # n => local'[m] = local[m],
         local'[n] # None /\ local'[n].restore # None => ~Torn \/ (local[n] # None /\ local[n].restore # None)
  PROVE  Tearing'
<1>1. SUFFICES ASSUME Torn' PROVE Tearing'
  BY DEF Tearing
<1>2. Torn /\ shared.marker.commit \in Nat
  <2>1. Torn
    BY <1>1 DEF Calm, Torn
  <2> QED BY <2>1, Fields DEF IInv, Torn, Doc
<1>3. \A m \in Nodes : Owns(m, shared.marker.commit)' => Owns(m, shared.marker.commit)
  <2>1. \A m \in Nodes, y \in Nat : y = shared.marker.commit => (Owns(m, y)' => Owns(m, shared.marker.commit))
    BY DEF Disowns
  <2> QED BY <1>2, <2>1 DEF Calm, Owns
<1>4. \A m \in Nodes : local'[m] # None /\ local'[m].restore # None => local[m] # None /\ local[m].restore # None
  BY <1>2
<1> QED BY <1>2, <1>3, <1>4 DEF IInv, Calm, Tearing, Owns

LEMMA BegunIs ==
  ASSUME NEW o \in Op, NEW id \in Nat
  PROVE  LET x == [o EXCEPT !.pc = "try", !.kind = "backup", !.id = id, !.try = 1]
         IN  x \in Op /\ x.pc = "try" /\ x.kind = "backup" /\ x.id = id /\ x.base = o.base /\ x.tgt = o.tgt
BY DEF Op

LEMMA StartKeeps ==
  ASSUME IInv, NEW p \in Procs, Start(p)
  PROVE  IInv'
<1> USE DEF IInv
<1> DEFINE x == [Idle EXCEPT !.pc = "try", !.kind = "backup", !.id = ops + 1, !.try = 1]
<1>1. /\ act[p].pc = "idle" /\ local[p[1]] # None /\ ops' = ops + 1 /\ act' = [act EXCEPT ![p] = x]
      /\ UNCHANGED <<setting, local, shared, writes, capture, from, dirty>>
  BY DEF Start, disk, history
<1>2. p[1] \in Nodes /\ ops \in Nat
  BY Fields DEF Types
<1>3. x \in Op /\ x.pc = "try" /\ x.kind = "backup" /\ x.id = ops + 1 /\ x.base = None /\ x.tgt = None
  <2>1. ops + 1 \in Nat
    BY <1>2
  <2> QED BY ZenonT(60), <2>1, IdleIs, BegunIs
<1> HIDE DEF x
<1>4. Passes(p, x)
  BY <1>1, <1>3 DEF Passes
<1>5. Types'
  <2>1. act' \in [Procs -> Op]
    BY <1>3, <1>4, PassesIs
  <2> QED BY <1>1, <1>2, <2>1 DEF Types, TypeOK
<1>6. Locked'
  BY <1>3, <1>4, PassesLocked
<1>7. Lineage' /\ Whole' /\ Rooted' /\ LocalIsWhole'
  BY <1>1 DEF Lineage, Older, Whole, Torn, Rooted, LocalIsWhole
<1>8. \A n \in Nodes, y \in Nat : Owns(n, y)' => Owns(n, y) \/ (n = p[1] /\ y = ops + 1)
  <2>1. act'[p] = x /\ \A q \in Procs : q # p => act'[q] = act[q]
    BY <1>3, <1>4, PassesIs
  <2> QED BY <1>1, <1>3, <2>1 DEF Owns
<1>9. \A n \in Nodes : ~Owns(n, ops + 1)
  <2>1. \A n \in Nodes, y \in Nat : y = ops + 1 => ~Owns(n, y)
    BY <1>2 DEF Identity
  <2> QED BY <1>2, <2>1
<1>10. Identity'
  <2>1. shared.doc.commit \in Nat
    BY Fields
  <2>2. \A n \in Nodes, y \in Nat : Owns(n, y)' => y <= ops'
    BY <1>1, <1>2, <1>8 DEF Identity
  <2>3. \A m, n \in Nodes, y \in Nat : Owns(m, y)' /\ Owns(n, y)' => m = n
    BY <1>8, <1>9 DEF Identity
  <2>4. \A n \in Nodes : Owns(n, shared.doc.commit)' => from'[n] = shared'.doc
    <3>1. \A n \in Nodes, y \in Nat : y = shared.doc.commit => (Owns(n, y)' => Owns(n, y))
      BY <1>2, <1>8 DEF Identity
    <3>2. \A n \in Nodes, y \in Nat : y = shared.doc.commit => (Owns(n, y)' => from[n] = shared.doc)
      BY <3>1 DEF Identity
    <3> QED BY <1>1, <2>1, <3>2 DEF Owns
  <2> QED BY <1>1, <1>2, <2>1, <2>2, <2>3, <2>4 DEF Identity, Owns
<1>11. Tearing'
  <2>1. SUFFICES ASSUME Torn' PROVE Tearing'
    BY DEF Tearing
  <2>2. Torn /\ shared.marker.commit \in Nat
    <3>1. Torn
      BY <1>1, <2>1 DEF Torn
    <3> QED BY <3>1, Fields DEF Torn, Doc
  <2>3. \A n \in Nodes : Owns(n, shared.marker.commit)' => Owns(n, shared.marker.commit)
    <3>1. shared.marker.commit <= ops /\ shared.marker.commit # ops + 1
      BY <1>2, <2>2 DEF Tearing
    <3>2. \A n \in Nodes, y \in Nat : y = shared.marker.commit => (Owns(n, y)' => Owns(n, shared.marker.commit))
      BY <1>8, <3>1
    <3> QED BY <1>1, <2>2, <3>2 DEF Owns
  <2> QED BY <1>1, <1>2, <2>2, <2>3 DEF Tearing, Owns
<1>12. \A q \in Procs : Stage(q)'
  <2>1. Respects(p) /\ Grows
    <3>1. from[p[1]].gen \in Nat
      BY <1>2, Fields
    <3> QED BY <1>1, <3>1 DEF Respects, Grows, Older
  <2>2. act'[p] = x
    BY <1>3, <1>4, PassesIs
  <2>3. Stage(p)'
    BY <1>1, <1>2, <1>3, <2>2 DEF Stage
  <2> QED BY <1>3, <1>4, <1>5, <2>1, <2>3, OthersKept
<1> QED BY <1>5, <1>6, <1>7, <1>10, <1>11, <1>12

LEMMA WriteKeeps ==
  ASSUME IInv, NEW n \in Nodes, NEW f \in Files, Write(n, f)
  PROVE  IInv'
<1> USE DEF IInv
<1>1. PICK v \in {writes + 2} \cup (IF f = Meta THEN {} ELSE {0}) : local' = [local EXCEPT ![n].pay[f] = v]
  BY DEF Write
<1>2. /\ local[n] # None /\ ~LocalHeld(n) /\ local[n].restore = None /\ writes' = writes + 1
      /\ dirty' = [dirty EXCEPT ![n] = @ \cup {f}]
      /\ UNCHANGED <<setting, shared, act, ops, capture, from>>
  BY DEF Write
<1>3. writes \in Nat /\ v \in Nat /\ (f = Meta => v # 0)
  BY DEF Types
<1> DEFINE y == [local[n] EXCEPT !.pay[f] = v]
<1>4. /\ y \in Copy /\ y # None /\ y.doc = local[n].doc /\ y.att = local[n].att /\ y.restore = None
      /\ y.pay = [local[n].pay EXCEPT ![f] = v]
  <2>1. local[n] \in Copy /\ local[n].pay \in Payload
    BY <1>2, Fields
  <2>2. [local[n].pay EXCEPT ![f] = v] \in Payload
    BY <1>3, <2>1 DEF Payload
  <2>3. /\ y \in Copy /\ y.doc = local[n].doc /\ y.att = local[n].att /\ y.restore = None
        /\ y.pay = [local[n].pay EXCEPT ![f] = v]
    BY <1>2, <2>1, <2>2 DEF Copy
  <2> QED BY <2>3, Parameters
<1>5. local' = [local EXCEPT ![n] = y] /\ local \in [Nodes -> Copy \cup {None}]
  BY <1>1 DEF Types, TypeOK
<1> HIDE DEF y
<1>6. local'[n] = y /\ (\A m \in Nodes : m # n => local'[m] = local[m]) /\ local' \in [Nodes -> Copy \cup {None}]
  BY <1>4, <1>5
<1>7. /\ dirty' \in [Nodes -> SUBSET Files] /\ dirty'[n] = dirty[n] \cup {f} /\ (\A m \in Nodes : m # n => dirty'[m] = dirty[m])
  BY <1>2 DEF Types, TypeOK
<1>8. Types'
  BY <1>2, <1>3, <1>6, <1>7 DEF Types, TypeOK
<1>9. Locked' /\ Whole'
  BY <1>2 DEF Locked, Guarding, Sharing, Whole, Torn
<1>10. Lineage'
  BY <1>2, <1>4, <1>6 DEF Lineage, Older
<1>11. Disowns
  BY <1>2, <1>4, <1>6 DEF Disowns, Owns
<1>12. Identity'
  <2>1. ops' = ops /\ shared'.doc = shared.doc /\ from' = from
    BY <1>2
  <2> QED BY <1>11, <2>1, IdentityKept
<1>13. Tearing'
  <2>1. Calm
    BY <1>2 DEF Calm
  <2> QED BY <1>4, <1>6, <1>11, <2>1, TearingKept
<1>14. Rooted'
  <2>1. y.pay[Meta] # 0
    <3>1. local[n].pay \in [Files -> Nat] /\ local[n].pay[Meta] # 0
      BY <1>2, Fields DEF Rooted, Payload
    <3> QED BY <1>3, <1>4, <3>1, Parameters
  <2> QED BY <1>2, <1>6, <2>1 DEF Rooted
<1>15. LocalIsWhole'
  <2>1. \A g \in Files \ dirty'[n] : y.pay[g] = capture[from[n].gen].pay[g]
    <3>1. local[n].pay \in [Files -> Nat]
      BY <1>2, Fields DEF Payload
    <3> QED BY <1>2, <1>4, <1>7, <3>1 DEF LocalIsWhole
  <2> QED BY <1>2, <1>6, <1>7, <2>1 DEF LocalIsWhole
<1>16. ASSUME NEW q \in Procs PROVE Stage(q)'
  <2>1. act'[q] = act[q] /\ q[1] \in Nodes /\ Stage(q)
    BY SMTT(60), <1>2, Fields
  <2>2. CASE q[1] # n
    <3>1. local'[q[1]] = local[q[1]]
      BY <1>6, <2>1, <2>2
    <3>2. act[q].base # None => Older(act[q].base)'
      BY <1>2, <2>1 DEF Stage, Older
    <3>3. act[q].tgt \in Doc /\ Older(act[q].tgt) => Older(act[q].tgt)'
      BY <1>2 DEF Older
    <3> QED BY <1>2, <2>1, <3>1, <3>2, <3>3 DEF Stage, Publishes, Recovers, Torn, Older
  <2>3. CASE q[1] = n
    <3>1. act[q].pc \in {"idle", "try"}
      BY <1>2, <2>3 DEF LocalHeld
    <3> QED BY <1>2, <1>4, <1>6, <2>1, <2>3, <3>1 DEF Stage, Older
  <2> QED BY <2>2, <2>3
<1> QED BY <1>8, <1>9, <1>10, <1>12, <1>13, <1>14, <1>15, <1>16

----------------------------------------------------------------------------
(* Publications                                                            *)

\* p may publish its copy as the operation id.
Publishing(p, id) ==
  /\ CanEnter(p) /\ local[p[1]] # None /\ local[p[1]].restore = None /\ SameLineage(local[p[1]])
  /\ id # 0 /\ Owns(p[1], id) /\ (id = act[p].id \/ id = local[p[1]].att)
  /\ MarkerAllows(CommittedNext(shared.doc, id))

LEMMA PublishKeeps ==
  ASSUME IInv, NEW p \in Procs, NEW a \in Op, Publishing(p, a.id), Publish(p, a, CommittedNext(shared.doc, a.id))
  PROVE  IInv'
<1> USE DEF IInv
<1> DEFINE l == local[p[1]]
           d == CommittedNext(shared.doc, a.id)
           x == [a EXCEPT !.pc = "copy", !.tgt = d, !.todo = Files, !.base = l.doc]
           new == [pay |-> l.pay, by |-> p[1]]
<1>1. /\ shared' = [shared EXCEPT !.marker = d] /\ act' = [act EXCEPT ![p] = x]
      /\ capture' = [g \in 0..d.gen |-> IF g = d.gen THEN new ELSE capture[g]]
      /\ UNCHANGED <<setting, local, ops, writes, from, dirty>>
  BY DEF Publish, counts
<1>2. /\ p[1] \in Nodes /\ l # None /\ l \in Copy /\ l.doc \in Doc /\ l.pay \in Payload
      /\ shared.doc \in Doc /\ shared.doc.gen \in Nat /\ a.id \in Nat /\ l.doc = shared.doc /\ l.restore = None
      /\ from[p[1]] \in Doc /\ from[p[1]].gen \in Nat
  BY Fields DEF Publishing, SameLineage, Op
<1>3. from[p[1]] = shared.doc
  BY <1>2 DEF Lineage, Older
<1>4. d \in Doc /\ d.gen = shared.doc.gen + 1 /\ d.commit = a.id /\ d # shared.doc /\ d # None
  <2>1. d \in Doc /\ d.gen = shared.doc.gen + 1 /\ d.commit = a.id
    BY <1>2 DEF CommittedNext, Doc
  <2> QED BY <1>2, <2>1, Parameters
<1>5. /\ x \in Op /\ x.pc = "copy" /\ x.kind = a.kind /\ x.id = a.id /\ x.tgt = d /\ x.todo = Files /\ x.base = l.doc
  BY <1>2, <1>4 DEF Op
<1>6. new \in [pay : Payload, by : Nodes]
  BY <1>2
<1> HIDE DEF d, x, new
<1>7. /\ capture' \in [0..(shared.doc.gen + 1) -> [pay : Payload, by : Nodes]] /\ capture'[d.gen] = new
      /\ (\A g \in Nat : g <= shared.doc.gen => capture'[g] = capture[g]) /\ d.gen \in DOMAIN capture'
  <2>1. \A g \in 0..shared.doc.gen : capture[g] \in [pay : Payload, by : Nodes]
    <3>1. PICK k \in {shared.doc.gen, shared.doc.gen + 1} : capture \in [0..k -> [pay : Payload, by : Nodes]]
      BY DEF Types, TypeOK
    <3> QED BY <1>2, <3>1
  <2> QED BY <1>1, <1>2, <1>4, <1>6, <2>1
<1>8. /\ shared'.doc = shared.doc /\ shared'.pay = shared.pay /\ shared'.marker = d
      /\ shared' \in [doc : Doc, pay : Payload, marker : Doc \cup {None}]
  <2>1. shared \in [doc : Doc, pay : Payload, marker : Doc \cup {None}]
    BY DEF Types, TypeOK
  <2> QED BY <1>1, <1>4, <2>1
<1>9. Passes(p, x) /\ Names(p, x)
  BY <1>1, <1>5 DEF Passes, Names, Publishing, CanEnter, GuardFree, SharedFree
<1>10. Types'
  <2>1. act' \in [Procs -> Op]
    BY <1>5, <1>9, PassesIs
  <2>2. \E k \in {shared'.doc.gen, shared'.doc.gen + 1} : capture' \in [0..k -> [pay : Payload, by : Nodes]]
    BY <1>7, <1>8
  <2> QED BY <1>1, <1>8, <2>1, <2>2 DEF Types, TypeOK
<1>11. Locked'
  BY <1>5, <1>9, PassesLocked
<1>12. Lineage' /\ Rooted'
  BY <1>1, <1>8 DEF Lineage, Older, Rooted
<1>13. Disowns
  BY <1>5, <1>9, NamesDisown
<1>14. Identity'
  BY <1>1, <1>8, <1>13, IdentityKept
<1>15. Torn'
  BY <1>4, <1>8 DEF Torn
<1>16. Tearing'
  <2>1. a.id <= ops
    BY <1>2 DEF Identity, Publishing
  <2>2. \A n \in Nodes : Owns(n, a.id)' => n = p[1]
    <3>1. \A n \in Nodes, y \in Nat : Owns(n, y)' => Owns(n, y)
      BY <1>13 DEF Disowns
    <3>2. \A n \in Nodes, y \in Nat : y = a.id => (Owns(n, y)' => n = p[1])
      BY <1>2, <3>1 DEF Identity, Publishing
    <3> QED BY <1>2, <3>2 DEF Owns
  <2>3. \A n \in Nodes : local'[n] # None /\ local'[n].restore # None => n # p[1]
    BY <1>1, <1>2
  <2>4. capture'[shared'.marker.gen].by = p[1]
    BY <1>7, <1>8 DEF new
  <2> QED BY <1>1, <1>4, <1>7, <1>8, <2>1, <2>2, <2>3, <2>4 DEF Tearing, Owns
<1>17. Whole'
  BY <1>15 DEF Whole
<1>18. LocalIsWhole'
  <2>1. \A n \in Nodes : capture'[from[n].gen] = capture[from[n].gen]
    BY <1>7, Fields DEF Lineage, Older
  <2> QED BY <1>1, <2>1 DEF LocalIsWhole
<1>19. \A q \in Procs : Stage(q)'
  <2>1. Respects(p) /\ Grows
    <3>1. GuardFree(p) /\ SharedFree(p)
      BY DEF Publishing, CanEnter, GuardFree, SharedFree
    <3> QED BY <1>1, <1>2, <1>8, <3>1 DEF Respects, Grows, Older
  <2>2. act'[p] = x
    BY <1>5, <1>9, PassesIs
  <2>3. Publishes(p)'
    BY <1>1, <1>2, <1>3, <1>4, <1>5, <1>7, <1>8, <2>2 DEF Publishes, new
  <2>4. x.kind = "backup" => x.id # 0
    BY <1>5 DEF Publishing
  <2>5. Older(l.doc)' /\ l.doc.gen <= from'[p[1]].gen
    BY <1>1, <1>2, <1>3, <1>8 DEF Older
  <2>6. Stage(p)'
    BY <1>1, <1>2, <1>5, <2>2, <2>3, <2>4, <2>5 DEF Stage, Older
  <2> QED BY <1>5, <1>9, <1>10, <2>1, <2>6, OthersKept
<1> QED BY <1>10, <1>11, <1>12, <1>14, <1>16, <1>17, <1>18, <1>19

LEMMA AttemptKeeps ==
  ASSUME IInv, NEW p \in Procs, Attempt(p)
  PROVE  IInv'
<1> DEFINE l == local[p[1]]
           a == act[p]
<1>1. /\ a.pc = "try" /\ CanEnter(p) /\ l # None /\ a.kind = "backup" /\ a.id # 0 /\ a \in Op /\ a.id \in Nat
      /\ p[1] \in Nodes /\ a.mirrored \in BOOLEAN /\ l.doc \in Doc /\ shared.doc \in Doc
  BY Fields DEF Attempt, IInv, Stage, Op
<1>2. Owns(p[1], a.id)
  BY <1>1 DEF Owns
<1>3. CASE Publishable(l, a) /\ Publish(p, a, CommittedNext(shared.doc, a.id))
  <2>1. Publishing(p, a.id)
    BY <1>1, <1>2, <1>3 DEF Publishing, Publishable, FencePasses
  <2> QED BY <1>1, <1>3, <2>1, PublishKeeps
<1>4. CASE /\ Recognizable(l, a)
           /\ act' = [act EXCEPT ![p] = [a EXCEPT !.pc = "unmark", !.tgt = shared.doc, !.base = l.doc]]
           /\ UNCHANGED <<setting, disk, counts, history>>
  <2> DEFINE x == [a EXCEPT !.pc = "unmark", !.tgt = shared.doc, !.base = l.doc]
  <2>1. x \in Op /\ x.pc = "unmark" /\ x.tgt = shared.doc /\ x.base = l.doc /\ x.id = a.id
    BY <1>1 DEF Op
  <2>2. act' = [act EXCEPT ![p] = x]
    BY <1>4
  <2> HIDE DEF x
  <2>3. Base(p, l.doc)
    BY <1>1, <1>4, BaseFacts DEF Recognizable
  <2>4. Recognizing(p, x)
    BY <1>1, <1>4, <2>1, <2>2, <2>3 DEF Recognizing
  <2>5. from[p[1]] = shared.doc /\ ~Torn
    BY <1>1, <1>2, <1>4, CommittedIsOwn DEF Recognizable, CommittedAttempt, MarkerAllows, Torn
  <2> QED BY <1>1, <2>1, <2>4, <2>5, RecognizingKeeps
<1>5. CASE Raise(p, BaseOf(p), a.mirrored) /\ UNCHANGED <<setting, shared, ops, writes, faults, kills, history>>
  <2>1. Base(p, BaseOf(p))
    BY <1>1, BaseFacts
  <2>2. PICK x \in Op : /\ Retreats(p, x) /\ (x.pc = "try" => x.kind = "backup") /\ (x.kind = "backup" => x.id # 0)
                        /\ x.base = None \/ x.base = BaseOf(p)
    BY <1>1, <1>5, <2>1, RaiseRetreats
  <2> QED BY <1>1, <1>5, <2>1, <2>2, RetreatKeeps DEF Base, history
<1> QED BY <1>3, <1>4, <1>5 DEF Attempt

LEMMA RepairKeeps ==
  ASSUME IInv, NEW p \in Procs, Repair(p)
  PROVE  IInv'
<1> DEFINE l == local[p[1]]
           a == [Idle EXCEPT !.kind = "repair", !.id = l.att]
<1>1. /\ CanEnter(p) /\ l # None /\ Sees(l) /\ l.restore = None /\ Failed(l) /\ SameLineage(l)
      /\ Publish(p, a, CommittedNext(shared.doc, l.att))
  BY DEF Repair, Repairs
<1>2. p[1] \in Nodes /\ l.att \in Nat
  BY <1>1, Fields DEF IInv
<1>3. a \in Op /\ a.id = l.att
  BY <1>2, IdleIs DEF Op
<1> HIDE DEF a
<1>4. Publishing(p, a.id)
  BY <1>1, <1>3 DEF Publishing, Sees, Failed, SameLineage, Owns
<1> QED BY <1>1, <1>3, <1>4, PublishKeeps

LEMMA CopyFileKeeps ==
  ASSUME IInv, NEW p \in Procs, NEW f \in Files, CopyFile(p, f)
  PROVE  IInv'
<1> USE DEF IInv
<1> DEFINE a == act[p]
           pay == local[p[1]].pay
           x == [a EXCEPT !.todo = @ \ {f}, !.pc = IF a.todo = {f} THEN "state" ELSE @]
<1>1. /\ a.pc = "copy" /\ f \in a.todo /\ shared' = [shared EXCEPT !.pay[f] = pay[f]]
      /\ act' = [act EXCEPT ![p].todo = @ \ {f}, ![p].pc = IF act[p].todo = {f} THEN "state" ELSE @]
      /\ UNCHANGED <<setting, local, ops, writes, capture, from, dirty>>
  BY DEF CopyFile, counts, history
<1>2. /\ a \in Op /\ local[p[1]] # None /\ p[1] \in Nodes /\ pay \in Payload /\ Publishes(p) /\ a.todo \subseteq Files
      /\ shared.doc.gen \in Nat /\ shared.pay \in Payload /\ act \in [Procs -> Op]
      /\ shared \in [doc : Doc, pay : Payload, marker : Doc \cup {None}]
  BY <1>1, Fields DEF Stage, Types, TypeOK
<1>3. act' = [act EXCEPT ![p] = x]
  BY <1>1, <1>2
<1>4. /\ x \in Op /\ x.todo = a.todo \ {f} /\ x.pc \in {"copy", "state"} /\ (x.pc = "state" => a.todo = {f})
      /\ x.tgt = a.tgt /\ x.id = a.id /\ x.kind = a.kind /\ x.base = a.base
  BY <1>1, <1>2 DEF Op
<1> HIDE DEF x
<1>5. /\ shared'.doc = shared.doc /\ shared'.marker = shared.marker /\ shared'.pay = [shared.pay EXCEPT ![f] = pay[f]]
      /\ shared'.pay \in Payload /\ shared' \in [doc : Doc, pay : Payload, marker : Doc \cup {None}]
  <2>1. [shared.pay EXCEPT ![f] = pay[f]] \in Payload
    BY <1>2 DEF Payload
  <2> QED BY <1>1, <1>2, <2>1
<1>6. Passes(p, x) /\ Names(p, x)
  BY <1>1, <1>3, <1>4 DEF Passes, Names, GuardFree, SharedFree, Guarding, Sharing
<1>7. Types'
  <2>1. act' \in [Procs -> Op]
    BY <1>4, <1>6, PassesIs
  <2> QED BY <1>1, <1>5, <2>1 DEF Types, TypeOK
<1>8. Locked'
  BY <1>4, <1>6, PassesLocked
<1>9. Lineage' /\ LocalIsWhole'
  BY <1>1, <1>5 DEF Lineage, Older, LocalIsWhole
<1>10. Disowns
  BY <1>4, <1>6, NamesDisown
<1>11. Identity'
  BY <1>1, <1>5, <1>10, IdentityKept
<1>12. Tearing'
  <2>1. Calm
    BY <1>1, <1>5 DEF Calm
  <2> QED BY <1>1, <1>2, <1>10, <2>1, TearingKept
<1>13. Whole'
  <2>1. Torn'
    BY <1>2, <1>5, Parameters DEF Publishes, Torn
  <2> QED BY <2>1 DEF Whole
<1>14. Rooted'
  BY <1>1, <1>2, <1>5, Parameters DEF Rooted, Payload
<1>15. \A q \in Procs : Stage(q)'
  <2>1. Respects(p) /\ Grows
    <3>1. GuardFree(p) /\ SharedFree(p)
      BY <1>1 DEF GuardFree, SharedFree, Guarding, Sharing
    <3>2. from[p[1]].gen \in Nat
      BY <1>2, Fields
    <3> QED BY <1>1, <1>5, <3>1, <3>2 DEF Respects, Grows, Older
  <2>2. act'[p] = x
    BY <1>4, <1>6, PassesIs
  <2>3. \A g \in Files \ x.todo : shared'.pay[g] = pay[g]
    BY <1>2, <1>4, <1>5 DEF Publishes, Payload
  <2>4. x.pc = "state" => x.todo = {}
    BY <1>4
  <2>5. Publishes(p)'
    <3>1. local' = local /\ capture' = capture /\ from' = from
      BY <1>1
    <3>2. \A g \in Files \ x.todo : shared'.pay[g] = local'[p[1]].pay[g]
      BY SMTT(60), <2>3, <3>1
    <3> QED BY <1>2, <1>4, <1>5, <2>2, <2>4, <3>1, <3>2 DEF Publishes
  <2>6. Stage(p)'
    BY ZenonT(60), <1>1, <1>2, <1>4, <1>5, <2>2, <2>5 DEF Stage, Older
  <2> QED BY <1>4, <1>6, <1>7, <2>1, <2>6, OthersKept
<1> QED BY <1>7, <1>8, <1>9, <1>11, <1>12, <1>13, <1>14, <1>15

LEMMA WriteSharedKeeps ==
  ASSUME IInv, NEW p \in Procs, WriteShared(p)
  PROVE  IInv'
<1> USE DEF IInv
<1> DEFINE a == act[p]
           pay == local[p[1]].pay
           x == [a EXCEPT !.pc = "unmark"]
           d == a.tgt
<1>1. /\ a.pc = "state" /\ shared' = [shared EXCEPT !.doc = d] /\ act' = [act EXCEPT ![p].pc = "unmark"]
      /\ from' = [from EXCEPT ![p[1]] = d] /\ dirty' = [dirty EXCEPT ![p[1]] = {}]
      /\ UNCHANGED <<setting, local, ops, writes, capture>>
  BY DEF WriteShared, counts
<1>2. /\ a \in Op /\ local[p[1]] # None /\ p[1] \in Nodes /\ pay \in Payload /\ Publishes(p)
      /\ shared.doc.gen \in Nat /\ shared.pay \in Payload /\ act \in [Procs -> Op] /\ shared.doc \in Doc
      /\ from \in [Nodes -> Doc] /\ dirty \in [Nodes -> SUBSET Files]
      /\ shared \in [doc : Doc, pay : Payload, marker : Doc \cup {None}]
  BY <1>1, Fields DEF Stage, Types, TypeOK
<1>3. /\ d \in Doc /\ d.gen = shared.doc.gen + 1 /\ shared.marker = d /\ d.commit = a.id
      /\ capture[d.gen] = [pay |-> pay, by |-> p[1]] /\ d.gen \in DOMAIN capture
      /\ from[p[1]] = shared.doc /\ local[p[1]].restore = None
      /\ \A f \in Files : shared.pay[f] = pay[f]
  BY <1>1, <1>2 DEF Publishes
<1>4. shared.pay = pay
  BY <1>2, <1>3 DEF Payload
<1>5. act' = [act EXCEPT ![p] = x]
  BY <1>1, <1>2
<1>6. x \in Op /\ x.pc = "unmark" /\ x.tgt = d /\ x.id = a.id /\ x.kind = a.kind /\ x.base = a.base
  BY <1>2 DEF Op
<1> HIDE DEF x
<1>7. /\ shared'.doc = d /\ shared'.marker = shared.marker /\ shared'.pay = shared.pay
      /\ shared' \in [doc : Doc, pay : Payload, marker : Doc \cup {None}]
  BY <1>1, <1>2, <1>3
<1>8. /\ from' \in [Nodes -> Doc] /\ from'[p[1]] = d /\ (\A n \in Nodes : n # p[1] => from'[n] = from[n])
      /\ dirty' \in [Nodes -> SUBSET Files] /\ dirty'[p[1]] = {} /\ (\A n \in Nodes : n # p[1] => dirty'[n] = dirty[n])
  BY <1>1, <1>2, <1>3
<1>9. Passes(p, x) /\ Names(p, x)
  BY <1>1, <1>5, <1>6 DEF Passes, Names, GuardFree, SharedFree, Guarding, Sharing
<1>10. Types'
  <2>1. act' \in [Procs -> Op]
    BY <1>6, <1>9, PassesIs
  <2>2. capture \in [0..d.gen -> [pay : Payload, by : Nodes]]
    <3>1. PICK k \in {shared.doc.gen, shared.doc.gen + 1} : capture \in [0..k -> [pay : Payload, by : Nodes]]
      BY DEF Types, TypeOK
    <3>2. k = d.gen
      BY <1>2, <1>3, <3>1
    <3> QED BY <3>1, <3>2
  <2> QED BY <1>1, <1>7, <1>8, <2>1, <2>2 DEF Types, TypeOK
<1>11. Locked'
  BY <1>6, <1>9, PassesLocked
<1>12. \A e \in Doc : Older(e) => e.gen <= d.gen /\ e.gen # d.gen
  <2>1. \A e \in Doc : e.gen \in Nat
    BY DEF Doc
  <2> QED BY <1>2, <1>3, <2>1 DEF Older
<1>13. ~Torn'
  BY <1>3, <1>7 DEF Torn
<1>14. Lineage'
  <2>1. \A n \in Nodes : from'[n].gen <= d.gen /\ (from'[n].gen = d.gen => from'[n] = d)
    <3>1. d.gen <= d.gen
      BY <1>2, <1>3
    <3>2. \A n \in Nodes : from[n].gen <= d.gen /\ from[n].gen # d.gen
      BY <1>12, Fields DEF Lineage
    <3> QED BY <1>8, <3>1, <3>2
  <2>2. \A n \in Nodes : local[n] # None => local[n].doc.gen <= d.gen /\ local[n].doc.gen # d.gen
    BY <1>12, Fields DEF Lineage
  <2>3. \A n \in Nodes : local[n] # None /\ local[n].restore = None => local[n].doc.gen <= from'[n].gen
    BY <1>2, <1>3, <1>8, <2>2 DEF Lineage
  <2> QED BY <1>1, <1>7, <2>1, <2>2, <2>3 DEF Lineage, Older
<1>15. Disowns
  BY <1>6, <1>9, NamesDisown
<1>16. Identity'
  <2>1. d.commit \in Nat /\ d.commit <= ops
    <3>1. Torn
      BY <1>2, <1>3, Parameters DEF Torn
    <3> QED BY <1>3, <3>1 DEF Tearing, Doc
  <2>2. \A n \in Nodes : Owns(n, d.commit)' => n = p[1]
    <3>1. a.id # 0 => Owns(p[1], a.id)
      BY <1>2 DEF Owns
    <3>2. \A n \in Nodes, y \in Nat : y = a.id => (Owns(n, y)' => Owns(n, y) /\ a.id # 0)
      BY <1>15 DEF Disowns, Owns
    <3>3. \A n \in Nodes, y \in Nat : y = a.id => (Owns(n, y)' => n = p[1])
      BY <1>2, <3>1, <3>2 DEF Identity
    <3>4. \A n \in Nodes : Owns(n, d.commit)' => \E y \in Nat : y = a.id /\ Owns(n, y)'
      BY <1>3, <1>6, <2>1, <1>5, <1>2 DEF Owns
    <3> QED BY <3>3, <3>4
  <2>3. \A n \in Nodes, y \in Nat : Owns(n, y)' => y <= ops'
    BY <1>1, <1>15 DEF Identity, Disowns
  <2>4. \A m, n \in Nodes, y \in Nat : Owns(m, y)' /\ Owns(n, y)' => m = n
    BY <1>15 DEF Identity, Disowns
  <2> QED BY <1>1, <1>7, <1>8, <2>1, <2>2, <2>3, <2>4 DEF Identity, Owns
<1>17. Tearing'
  BY <1>13 DEF Tearing
<1>18. Whole'
  BY <1>1, <1>3, <1>4, <1>7 DEF Whole
<1>19. Rooted'
  BY <1>1, <1>2, <1>4, <1>7 DEF Rooted
<1>20. LocalIsWhole'
  BY <1>1, <1>3, <1>8 DEF LocalIsWhole
<1>21. \A q \in Procs : Stage(q)'
  <2>1. Respects(p)
    <3>1. GuardFree(p) /\ SharedFree(p)
      BY <1>1 DEF GuardFree, SharedFree, Guarding, Sharing
    <3> QED BY <1>1, <1>2, <1>3, <1>8, <3>1 DEF Respects
  <2>2. act'[p] = x
    BY <1>6, <1>9, PassesIs
  <2>3. x.base # None => x.base.gen <= d.gen /\ x.base.gen # d.gen
    <3>1. a.base \in Doc \cup {None}
      BY <1>2 DEF Op
    <3> QED BY <1>6, <1>12, <3>1 DEF Stage
  <2>4. Stage(p)'
    BY <1>1, <1>2, <1>6, <1>7, <1>8, <1>13, <2>2, <2>3 DEF Stage, Older
  <2>5. Grows
    BY <1>7, <1>12 DEF Grows, Older
  <2> QED BY <1>6, <1>9, <1>10, <2>1, <2>4, <2>5, OthersKept
<1> QED BY <1>10, <1>11, <1>14, <1>16, <1>17, <1>18, <1>19, <1>20, <1>21

LEMMA CompleteKeeps ==
  ASSUME IInv, NEW p \in Procs, CompletePublication(p)
  PROVE  IInv'
<1> USE DEF IInv
<1> DEFINE a == act[p]
           x == [a EXCEPT !.pc = "local", !.mirrored = TRUE]
<1>1. /\ a.pc = "unmark" /\ shared' = [shared EXCEPT !.marker = None]
      /\ act' = [act EXCEPT ![p].pc = "local", ![p].mirrored = TRUE]
      /\ UNCHANGED <<setting, local, ops, writes, capture, from, dirty>>
  BY DEF CompletePublication, counts, history
<1>2. /\ a \in Op /\ local[p[1]] # None /\ p[1] \in Nodes /\ act \in [Procs -> Op] /\ local \in [Nodes -> Copy \cup {None}]
      /\ shared.doc \in Doc /\ shared.doc.gen \in Nat /\ a.tgt = shared.doc /\ from[p[1]] = shared.doc /\ ~Torn
      /\ shared \in [doc : Doc, pay : Payload, marker : Doc \cup {None}]
  BY <1>1, Fields DEF Stage, Types, TypeOK
<1>3. act' = [act EXCEPT ![p] = x]
  BY <1>1, <1>2
<1>4. x \in Op /\ x.pc = "local" /\ x.tgt = a.tgt /\ x.id = a.id /\ x.kind = a.kind /\ x.base = a.base
  BY <1>2 DEF Op
<1> HIDE DEF x
<1>5. Passes(p, x) /\ Names(p, x)
  BY <1>1, <1>3, <1>4 DEF Passes, Names, GuardFree, Guarding
<1>6. Quiet(p)
  BY <1>1, <1>2 DEF Quiet, SharedFree, Sharing, Lineage
<1>7. act'[p] = x /\ shared'.doc = shared.doc
  BY <1>1, <1>2, <1>4, <1>5, PassesIs
<1>8. Stage(p)'
  BY <1>1, <1>2, <1>4, <1>7 DEF Stage, Older
<1> QED BY <1>4, <1>5, <1>6, <1>8, QuietKeeps

LEMMA WriteLocalKeeps ==
  ASSUME IInv, NEW p \in Procs, WriteLocal(p)
  PROVE  IInv'
<1> USE DEF IInv
<1> DEFINE a == act[p]
           y == [local[p[1]] EXCEPT !.doc = a.tgt, !.att = 0]
<1>1. /\ a.pc = "local" /\ local' = [local EXCEPT ![p[1]].doc = act[p].tgt, ![p[1]].att = 0]
      /\ act' = [act EXCEPT ![p] = Idle] /\ UNCHANGED <<setting, shared, ops, writes, capture, from, dirty>>
  BY DEF WriteLocal, counts, history
<1>2. /\ a \in Op /\ local[p[1]] # None /\ p[1] \in Nodes /\ local \in [Nodes -> Copy \cup {None}] /\ local[p[1]] \in Copy
      /\ a.tgt \in Doc /\ Older(a.tgt) /\ a.tgt.gen <= from[p[1]].gen
  BY <1>1, Fields DEF Stage, Types, TypeOK
<1>3. y \in Copy /\ y # None /\ y.doc = a.tgt /\ y.att = 0 /\ y.pay = local[p[1]].pay /\ y.restore = local[p[1]].restore
  <2>1. y \in Copy /\ y.doc = a.tgt /\ y.att = 0 /\ y.pay = local[p[1]].pay /\ y.restore = local[p[1]].restore
    BY <1>2 DEF Copy
  <2> QED BY <2>1, Parameters
<1>4. local' = [local EXCEPT ![p[1]] = y]
  BY <1>1, <1>2
<1> HIDE DEF y
<1>5. local'[p[1]] = y /\ (\A n \in Nodes : n # p[1] => local'[n] = local[n]) /\ local' \in [Nodes -> Copy \cup {None}]
  BY <1>2, <1>3, <1>4
<1>6. Retreats(p, Idle)
  BY <1>1, <1>2, <1>3, <1>5, IdleIs DEF Retreats, Passes, Names
<1> QED BY <1>1, <1>6, RetreatKeeps, IdleIs DEF Base

----------------------------------------------------------------------------
(* Restores                                                                *)

LEMMA RestoreStateKeeps ==
  ASSUME IInv, NEW p \in Procs, RestoreState(p)
  PROVE  IInv'
<1> USE DEF IInv
<1> DEFINE a == act[p]
           x == [a EXCEPT !.pc = "runlink"]
           y == [local[p[1]] EXCEPT !.doc = a.tgt, !.att = 0]
<1>1. /\ a.pc = "rstate" /\ local' = [local EXCEPT ![p[1]].doc = act[p].tgt, ![p[1]].att = 0]
      /\ act' = [act EXCEPT ![p].pc = "runlink"] /\ UNCHANGED <<setting, shared, ops, writes, capture, from, dirty>>
  BY DEF RestoreState, counts, history
<1>2. /\ a \in Op /\ local[p[1]] # None /\ p[1] \in Nodes /\ local \in [Nodes -> Copy \cup {None}] /\ local[p[1]] \in Copy
      /\ act \in [Procs -> Op] /\ shared.doc \in Doc /\ shared.doc.gen \in Nat /\ Recovers(p)
  BY <1>1, Fields DEF Stage, Types, TypeOK
<1>3. a.tgt = shared.doc /\ local[p[1]].restore = shared.doc /\ shared.doc # None
  BY <1>2, Parameters DEF Recovers
<1>4. y \in Copy /\ y # None /\ y.doc = shared.doc /\ y.att = 0 /\ y.pay = local[p[1]].pay /\ y.restore = local[p[1]].restore
  <2>1. y \in Copy /\ y.doc = a.tgt /\ y.att = 0 /\ y.pay = local[p[1]].pay /\ y.restore = local[p[1]].restore
    BY <1>2, <1>3 DEF Copy
  <2> QED BY <1>3, <2>1, Parameters
<1>5. local' = [local EXCEPT ![p[1]] = y] /\ act' = [act EXCEPT ![p] = x]
  BY <1>1, <1>2
<1>6. x \in Op /\ x.pc = "runlink" /\ x.tgt = a.tgt /\ x.id = a.id /\ x.kind = a.kind /\ x.base = a.base /\ x.todo = a.todo
  BY SMTT(60), <1>2 DEF Op
<1> HIDE DEF x, y
<1>7. local'[p[1]] = y /\ (\A n \in Nodes : n # p[1] => local'[n] = local[n]) /\ local' \in [Nodes -> Copy \cup {None}]
  BY <1>2, <1>4, <1>5
<1>8. Passes(p, x) /\ Names(p, x)
  BY <1>1, <1>4, <1>5, <1>6, <1>7 DEF Passes, Names, GuardFree, Guarding, SharedFree, Sharing
<1>9. Quiet(p)
  BY <1>1, <1>2, <1>3, <1>4, <1>7 DEF Quiet, Older
<1>10. act'[p] = x
  BY <1>6, <1>8, PassesIs
<1>11. Recovers(p)'
  <2>1. ~Torn'
    BY SMTT(60), <1>1, <1>2 DEF Recovers, Torn
  <2> QED BY <1>1, <1>2, <1>4, <1>6, <1>7, <1>10, <2>1 DEF Recovers
<1>12. Stage(p)'
  BY ZenonT(60), <1>1, <1>4, <1>6, <1>7, <1>10, <1>11 DEF Stage, Older
<1> QED BY <1>6, <1>8, <1>9, <1>12, QuietKeeps

\* A step that changes one copy while its capture is whole, and nothing shared.
Restoring(p) ==
  /\ ~Torn /\ GuardFree(p) /\ SharedFree(p)
  /\ UNCHANGED <<shared, ops, writes, capture>>
  /\ local' \in [Nodes -> Copy \cup {None}] /\ local'[p[1]] # None
  /\ \A n \in Nodes : n # p[1] => local'[n] = local[n] /\ from'[n] = from[n] /\ dirty'[n] = dirty[n]
  /\ from' \in [Nodes -> Doc] /\ (from'[p[1]] = from[p[1]] \/ from'[p[1]] = shared.doc)
  /\ dirty' \in [Nodes -> SUBSET Files]
  /\ Older(local'[p[1]].doc) /\ (local'[p[1]].restore = None => local'[p[1]].doc.gen <= from'[p[1]].gen)
  /\ local'[p[1]].pay[Meta] # 0
  /\ local'[p[1]].restore = None =>
       \A f \in Files \ dirty'[p[1]] : local'[p[1]].pay[f] = capture[from'[p[1]].gen].pay[f]

LEMMA RestoringKeeps ==
  ASSUME IInv, NEW p \in Procs, NEW x \in Op, Passes(p, x), Names(p, x), Restoring(p), Stage(p)'
  PROVE  IInv'
<1> USE DEF IInv
<1>1. p[1] \in Nodes /\ UNCHANGED <<shared, ops, writes, capture>> /\ ~Torn
  BY Fields DEF Restoring
<1>2. Types'
  <2>1. act' \in [Procs -> Op]
    BY PassesIs
  <2> QED BY <1>1, <2>1 DEF Types, TypeOK, Restoring
<1>3. Locked'
  BY PassesLocked
<1>4. shared.doc.gen \in Nat /\ (\A n \in Nodes : from[n].gen <= from'[n].gen) /\ Older(shared.doc)
  <2>1. shared.doc.gen \in Nat /\ \A n \in Nodes : from[n].gen \in Nat
    BY Fields
  <2> QED BY <2>1 DEF Restoring, Lineage, Older
<1>5. Lineage'
  BY <1>1, <1>4 DEF Restoring, Lineage, Older
<1>6. Disowns
  BY NamesDisown
<1>7. Identity'
  <2>1. \A n \in Nodes : from[n] = shared.doc => from'[n] = shared.doc
    BY DEF Restoring
  <2> QED BY <1>1, <1>6, <2>1, IdentityKept
<1>8. Tearing' /\ Whole'
  BY <1>1 DEF Tearing, Torn, Whole
<1>9. Rooted'
  BY <1>1 DEF Rooted, Restoring
<1>10. LocalIsWhole'
  BY <1>1 DEF LocalIsWhole, Restoring
<1>11. \A q \in Procs : Stage(q)'
  <2>1. Respects(p) /\ Grows
    BY <1>1, <1>4 DEF Respects, Restoring, Grows, Older
  <2> QED BY <1>2, <2>1, OthersKept
<1> QED BY <1>2, <1>3, <1>5, <1>7, <1>8, <1>9, <1>10, <1>11

LEMMA RestoreNewKeeps ==
  ASSUME IInv, NEW p \in Procs, RestoreNew(p)
  PROVE  IInv'
<1> USE DEF IInv
<1> DEFINE y == [doc |-> shared.doc, att |-> 0, pay |-> shared.pay, restore |-> None]
<1>1. /\ act[p].pc = "idle" /\ CanEnter(p) /\ local[p[1]] = None /\ shared.marker = None /\ shared.doc.gen > 0
      /\ local' = [local EXCEPT ![p[1]] = y] /\ from' = [from EXCEPT ![p[1]] = shared.doc]
      /\ UNCHANGED <<shared, act, ops, writes, capture, dirty>>
  BY DEF RestoreNew, counts
<1>2. /\ act[p] \in Op /\ p[1] \in Nodes /\ shared.doc \in Doc /\ shared.doc.gen \in Nat /\ shared.pay \in Payload
      /\ act \in [Procs -> Op] /\ local \in [Nodes -> Copy \cup {None}]
      /\ from \in [Nodes -> Doc] /\ dirty \in [Nodes -> SUBSET Files]
  BY Fields DEF Types, TypeOK
<1>3. y \in Copy /\ y # None /\ y.doc = shared.doc /\ y.att = 0 /\ y.pay = shared.pay /\ y.restore = None
  BY <1>2, Parameters DEF Copy
<1> HIDE DEF y
<1>4. local'[p[1]] = y /\ (\A n \in Nodes : n # p[1] => local'[n] = local[n]) /\ local' \in [Nodes -> Copy \cup {None}]
  BY <1>1, <1>2, <1>3
<1>5. from'[p[1]] = shared.doc /\ (\A n \in Nodes : n # p[1] => from'[n] = from[n]) /\ from' \in [Nodes -> Doc]
  BY <1>1, <1>2
<1>6. Passes(p, act[p]) /\ Names(p, act[p])
  BY <1>1, <1>2, <1>3, <1>4 DEF Passes, Names
<1>7. Restoring(p)
  <2>1. ~Torn /\ GuardFree(p) /\ SharedFree(p)
    BY <1>1 DEF Torn, CanEnter, GuardFree, SharedFree
  <2>2. Older(shared.doc) /\ shared.doc.gen <= shared.doc.gen
    BY <1>2 DEF Older
  <2>3. shared.pay[Meta] # 0 /\ shared.pay = capture[shared.doc.gen].pay
    BY <1>1, <2>1 DEF Rooted, Whole
  <2> QED BY <1>1, <1>2, <1>3, <1>4, <1>5, <2>1, <2>2, <2>3 DEF Restoring
<1>8. Stage(p)'
  <2>1. act[p].base # None => Older(act[p].base) /\ act[p].base.gen <= shared.doc.gen
    BY DEF Stage, Older
  <2> QED BY <1>1, <1>3, <1>4, <1>5, <2>1 DEF Stage, Older
<1> QED BY <1>2, <1>6, <1>7, <1>8, RestoringKeeps

LEMMA RestoreExistingKeeps ==
  ASSUME IInv, NEW p \in Procs, RestoreExisting(p)
  PROVE  IInv'
<1> USE DEF IInv
<1> DEFINE l == local[p[1]]
           x == [Idle EXCEPT !.pc = "rcopy", !.kind = "restore", !.tgt = shared.doc, !.todo = Files]
           y == [l EXCEPT !.restore = shared.doc]
<1>1. /\ CanEnter(p) /\ l # None /\ shared.doc.gen > 0 /\ Sees(l) /\ Restores(l)
      /\ local' = [local EXCEPT ![p[1]].restore = shared.doc] /\ act' = [act EXCEPT ![p] = x]
      /\ UNCHANGED <<shared, ops, writes, capture, from, dirty>>
  BY DEF RestoreExisting, counts, history
<1>2. /\ p[1] \in Nodes /\ shared.doc \in Doc /\ shared.doc.gen \in Nat /\ l \in Copy /\ l.doc \in Doc /\ l.doc.gen \in Nat
      /\ l.att \in Nat /\ local \in [Nodes -> Copy \cup {None}] /\ from \in [Nodes -> Doc] /\ dirty \in [Nodes -> SUBSET Files]
  BY <1>1, Fields DEF Types, TypeOK
<1>3. y \in Copy /\ y # None /\ y.doc = l.doc /\ y.att = l.att /\ y.pay = l.pay /\ y.restore = shared.doc
  <2>1. y \in Copy /\ y.doc = l.doc /\ y.att = l.att /\ y.pay = l.pay /\ y.restore = shared.doc
    BY <1>2 DEF Copy
  <2> QED BY <2>1, Parameters
<1>4. local' = [local EXCEPT ![p[1]] = y]
  BY <1>1, <1>2
<1>5. /\ x \in Op /\ x.pc = "rcopy" /\ x.kind = "restore" /\ x.id = 0 /\ x.base = None /\ x.tgt = shared.doc
      /\ x.todo = Files
  BY <1>2, IdleIs DEF Op
<1> HIDE DEF x, y
<1>6. local'[p[1]] = y /\ (\A n \in Nodes : n # p[1] => local'[n] = local[n]) /\ local' \in [Nodes -> Copy \cup {None}]
  BY <1>2, <1>3, <1>4
<1>7. ~Torn
  <2>1. SUFFICES ASSUME Torn PROVE FALSE
    OBVIOUS
  <2>2. Failed(l) /\ shared.marker = CommittedNext(l.doc, l.att)
    BY <2>1, <1>1 DEF Sees, Torn, MarkerAllows
  <2>3. shared.marker.gen = l.doc.gen + 1 /\ shared.marker.commit = l.att
    BY <2>2 DEF CommittedNext
  <2>4. l.doc = shared.doc
    <3>1. l.doc.gen = shared.doc.gen
      BY <1>2, <2>1, <2>3 DEF Tearing
    <3>2. Older(l.doc)
      BY <1>1, <1>2 DEF Lineage
    <3> QED BY <3>1, <3>2 DEF Older
  <2>5. Owns(p[1], shared.marker.commit)
    BY <1>1, <2>2, <2>3 DEF Owns, Failed
  <2>6. l.restore = None
    BY <1>1, <1>2, <2>1, <2>5 DEF Tearing
  <2> QED BY <1>1, <1>2, <2>4, <2>6 DEF Restores
<1>8. Passes(p, x) /\ Names(p, x)
  BY <1>1, <1>3, <1>5, <1>6 DEF Passes, Names, CanEnter, GuardFree, SharedFree
<1>9. Restoring(p)
  <2>1. GuardFree(p) /\ SharedFree(p)
    BY <1>1 DEF CanEnter, GuardFree, SharedFree
  <2>2. Older(l.doc) /\ l.pay[Meta] # 0 /\ shared.doc # None
    BY <1>1, <1>2, Parameters DEF Lineage, Rooted
  <2> QED BY <1>1, <1>2, <1>3, <1>6, <1>7, <2>1, <2>2 DEF Restoring
<1>10. Stage(p)'
  <2>1. act'[p] = x
    BY <1>5, <1>8, PassesIs
  <2>2. Recovers(p)'
    BY <1>1, <1>3, <1>5, <1>6, <1>7, <2>1 DEF Recovers, Torn
  <2> QED BY <1>3, <1>5, <1>6, <2>1, <2>2 DEF Stage, Older
<1> QED BY <1>5, <1>8, <1>9, <1>10, RestoringKeeps

LEMMA RestoreFileKeeps ==
  ASSUME IInv, NEW p \in Procs, NEW f \in Files, RestoreFile(p, f)
  PROVE  IInv'
<1> USE DEF IInv
<1> DEFINE l == local[p[1]]
           a == act[p]
           x == [a EXCEPT !.todo = @ \ {f}, !.pc = IF a.todo = {f} THEN "rstate" ELSE @]
           y == [l EXCEPT !.pay[f] = shared.pay[f]]
<1>1. /\ a.pc = "rcopy" /\ f \in a.todo
      /\ local' = [local EXCEPT ![p[1]].pay[f] = shared.pay[f]]
      /\ act' = [act EXCEPT ![p].todo = @ \ {f}, ![p].pc = IF act[p].todo = {f} THEN "rstate" ELSE @]
      /\ UNCHANGED <<shared, ops, writes, capture, from, dirty>>
  BY DEF RestoreFile, counts, history
<1>2. /\ a \in Op /\ l # None /\ p[1] \in Nodes /\ Recovers(p) /\ a.todo \subseteq Files /\ act \in [Procs -> Op]
      /\ shared.doc \in Doc /\ shared.doc.gen \in Nat /\ shared.pay \in Payload
      /\ l \in Copy /\ l.pay \in Payload /\ local \in [Nodes -> Copy \cup {None}]
      /\ from \in [Nodes -> Doc] /\ dirty \in [Nodes -> SUBSET Files]
  BY <1>1, Fields DEF Stage, Types, TypeOK
<1>3. /\ y \in Copy /\ y # None /\ y.doc = l.doc /\ y.att = l.att /\ y.pay = [l.pay EXCEPT ![f] = shared.pay[f]]
      /\ y.restore = l.restore
  <2>1. [l.pay EXCEPT ![f] = shared.pay[f]] \in Payload
    BY <1>2 DEF Payload
  <2>2. /\ y \in Copy /\ y.doc = l.doc /\ y.att = l.att /\ y.pay = [l.pay EXCEPT ![f] = shared.pay[f]]
        /\ y.restore = l.restore
    BY <1>2, <2>1 DEF Copy
  <2> QED BY <2>2, Parameters
<1>4. local' = [local EXCEPT ![p[1]] = y] /\ act' = [act EXCEPT ![p] = x]
  BY <1>1, <1>2
<1>5. /\ x \in Op /\ x.todo = a.todo \ {f} /\ x.pc \in {"rcopy", "rstate"} /\ (x.pc = "rstate" => a.todo = {f})
      /\ x.tgt = a.tgt /\ x.id = a.id /\ x.kind = a.kind /\ x.base = a.base
  BY <1>1, <1>2 DEF Op
<1> HIDE DEF x, y
<1>6. local'[p[1]] = y /\ (\A n \in Nodes : n # p[1] => local'[n] = local[n]) /\ local' \in [Nodes -> Copy \cup {None}]
  BY <1>2, <1>3, <1>4
<1>7. /\ a.tgt = shared.doc /\ shared.doc.gen > 0 /\ ~Torn /\ l.restore = shared.doc /\ shared.doc # None
      /\ \A g \in Files \ a.todo : l.pay[g] = shared.pay[g]
  BY <1>2, Parameters DEF Recovers
<1>8. Passes(p, x) /\ Names(p, x)
  <2>1. Passes(p, x)
    BY <1>1, <1>4, <1>5 DEF Passes, GuardFree, SharedFree, Guarding, Sharing
  <2>2. Names(p, x)
    BY <1>2, <1>3, <1>5, <1>6 DEF Names
  <2> QED BY <2>1, <2>2
<1>9. Restoring(p)
  <2>1. GuardFree(p) /\ SharedFree(p)
    BY <1>1 DEF GuardFree, SharedFree, Guarding, Sharing
  <2>2. Older(l.doc)
    BY <1>2 DEF Lineage
  <2>3. y.pay[Meta] # 0
    BY SMTT(60), <1>2, <1>3, <1>7, Parameters DEF Rooted, Payload
  <2> QED BY <1>1, <1>2, <1>3, <1>6, <1>7, <2>1, <2>2, <2>3 DEF Restoring
<1>10. Stage(p)'
  <2>1. act'[p] = x
    BY <1>5, <1>8, PassesIs
  <2>2. \A g \in Files \ x.todo : y.pay[g] = shared.pay[g]
    BY <1>2, <1>3, <1>5, <1>7 DEF Payload
  <2>3. x.pc # "rcopy" => x.todo = {}
    BY <1>5
  <2>4. shared' = shared /\ ~Torn' /\ from' = from
    BY <1>1, <1>7 DEF Torn
  <2>5. Recovers(p)'
    BY ZenonT(60), <1>3, <1>5, <1>6, <1>7, <2>1, <2>2, <2>3, <2>4 DEF Recovers
  <2> QED BY <1>1, <1>3, <1>5, <1>6, <2>1, <2>4, <2>5 DEF Stage, Older
<1> QED BY <1>5, <1>8, <1>9, <1>10, RestoringKeeps

LEMMA RestoreDoneKeeps ==
  ASSUME IInv, NEW p \in Procs, RestoreDone(p)
  PROVE  IInv'
<1> USE DEF IInv
<1> DEFINE l == local[p[1]]
           y == [l EXCEPT !.restore = None]
<1>1. /\ act[p].pc = "runlink" /\ local' = [local EXCEPT ![p[1]].restore = None] /\ act' = [act EXCEPT ![p] = Idle]
      /\ from' = [from EXCEPT ![p[1]] = act[p].tgt] /\ dirty' = [dirty EXCEPT ![p[1]] = {}]
      /\ UNCHANGED <<shared, ops, writes, capture>>
  BY DEF RestoreDone, counts
<1>2. /\ l # None /\ p[1] \in Nodes /\ Recovers(p)
      /\ shared.doc \in Doc /\ shared.doc.gen \in Nat /\ shared.pay \in Payload
      /\ l \in Copy /\ l.pay \in Payload /\ local \in [Nodes -> Copy \cup {None}]
      /\ from \in [Nodes -> Doc] /\ dirty \in [Nodes -> SUBSET Files]
  BY <1>1, Fields DEF Stage, Types, TypeOK
<1>3. act[p].tgt = shared.doc /\ shared.doc.gen > 0 /\ ~Torn /\ \A g \in Files : l.pay[g] = shared.pay[g]
  BY <1>1, <1>2 DEF Recovers
<1>4. y \in Copy /\ y # None /\ y.doc = l.doc /\ y.att = l.att /\ y.pay = l.pay /\ y.restore = None
  <2>1. y \in Copy /\ y.doc = l.doc /\ y.att = l.att /\ y.pay = l.pay /\ y.restore = None
    BY <1>2 DEF Copy
  <2> QED BY <2>1, Parameters
<1>5. local' = [local EXCEPT ![p[1]] = y]
  BY <1>1, <1>2
<1> HIDE DEF y
<1>6. local'[p[1]] = y /\ (\A n \in Nodes : n # p[1] => local'[n] = local[n]) /\ local' \in [Nodes -> Copy \cup {None}]
  BY <1>2, <1>4, <1>5
<1>7. /\ from'[p[1]] = shared.doc /\ (\A n \in Nodes : n # p[1] => from'[n] = from[n]) /\ from' \in [Nodes -> Doc]
      /\ (\A n \in Nodes : n # p[1] => dirty'[n] = dirty[n]) /\ dirty' \in [Nodes -> SUBSET Files]
  BY <1>1, <1>2, <1>3
<1>8. Passes(p, Idle) /\ Names(p, Idle)
  <2>1. Passes(p, Idle)
    BY <1>1, IdleIs DEF Passes
  <2>2. Names(p, Idle)
    BY SMTT(60), <1>2, <1>4, <1>6, IdleIs DEF Names
  <2> QED BY <2>1, <2>2
<1>9. Restoring(p)
  <2>1. GuardFree(p) /\ SharedFree(p)
    BY <1>1 DEF GuardFree, SharedFree, Guarding, Sharing
  <2>2. Older(l.doc) /\ l.doc.gen <= shared.doc.gen
    BY <1>2 DEF Lineage, Older
  <2>3. l.pay[Meta] # 0 /\ shared.pay = capture[shared.doc.gen].pay
    BY <1>2, <1>3 DEF Rooted, Whole
  <2> QED BY <1>1, <1>2, <1>3, <1>4, <1>6, <1>7, <2>1, <2>2, <2>3 DEF Restoring
<1>10. Stage(p)'
  <2>1. act'[p] = Idle
    BY <1>8, IdleIs, PassesIs
  <2> QED BY <2>1, IdleIs DEF Stage
<1> QED BY <1>8, <1>9, <1>10, IdleIs, RestoringKeeps

----------------------------------------------------------------------------
(* Under the discipline: what a failed operation leaves behind             *)

\* Only processes in use are inside an operation, and what failed or died is bounded.
Bounded ==
  /\ setting \in Setting
  /\ \A p \in Procs : act[p].pc # "idle" => Active(p)
  /\ lost \in Nat /\ lost <= setting.lost /\ kills \in Nat /\ kills <= setting.kills

\* The copy remembers a failed attempt so that the same capture can be tried again.
Remembers(l, d) == l # None /\ l.restore = None /\ Failed(l) /\ CommittedNext(l.doc, l.att) = d

\* A process in the middle of a publication, or of a restore.
Underway(p) == act[p].pc \in {"copy", "state", "unmark", "local"}
Restored(p) == act[p].pc \in {"rcopy", "rstate", "runlink"}

\* What the copy has on record of the operation on it.
Recorded(p) ==
  /\ act[p].pc # "idle" /\ act[p].kind = "backup" => local[p[1]].att \in {0, act[p].id}
  /\ act[p].pc = "try" /\ act[p].base # None =>
       act[p].base = local[p[1]].doc /\ local[p[1]].att = act[p].id /\ local[p[1]].restore = None
  /\ Underway(p) =>
       /\ local[p[1]].restore = None /\ CommittedNext(local[p[1]].doc, act[p].id) = act[p].tgt /\ act[p].id # 0
       /\ IF act[p].kind = "backup" THEN act[p].base = local[p[1]].doc ELSE local[p[1]].att = act[p].id
  /\ act[p].pc = "runlink" => local[p[1]].doc = act[p].tgt
  /\ Restored(p) => shared.marker = None

\* Someone can take up what was interrupted.
Claims(n) == Remembers(local[n], shared.marker) /\ \A p \in Procs : p[1] = n => act[p].pc # "local"
Claimed == shared.marker # None /\ ~SharedHeld => \E n \in Nodes : Claims(n)

\* The node whose capture is the last one knows it, or will.
Knows(n) ==
  \/ local[n].doc = shared.doc
  \/ Remembers(local[n], shared.doc)
  \/ \E p \in Procs : p[1] = n /\ act[p].pc \in {"unmark", "local"} /\ act[p].tgt = shared.doc
Known == \A n \in Nodes : local[n] # None /\ local[n].restore = None /\ capture[shared.doc.gen].by = n => Knows(n)

DInv == IInv /\ Bounded /\ (Disciplined => Claimed /\ Known /\ \A p \in Procs : Recorded(p))

----------------------------------------------------------------------------
(* The same steps under the discipline                                     *)

LEMMA Solo ==
  ASSUME Bounded, Disciplined, NEW p \in Procs, NEW q \in Procs, p # q, p[1] = q[1], Active(p)
  PROVE  act[q].pc = "idle"
<1>1. p = <<p[1], p[2]>> /\ q = <<q[1], q[2]>> /\ p[2] \in Nat /\ q[2] \in Nat /\ 1 <= p[2] /\ 1 <= q[2]
  BY BackupAssumption DEF Procs
<1>2. p[2] = 1
  BY <1>1 DEF Active, Disciplined
<1>3. act[q].pc # "idle" => q[2] = 1
  BY <1>1 DEF Bounded, Active, Disciplined
<1> QED BY <1>1, <1>2, <1>3

\* A step of process p.
Acts(p) ==
  /\ Active(p)
  /\ \A q \in Procs : q # p => act'[q] = act[q]
  /\ \A n \in Nodes : n # p[1] => local'[n] = local[n]
  /\ SharedFree(p) \/ shared' = shared

LEMMA OthersRecorded ==
  ASSUME DInv, Disciplined, NEW p \in Procs, Acts(p), NEW q \in Procs, q # p
  PROVE  Recorded(q)'
<1>1. act'[q] = act[q] /\ q[1] \in Nodes /\ Recorded(q)
  BY Fields DEF Acts, DInv, IInv
<1>2. CASE act[q].pc = "idle"
  BY <1>1, <1>2 DEF Recorded, Underway, Restored
<1>3. CASE act[q].pc # "idle"
  <2>1. local'[q[1]] = local[q[1]]
    BY <1>1, <1>3, Solo DEF Acts, DInv
  <2>2. Restored(q) => shared' = shared
    BY Alone DEF Acts, DInv, IInv, Restored, Sharing
  <2> QED BY <1>1, <2>1, <2>2 DEF Recorded, Underway, Restored
<1> QED BY <1>2, <1>3

\* Nobody at p's node is about to write a local state, unless it is p.
LEMMA ClaimKept ==
  ASSUME DInv, Disciplined, NEW p \in Procs, Acts(p), ~Sharing(p), shared'.marker = shared.marker,
         Claims(p[1]) => Claims(p[1])'
  PROVE  Claimed'
<1>1. SUFFICES ASSUME shared'.marker # None, ~SharedHeld' PROVE \E n \in Nodes : Claims(n)'
  BY DEF Claimed
<1>2. ~SharedHeld
  <2>1. \A q \in Procs : q # p => ~Sharing(q)
    BY <1>1 DEF Acts, SharedHeld, Sharing
  <2> QED BY <2>1 DEF SharedHeld, Sharing
<1>3. PICK n \in Nodes : Claims(n)
  BY <1>1, <1>2 DEF DInv, Claimed
<1>4. CASE n = p[1]
  BY <1>3, <1>4
<1>5. CASE n # p[1]
  BY <1>3, <1>5 DEF Acts, Claims, Remembers
<1> QED BY <1>4, <1>5

\* A step that leaves the last capture alone.
Steady(p) ==
  /\ shared'.doc = shared.doc /\ capture'[shared.doc.gen] = capture[shared.doc.gen]
  /\ local'[p[1]] # None /\ local'[p[1]].restore = None /\ capture[shared.doc.gen].by = p[1] => Knows(p[1])'

LEMMA KnownKept ==
  ASSUME DInv, Disciplined, NEW p \in Procs, Acts(p), Steady(p)
  PROVE  Known'
<1>1. ASSUME NEW n \in Nodes, local'[n] # None, local'[n].restore = None, capture'[shared'.doc.gen].by = n
      PROVE  Knows(n)'
  <2>1. capture[shared.doc.gen].by = n /\ shared'.doc = shared.doc
    BY <1>1 DEF Steady
  <2>2. CASE n = p[1]
    BY <1>1, <2>1, <2>2 DEF Steady
  <2>3. CASE n # p[1]
    <3>1. local'[n] = local[n] /\ Knows(n)
      BY <1>1, <2>1, <2>3 DEF Acts, DInv, Known
    <3>2. \A q \in Procs : q[1] = n => act'[q] = act[q]
      BY <2>3 DEF Acts
    <3> QED BY <2>1, <3>1, <3>2 DEF Knows
  <2> QED BY <2>2, <2>3
<1> QED BY <1>1 DEF Known

\* What the discipline promises of the next state.
Promised == Claimed' /\ Known' /\ \A q \in Procs : Recorded(q)'

\* A step of p that ends without the shared lock, and did not begin with it.
LEMMA UnlockedKeeps ==
  ASSUME DInv, Disciplined, NEW p \in Procs, Acts(p), Steady(p), Recorded(p)', ~Sharing(p), shared'.marker = shared.marker,
         Claims(p[1]) => Claims(p[1])'
  PROVE  Promised
BY ClaimKept, KnownKept, OthersRecorded DEF Promised

\* One that ends with the shared lock, or without a marker.
LEMMA LockedKeeps ==
  ASSUME DInv, Disciplined, NEW p \in Procs, Acts(p), Steady(p), Recorded(p)', Sharing(p)' \/ shared'.marker = None
  PROVE  Promised
<1>1. Claimed'
  BY DEF Claimed, SharedHeld, Sharing
<1> QED BY <1>1, KnownKept, OthersRecorded DEF Promised

\* One that leaves its interrupted publication to its copy.
LEMMA ClaimingKeeps ==
  ASSUME DInv, Disciplined, NEW p \in Procs, Acts(p), Steady(p), Recorded(p)', shared'.marker # None => Claims(p[1])'
  PROVE  Promised
<1>1. Claimed'
  BY Fields DEF Claimed, DInv, IInv
<1> QED BY <1>1, KnownKept, OthersRecorded DEF Promised

\* Where p is the last to act at its node, a claim of that node is a matter of its copy.
LEMMA ClaimOfNode ==
  ASSUME DInv, Disciplined, NEW p \in Procs, Acts(p), act'[p].pc # "local", Remembers(local'[p[1]], shared'.marker)
  PROVE  Claims(p[1])'
<1>1. \A q \in Procs : q # p /\ q[1] = p[1] => act'[q].pc = "idle"
  BY Solo DEF Acts, DInv
<1> QED BY <1>1 DEF Claims

LEMMA KnowsNode ==
  ASSUME DInv, Disciplined, NEW p \in Procs, Active(p), local[p[1]] # None, local[p[1]].restore = None,
         capture[shared.doc.gen].by = p[1]
  PROVE  \/ local[p[1]].doc = shared.doc
         \/ Remembers(local[p[1]], shared.doc)
         \/ act[p].pc \in {"unmark", "local"} /\ act[p].tgt = shared.doc
<1>1. Knows(p[1])
  BY Fields DEF DInv, Known, IInv
<1>2. \A q \in Procs : q # p /\ q[1] = p[1] => act[q].pc = "idle"
  BY Solo DEF DInv
<1> QED BY <1>1, <1>2 DEF Knows


\* The base of a failed attempt is the state on record.
Fits(p, b) ==
  /\ b \in Doc \cup {None} /\ (b # None => b = local[p[1]].doc /\ local[p[1]].restore = None)
  /\ Underway(p) => b = local[p[1]].doc

Raised(p, b) ==
  /\ local'[p[1]] # None /\ local'[p[1]].doc = local[p[1]].doc /\ local'[p[1]].restore = local[p[1]].restore
  /\ local'[p[1]].att \in {local[p[1]].att, act[p].id} /\ (b # None => local'[p[1]].att = act[p].id)
  /\ \A n \in Nodes : n # p[1] => local'[n] = local[n]
  /\ \A q \in Procs : q # p => act'[q] = act[q]
  /\ act'[p].pc \in {"idle", "try"}
  /\ act'[p].pc = "try" => act'[p].kind = "backup" /\ act'[p].id = act[p].id /\ act'[p].base = b

LEMMA RaiseIsRaised ==
  ASSUME DInv, Disciplined, NEW p \in Procs, act[p].pc # "idle", act[p].kind = "backup",
         NEW b, NEW m, Fits(p, b), Raise(p, b, m)
  PROVE  Raised(p, b)
<1> DEFINE l == local[p[1]]
           x == [act[p] EXCEPT !.pc = "try", !.try = @ + 1, !.base = b, !.tgt = None, !.todo = {}, !.mirrored = m]
<1>1. /\ p[1] \in Nodes /\ act \in [Procs -> Op] /\ act[p] \in Op /\ local \in [Nodes -> Copy \cup {None}] /\ l # None /\ l \in Copy
      /\ act[p].id \in Nat
  BY Fields DEF DInv, IInv, Stage, Types, TypeOK
<1>2. act' = [act EXCEPT ![p] = IF act[p].try < Attempts THEN x ELSE Idle]
  BY DEF Raise
<1>3. x.pc = "try" /\ x.kind = "backup" /\ x.id = act[p].id /\ x.base = b
  BY <1>1 DEF Op
<1> HIDE DEF x
<1>4. /\ act'[p].pc \in {"idle", "try"} /\ (\A q \in Procs : q # p => act'[q] = act[q])
      /\ act'[p].pc = "try" => act'[p].kind = "backup" /\ act'[p].id = act[p].id /\ act'[p].base = b
  BY <1>1, <1>2, <1>3, IdleIs
<1>5. CASE b = None
  <2>1. local' = local
    BY <1>5 DEF Raise, KnownBase
  <2> QED BY <1>1, <1>4, <1>5, <2>1 DEF Raised
<1>6. CASE b # None
  <2> DEFINE y == FailedState(l, b, act[p].id)
  <2>1. local' = [local EXCEPT ![p[1]] = y]
    <3>1. ~(lost < setting.lost)
      BY DEF DInv, Bounded, Disciplined
    <3> QED BY <1>6, <3>1 DEF Raise
  <2>2. b \in Doc /\ b = l.doc
    BY <1>6 DEF Fits
  <2>3. y \in Copy /\ y # None /\ y.doc = l.doc /\ y.att = act[p].id /\ y.restore = l.restore
    <3>1. y \in Copy /\ y.doc = l.doc /\ y.att = act[p].id /\ y.restore = l.restore
      BY <1>1, <2>2 DEF FailedState, Copy
    <3> QED BY <3>1, Parameters
  <2> HIDE DEF y
  <2>4. local'[p[1]] = y /\ \A n \in Nodes : n # p[1] => local'[n] = local[n]
    BY <1>1, <2>1
  <2> QED BY <1>4, <2>3, <2>4 DEF Raised
<1> QED BY <1>5, <1>6

LEMMA RaisedKeeps ==
  ASSUME DInv, Disciplined, NEW p \in Procs, Active(p), act[p].pc # "idle", act[p].kind = "backup",
         NEW b, Fits(p, b), Raised(p, b), shared'.doc = shared.doc, capture' = capture,
         shared' = shared \/ (Sharing(p) /\ shared'.marker = None)
  PROVE  Promised
<1> DEFINE l == local[p[1]]
           k == local'[p[1]]
<1>1. /\ p[1] \in Nodes /\ l # None /\ act[p].id # 0 /\ l.doc \in Doc /\ l.doc # None
      /\ l.att \in {0, act[p].id} /\ Recorded(p) /\ Stage(p)
  BY Fields, Parameters DEF DInv, IInv, Stage, Recorded
<1>2. /\ k # None /\ k.doc = l.doc /\ k.restore = l.restore /\ k.att \in {l.att, act[p].id} /\ (b # None => k.att = act[p].id)
      /\ act'[p].pc \in {"idle", "try"}
      /\ act'[p].pc = "try" => act'[p].kind = "backup" /\ act'[p].id = act[p].id /\ act'[p].base = b
  BY DEF Raised
<1>3. Acts(p)
  BY DEF Acts, Raised, SharedFree
<1>4. Recorded(p)'
  BY <1>1, <1>2 DEF Recorded, Underway, Restored, Fits
<1>5. ASSUME NEW d, Remembers(l, d) PROVE Remembers(k, d)
  BY <1>1, <1>2, <1>5 DEF Remembers, Failed
<1>6. Underway(p) => Remembers(k, act[p].tgt)
  <2>1. SUFFICES ASSUME Underway(p) PROVE Remembers(k, act[p].tgt)
    OBVIOUS
  <2>2. b = l.doc /\ k.att = act[p].id /\ l.restore = None /\ CommittedNext(l.doc, act[p].id) = act[p].tgt
    BY <1>1, <1>2, <2>1 DEF Fits, Recorded
  <2> QED BY <1>1, <1>2, <2>2 DEF Remembers, Failed
<1>7. Steady(p)
  <2>1. ASSUME l.restore = None, capture[shared.doc.gen].by = p[1] PROVE Knows(p[1])'
    <3>1. \/ l.doc = shared.doc \/ Remembers(l, shared.doc)
          \/ act[p].pc \in {"unmark", "local"} /\ act[p].tgt = shared.doc
      BY <1>1, <2>1, KnowsNode
    <3>2. k.doc = shared.doc \/ Remembers(k, shared.doc)
      BY <1>2, <1>5, <1>6, <3>1 DEF Underway
    <3> QED BY <3>2 DEF Knows
  <2> QED BY <1>2, <2>1 DEF Steady
<1>8. CASE ~Sharing(p)
  <2>1. shared' = shared
    BY <1>8
  <2>2. Claims(p[1]) => Claims(p[1])'
    <3>1. SUFFICES ASSUME Claims(p[1]) PROVE Claims(p[1])'
      OBVIOUS
    <3>2. Remembers(k, shared'.marker)
      BY <1>5, <2>1, <3>1 DEF Claims
    <3> QED BY <1>2, <1>3, <3>2, ClaimOfNode
  <2> QED BY <1>3, <1>4, <1>7, <1>8, <2>1, <2>2, UnlockedKeeps
<1>9. CASE Sharing(p)
  <2>1. CASE shared'.marker = None
    BY <1>3, <1>4, <1>7, <2>1, LockedKeeps
  <2>2. CASE shared'.marker # None
    <3>1. shared' = shared /\ shared.marker # None
      BY <2>2
    <3>2. Underway(p) /\ act[p].pc # "local"
      <4>1. act[p] \in Op
        BY Fields DEF DInv, IInv
      <4> QED BY <1>1, <1>9, <3>1, <4>1 DEF Recorded, Restored, Underway, Sharing, Op
    <3>3. shared.marker = act[p].tgt
      BY <1>1, <3>1, <3>2 DEF Underway, Stage, Publishes, Torn
    <3>4. Claims(p[1])'
      BY <1>2, <1>3, <1>6, <3>1, <3>2, <3>3, ClaimOfNode
    <3> QED BY <1>3, <1>4, <1>7, <3>4, ClaimingKeeps
  <2> QED BY <2>1, <2>2
<1> QED BY <1>8, <1>9


\* An operation that is no backup ends and leaves its copy alone.
LEMMA EndsKeeps ==
  ASSUME DInv, Disciplined, NEW p \in Procs, Active(p), act[p].kind # "backup", act' = [act EXCEPT ![p] = Idle],
         local' = local, shared'.doc = shared.doc, capture' = capture,
         shared' = shared \/ (Sharing(p) /\ shared'.marker = None)
  PROVE  Promised
<1> DEFINE l == local[p[1]]
<1>1. p[1] \in Nodes /\ act \in [Procs -> Op] /\ act[p] \in Op /\ Recorded(p) /\ Stage(p) /\ act[p].pc # "try"
  BY Fields DEF DInv, IInv, Stage, Types, TypeOK
<1>2. act'[p] = Idle /\ \A q \in Procs : q # p => act'[q] = act[q]
  BY <1>1
<1>3. Acts(p)
  BY <1>2 DEF Acts, SharedFree
<1>4. Recorded(p)'
  BY <1>2, IdleIs DEF Recorded, Underway, Restored
<1>5. Underway(p) => Remembers(l, act[p].tgt)
  BY <1>1 DEF Underway, Recorded, Remembers, Failed, Stage
<1>6. Steady(p)
  <2>1. ASSUME l # None, l.restore = None, capture[shared.doc.gen].by = p[1] PROVE Knows(p[1])'
    <3>1. \/ l.doc = shared.doc \/ Remembers(l, shared.doc)
          \/ act[p].pc \in {"unmark", "local"} /\ act[p].tgt = shared.doc
      BY <2>1, KnowsNode
    <3>2. l.doc = shared.doc \/ Remembers(l, shared.doc)
      BY <1>5, <3>1 DEF Underway
    <3> QED BY <3>2 DEF Knows
  <2> QED BY <2>1 DEF Steady
<1>7. CASE ~Sharing(p)
  <2>1. shared' = shared
    BY <1>7
  <2>2. Claims(p[1]) => Claims(p[1])'
    BY <1>2, <2>1, IdleIs DEF Claims
  <2> QED BY <1>3, <1>4, <1>6, <1>7, <2>1, <2>2, UnlockedKeeps
<1>8. CASE Sharing(p)
  <2>1. CASE shared'.marker = None
    BY <1>3, <1>4, <1>6, <2>1, LockedKeeps
  <2>2. CASE shared'.marker # None
    <3>1. shared' = shared /\ shared.marker # None
      BY <2>2
    <3>2. Underway(p) /\ act[p].pc # "local"
      BY <1>1, <1>8, <3>1 DEF Recorded, Restored, Underway, Sharing, Op
    <3>3. shared.marker = act[p].tgt
      BY <1>1, <3>1, <3>2 DEF Underway, Stage, Publishes, Torn
    <3>4. Remembers(local'[p[1]], shared'.marker)
      BY <1>5, <3>1, <3>2, <3>3
    <3>5. Claims(p[1])'
      BY <1>2, <1>3, <3>4, ClaimOfNode, IdleIs
    <3> QED BY <1>3, <1>4, <1>6, <3>5, ClaimingKeeps
  <2> QED BY <2>1, <2>2
<1> QED BY <1>7, <1>8

LEMMA FailureKeeps ==
  ASSUME DInv, Disciplined, NEW p \in Procs, Active(p), LockFault(p) \/ Fault(p) \/ RestoreFault(p)
  PROVE  Promised
<1>1. /\ p[1] \in Nodes /\ shared \in [doc : Doc, pay : Payload, marker : Doc \cup {None}] /\ Recorded(p) /\ Stage(p)
      /\ act[p].base \in Doc \cup {None} /\ local \in [Nodes -> Copy \cup {None}]
  BY Fields DEF DInv, IInv, Types, TypeOK, Op
<1>2. CASE LockFault(p)
  <2> DEFINE b == IF act[p].base # None THEN act[p].base ELSE BaseOf(p)
  <2>1. /\ act[p].pc = "try" /\ act[p].kind = "backup" /\ local[p[1]] # None /\ Raise(p, b, act[p].mirrored)
        /\ shared' = shared /\ capture' = capture
    BY <1>1, <1>2 DEF LockFault, Stage, history
  <2>2. Fits(p, b)
    <3>1. local[p[1]].doc \in Doc
      BY <1>1, <2>1, Fields DEF DInv, IInv
    <3> QED BY <1>1, <2>1, <3>1 DEF Fits, Recorded, BaseOf, Underway
  <2> HIDE DEF b
  <2>3. Raised(p, b)
    BY <2>1, <2>2, RaiseIsRaised
  <2> QED BY <2>1, <2>2, <2>3, RaisedKeeps
<1>3. CASE Fault(p)
  <2>1. /\ Underway(p) /\ act[p].pc # "idle" /\ capture' = capture /\ shared'.doc = shared.doc
        /\ shared' = shared \/ (Sharing(p) /\ shared'.marker = None)
    BY <1>1, <1>3 DEF Fault, Underway, Sharing, MarkerAfterFault, history
  <2>2. CASE act[p].kind = "backup"
    <3>1. PICK m : Raise(p, act[p].base, m)
      BY <1>3, <2>2 DEF Fault
    <3>2. Fits(p, act[p].base)
      BY <1>1, <2>1, <2>2 DEF Fits, Recorded
    <3>3. Raised(p, act[p].base)
      BY <2>1, <2>2, <3>1, <3>2, RaiseIsRaised
    <3> QED BY <2>1, <2>2, <3>2, <3>3, RaisedKeeps
  <2>3. CASE act[p].kind # "backup"
    <3>1. act' = [act EXCEPT ![p] = Idle] /\ local' = local
      BY <1>3, <2>3 DEF Fault
    <3> QED BY <2>1, <2>3, <3>1, EndsKeeps
  <2> QED BY <2>2, <2>3
<1>4. CASE RestoreFault(p)
  <2>1. /\ act[p].kind # "backup" /\ act' = [act EXCEPT ![p] = Idle] /\ local' = local /\ shared' = shared /\ capture' = capture
    BY <1>1, <1>4 DEF RestoreFault, AfterRestoreFault, history
  <2> QED BY <2>1, EndsKeeps
<1> QED BY <1>2, <1>3, <1>4

\* A process goes on as x, and p's copy and the captures stay as they are.
Moves(p, x) ==
  /\ x \in Op /\ act' = [act EXCEPT ![p] = x] /\ local' = local
  /\ shared'.doc = shared.doc /\ capture'[shared.doc.gen] = capture[shared.doc.gen]
  /\ SharedFree(p) \/ shared' = shared
  /\ act[p].pc \in {"unmark", "local"} => x.pc \in {"unmark", "local"} /\ x.tgt = act[p].tgt

LEMMA MovesSteady ==
  ASSUME DInv, Disciplined, NEW p \in Procs, Active(p), NEW x, Moves(p, x)
  PROVE  Acts(p) /\ Steady(p) /\ act'[p] = x
<1>1. p[1] \in Nodes /\ act'[p] = x /\ \A q \in Procs : q # p => act'[q] = act[q]
  BY Fields DEF DInv, IInv, Types, TypeOK, Moves
<1>2. Acts(p)
  BY <1>1 DEF Acts, Moves
<1>3. ASSUME local[p[1]] # None, local[p[1]].restore = None, capture[shared.doc.gen].by = p[1] PROVE Knows(p[1])'
  <2>1. \/ local[p[1]].doc = shared.doc \/ Remembers(local[p[1]], shared.doc)
        \/ act[p].pc \in {"unmark", "local"} /\ act[p].tgt = shared.doc
    BY <1>3, KnowsNode
  <2>2. CASE local[p[1]].doc = shared.doc \/ Remembers(local[p[1]], shared.doc)
    BY <2>2 DEF Knows, Moves
  <2>3. CASE act[p].pc \in {"unmark", "local"} /\ act[p].tgt = shared.doc
    BY <1>1, <2>3 DEF Knows, Moves
  <2> QED BY <2>1, <2>2, <2>3
<1>4. Steady(p)
  BY <1>3 DEF Steady, Moves
<1> QED BY <1>1, <1>2, <1>4

\* A publication that begins, or is found committed.
Begins(p, x) ==
  /\ Moves(p, x) /\ local[p[1]] # None /\ local[p[1]].restore = None
  /\ x.pc \in {"copy", "unmark"} /\ x.id # 0
  /\ CommittedNext(local[p[1]].doc, x.id) = x.tgt
  /\ IF x.kind = "backup" THEN x.base = local[p[1]].doc /\ local[p[1]].att \in {0, x.id} ELSE local[p[1]].att = x.id

LEMMA BeginsKeeps ==
  ASSUME DInv, Disciplined, NEW p \in Procs, Active(p), NEW x, Begins(p, x)
  PROVE  Promised
<1>1. Acts(p) /\ Steady(p) /\ act'[p] = x /\ local' = local
  BY MovesSteady DEF Begins, Moves
<1>2. Recorded(p)'
  BY <1>1 DEF Begins, Recorded, Underway, Restored
<1>3. Sharing(p)'
  BY <1>1 DEF Begins, Sharing
<1> QED BY <1>1, <1>2, <1>3, LockedKeeps


LEMMA PublicationPromised ==
  ASSUME DInv, Disciplined, NEW p \in Procs, Active(p), Attempt(p) \/ Repair(p) \/ Recognize(p)
  PROVE  Promised
<1> DEFINE l == local[p[1]]
           a == act[p]
<1>1. /\ p[1] \in Nodes /\ a \in Op /\ shared.doc \in Doc /\ shared.doc.gen \in Nat
      /\ shared \in [doc : Doc, pay : Payload, marker : Doc \cup {None}] /\ Recorded(p) /\ Stage(p)
      /\ (l # None => l.doc \in Doc /\ l.att \in Nat)
  BY Fields DEF DInv, IInv, Types, TypeOK
<1>2. ASSUME NEW c \in Op, CanEnter(p), l # None, l.restore = None, c.id \in Nat, c.id # 0, SameLineage(l),
             act[p].pc \in {"idle", "try"},
             Publish(p, c, CommittedNext(shared.doc, c.id)),
             IF c.kind = "backup" THEN l.att \in {0, c.id} ELSE l.att = c.id
      PROVE  Promised
  <2> DEFINE d == CommittedNext(shared.doc, c.id)
             x == [c EXCEPT !.pc = "copy", !.tgt = d, !.todo = Files, !.base = l.doc]
  <2>1. d \in Doc /\ d.gen = shared.doc.gen + 1
    BY <1>1, <1>2 DEF CommittedNext, Doc
  <2>2. /\ x \in Op /\ x.pc = "copy" /\ x.id = c.id /\ x.kind = c.kind /\ x.tgt = CommittedNext(l.doc, c.id)
        /\ x.base = l.doc
    BY <1>1, <1>2, <2>1 DEF SameLineage, Op
  <2>3. /\ act' = [act EXCEPT ![p] = x] /\ shared' = [shared EXCEPT !.marker = d] /\ local' = local
        /\ capture' = [g \in 0..d.gen |-> IF g = d.gen THEN [pay |-> l.pay, by |-> p[1]] ELSE capture[g]]
    BY <1>2 DEF Publish
  <2> HIDE DEF d, x
  <2>4. shared'.doc = shared.doc /\ capture'[shared.doc.gen] = capture[shared.doc.gen]
    BY <1>1, <2>1, <2>3
  <2>5. Moves(p, x)
    BY <1>2, <2>2, <2>3, <2>4 DEF Moves, SharedFree, CanEnter
  <2>6. Begins(p, x)
    BY <1>2, <2>2, <2>5 DEF Begins
  <2> QED BY <2>6, BeginsKeeps
<1>3. ASSUME NEW c \in Op, CanEnter(p), l # None, l.restore = None, c.id \in Nat, c.id # 0, CommittedAttempt(l, c.id),
             act[p].pc \in {"idle", "try"}, c.pc = "unmark", c.tgt = shared.doc,
             act' = [act EXCEPT ![p] = c], UNCHANGED <<setting, disk, counts, history>>,
             IF c.kind = "backup" THEN c.base = l.doc /\ l.att \in {0, c.id} ELSE l.att = c.id
      PROVE  Promised
  <2>1. Moves(p, c)
    BY <1>3 DEF Moves, disk, history
  <2>2. Begins(p, c)
    BY <1>3, <2>1 DEF Begins, CommittedAttempt
  <2> QED BY <2>2, BeginsKeeps
<1>4. CASE Attempt(p)
  <2>1. /\ a.pc = "try" /\ CanEnter(p) /\ l # None /\ a.kind = "backup" /\ a.id # 0 /\ a.id \in Nat /\ l.att \in {0, a.id}
    BY <1>1, <1>4 DEF Attempt, Stage, Recorded, Op
  <2>2. CASE Publishable(l, a) /\ Publish(p, a, CommittedNext(shared.doc, a.id))
    BY <1>1, <1>2, <2>1, <2>2 DEF Publishable, FencePasses
  <2>3. CASE /\ Recognizable(l, a)
             /\ act' = [act EXCEPT ![p] = [a EXCEPT !.pc = "unmark", !.tgt = shared.doc, !.base = l.doc]]
             /\ UNCHANGED <<setting, disk, counts, history>>
    <3> DEFINE x == [a EXCEPT !.pc = "unmark", !.tgt = shared.doc, !.base = l.doc]
    <3>1. x \in Op /\ x.pc = "unmark" /\ x.tgt = shared.doc /\ x.base = l.doc /\ x.id = a.id /\ x.kind = a.kind
      BY <1>1, <2>1 DEF Op
    <3>2. act' = [act EXCEPT ![p] = x]
      BY <2>3
    <3> HIDE DEF x
    <3> QED BY <1>3, <2>1, <2>3, <3>1, <3>2 DEF Recognizable
  <2>4. CASE Raise(p, BaseOf(p), a.mirrored) /\ UNCHANGED <<setting, shared, ops, writes, faults, kills, history>>
    <3>1. Fits(p, BaseOf(p))
      BY <1>1, <2>1 DEF Fits, BaseOf, Recorded, Underway, Op
    <3>2. Raised(p, BaseOf(p))
      BY <2>1, <2>4, <3>1, RaiseIsRaised
    <3> QED BY <2>1, <2>4, <3>1, <3>2, RaisedKeeps DEF history
  <2> QED BY <1>4, <2>2, <2>3, <2>4 DEF Attempt
<1>5. CASE Repair(p)
  <2> DEFINE c == [Idle EXCEPT !.kind = "repair", !.id = l.att]
  <2>1. /\ act[p].pc = "idle" /\ CanEnter(p) /\ l # None /\ l.restore = None /\ Failed(l) /\ SameLineage(l)
        /\ Publish(p, c, CommittedNext(shared.doc, l.att))
    BY <1>5 DEF Repair, Repairs
  <2>2. c \in Op /\ c.id = l.att /\ c.kind = "repair"
    BY <1>1, <2>1, IdleIs DEF Op
  <2> HIDE DEF c
  <2> QED BY <1>1, <1>2, <2>1, <2>2 DEF Failed
<1>6. CASE Recognize(p)
  <2> DEFINE c == [Idle EXCEPT !.pc = "unmark", !.kind = "repair", !.id = l.att, !.tgt = shared.doc]
  <2>1. /\ act[p].pc = "idle" /\ CanEnter(p) /\ l # None /\ l.restore = None /\ Failed(l) /\ CommittedAttempt(l, l.att)
        /\ act' = [act EXCEPT ![p] = c] /\ UNCHANGED <<setting, disk, counts, history>>
    BY <1>6 DEF Recognize, Recognizes
  <2>2. c \in Op /\ c.id = l.att /\ c.kind = "repair" /\ c.pc = "unmark" /\ c.tgt = shared.doc
    BY <1>1, <2>1, IdleIs DEF Op
  <2> HIDE DEF c
  <2> QED BY <1>1, <1>3, <2>1, <2>2 DEF Failed
<1> QED BY <1>4, <1>5, <1>6

LEMMA ProgressPromised ==
  ASSUME DInv, Disciplined, NEW p \in Procs, Active(p),
         Start(p) \/ CompletePublication(p) \/ \E f \in Files : CopyFile(p, f)
  PROVE  Promised
<1> DEFINE l == local[p[1]]
           a == act[p]
<1>1. /\ p[1] \in Nodes /\ a \in Op /\ act \in [Procs -> Op] /\ Recorded(p) /\ Stage(p) /\ ops \in Nat
      /\ shared \in [doc : Doc, pay : Payload, marker : Doc \cup {None}]
  BY Fields DEF DInv, IInv, Types, TypeOK
<1>2. CASE Start(p)
  <2> DEFINE x == [Idle EXCEPT !.pc = "try", !.kind = "backup", !.id = ops + 1, !.try = 1]
  <2>1. /\ a.pc = "idle" /\ l # None /\ ~Failed(l) /\ act' = [act EXCEPT ![p] = x]
        /\ local' = local /\ shared' = shared /\ capture' = capture
    BY <1>2 DEF Start, Disciplined, disk, history
  <2>2. x \in Op /\ x.pc = "try" /\ x.kind = "backup" /\ x.base = None
    <3>1. ops + 1 \in Nat
      BY <1>1
    <3> QED BY ZenonT(60), <3>1, IdleIs, BegunIs
  <2> HIDE DEF x
  <2>3. Moves(p, x)
    BY <2>1, <2>2 DEF Moves
  <2>4. Acts(p) /\ Steady(p) /\ act'[p] = x
    BY <2>3, MovesSteady
  <2>5. Recorded(p)'
    BY <2>1, <2>2, <2>4 DEF Recorded, Underway, Restored, Failed
  <2>6. ~Claims(p[1])
    BY <2>1 DEF Claims, Remembers
  <2> QED BY <2>1, <2>4, <2>5, <2>6, UnlockedKeeps DEF Sharing
<1>3. CASE CompletePublication(p)
  <2> DEFINE x == [a EXCEPT !.pc = "local", !.mirrored = TRUE]
  <2>1. /\ a.pc = "unmark" /\ shared' = [shared EXCEPT !.marker = None] /\ local' = local /\ capture' = capture
        /\ act' = [act EXCEPT ![p] = x]
    BY <1>1, <1>3 DEF CompletePublication, history
  <2>2. x \in Op /\ x.pc = "local" /\ x.kind = a.kind /\ x.base = a.base /\ x.id = a.id /\ x.tgt = a.tgt
    BY <1>1 DEF Op
  <2> HIDE DEF x
  <2>3. Moves(p, x)
    BY <1>1, <2>1, <2>2 DEF Moves, SharedFree, Sharing
  <2>4. Acts(p) /\ Steady(p) /\ act'[p] = x
    BY <2>3, MovesSteady
  <2>5. Recorded(p)'
    BY <1>1, <2>1, <2>2, <2>4 DEF Recorded, Underway, Restored
  <2>6. shared'.marker = None
    BY <1>1, <2>1
  <2> QED BY <2>4, <2>5, <2>6, LockedKeeps
<1>4. ASSUME NEW f \in Files, CopyFile(p, f) PROVE Promised
  <2> DEFINE x == [a EXCEPT !.todo = @ \ {f}, !.pc = IF a.todo = {f} THEN "state" ELSE @]
  <2>1. /\ a.pc = "copy" /\ shared' = [shared EXCEPT !.pay[f] = l.pay[f]] /\ local' = local /\ capture' = capture
        /\ act' = [act EXCEPT ![p] = x]
    BY ZenonT(60), <1>1, <1>4 DEF CopyFile, history
  <2>2. x \in Op /\ x.pc \in {"copy", "state"} /\ x.kind = a.kind /\ x.base = a.base /\ x.id = a.id /\ x.tgt = a.tgt
    BY <1>1, <2>1 DEF Op
  <2> HIDE DEF x
  <2>3. Moves(p, x)
    BY <1>1, <2>1, <2>2 DEF Moves, SharedFree, Sharing
  <2>4. Acts(p) /\ Steady(p) /\ act'[p] = x
    BY <2>3, MovesSteady
  <2>5. Recorded(p)'
    BY <1>1, <2>1, <2>2, <2>4 DEF Recorded, Underway, Restored
  <2>6. Sharing(p)'
    BY <2>2, <2>4 DEF Sharing
  <2> QED BY SMTT(60), <2>4, <2>5, <2>6, LockedKeeps
<1> QED BY <1>2, <1>3, <1>4

LEMMA WriteSharedPromised ==
  ASSUME DInv, Disciplined, NEW p \in Procs, Active(p), WriteShared(p)
  PROVE  Promised
<1> DEFINE l == local[p[1]]
           a == act[p]
           x == [a EXCEPT !.pc = "unmark"]
<1>1. /\ p[1] \in Nodes /\ a \in Op /\ act \in [Procs -> Op] /\ Recorded(p) /\ Stage(p) /\ Publishes(p)
      /\ shared \in [doc : Doc, pay : Payload, marker : Doc \cup {None}]
  BY Fields DEF DInv, IInv, Types, TypeOK, WriteShared, Stage
<1>2. /\ a.pc = "state" /\ shared' = [shared EXCEPT !.doc = a.tgt] /\ local' = local /\ capture' = capture
      /\ act' = [act EXCEPT ![p] = x]
  BY <1>1 DEF WriteShared
<1>3. x \in Op /\ x.pc = "unmark" /\ x.kind = a.kind /\ x.base = a.base /\ x.id = a.id /\ x.tgt = a.tgt
  BY <1>1 DEF Op
<1> HIDE DEF x
<1>4. act'[p] = x /\ (\A q \in Procs : q # p => act'[q] = act[q]) /\ shared'.doc = a.tgt
  BY <1>1, <1>2
<1>5. Acts(p)
  BY <1>2, <1>4 DEF Acts, SharedFree, Sharing
<1>6. Recorded(p)'
  BY <1>1, <1>2, <1>3, <1>4 DEF Recorded, Underway, Restored
<1>7. Known'
  <2>1. capture'[shared'.doc.gen].by = p[1]
    BY <1>1, <1>2, <1>4 DEF Publishes
  <2>2. Knows(p[1])'
    BY <1>3, <1>4 DEF Knows
  <2> QED BY <2>1, <2>2 DEF Known
<1>8. Claimed'
  BY <1>3, <1>4 DEF Claimed, SharedHeld
<1> QED BY <1>5, <1>6, <1>7, <1>8, OthersRecorded DEF Promised

LEMMA WriteLocalPromised ==
  ASSUME DInv, Disciplined, NEW p \in Procs, Active(p), WriteLocal(p)
  PROVE  Promised
<1> DEFINE l == local[p[1]]
           a == act[p]
           y == [l EXCEPT !.doc = a.tgt, !.att = 0]
<1>1. /\ p[1] \in Nodes /\ a \in Op /\ act \in [Procs -> Op] /\ Recorded(p) /\ Stage(p) /\ local \in [Nodes -> Copy \cup {None}]
      /\ shared.doc.gen \in Nat
  BY Fields DEF DInv, IInv, Types, TypeOK
<1>2. /\ a.pc = "local" /\ shared' = shared /\ capture' = capture /\ act' = [act EXCEPT ![p] = Idle]
      /\ l # None /\ l \in Copy /\ local' = [local EXCEPT ![p[1]] = y]
  BY <1>1, Fields DEF WriteLocal, Stage, history, DInv, IInv
<1>3. y.doc = a.tgt
  BY <1>2 DEF Copy
<1> HIDE DEF y
<1>4. /\ act'[p] = Idle /\ (\A q \in Procs : q # p => act'[q] = act[q]) /\ local'[p[1]] = y
      /\ \A n \in Nodes : n # p[1] => local'[n] = local[n]
  BY <1>1, <1>2
<1>5. Acts(p)
  BY <1>2, <1>4 DEF Acts
<1>6. Recorded(p)'
  BY <1>4, IdleIs DEF Recorded, Underway, Restored
<1>7. Steady(p)
  <2>1. ASSUME capture[shared.doc.gen].by = p[1] PROVE Knows(p[1])'
    <3>1. /\ l.restore = None /\ CommittedNext(l.doc, a.id) = a.tgt /\ (Failed(l) => l.att = a.id)
      BY <1>1, <1>2 DEF Recorded, Underway, Failed
    <3>2. l.doc # shared.doc
      <4>1. a.tgt.gen = l.doc.gen + 1 /\ a.tgt.gen <= shared.doc.gen
        BY <1>1, <1>2, <3>1 DEF CommittedNext, Stage, Older
      <4> QED BY <1>1, <4>1
    <3>3. a.tgt = shared.doc
      BY <1>2, <2>1, <3>1, <3>2, KnowsNode DEF Remembers
    <3> QED BY <1>2, <1>3, <1>4, <3>3 DEF Knows
  <2> QED BY <1>2, <2>1 DEF Steady
<1>8. ~Claims(p[1])
  BY <1>2 DEF Claims
<1> QED BY <1>2, <1>5, <1>6, <1>7, <1>8, UnlockedKeeps DEF Sharing


\* A step within a restore: the copy stays marked and the shared lock is held.
Marked(p) ==
  /\ \A q \in Procs : q # p => act'[q] = act[q]
  /\ \A n \in Nodes : n # p[1] => local'[n] = local[n]
  /\ shared' = shared /\ capture' = capture /\ shared.marker = None
  /\ local'[p[1]].restore # None /\ act'[p].pc \in {"rcopy", "rstate", "runlink"} /\ act'[p].kind # "backup"
  /\ act'[p].pc = "runlink" => local'[p[1]].doc = act'[p].tgt

LEMMA MarkedKeeps ==
  ASSUME DInv, Disciplined, NEW p \in Procs, Active(p), Marked(p)
  PROVE  Promised
<1>1. Acts(p) /\ Steady(p)
  BY DEF Acts, Steady, Marked
<1>2. Recorded(p)'
  BY DEF Marked, Recorded, Underway, Restored
<1>3. Sharing(p)'
  BY DEF Marked, Sharing
<1> QED BY <1>1, <1>2, <1>3, LockedKeeps

LEMMA RestoreExistingPromised ==
  ASSUME DInv, IInv', Disciplined, NEW p \in Procs, Active(p), RestoreExisting(p)
  PROVE  Promised
<1> DEFINE l == local[p[1]]
           x == [Idle EXCEPT !.pc = "rcopy", !.kind = "restore", !.tgt = shared.doc, !.todo = Files]
           y == [l EXCEPT !.restore = shared.doc]
<1>1. /\ CanEnter(p) /\ l # None /\ Sees(l) /\ Restores(l) /\ act' = [act EXCEPT ![p] = x]
      /\ shared' = shared /\ capture' = capture
  BY DEF RestoreExisting, history
<1>2. /\ p[1] \in Nodes /\ act \in [Procs -> Op] /\ local \in [Nodes -> Copy \cup {None}] /\ l \in Copy /\ l.doc \in Doc
      /\ l.att \in Nat /\ shared.doc \in Doc /\ shared.doc # None
  BY <1>1, Fields, Parameters DEF DInv, IInv, Types, TypeOK
<1>3. local' = [local EXCEPT ![p[1]] = y] /\ y.restore = shared.doc
  BY <1>2 DEF RestoreExisting, Copy
<1>4. x.pc = "rcopy" /\ x.kind = "restore"
  BY DEF Idle
<1> HIDE DEF x, y
<1>5. /\ act'[p] = x /\ (\A q \in Procs : q # p => act'[q] = act[q]) /\ local'[p[1]] = y
      /\ \A n \in Nodes : n # p[1] => local'[n] = local[n]
  BY <1>1, <1>2, <1>3
<1>6. ~Torn
  <2>1. Stage(p)'
    BY DEF IInv
  <2>2. ~Torn'
    BY <1>4, <1>5, <2>1 DEF Stage, Recovers
  <2> QED BY <1>1, <2>2 DEF Torn
<1>7. shared.marker = None
  <2>1. SUFFICES ASSUME shared.marker # None PROVE FALSE
    OBVIOUS
  <2>2. Failed(l) /\ shared.marker = CommittedNext(l.doc, l.att) /\ shared.marker = shared.doc
    BY <1>1, <1>6, <2>1 DEF Sees, MarkerAllows, Torn
  <2>3. PICK n \in Nodes : Remembers(local[n], shared.marker)
    BY <1>1, <2>1 DEF CanEnter, DInv, Claimed, Claims
  <2>4. local[n].att = l.att /\ local[n].restore = None
    BY <2>2, <2>3 DEF Remembers, CommittedNext
  <2>5. Owns(n, l.att) /\ Owns(p[1], l.att)
    BY <1>1, <2>2, <2>3, <2>4 DEF Owns, Failed, Remembers
  <2>6. n = p[1]
    BY <1>2, <2>5 DEF DInv, IInv, Identity
  <2>7. l.restore = None /\ Recognizes(l)
    BY <2>2, <2>4, <2>6 DEF Recognizes, CommittedAttempt
  <2> QED BY <1>1, <2>7 DEF Restores
<1>8. Marked(p)
  BY <1>1, <1>2, <1>3, <1>4, <1>5, <1>7 DEF Marked
<1> QED BY <1>8, MarkedKeeps

LEMMA RestorePromised ==
  ASSUME DInv, Disciplined, NEW p \in Procs, Active(p),
         RestoreState(p) \/ RestoreDone(p) \/ RestoreNew(p) \/ \E f \in Files : RestoreFile(p, f)
  PROVE  Promised
<1> DEFINE l == local[p[1]]
           a == act[p]
<1>1. /\ p[1] \in Nodes /\ a \in Op /\ act \in [Procs -> Op] /\ Recorded(p) /\ Stage(p) /\ local \in [Nodes -> Copy \cup {None}]
      /\ shared.doc \in Doc /\ shared.doc # None /\ (l # None => l \in Copy)
  BY Fields, Parameters DEF DInv, IInv, Types, TypeOK
<1>2. ASSUME a.pc \in {"rcopy", "rstate", "runlink"}
      PROVE  /\ a.kind # "backup" \/ l.att \in {0, a.id}
             /\ a.tgt = shared.doc /\ l.restore = shared.doc /\ l # None /\ shared.marker = None
  BY <1>1, <1>2 DEF Stage, Recovers, Recorded, Restored
<1>3. CASE \E f \in Files : RestoreFile(p, f)
  <2>1. PICK f \in Files : RestoreFile(p, f)
    BY SMTT(60), <1>3
  <2> DEFINE x == [a EXCEPT !.todo = @ \ {f}, !.pc = IF a.todo = {f} THEN "rstate" ELSE @]
             y == [l EXCEPT !.pay[f] = shared.pay[f]]
  <2>2. /\ a.pc = "rcopy" /\ l # None /\ act' = [act EXCEPT ![p] = x] /\ local' = [local EXCEPT ![p[1]] = y]
        /\ shared' = shared /\ capture' = capture
    BY ZenonT(60), <1>1, <2>1 DEF RestoreFile, history, Stage
  <2>3. x.pc \in {"rcopy", "rstate"} /\ x.kind = a.kind /\ x.id = a.id
    BY <1>1, <2>2 DEF Op
  <2>4. y.restore = l.restore /\ y.att = l.att
    BY <1>1, <2>2 DEF Copy
  <2> HIDE DEF x, y
  <2>5. /\ act'[p] = x /\ (\A q \in Procs : q # p => act'[q] = act[q]) /\ local'[p[1]] = y
        /\ \A n \in Nodes : n # p[1] => local'[n] = local[n]
    BY <1>1, <2>2
  <2>6. Acts(p) /\ Steady(p) /\ Sharing(p)'
    BY <1>1, <1>2, <2>2, <2>3, <2>4, <2>5 DEF Acts, Steady, Sharing
  <2>7. Recorded(p)'
    BY <1>2, <2>2, <2>3, <2>4, <2>5 DEF Recorded, Underway, Restored
  <2> QED BY <2>6, <2>7, LockedKeeps
<1>4. CASE RestoreState(p)
  <2> DEFINE x == [a EXCEPT !.pc = "runlink"]
             y == [l EXCEPT !.doc = a.tgt, !.att = 0]
  <2>1. /\ a.pc = "rstate" /\ l # None /\ act' = [act EXCEPT ![p] = x] /\ local' = [local EXCEPT ![p[1]] = y]
        /\ shared' = shared /\ capture' = capture
    BY <1>1, <1>4 DEF RestoreState, history, Stage
  <2>2. x.pc = "runlink" /\ x.kind = a.kind /\ x.id = a.id /\ x.tgt = a.tgt
    BY <1>1 DEF Op
  <2>3. y.restore = l.restore /\ y.att = 0 /\ y.doc = a.tgt
    BY <1>1, <2>1 DEF Copy
  <2> HIDE DEF x, y
  <2>4. /\ act'[p] = x /\ (\A q \in Procs : q # p => act'[q] = act[q]) /\ local'[p[1]] = y
        /\ \A n \in Nodes : n # p[1] => local'[n] = local[n]
    BY <1>1, <2>1
  <2>5. Acts(p) /\ Steady(p) /\ Sharing(p)'
    BY <1>1, <1>2, <2>1, <2>2, <2>3, <2>4 DEF Acts, Steady, Sharing
  <2>6. Recorded(p)'
    BY <1>2, <2>1, <2>2, <2>3, <2>4 DEF Recorded, Underway, Restored
  <2> QED BY <2>5, <2>6, LockedKeeps
<1>5. CASE RestoreDone(p)
  <2> DEFINE y == [l EXCEPT !.restore = None]
  <2>1. /\ a.pc = "runlink" /\ l # None /\ act' = [act EXCEPT ![p] = Idle] /\ local' = [local EXCEPT ![p[1]] = y]
        /\ shared' = shared /\ capture' = capture
    BY <1>1, <1>5 DEF RestoreDone, Stage
  <2>2. y.doc = l.doc /\ l.doc = shared.doc
    BY <1>1, <1>2, <2>1 DEF Copy, Recorded
  <2> HIDE DEF y
  <2>3. /\ act'[p] = Idle /\ (\A q \in Procs : q # p => act'[q] = act[q]) /\ local'[p[1]] = y
        /\ \A n \in Nodes : n # p[1] => local'[n] = local[n]
    BY <1>1, <2>1
  <2>4. Acts(p) /\ Steady(p)
    BY <2>1, <2>2, <2>3 DEF Acts, Steady, Knows
  <2>5. Recorded(p)'
    BY <2>3, IdleIs DEF Recorded, Underway, Restored
  <2>6. shared'.marker = None
    BY <1>2, <2>1
  <2> QED BY <2>4, <2>5, <2>6, LockedKeeps
<1>6. CASE RestoreNew(p)
  <2> DEFINE y == [doc |-> shared.doc, att |-> 0, pay |-> shared.pay, restore |-> None]
  <2>1. /\ a.pc = "idle" /\ shared.marker = None /\ local' = [local EXCEPT ![p[1]] = y]
        /\ shared' = shared /\ capture' = capture /\ act' = act
    BY <1>6 DEF RestoreNew
  <2>2. y.doc = shared.doc
    OBVIOUS
  <2> HIDE DEF y
  <2>3. local'[p[1]] = y /\ \A n \in Nodes : n # p[1] => local'[n] = local[n]
    BY <1>1, <2>1
  <2>4. Acts(p) /\ Steady(p)
    BY <2>1, <2>2, <2>3 DEF Acts, Steady, Knows
  <2>5. Recorded(p)'
    BY <2>1 DEF Recorded, Underway, Restored
  <2> QED BY <2>1, <2>4, <2>5, LockedKeeps
<1> QED BY <1>3, <1>4, <1>5, <1>6

\* A step that leaves every state file alone.
LEMMA QuietPromised ==
  ASSUME DInv, Disciplined, UNCHANGED <<shared, act, capture>>,
         \A n \in Nodes : /\ local[n] = None <=> local'[n] = None
                          /\ local'[n].doc = local[n].doc /\ local'[n].att = local[n].att /\ local'[n].restore = local[n].restore
  PROVE  Promised
<1>1. ASSUME NEW n \in Nodes, NEW d PROVE Remembers(local'[n], d) <=> Remembers(local[n], d)
  BY DEF Remembers, Failed
<1>2. Claimed'
  BY <1>1 DEF DInv, Claimed, Claims, SharedHeld
<1>3. Known'
  <2>1. ASSUME NEW n \in Nodes, Knows(n) PROVE Knows(n)'
    BY <1>1, <2>1 DEF Knows
  <2> QED BY <2>1 DEF DInv, Known
<1>4. ASSUME NEW q \in Procs PROVE Recorded(q)'
  <2>1. q[1] \in Nodes /\ Recorded(q)
    BY Fields DEF DInv, IInv
  <2> QED BY <2>1 DEF Recorded, Underway, Restored
<1> QED BY <1>2, <1>3, <1>4 DEF Promised

----------------------------------------------------------------------------
(* The theorems                                                            *)

LEMMA Start0 ==
  ASSUME Init
  PROVE  IInv
<1> DEFINE c == [doc |-> Bootstrap, att |-> 0, pay |-> First, restore |-> None]
<1>1. Bootstrap \in Doc /\ Bootstrap.gen = 0 /\ Bootstrap.commit = 0 /\ Bootstrap # None /\ First \in Payload
      /\ Nothing \in Payload /\ First[Meta] # 0 /\ \A f \in Files : First[f] = 1
  BY Parameters DEF Bootstrap, Doc, First, Nothing, Payload
<1>2. c \in Copy /\ c # None /\ c.doc = Bootstrap /\ c.att = 0 /\ c.pay = First /\ c.restore = None
  BY <1>1, Parameters DEF Copy
<1> HIDE DEF c
<1>3. /\ \A n \in Nodes : local[n] = IF n = Home THEN c ELSE None
      /\ local \in [Nodes -> Copy \cup {None}]
  BY <1>2 DEF Init, c
<1>4. /\ shared.doc = Bootstrap /\ shared.pay = Nothing /\ shared.marker = None
      /\ shared \in [doc : Doc, pay : Payload, marker : Doc \cup {None}]
  BY <1>1 DEF Init
<1>5. act \in [Procs -> Op] /\ \A p \in Procs : act[p] = Idle
  BY IdleIs DEF Init
<1>6. /\ capture[0].pay = First /\ capture[0].by = Home /\ capture \in [0..0 -> [pay : Payload, by : Nodes]]
      /\ \A n \in Nodes : from[n] = Bootstrap /\ dirty[n] = {}
      /\ from \in [Nodes -> Doc] /\ dirty \in [Nodes -> SUBSET Files] /\ ops = 0 /\ writes = 0
  BY <1>1, Parameters DEF Init
<1>7. Types
  BY <1>1, <1>3, <1>4, <1>5, <1>6 DEF Types, TypeOK
<1>8. Locked /\ Lineage /\ Tearing /\ Whole /\ Rooted
  BY <1>1, <1>2, <1>3, <1>4, <1>5, <1>6, IdleIs
     DEF Locked, Guarding, Sharing, Lineage, Older, Tearing, Torn, Whole, Rooted
<1>9. Identity
  <2>1. \A n \in Nodes, y \in Nat : ~Owns(n, y)
    BY <1>2, <1>3, <1>5, IdleIs DEF Owns
  <2> QED BY <1>1, <1>4, <1>6, <2>1 DEF Identity
<1>10. LocalIsWhole
  BY <1>1, <1>2, <1>3, <1>6 DEF LocalIsWhole
<1>11. \A p \in Procs : Stage(p)
  BY <1>5, IdleIs DEF Stage
<1> QED BY <1>7, <1>8, <1>9, <1>10, <1>11 DEF IInv

LEMMA StepKeeps ==
  ASSUME IInv, [Next]_vars
  PROVE  IInv'
<1>1. CASE UNCHANGED vars
  <2>1. UNCHANGED <<local, shared, act, ops, writes, capture, from, dirty>>
    BY <1>1 DEF vars, disk, counts, history
  <2>2. Types' /\ Locked' /\ Lineage' /\ Identity' /\ Tearing' /\ Whole' /\ Rooted' /\ LocalIsWhole'
    BY <2>1 DEF IInv, Types, TypeOK, Locked, Guarding, Sharing, Lineage, Older, Identity, Owns, Tearing, Torn, Whole,
                Rooted, LocalIsWhole
  <2>3. ASSUME NEW p \in Procs PROVE Stage(p)'
    BY <2>1 DEF IInv, Stage, Publishes, Recovers, Older, Torn
  <2> QED BY <2>2, <2>3 DEF IInv
<1>2. CASE \E n \in Nodes, f \in Files : Write(n, f)
  BY <1>2, WriteKeeps
<1>3. ASSUME NEW p \in Procs, Start(p) \/ Backup(p) \/ Reconcile(p) \/ LockFault(p) \/ Fault(p) \/ RestoreFault(p) \/ Kill(p)
      PROVE  IInv'
  <2>1. CASE Backup(p)
    BY <2>1, AttemptKeeps, WriteSharedKeeps, CompleteKeeps, WriteLocalKeeps, CopyFileKeeps DEF Backup
  <2>2. CASE Reconcile(p)
    BY <2>2, RestoreNewKeeps, RepairKeeps, RecognizeKeeps, RestoreExistingKeeps, RestoreStateKeeps, RestoreDoneKeeps,
       RestoreFileKeeps DEF Reconcile
  <2> QED BY <1>3, <2>1, <2>2, StartKeeps, LockFaultKeeps, FaultKeeps, KillKeeps
<1> QED BY <1>1, <1>2, <1>3 DEF Next

LEMMA Invariance == Spec => []IInv
BY Start0, StepKeeps, PTL DEF Spec

\* The shared directory and every copy show whole captures, whoever failed or died in between: a
\* mirror or a restore that is half done is behind its marker (_mirror, _publish_shared_snapshot,
\* _restore_existing_session, _complete_publication).
THEOREM CapturesStayWhole == Spec => []CapturesAreWhole
<1>1. IInv => CapturesAreWhole
  BY Fields DEF IInv, Types, CapturesAreWhole, SharedIsWhole, Whole, Torn
<1> QED BY <1>1, Invariance, PTL

LEMMA SharedStateKept ==
  ASSUME IInv, Next, ~(\E p \in Procs : WriteShared(p))
  PROVE  shared'.doc = shared.doc
<1>1. shared \in [doc : Doc, pay : Payload, marker : Doc \cup {None}]
  BY DEF IInv, Types, TypeOK
<1>2. CASE \E n \in Nodes, f \in Files : Write(n, f)
  BY <1>2 DEF Write
<1>3. ASSUME NEW p \in Procs, Start(p) \/ Backup(p) \/ Reconcile(p) \/ LockFault(p) \/ Fault(p) \/ RestoreFault(p) \/ Kill(p)
      PROVE  shared'.doc = shared.doc
  <2>1. CASE Backup(p)
    BY <1>1, <2>1 DEF Backup, Attempt, Publish, CompletePublication, WriteLocal, CopyFile, disk
  <2>2. CASE Reconcile(p)
    BY <1>1, <2>2 DEF Reconcile, RestoreNew, Repair, Publish, Recognize, RestoreExisting, RestoreState, RestoreDone,
                      RestoreFile, disk
  <2>3. CASE Start(p) \/ LockFault(p) \/ Fault(p) \/ RestoreFault(p) \/ Kill(p)
    BY <1>1, <2>3 DEF Start, LockFault, Fault, RestoreFault, Kill, disk
  <2> QED BY SMTT(60), <1>3, <2>1, <2>2, <2>3
<1> QED BY <1>2, <1>3 DEF Next

\* Captures have one history: no copy's state is ahead of the shared one or beside it, and a
\* publication commits the next generation of the capture its node's copy stems from, however
\* many nodes back up, repair and restore at once (backup_session, reconcile_session).
THEOREM HistoryIsOne == Spec => OneHistory
<1>1. IInv => NoFork
  BY DEF IInv, Lineage, Older, NoFork
<1>2. ASSUME IInv, [Next]_vars, shared'.doc # shared.doc
      PROVE  shared'.doc.gen = shared.doc.gen + 1 /\ \E n \in Nodes : from[n] = shared.doc /\ from'[n] = shared'.doc
  <2>1. Next
    BY <1>2 DEF vars, disk
  <2>2. PICK p \in Procs : WriteShared(p)
    BY <1>2, <2>1, SharedStateKept
  <2>3. /\ act[p].pc = "state" /\ shared' = [shared EXCEPT !.doc = act[p].tgt] /\ from' = [from EXCEPT ![p[1]] = act[p].tgt]
        /\ p[1] \in Nodes /\ shared \in [doc : Doc, pay : Payload, marker : Doc \cup {None}] /\ from \in [Nodes -> Doc]
    BY <1>2, <2>2, Fields DEF WriteShared, IInv, Types, TypeOK
  <2>4. Publishes(p)
    BY <1>2, <2>3 DEF IInv, Stage
  <2> QED BY <2>3, <2>4 DEF Publishes
<1>3. IInv /\ [Next]_vars =>
        [shared'.doc # shared.doc =>
           /\ shared'.doc.gen = shared.doc.gen + 1
           /\ \E n \in Nodes : from[n] = shared.doc /\ from'[n] = shared'.doc]_vars
  BY <1>2
<1> QED BY <1>1, <1>3, Invariance, PTL DEF Spec, OneHistory, PublishExtendsShared

LEMMA WritePromised ==
  ASSUME DInv, Disciplined, NEW n \in Nodes, NEW f \in Files, Write(n, f)
  PROVE  Promised
<1>1. PICK v \in Nat : local' = [local EXCEPT ![n].pay[f] = v]
  <2>1. PICK v \in {writes + 2} \cup (IF f = Meta THEN {} ELSE {0}) : local' = [local EXCEPT ![n].pay[f] = v]
    BY DEF Write
  <2>2. v \in Nat
    BY <2>1 DEF DInv, IInv, Types
  <2> QED BY <2>1, <2>2
<1>2. /\ local[n] # None /\ local[n] \in Copy /\ local[n].pay \in Payload /\ local \in [Nodes -> Copy \cup {None}]
      /\ UNCHANGED <<shared, act, capture>>
  BY Fields DEF Write, DInv, IInv, Types, TypeOK
<1> DEFINE y == [local[n] EXCEPT !.pay[f] = v]
<1>3. local' = [local EXCEPT ![n] = y]
  BY <1>1, <1>2
<1>4. y.doc = local[n].doc /\ y.att = local[n].att /\ y.restore = local[n].restore /\ y # None
  <2>1. [local[n].pay EXCEPT ![f] = v] \in Payload
    BY <1>2 DEF Payload
  <2>2. y \in Copy /\ y.doc = local[n].doc /\ y.att = local[n].att /\ y.restore = local[n].restore
    BY <1>2, <2>1 DEF Copy
  <2> QED BY <2>2, Parameters
<1> HIDE DEF y
<1>5. local'[n] = y /\ \A m \in Nodes : m # n => local'[m] = local[m]
  BY <1>2, <1>3
<1> QED BY <1>2, <1>4, <1>5, QuietPromised

LEMMA StepPromised ==
  ASSUME DInv, IInv', Disciplined, [Next]_vars
  PROVE  Promised
<1>1. CASE UNCHANGED vars
  BY <1>1, QuietPromised DEF vars, disk, history
<1>2. CASE \E n \in Nodes, f \in Files : Write(n, f)
  BY <1>2, WritePromised
<1>3. ASSUME NEW p \in Procs, Active(p),
             Start(p) \/ Backup(p) \/ Reconcile(p) \/ LockFault(p) \/ Fault(p) \/ RestoreFault(p) \/ Kill(p)
      PROVE  Promised
  <2>1. CASE Backup(p)
    BY <1>3, <2>1, PublicationPromised, ProgressPromised, WriteSharedPromised, WriteLocalPromised DEF Backup
  <2>2. CASE Reconcile(p)
    BY <1>3, <2>2, PublicationPromised, RestorePromised, RestoreExistingPromised DEF Reconcile
  <2>3. ~Kill(p)
    BY DEF Kill, DInv, Bounded, Disciplined
  <2> QED BY <1>3, <2>1, <2>2, <2>3, ProgressPromised, FailureKeeps
<1> QED BY <1>1, <1>2, <1>3 DEF Next

\* What a step of p may change of what is bounded.
Bounds(p) ==
  /\ setting' = setting /\ \A q \in Procs : q # p => act'[q] = act[q]
  /\ lost' = lost \/ (lost < setting.lost /\ lost' = lost + 1)
  /\ kills' = kills \/ (kills < setting.kills /\ kills' = kills + 1)

LEMMA StepBounds ==
  ASSUME IInv, NEW p \in Procs,
         Start(p) \/ Backup(p) \/ Reconcile(p) \/ LockFault(p) \/ Fault(p) \/ RestoreFault(p) \/ Kill(p)
  PROVE  Bounds(p)
<1>1. act \in [Procs -> Op]
  BY DEF IInv, Types, TypeOK
<1>2. ASSUME NEW b, NEW m, Raise(p, b, m)
      PROVE  (\A q \in Procs : q # p => act'[q] = act[q]) /\ (lost' = lost \/ (lost < setting.lost /\ lost' = lost + 1))
  BY <1>1, <1>2 DEF Raise
<1>3. CASE Attempt(p)
  <2>1. ASSUME Publish(p, act[p], CommittedNext(shared.doc, act[p].id)) PROVE Bounds(p)
    BY <1>1, <2>1 DEF Publish, Bounds, counts
  <2>2. ASSUME Raise(p, BaseOf(p), act[p].mirrored), setting' = setting, kills' = kills PROVE Bounds(p)
    BY <1>2, <2>2 DEF Bounds
  <2>3. ASSUME act' = [act EXCEPT ![p] = [act[p] EXCEPT !.pc = "unmark", !.tgt = shared.doc, !.base = local[p[1]].doc]],
               UNCHANGED <<setting, disk, counts, history>>
        PROVE  Bounds(p)
    BY <1>1, <2>3 DEF Bounds, counts
  <2> QED BY <1>3, <2>1, <2>2, <2>3 DEF Attempt
<1>4. CASE WriteShared(p) \/ CompletePublication(p) \/ WriteLocal(p) \/ \E f \in Files : CopyFile(p, f)
  BY <1>1, <1>4 DEF WriteShared, CompletePublication, WriteLocal, CopyFile, Bounds, counts
<1>5. CASE Reconcile(p)
  BY <1>1, <1>5 DEF Reconcile, RestoreNew, Repair, Publish, Recognize, RestoreExisting, RestoreState, RestoreDone,
                    RestoreFile, Bounds, counts
<1>6. CASE LockFault(p)
  <2>1. setting' = setting /\ kills' = kills /\ \E b, m : Raise(p, b, m)
    BY <1>6 DEF LockFault
  <2> QED BY <1>2, <2>1 DEF Bounds
<1>7. CASE Fault(p)
  <2>1. setting' = setting /\ kills' = kills
    BY <1>7 DEF Fault
  <2>2. CASE \E b, m : Raise(p, b, m)
    BY <1>2, <2>1, <2>2 DEF Bounds
  <2>3. CASE act' = [act EXCEPT ![p] = Idle] /\ lost' = lost
    BY <1>1, <2>1, <2>3 DEF Bounds
  <2> QED BY <1>7, <2>2, <2>3 DEF Fault
<1>8. CASE Start(p) \/ RestoreFault(p) \/ Kill(p)
  BY <1>1, <1>8 DEF Start, RestoreFault, Kill, Bounds
<1> QED BY <1>3, <1>4, <1>5, <1>6, <1>7, <1>8 DEF Backup

LEMMA BoundedKept ==
  ASSUME DInv, [Next]_vars
  PROVE  Bounded' /\ setting' = setting
<1> USE DEF DInv
<1>1. setting \in Setting /\ setting.lost \in Nat /\ setting.kills \in Nat /\ lost \in Nat /\ kills \in Nat
  BY DEF Bounded, Setting
<1>2. CASE UNCHANGED vars
  BY <1>2 DEF vars, counts, Bounded, Active
<1>3. CASE \E n \in Nodes, f \in Files : Write(n, f)
  BY <1>3 DEF Write, Bounded, Active
<1>4. ASSUME NEW p \in Procs, Active(p),
             Start(p) \/ Backup(p) \/ Reconcile(p) \/ LockFault(p) \/ Fault(p) \/ RestoreFault(p) \/ Kill(p)
      PROVE  Bounded' /\ setting' = setting
  <2>1. Bounds(p)
    BY <1>4, StepBounds
  <2>2. \A q \in Procs : act'[q].pc # "idle" => Active(q)'
    BY <1>4, <2>1 DEF Bounds, Bounded, Active
  <2> QED BY <1>1, <2>1, <2>2 DEF Bounds, Bounded
<1> QED BY <1>2, <1>3, <1>4 DEF Next

LEMMA DStart ==
  ASSUME Init
  PROVE  DInv
<1>1. IInv
  BY Start0
<1>2. setting \in Setting /\ lost = 0 /\ kills = 0 /\ setting.lost \in Nat /\ setting.kills \in Nat
  BY BackupAssumption DEF Init, Setting
<1>3. \A p \in Procs : act[p] = Idle
  BY DEF Init
<1>4. Bounded
  BY <1>2, <1>3, IdleIs DEF Bounded
<1>5. Claimed
  BY DEF Init, Claimed
<1>6. Known
  <2>1. ASSUME NEW n \in Nodes, local[n] # None PROVE local[n].doc = shared.doc
    BY <2>1 DEF Init
  <2> QED BY <2>1 DEF Known, Knows
<1>7. \A p \in Procs : Recorded(p)
  BY <1>3, IdleIs DEF Recorded, Underway, Restored
<1> QED BY <1>1, <1>4, <1>5, <1>6, <1>7 DEF DInv

LEMMA DStep ==
  ASSUME DInv, [Next]_vars
  PROVE  DInv'
<1>1. IInv'
  BY StepKeeps DEF DInv
<1>2. Bounded' /\ (Disciplined' => Disciplined)
  BY BoundedKept DEF Disciplined
<1>3. Disciplined => Promised
  BY <1>1, StepPromised
<1> QED BY <1>1, <1>2, <1>3 DEF DInv, Promised

LEMMA DInvariance == Spec => []DInv
BY DStart, DStep, PTL DEF Spec

\* Only a restore of an existing copy is a step into a restore.
LEMMA IntoRestore ==
  ASSUME DInv, Next, NEW p \in Procs, act[p].kind # "restore", act'[p].kind = "restore"
  PROVE  Active(p) /\ RestoreExisting(p)
<1>1. act \in [Procs -> Op] /\ act[p] \in Op
  BY Fields DEF DInv, IInv, Types, TypeOK
<1>2. CASE \E n \in Nodes, f \in Files : Write(n, f)
  BY <1>2 DEF Write
<1>3. ASSUME NEW q \in Procs, Active(q),
             Start(q) \/ Backup(q) \/ Reconcile(q) \/ LockFault(q) \/ Fault(q) \/ RestoreFault(q) \/ Kill(q)
      PROVE  Active(p) /\ RestoreExisting(p)
  <2>1. q = p
    BY <1>3, StepBounds DEF Bounds, DInv
  <2>2. ASSUME NEW b, NEW m, Raise(p, b, m) PROVE FALSE
    BY <1>1, <2>2, IdleIs DEF Raise, Op
  <2>3. ASSUME NEW x \in Op, x.kind # "restore", act' = [act EXCEPT ![p] = x] PROVE FALSE
    BY <1>1, <2>3
  <2>4. ~Start(p)
    <3>1. SUFFICES ASSUME Start(p) PROVE FALSE
      OBVIOUS
    <3>2. ops + 1 \in Nat
      BY DEF DInv, IInv, Types
    <3> DEFINE x == [Idle EXCEPT !.pc = "try", !.kind = "backup", !.id = ops + 1, !.try = 1]
    <3>3. x \in Op /\ x.kind = "backup"
      BY <3>2, IdleIs, BegunIs
    <3>4. act' = [act EXCEPT ![p] = x]
      BY <3>1 DEF Start
    <3> HIDE DEF x
    <3> QED BY <2>3, <3>3, <3>4
  <2>5. ~LockFault(p) /\ ~Kill(p) /\ ~RestoreFault(p) /\ ~Fault(p)
    BY <1>1, <2>2, <2>3, IdleIs DEF LockFault, Kill, RestoreFault, Fault
  <2>6. ~Attempt(p)
    <3>1. ASSUME NEW t, act' = [act EXCEPT ![p] = [act[p] EXCEPT !.pc = "copy", !.tgt = t, !.todo = Files, !.base = local[p[1]].doc]]
          PROVE  FALSE
      BY <1>1, <3>1 DEF Op
    <3>2. ASSUME act' = [act EXCEPT ![p] = [act[p] EXCEPT !.pc = "unmark", !.tgt = shared.doc, !.base = local[p[1]].doc]]
          PROVE  FALSE
      BY <1>1, <3>2 DEF Op
    <3> QED BY <2>2, <3>1, <3>2 DEF Attempt, Publish
  <2>7. ~WriteShared(p) /\ ~CompletePublication(p) /\ ~RestoreState(p)
    BY <1>1 DEF WriteShared, CompletePublication, RestoreState, Op
  <2>8. ~WriteLocal(p) /\ ~RestoreDone(p) /\ ~RestoreNew(p)
    BY <1>1, IdleIs DEF WriteLocal, RestoreDone, RestoreNew
  <2>9. ASSUME NEW f \in Files PROVE ~CopyFile(p, f) /\ ~RestoreFile(p, f)
    <3>1. ASSUME NEW z \in {"state", "rstate"},
                 act' = [act EXCEPT ![p].todo = @ \ {f}, ![p].pc = IF act[p].todo = {f} THEN z ELSE @]
          PROVE  FALSE
      BY <1>1, <3>1 DEF Op
    <3> QED BY <3>1 DEF CopyFile, RestoreFile
  <2>10. ~Recognize(p)
    <3>1. ASSUME NEW i, act' = [act EXCEPT ![p] = [Idle EXCEPT !.pc = "unmark", !.kind = "repair", !.id = i, !.tgt = shared.doc]]
          PROVE  FALSE
      BY <1>1, <3>1, IdleIs DEF Op
    <3> QED BY <3>1 DEF Recognize
  <2>11. ~Repair(p)
    <3> DEFINE c == [Idle EXCEPT !.kind = "repair", !.id = local[p[1]].att]
    <3>1. SUFFICES ASSUME Repair(p) PROVE FALSE
      OBVIOUS
    <3>2. local[p[1]].att \in Nat
      BY <3>1, Fields DEF Repair, DInv, IInv
    <3>3. c \in Op /\ c.kind = "repair"
      BY <3>2, IdleIs DEF Op
    <3>4. \E t : act' = [act EXCEPT ![p] = [c EXCEPT !.pc = "copy", !.tgt = t, !.todo = Files, !.base = local[p[1]].doc]]
      BY <3>1 DEF Repair, Publish
    <3> HIDE DEF c
    <3> QED BY <1>1, <3>3, <3>4 DEF Op
  <2> QED BY <1>3, <2>1, <2>4, <2>5, <2>6, <2>7, <2>8, <2>9, <2>10, <2>11 DEF Backup, Reconcile
<1> QED BY <1>2, <1>3 DEF Next

\* Where failed backups are reconciled, one process works on each copy and no failure goes
\* unrecorded, an interrupted capture can be taken up by the node that began it, and a restore
\* never replaces a node's changes by an older capture of its own (_publish_shared_snapshot,
\* _repair_failed_local, _write_failed_state, reconcile_session).
THEOREM FailuresCostNothing == Spec => FailureCostsNothing
<1>1. DInv => InterruptedIsRetryable
  BY DEF DInv, Claimed, Claims, Remembers, InterruptedIsRetryable
<1>2. ASSUME DInv, [Next]_vars, Disciplined, NEW p \in Procs, act[p].kind # "restore", act'[p].kind = "restore",
             dirty[p[1]] # {}
      PROVE  local[p[1]].restore # None \/ capture[shared.doc.gen].by # p[1]
  <2>1. Next
    BY <1>2 DEF vars
  <2>2. Active(p) /\ RestoreExisting(p)
    BY <1>2, <2>1, IntoRestore
  <2>3. SUFFICES ASSUME local[p[1]].restore = None, capture[shared.doc.gen].by = p[1] PROVE FALSE
    OBVIOUS
  <2>4. /\ local[p[1]] # None /\ act[p].pc = "idle" /\ shared.doc.gen > local[p[1]].doc.gen /\ ~Recognizes(local[p[1]])
        /\ shared.doc.gen \in Nat
    BY <1>2, <2>2, <2>3, Fields DEF RestoreExisting, Restores, DInv, IInv
  <2>5. local[p[1]].doc = shared.doc \/ Remembers(local[p[1]], shared.doc)
    BY <1>2, <2>2, <2>3, <2>4, KnowsNode
  <2> QED BY <2>4, <2>5 DEF Remembers, Recognizes, CommittedAttempt
<1>3. DInv /\ [Next]_vars =>
        [Disciplined => \A p \in Procs : act[p].kind # "restore" /\ act'[p].kind = "restore" /\ dirty[p[1]] # {} =>
           local[p[1]].restore # None \/ capture[shared.doc.gen].by # p[1]]_vars
  BY <1>2
<1> QED BY <1>1, <1>3, DInvariance, PTL DEF Spec, FailureCostsNothing, OwnWritesKept
=============================================================================
