---------------------- MODULE ExecutionAdmission_proofs ----------------------
(***************************************************************************)
(* Proofs about who may run a conversation, for any number of processes,   *)
(* tasks, executions and tools and every deployment: who works on it is    *)
(* named by the control file, a turn that begins leaves no subprocess of   *)
(* another behind, and a conversation at rest is never locked.             *)
(***************************************************************************)
EXTENDS ExecutionAdmission, TLAPS

-----------------------------------------------------------------------------
(* The inductive invariant.                                                *)

\* A request that has published its controller and not installed it yet, and
\* one that carries a controller at all.
Published(w) == req[w] # None /\ req[w].st \in {"claimed", "activated"}
Carries(w) == req[w] # None /\ req[w].st \in {"claim", "activate", "claimed", "activated"}

\* A new controller is at work and neither waits, hands over nor ends.
Fresh(c) ==
  /\ c.st = "busy" /\ c.card = "none" /\ c.handoff = "none"
  /\ ~c.background /\ ~c.tool /\ ~c.natural /\ c.persisted = 0

Types ==
  /\ TypeOK /\ setting \in Setting
  /\ \A w \in Workers : ctl[w] # None \/ req[w] # None => w \in alive
  /\ \A w \in Workers : Carries(w) => req[w].new \in Control /\ Fresh(req[w].new)
  /\ \A w \in Workers : req[w] # None /\ req[w].st \in {"reserved", "activate", "activated"}
                          => req[w].ticket \in Ticket

\* Which process an execution belongs to, as far as anybody knows.
Names ==
  (IF disk = None THEN {} ELSE {<<disk.exec, disk.server>>})
    \cup {<<ctl[w].exec, w>> : w \in {v \in Workers : Has(v)}}
    \cup {<<req[w].new.exec, w>> : w \in {v \in Workers : Carries(v)}}
    \cup {<<req[w].old.exec, req[w].old.server>> : w \in {v \in Workers : Published(v) /\ req[v].old # None}}

Named ==
  /\ \A x, y \in Names : x[1] = y[1] => x[2] = y[2]
  /\ \A x \in Names : x[1] <= execs
  /\ \A w \in Workers : Has(w) /\ Carries(w) => req[w].new.exec # ctl[w].exec

\* What a controller may be: one that hands over has nothing at work and does
\* not complete by itself, and one that ended has nothing at work.
Sane(c) ==
  /\ c.handoff # "none" => c.st # "busy" /\ ~c.background /\ ~c.tool /\ ~c.natural
  /\ c.natural /\ c.st \in {"busy", "idle"} => c.st = "idle" /\ ~c.background /\ ~c.tool
  /\ c.st = "ended" => ~c.background /\ ~c.tool

\* A controller that was renamed with its card left behind: the control file
\* does not know its execution, nor does one that could be put back.
Rolled(c) == c.card # "none" /\ (c.natural \/ c.st = "busy")
Unknown(e) ==
  /\ disk.exec # e
  /\ \A w \in Workers : Published(w) => req[w].old.exec # e

Controllers ==
  \A w \in Workers : Has(w) => Sane(ctl[w]) /\ (Rolled(ctl[w]) => Unknown(ctl[w].exec))

\* A controller that has work, or may take it up again without asking.
Owns(c) == HasWork(c) \/ (c.st = "idle" /\ ~c.durable)
\* A control file that no other process may replace while w lives.
Guards(w, d) == d # None /\ d.server = w /\ d.st # "ended" /\ ~d.ready

\* A published controller is in the control file until it is installed or
\* withdrawn, and what is put back then guards the old one.
Publication ==
  /\ \A w \in Workers : Published(w) =>
       /\ disk = Snapshot(w, req[w].new) /\ req[w].old \in Doc \cup {None}
       /\ \A v \in Workers : Has(v) => req[w].old # None
       /\ Has(w) /\ Owns(ctl[w]) => Guards(w, req[w].old)
  /\ \A w \in Workers : Has(w) => disk # None

Ownership == \A w \in Workers : Has(w) /\ Owns(ctl[w]) => Guards(w, disk)

\* A stop took back the handoff in the control file, and there it stays.
Stopping(w) ==
  /\ disk.exec = ctl[w].exec /\ Guards(w, disk)
  /\ disk.handoff # "none" /\ disk.st \in {"busy", "idle"}
Stops == \A w \in Workers : Has(w) /\ ctl[w].st = "ending" /\ ctl[w].handoff # "none" => Stopping(w)

IInv == Types /\ Named /\ Controllers /\ Publication /\ Ownership /\ Stops

-----------------------------------------------------------------------------
(* Controllers and documents.                                              *)

LEMMA SnapshotType ==
  ASSUME NEW w \in Workers, NEW c \in Control
  PROVE  /\ Snapshot(w, c) \in Doc /\ Snapshot(w, c) # None
         /\ Snapshot(w, c).exec = c.exec /\ Snapshot(w, c).server = w /\ Snapshot(w, c).st = c.st
         /\ Snapshot(w, c).ready <=> Ready(c)
         /\ c.st \in {"busy", "idle"} => Snapshot(w, c).handoff = c.handoff
<1>1. Ready(c) \in BOOLEAN
  BY DEF Ready
<1>2. Snapshot(w, c) \in Doc
  BY <1>1 DEF Snapshot, Doc, Control
<1> QED BY <1>2, AdmissionAssumption DEF Snapshot

\* A controller that owns the conversation does not publish that it gave way.
LEMMA OwnerIsNotReady ==
  ASSUME NEW c \in Control, Owns(c), Sane(c)
  PROVE  ~Ready(c) /\ c.st # "ended"
BY DEF Owns, Sane, Ready, Drained, HasWork, Control

\* The document of a new controller guards it.
LEMMA FreshGuards ==
  ASSUME NEW w \in Workers, NEW c \in Control, Fresh(c)
  PROVE  Guards(w, Snapshot(w, c)) /\ Sane(c) /\ ~Rolled(c)
BY SnapshotType DEF Fresh, Guards, Sane, Rolled, Ready, Drained, HasWork

-----------------------------------------------------------------------------
(* Steps that name no execution and publish or install no controller.      *)

\* Only process w moves.
LocalTypes(w) ==
  /\ setting' = setting /\ execs' = execs
  /\ ticket' \in Ticket \cup {None} /\ children' \subseteq Workers /\ waiting' \in Tasks \cup {None}
  /\ proof' \in 0..execs /\ tools' \in 0..setting.tools
  /\ alive' \subseteq alive /\ \A v \in Workers \ {w} : v \in alive => v \in alive'
  /\ ctl' \in [Workers -> Control \cup {None}] /\ req' \in [Workers -> Request \cup {None}]
  /\ \A v \in Workers \ {w} : ctl'[v] = ctl[v] /\ req'[v] = req[v]
  /\ ctl'[w] # None \/ req'[w] # None => w \in alive'
  /\ ctl'[w] # None => ctl'[w].persisted <= ctl'[w].rev

\* Its request carries no new controller and no news of one.
LocalRequest(w) ==
  \/ req'[w] = req[w]
  \/ ~Carries(w)' /\ (req'[w] # None /\ req'[w].st = "reserved" => req'[w].ticket \in Ticket)

\* Its controller goes on, and writes the control file only as its own.
Goes(w, c) ==
  /\ Has(w) /\ c.exec = ctl[w].exec /\ Sane(c) /\ (Rolled(c) => Rolled(ctl[w]))
  /\ \/ disk' = disk
     \/ /\ disk # None /\ disk.exec = ctl[w].exec
        /\ disk' \in Doc /\ disk'.exec = ctl[w].exec /\ disk'.server = w
  /\ Owns(c) => Owns(ctl[w]) /\ (disk' = disk \/ Guards(w, disk'))
  /\ c.st = "ending" /\ c.handoff # "none" =>
       /\ disk'.exec = c.exec /\ Guards(w, disk')
       /\ disk'.handoff # "none" /\ disk'.st \in {"busy", "idle"}

Local(w) ==
  /\ LocalTypes(w) /\ LocalRequest(w)
  /\ (ctl'[w] \in {ctl[w], None} /\ disk' = disk) \/ Goes(w, ctl'[w])

\* What the names say: an execution belongs to one process.
LEMMA NamesOf ==
  ASSUME IInv
  PROVE  /\ disk # None => <<disk.exec, disk.server>> \in Names
         /\ \A w \in Workers : Has(w) => <<ctl[w].exec, w>> \in Names
         /\ \A w \in Workers : Carries(w) => <<req[w].new.exec, w>> \in Names
         /\ \A w \in Workers : Published(w) /\ req[w].old # None => <<req[w].old.exec, req[w].old.server>> \in Names
         /\ \A w, v \in Workers : Has(w) /\ Has(v) /\ ctl[w].exec = ctl[v].exec => w = v
         /\ \A w, v \in Workers : Has(w) /\ Carries(v) => ctl[w].exec # req[v].new.exec
         /\ \A w \in Workers : Has(w) /\ disk # None /\ disk.exec = ctl[w].exec => disk.server = w
<1>1. /\ disk # None => <<disk.exec, disk.server>> \in Names
      /\ \A w \in Workers : Has(w) => <<ctl[w].exec, w>> \in Names
      /\ \A w \in Workers : Carries(w) => <<req[w].new.exec, w>> \in Names
      /\ \A w \in Workers : Published(w) /\ req[w].old # None => <<req[w].old.exec, req[w].old.server>> \in Names
  BY DEF Names
<1>2. \A x, y \in Names : x[1] = y[1] => x[2] = y[2]
  BY DEF IInv, Named
<1>3. \A w, v \in Workers : Has(w) /\ Has(v) /\ ctl[w].exec = ctl[v].exec => w = v
  BY <1>1, <1>2
<1>4. \A w, v \in Workers : Has(w) /\ Carries(v) => ctl[w].exec # req[v].new.exec
  <2> SUFFICES ASSUME NEW w \in Workers, NEW v \in Workers, Has(w), Carries(v),
                      ctl[w].exec = req[v].new.exec
               PROVE  FALSE
    OBVIOUS
  <2>1. w = v
    BY <1>1, <1>2
  <2> QED BY <2>1 DEF IInv, Named
<1>5. \A w \in Workers : Has(w) /\ disk # None /\ disk.exec = ctl[w].exec => disk.server = w
  BY <1>1, <1>2
<1> QED BY <1>1, <1>3, <1>4, <1>5

\* A published controller is the one in the control file.
LEMMA PublishedIs ==
  ASSUME IInv, NEW w \in Workers, Published(w)
  PROVE  /\ Carries(w) /\ w \in alive /\ disk # None /\ disk.server = w /\ disk.exec = req[w].new.exec
         /\ Guards(w, disk) /\ req[w].new \in Control /\ Fresh(req[w].new)
<1>1. Carries(w) /\ w \in alive
  BY DEF Published, Carries, IInv, Types
<1>2. req[w].new \in Control /\ Fresh(req[w].new) /\ disk = Snapshot(w, req[w].new)
  BY <1>1 DEF IInv, Types, Publication
<1> QED BY <1>1, <1>2, SnapshotType, FreshGuards
\* A step of one process by itself keeps the invariant.
LEMMA LocalKeeps ==
  ASSUME IInv, NEW w \in Workers, Local(w)
  PROVE  IInv'
<1>1. /\ \A v \in Workers : v # w => ctl'[v] = ctl[v] /\ req'[v] = req[v]
      /\ setting' = setting /\ execs' = execs
  BY DEF Local, LocalTypes
<1>2. (ctl'[w] \in {ctl[w], None} /\ disk' = disk) \/ Goes(w, ctl'[w])
  BY DEF Local
<1>3. \A v \in Workers : Has(v)' => Has(v) /\ ctl'[v].exec = ctl[v].exec
  BY <1>1, <1>2 DEF Has, Goes
<1>4. \A v \in Workers : Carries(v)' => Carries(v) /\ req'[v] = req[v]
  BY <1>1 DEF Local, LocalRequest, Carries
<1>5. \A v \in Workers : Published(v)' => Published(v) /\ req'[v] = req[v]
  BY <1>4 DEF Published, Carries
<1>6. disk' = disk \/ (Has(w) /\ disk # None /\ disk.exec = ctl[w].exec /\ disk' \in Doc
                        /\ disk'.exec = ctl[w].exec /\ disk'.server = w)
  BY <1>2 DEF Goes
<1>7. disk' # disk => disk.server = w /\ disk' # None /\ \A v \in Workers : ~Published(v)
  BY <1>6, NamesOf, PublishedIs, AdmissionAssumption
<1>8. Types'
  <2>1. /\ alive' \subseteq alive /\ \A v \in Workers \ {w} : v \in alive => v \in alive'
        /\ ctl'[w] # None \/ req'[w] # None => w \in alive'
        /\ ctl'[w] # None => ctl'[w].persisted <= ctl'[w].rev
    BY DEF Local, LocalTypes
  <2>2. \A v \in Workers : ctl'[v] # None => ctl'[v].persisted <= ctl'[v].rev
    BY <1>1, <2>1 DEF IInv, Types, TypeOK
  <2>3. disk' \in Doc \cup {None}
    BY <1>6 DEF IInv, Types, TypeOK
  <2>4. TypeOK'
    BY <2>1, <2>2, <2>3 DEF Local, LocalTypes, IInv, Types, TypeOK
  <2>5. \A v \in Workers : ctl'[v] # None \/ req'[v] # None => v \in alive'
    BY <1>1, <2>1 DEF IInv, Types
  <2>6. \A v \in Workers : Carries(v)' => req'[v].new \in Control /\ Fresh(req'[v].new)
    BY <1>4 DEF IInv, Types
  <2>7. \A v \in Workers : req'[v] # None /\ req'[v].st \in {"reserved", "activate", "activated"}
                             => req'[v].ticket \in Ticket
    <3> SUFFICES ASSUME NEW v \in Workers, req'[v] # None, req'[v].st \in {"reserved", "activate", "activated"}
                 PROVE  req'[v].ticket \in Ticket
      OBVIOUS
    <3>1. CASE req'[v] = req[v]
      BY <3>1 DEF IInv, Types
    <3>2. CASE req'[v] # req[v]
      BY <1>1, <3>2 DEF Local, LocalRequest, Carries
    <3> QED BY <3>1, <3>2
  <2>8. \A v \in Workers : Fresh(req[v].new)' <=> Fresh(req'[v].new)
    BY DEF Fresh
  <2> QED BY <1>1, <2>4, <2>5, <2>6, <2>7, <2>8 DEF IInv, Types
<1>9. Named'
  <2>1. disk' # None => <<disk'.exec, disk'.server>> \in Names
    BY <1>6, NamesOf
  <2>2. \A v \in Workers : Has(v)' => <<ctl'[v].exec, v>> \in Names
    BY <1>3, NamesOf
  <2>3. \A v \in Workers : Carries(v)' => <<req'[v].new.exec, v>> \in Names
    BY <1>4, NamesOf
  <2>4. \A v \in Workers : Published(v)' /\ req'[v].old # None => <<req'[v].old.exec, req'[v].old.server>> \in Names
    BY <1>5, NamesOf
  <2>5. Names' \subseteq Names
    BY <2>1, <2>2, <2>3, <2>4 DEF Names
  <2>6. \A v \in Workers : Has(v)' /\ Carries(v)' => req'[v].new.exec # ctl'[v].exec
    BY <1>3, <1>4 DEF IInv, Named
  <2> QED BY <1>1, <2>5, <2>6 DEF IInv, Named
<1>10. Controllers'
  <2> SUFFICES ASSUME NEW v \in Workers, Has(v)'
               PROVE  /\ Sane(ctl'[v])
                      /\ Rolled(ctl'[v]) =>
                           /\ disk'.exec # ctl'[v].exec
                           /\ \A u \in Workers : Published(u)' => req'[u].old.exec # ctl'[v].exec
    BY DEF Controllers, Sane, Rolled, Unknown
  <2>1. Sane(ctl'[v]) /\ (Rolled(ctl'[v]) => Rolled(ctl[v]))
    <3>1. CASE ctl'[v] = ctl[v]
      BY <1>3, <3>1 DEF IInv, Controllers
    <3>2. CASE ctl'[v] # ctl[v]
      BY <1>1, <1>2, <3>2 DEF Goes, Has
    <3> QED BY <3>1, <3>2
  <2>2. ASSUME Rolled(ctl'[v])
        PROVE  /\ disk'.exec # ctl'[v].exec
               /\ \A u \in Workers : Published(u)' => req'[u].old.exec # ctl'[v].exec
    <3>1. Unknown(ctl[v].exec) /\ ctl'[v].exec = ctl[v].exec /\ Has(v)
      BY <1>3, <2>1, <2>2 DEF IInv, Controllers
    <3>2. disk'.exec # ctl[v].exec
      <4>1. CASE disk' = disk
        BY <3>1, <4>1 DEF Unknown
      <4>2. CASE disk' # disk
        BY <1>6, <3>1, <4>2 DEF Unknown
      <4> QED BY <4>1, <4>2
    <3> QED BY <1>5, <3>1, <3>2 DEF Unknown
  <2> QED BY <2>1, <2>2
<1>11. \A v \in Workers : Has(v)' /\ Owns(ctl'[v]) => Has(v) /\ Owns(ctl[v])
  <2> SUFFICES ASSUME NEW v \in Workers, Has(v)', Owns(ctl'[v])
               PROVE  Owns(ctl[v])
    BY <1>3
  <2> QED BY <1>1, <1>2 DEF Goes, Has
<1>12. Publication'
  <2>1. \A v \in Workers : Has(v)' => disk' # None
    BY <1>3, <1>7 DEF IInv, Publication
  <2>2. ASSUME NEW v \in Workers, Published(v)'
        PROVE  /\ disk' = Snapshot(v, req[v].new) /\ req[v].old \in Doc \cup {None}
               /\ \A u \in Workers : Has(u) => req[v].old # None
               /\ Has(v) /\ Owns(ctl[v]) => Guards(v, req[v].old)
    BY <1>5, <1>7, <2>2 DEF IInv, Publication
  <2>3. ASSUME NEW v \in Workers, Published(v)'
        PROVE  /\ disk' = Snapshot(v, req'[v].new) /\ req'[v].old \in Doc \cup {None}
               /\ \A u \in Workers : Has(u)' => req'[v].old # None
               /\ Has(v)' /\ Owns(ctl'[v]) => Guards(v, req'[v].old)
    BY <1>3, <1>5, <1>11, <2>2, <2>3
  <2> QED BY <2>1, <2>3 DEF Publication, Snapshot, Ready, Drained, HasWork, Owns, Guards
<1>13. Ownership'
  <2> SUFFICES ASSUME NEW v \in Workers, Has(v)', Owns(ctl'[v])
               PROVE  Guards(v, disk')
    BY DEF Ownership, Owns, HasWork, Guards
  <2>1. Guards(v, disk)
    BY <1>11 DEF IInv, Ownership
  <2>2. CASE disk' = disk
    BY <2>1, <2>2
  <2>3. CASE disk' # disk
    <3>1. v = w
      BY <1>7, <2>1, <2>3 DEF Guards
    <3> QED BY <1>2, <2>3, <3>1 DEF Goes
  <2> QED BY <2>2, <2>3
<1>14. Stops'
  <2> SUFFICES ASSUME NEW v \in Workers, Has(v)', ctl'[v].st = "ending", ctl'[v].handoff # "none"
               PROVE  /\ disk'.exec = ctl'[v].exec /\ Guards(v, disk')
                      /\ disk'.handoff # "none" /\ disk'.st \in {"busy", "idle"}
    BY DEF Stops, Stopping, Guards
  <2>1. CASE ctl'[v] = ctl[v] /\ disk' = disk
    BY <1>3, <2>1 DEF IInv, Stops, Stopping
  <2>2. CASE v = w /\ Goes(w, ctl'[w])
    BY <2>2 DEF Goes
  <2>3. CASE v # w /\ disk' # disk
    <3>1. ctl'[v] = ctl[v] /\ Has(v) /\ Guards(v, disk)
      BY <1>1, <1>3, <2>3 DEF IInv, Stops, Stopping
    <3> QED BY <1>7, <2>3, <3>1 DEF Guards
  <2> QED BY <1>1, <1>2, <2>1, <2>2, <2>3 DEF Has
<1> QED BY <1>8, <1>9, <1>10, <1>12, <1>13, <1>14 DEF IInv

-----------------------------------------------------------------------------
(* One process at work on its own controller.                              *)

\* Only the entries of w change, to values of their types.
LEMMA StillTypes ==
  ASSUME IInv, NEW w \in Workers, w \in alive, UNCHANGED <<setting, alive, execs>>,
         ticket' \in Ticket \cup {None}, children' \subseteq Workers, waiting' \in Tasks \cup {None},
         proof' \in 0..execs, tools' \in 0..setting.tools,
         NEW c \in Control \cup {None}, ctl' = [ctl EXCEPT ![w] = c], c # None => c.persisted <= c.rev,
         NEW r \in Request \cup {None}, req' = [req EXCEPT ![w] = r]
  PROVE  LocalTypes(w) /\ ctl'[w] = c /\ req'[w] = r
<1>1. ctl \in [Workers -> Control \cup {None}] /\ req \in [Workers -> Request \cup {None}]
  BY DEF IInv, Types, TypeOK
<1>2. /\ ctl' \in [Workers -> Control \cup {None}] /\ req' \in [Workers -> Request \cup {None}]
      /\ ctl'[w] = c /\ req'[w] = r
      /\ \A v \in Workers \ {w} : ctl'[v] = ctl[v] /\ req'[v] = req[v]
  BY <1>1
<1> QED BY <1>2 DEF LocalTypes

\* What the types say of one process.
LEMMA TypesOf ==
  ASSUME IInv, NEW w \in Workers
  PROVE  /\ ctl[w] \in Control \cup {None} /\ req[w] \in Request \cup {None}
         /\ ctl = [ctl EXCEPT ![w] = ctl[w]] /\ req = [req EXCEPT ![w] = req[w]]
         /\ Has(w) => /\ ctl[w] \in Control /\ w \in alive /\ ctl[w].persisted <= ctl[w].rev
                      /\ disk # None /\ disk \in Doc /\ Sane(ctl[w])
         /\ req[w] # None => req[w] \in Request /\ w \in alive
         /\ ticket \in Ticket \cup {None} /\ children \subseteq Workers /\ waiting \in Tasks \cup {None}
         /\ proof \in 0..execs /\ tools \in 0..setting.tools /\ execs \in Nat /\ setting \in Setting
<1>1. ctl \in [Workers -> Control \cup {None}] /\ req \in [Workers -> Request \cup {None}]
  BY DEF IInv, Types, TypeOK
<1>2. /\ ticket \in Ticket \cup {None} /\ children \subseteq Workers /\ waiting \in Tasks \cup {None}
      /\ proof \in 0..execs /\ tools \in 0..setting.tools /\ execs \in Nat /\ setting \in Setting
      /\ disk \in Doc \cup {None}
  BY DEF IInv, Types, TypeOK, Setting
<1>3. Has(w) => disk # None /\ Sane(ctl[w]) /\ w \in alive /\ ctl[w].persisted <= ctl[w].rev
  BY DEF IInv, Publication, Controllers, Types, TypeOK, Has
<1>4. req[w] # None => w \in alive
  BY DEF IInv, Types
<1> QED BY <1>1, <1>2, <1>3, <1>4 DEF Has

\* A controller that goes on, its request as it was.
LEMMA GoesOn ==
  ASSUME IInv, NEW w \in Workers, NEW c \in Control, c.persisted <= c.rev, Goes(w, c),
         ctl' = [ctl EXCEPT ![w] = c], UNCHANGED <<setting, ticket, alive, req, execs>>,
         children' \subseteq Workers, waiting' \in Tasks \cup {None}, proof' \in 0..execs, tools' \in 0..setting.tools
  PROVE  IInv'
<1>1. Has(w)
  BY DEF Goes
<1>2. LocalTypes(w) /\ ctl'[w] = c /\ req'[w] = req[w]
  BY <1>1, TypesOf, StillTypes
<1>3. Local(w)
  BY <1>2 DEF Local, LocalRequest
<1> QED BY <1>3, LocalKeeps

\* _persist_snapshot of a controller that goes on.
LEMMA PersistGoes ==
  ASSUME IInv, NEW w \in Workers, Has(w), NEW c \in Control, c.exec = ctl[w].exec, c.persisted <= c.rev,
         Sane(c), Rolled(c) => Rolled(ctl[w]), Owns(c) => Owns(ctl[w]),
         ~(c.st = "ending" /\ c.handoff # "none"), Persist(w, c)
  PROVE  \E d \in Control : ctl' = [ctl EXCEPT ![w] = d] /\ d.persisted <= d.rev /\ Goes(w, d)
<1> DEFINE stale == c.rev <= c.persisted
           mine == disk = None \/ disk.exec = c.exec
           p == IF mine /\ ~stale THEN c.rev ELSE c.persisted
           d == [c EXCEPT !.persisted = p]
<1>1. ctl' = [ctl EXCEPT ![w] = d]
  BY DEF Persist
<1>2. p \in Nat /\ p <= c.rev
  BY DEF Control
<1> HIDE DEF p
<1>3. d \in Control /\ d.persisted = p /\ d.rev = c.rev /\ d.exec = c.exec /\ d.st = c.st /\ d.handoff = c.handoff
      /\ d.background = c.background /\ d.tool = c.tool /\ d.natural = c.natural /\ d.card = c.card /\ d.durable = c.durable
  BY <1>2 DEF Control
<1> HIDE DEF d
<1>4. Sane(d) /\ (Rolled(d) <=> Rolled(c)) /\ (Owns(d) <=> Owns(c))
  BY <1>3 DEF Sane, Rolled, Owns, HasWork
<1>5. disk' = disk \/ (disk.exec = c.exec /\ disk' = Snapshot(w, c))
  BY TypesOf DEF Persist, CurrentOwner
<1>6. Owns(c) => Guards(w, Snapshot(w, c))
  BY SnapshotType, OwnerIsNotReady DEF Guards
<1>7. Goes(w, d)
  BY <1>3, <1>4, <1>5, <1>6, TypesOf, SnapshotType DEF Goes
<1> QED BY <1>1, <1>2, <1>3, <1>7

-----------------------------------------------------------------------------
(* The steps of a controller at work.                                      *)

LEMMA DomainOf == ASSUME IInv PROVE DOMAIN ctl = Workers
BY DEF IInv, Types, TypeOK

\* The next revision of a controller.
LEMMA Later ==
  ASSUME NEW c \in Control, c.persisted <= c.rev
  PROVE  c.rev + 1 \in Nat /\ c.persisted <= c.rev + 1 /\ c.rev <= c.rev + 1
<1>1. c.rev \in Nat /\ c.persisted \in Nat
  BY DEF Control
<1> QED BY <1>1

LEMMA SpawnKeeps == ASSUME IInv, NEW w \in Workers, Spawn(w) PROVE IInv'
<1> DEFINE c == [ctl[w] EXCEPT !.background = TRUE]
<1>1. ctl[w] \in Control /\ ctl[w].st = "busy" /\ Has(w) /\ Sane(ctl[w]) /\ ctl[w].persisted <= ctl[w].rev
  BY TypesOf DEF Spawn
<1>2. /\ c \in Control /\ c.persisted = ctl[w].persisted /\ c.rev = ctl[w].rev /\ c.exec = ctl[w].exec /\ c.st = "busy"
      /\ c.handoff = ctl[w].handoff /\ c.natural = ctl[w].natural /\ c.card = ctl[w].card
  BY <1>1 DEF Control
<1>3. ctl' = [ctl EXCEPT ![w] = c]
  BY DEF Spawn
<1> HIDE DEF c
<1>4. Goes(w, c)
  BY <1>1, <1>2 DEF Goes, Sane, Rolled, Owns, HasWork, Spawn, files
<1> QED BY <1>1, <1>2, <1>3, <1>4, TypesOf, GoesOn DEF Spawn, files

LEMMA SpawnEndsKeeps == ASSUME IInv, NEW w \in Workers, SpawnEnds(w) PROVE IInv'
<1> DEFINE c == [ctl[w] EXCEPT !.background = FALSE]
<1>1. ctl[w] \in Control /\ ctl[w].background /\ Has(w) /\ Sane(ctl[w]) /\ ctl[w].persisted <= ctl[w].rev
  BY TypesOf DEF SpawnEnds
<1>2. /\ c \in Control /\ c.persisted = ctl[w].persisted /\ c.rev = ctl[w].rev /\ c.exec = ctl[w].exec
      /\ c.st = ctl[w].st /\ c.tool = ctl[w].tool /\ ~c.background
      /\ c.handoff = ctl[w].handoff /\ c.natural = ctl[w].natural /\ c.card = ctl[w].card
  BY <1>1 DEF Control
<1>3. ctl' = [ctl EXCEPT ![w] = c]
  BY DEF SpawnEnds
<1> HIDE DEF c
<1>4. Goes(w, c)
  BY <1>1, <1>2 DEF Goes, Sane, Rolled, Owns, HasWork, SpawnEnds, files
<1> QED BY <1>1, <1>2, <1>3, <1>4, TypesOf, GoesOn DEF SpawnEnds, files

LEMMA SuspendKeeps == ASSUME IInv, NEW w \in Workers, Suspend(w) PROVE IInv'
<1> DEFINE c == [[ctl[w] EXCEPT !.card = "suspended"] EXCEPT !.local = ~setting.shared]
<1>1. /\ ctl[w] \in Control /\ ctl[w].card = "bound" /\ Drained(ctl[w]) /\ Has(w) /\ Sane(ctl[w])
      /\ ctl[w].persisted <= ctl[w].rev
  BY TypesOf DEF Suspend
<1>2. /\ c \in Control /\ c.persisted = ctl[w].persisted /\ c.rev = ctl[w].rev /\ c.exec = ctl[w].exec
      /\ c.st = ctl[w].st /\ c.tool = ctl[w].tool /\ c.background = ctl[w].background /\ c.durable = ctl[w].durable
      /\ c.handoff = ctl[w].handoff /\ c.natural = ctl[w].natural /\ c.card # "none"
  BY <1>1 DEF Control
<1>3. ctl' = [ctl EXCEPT ![w] = c]
  BY <1>1, DomainOf DEF Suspend
<1> HIDE DEF c
<1>4. Goes(w, c)
  BY <1>1, <1>2 DEF Goes, Sane, Rolled, Owns, HasWork, Drained, Suspend, files
<1> QED BY <1>1, <1>2, <1>3, <1>4, TypesOf, GoesOn DEF Suspend, files

LEMMA ReuseKeeps == ASSUME IInv, NEW w \in Workers, NEW t \in Tasks, Reuse(w, t) PROVE IInv'
<1> DEFINE c == [[[ctl[w] EXCEPT !.st = "busy"] EXCEPT !.card = "none"] EXCEPT !.natural = FALSE]
<1>1. /\ ctl[w] \in Control /\ ctl[w].st = "idle" /\ Has(w) /\ Sane(ctl[w])
      /\ ctl[w].persisted <= ctl[w].rev /\ ~Ready(ctl[w]) /\ ~NeedsAdmission(ctl[w])
  BY TypesOf DEF Reuse, Reuses, Refused
<1>2. /\ c \in Control /\ c.persisted = ctl[w].persisted /\ c.rev = ctl[w].rev /\ c.exec = ctl[w].exec
      /\ c.st = "busy" /\ c.handoff = ctl[w].handoff /\ ~c.natural /\ c.card = "none"
  BY <1>1 DEF Control
<1>3. ctl' = [ctl EXCEPT ![w] = c]
  BY <1>1, DomainOf DEF Reuse
<1> HIDE DEF c
<1>4. ctl[w].handoff = "none" /\ Owns(ctl[w])
  BY <1>1 DEF NeedsAdmission, Ready, Owns, HasWork, Drained
<1>5. Goes(w, c)
  BY <1>1, <1>2, <1>4 DEF Goes, Sane, Rolled, Reuse, files
<1>6. UNCHANGED <<setting, ticket, alive, req, execs, children, proof, tools>> /\ waiting' \in Tasks \cup {None}
  BY TypesOf DEF Reuse, files
<1> QED BY <1>1, <1>2, <1>3, <1>5, <1>6, TypesOf, GoesOn

LEMMA StartToolKeeps == ASSUME IInv, NEW w \in Workers, StartTool(w) PROVE IInv'
<1> DEFINE r == ctl[w].rev + 1
           c == [[ctl[w] EXCEPT !.tool = TRUE] EXCEPT !.rev = r]
<1>1. /\ ctl[w] \in Control /\ Has(w) /\ Sane(ctl[w]) /\ ctl[w].persisted <= ctl[w].rev
      /\ ctl[w].st \in {"busy", "idle"} /\ HasWork(ctl[w])
  BY TypesOf DEF StartTool
<1>0. r \in Nat /\ ctl[w].persisted <= r
  BY <1>1, Later
<1>2. /\ c \in Control /\ c.persisted <= c.rev /\ c.exec = ctl[w].exec /\ c.st = ctl[w].st
      /\ c.handoff = ctl[w].handoff /\ c.natural = ctl[w].natural /\ c.card = ctl[w].card
  <2> HIDE DEF r
  <2> QED BY <1>0, <1>1 DEF Control
<1>3. Persist(w, c)
  BY <1>1 DEF StartTool, Control
<1> HIDE DEF c
<1>4. Sane(c) /\ (Rolled(c) => Rolled(ctl[w])) /\ Owns(ctl[w]) /\ c.st # "ending"
  BY <1>1, <1>2 DEF Sane, Rolled, Owns, HasWork
<1>5. PICK d \in Control : ctl' = [ctl EXCEPT ![w] = d] /\ d.persisted <= d.rev /\ Goes(w, d)
  BY <1>1, <1>2, <1>3, <1>4, PersistGoes
<1>6. /\ UNCHANGED <<setting, ticket, alive, req, execs, waiting, proof>> /\ children' \subseteq Workers
      /\ tools' \in 0..setting.tools
  <2>1. tools \in 0..setting.tools /\ tools < setting.tools /\ tools' = tools + 1 /\ setting.tools \in Nat
    BY TypesOf DEF StartTool, Setting
  <2>2. tools' \in 0..setting.tools
    BY <2>1
  <2> QED BY <2>2, TypesOf DEF StartTool
<1> QED BY <1>5, <1>6, TypesOf, GoesOn

LEMMA EndToolKeeps == ASSUME IInv, NEW w \in Workers, EndTool(w) PROVE IInv'
<1> DEFINE r == ctl[w].rev + 1
           c == [[ctl[w] EXCEPT !.tool = FALSE] EXCEPT !.rev = r]
<1>1. ctl[w] \in Control /\ Has(w) /\ Sane(ctl[w]) /\ ctl[w].persisted <= ctl[w].rev /\ ctl[w].tool
  BY TypesOf DEF EndTool
<1>0. r \in Nat /\ ctl[w].persisted <= r
  BY <1>1, Later
<1>2. /\ c \in Control /\ c.persisted <= c.rev /\ c.exec = ctl[w].exec /\ c.st = ctl[w].st /\ ~c.tool
      /\ c.handoff = ctl[w].handoff /\ c.natural = ctl[w].natural /\ c.card = ctl[w].card
      /\ c.background = ctl[w].background
  <2> HIDE DEF r
  <2> QED BY <1>0, <1>1 DEF Control
<1>3. Persist(w, c)
  BY <1>1 DEF EndTool, Control
<1> HIDE DEF c
<1>4. Sane(c) /\ (Rolled(c) => Rolled(ctl[w])) /\ Owns(ctl[w]) /\ c.handoff = "none"
  BY <1>1, <1>2 DEF Sane, Rolled, Owns, HasWork
<1>5. PICK d \in Control : ctl' = [ctl EXCEPT ![w] = d] /\ d.persisted <= d.rev /\ Goes(w, d)
  BY <1>1, <1>2, <1>3, <1>4, PersistGoes
<1>6. UNCHANGED <<setting, ticket, alive, req, execs, waiting, proof, tools>> /\ children' \subseteq Workers
  BY TypesOf DEF EndTool
<1> QED BY <1>5, <1>6, TypesOf, GoesOn

LEMMA DetachKeeps == ASSUME IInv, NEW w \in Workers, NEW card \in BOOLEAN, Detach(w, card) PROVE IInv'
<1> DEFINE c == IF card
                THEN [[[[ctl[w] EXCEPT !.st = "idle"] EXCEPT !.durable = FALSE] EXCEPT !.card = "bound"] EXCEPT !.handoff = "none"]
                ELSE [[ctl[w] EXCEPT !.st = "idle"] EXCEPT !.natural = ~ctl[w].background]
           r == c.rev + 1
           e == [c EXCEPT !.rev = r]
<1>1. /\ ctl[w] \in Control /\ Has(w) /\ Sane(ctl[w]) /\ ctl[w].persisted <= ctl[w].rev
      /\ ctl[w].st = "busy" /\ (ctl[w].tool => ctl[w].background) /\ Owns(ctl[w]) /\ ctl[w].handoff = "none"
  BY TypesOf DEF Detach, Owns, HasWork, Sane
<1>2. /\ c \in Control /\ c.persisted = ctl[w].persisted /\ c.rev = ctl[w].rev /\ c.exec = ctl[w].exec /\ c.st = "idle"
      /\ c.handoff = "none" /\ c.background = ctl[w].background /\ c.tool = ctl[w].tool
  BY ZenonT(60), <1>1 DEF Control
<1>3. /\ c.natural => c.background = FALSE \/ c.card # "none"
      /\ c.natural => ~card \/ ctl[w].natural
      /\ ~card => c.card = ctl[w].card /\ c.natural = ~ctl[w].background
      /\ card => c.natural = ctl[w].natural
  BY <1>1 DEF Control
<1>4. IF Ready(c) THEN Persist(w, e) ELSE ctl' = [ctl EXCEPT ![w] = c] /\ disk' = disk
  BY <1>1 DEF Detach, Control
<1>5. UNCHANGED <<setting, ticket, alive, req, execs, children, proof, tools>> /\ waiting' \in Tasks \cup {None}
  BY <1>1 DEF Detach, Control
<1>6. Sane(c) /\ (Rolled(c) => Rolled(ctl[w]))
  BY <1>1, <1>2, <1>3 DEF Sane, Rolled
<1> HIDE DEF c
<1>7. CASE Ready(c)
  <2>0. r \in Nat /\ c.persisted <= r
    BY <1>1, <1>2, Later
  <2>1. /\ e \in Control /\ e.persisted <= e.rev /\ e.exec = c.exec /\ e.st = c.st /\ e.handoff = c.handoff
        /\ e.background = c.background /\ e.tool = c.tool /\ e.natural = c.natural /\ e.card = c.card
    <3> HIDE DEF r
    <3> QED BY <1>2, <2>0 DEF Control
  <2>2. Persist(w, e)
    BY <1>4, <1>7
  <2> HIDE DEF e
  <2>3. Sane(e) /\ (Rolled(e) => Rolled(ctl[w]))
    BY <1>6, <2>1 DEF Sane, Rolled
  <2>4. PICK d \in Control : ctl' = [ctl EXCEPT ![w] = d] /\ d.persisted <= d.rev /\ Goes(w, d)
    BY <1>1, <1>2, <2>1, <2>2, <2>3, PersistGoes
  <2> QED BY <1>5, <2>4, TypesOf, GoesOn
<1>8. CASE ~Ready(c)
  <2>1. Goes(w, c)
    BY <1>1, <1>2, <1>4, <1>6, <1>8 DEF Goes
  <2> QED BY <1>1, <1>2, <1>4, <1>5, <1>8, <2>1, TypesOf, GoesOn
<1> QED BY <1>7, <1>8

LEMMA PrepareKeeps == ASSUME IInv, NEW w \in Workers, Prepare(w) PROVE IInv'
<1> DEFINE r == ctl[w].rev + 1
           c == [[[[ctl[w] EXCEPT !.handoff = "preparing"] EXCEPT !.from = ctl[w].rev] EXCEPT !.rev = r]
                  EXCEPT !.persisted = r]
<1>1. /\ ctl[w] \in Control /\ Has(w) /\ Sane(ctl[w]) /\ ctl[w].persisted <= ctl[w].rev
      /\ ctl[w].card = "suspended" /\ Drained(ctl[w])
  BY TypesOf DEF Prepare
<1>0. r \in Nat /\ ctl[w].persisted <= r
  BY <1>1, Later
<1>2. /\ c \in Control /\ c.persisted <= c.rev /\ c.exec = ctl[w].exec /\ c.st = "idle" /\ c.handoff = "preparing"
      /\ c.background = ctl[w].background /\ c.tool = ctl[w].tool /\ c.natural = ctl[w].natural /\ c.durable = ctl[w].durable
      /\ c.card = ctl[w].card /\ c.from = ctl[w].rev
  <2> HIDE DEF r
  <2>1. c \in Control /\ c.persisted = r /\ c.rev = r
    <3>1. [[[ctl[w] EXCEPT !.handoff = "preparing"] EXCEPT !.from = ctl[w].rev] EXCEPT !.rev = r] \in Control
      BY <1>0, <1>1 DEF Control
    <3> QED BY <1>0, <3>1 DEF Control
  <2>2. /\ c.exec = ctl[w].exec /\ c.st = ctl[w].st /\ c.handoff = "preparing"
        /\ c.background = ctl[w].background /\ c.tool = ctl[w].tool /\ c.natural = ctl[w].natural
        /\ c.durable = ctl[w].durable /\ c.card = ctl[w].card /\ c.from = ctl[w].rev
    BY <1>1 DEF Control
  <2> HIDE DEF c
  <2> QED BY <1>0, <1>1, <2>1, <2>2 DEF Drained
<1>3. /\ proof' = c.exec
      /\ IF Expected(c, c.from) THEN disk' = Snapshot(w, c) /\ ctl' = [ctl EXCEPT ![w] = c] ELSE UNCHANGED <<disk, ctl>>
      /\ UNCHANGED <<setting, ticket, alive, waiting, req, children, execs, tools>>
  <2>1. c = [ctl[w] EXCEPT !.handoff = "preparing", !.from = ctl[w].rev, !.rev = @ + 1, !.persisted = ctl[w].rev + 1]
    BY <1>1 DEF Control
  <2> QED BY <2>1 DEF Prepare
<1> HIDE DEF c
<1>4. proof' \in 0..execs
  <2>1. ctl[w].exec <= execs
    BY <1>1, NamesOf DEF IInv, Named
  <2> QED BY <1>1, <1>2, <1>3, <2>1, TypesOf DEF Control
<1>5. CASE Expected(c, c.from)
  <2>1. disk.exec = ctl[w].exec /\ disk # None
    BY <1>2, <1>5 DEF Expected
  <2>2. ~Rolled(ctl[w])
    BY <1>1, <2>1 DEF IInv, Controllers, Unknown
  <2>3. ~ctl[w].natural
    BY <1>1, <2>2 DEF Rolled
  <2>4. Sane(c) /\ ~Rolled(c)
    BY <1>1, <1>2, <2>3 DEF Sane, Rolled, Drained, HasWork
  <2>5. Owns(c) => Owns(ctl[w]) /\ Guards(w, Snapshot(w, c))
    BY <1>1, <1>2, <2>4, SnapshotType, OwnerIsNotReady DEF Guards, Owns, HasWork, Drained
  <2>6. Goes(w, c)
    BY <1>1, <1>2, <1>3, <1>5, <2>1, <2>4, <2>5, SnapshotType DEF Goes
  <2> QED BY <1>1, <1>2, <1>3, <1>4, <1>5, <2>6, TypesOf, GoesOn
<1>6. CASE ~Expected(c, c.from)
  <2>1. Goes(w, ctl[w])
    BY <1>1, <1>3, <1>6 DEF Goes, Drained
  <2> QED BY <1>1, <1>3, <1>4, <1>6, <2>1, TypesOf, GoesOn
<1> QED BY <1>5, <1>6

LEMMA CommitKeeps == ASSUME IInv, NEW w \in Workers, Commit(w) PROVE IInv'
<1> DEFINE r == ctl[w].rev + 1
           c == [[[[ctl[w] EXCEPT !.handoff = "committed"] EXCEPT !.rev = r]
                  EXCEPT !.persisted = r] EXCEPT !.durable = TRUE]
<1>1. /\ ctl[w] \in Control /\ Has(w) /\ Sane(ctl[w]) /\ ctl[w].persisted <= ctl[w].rev
      /\ ctl[w].handoff = "preparing" /\ Drained(ctl[w])
  BY TypesOf DEF Commit
<1>0. r \in Nat /\ ctl[w].persisted <= r
  BY <1>1, Later
<1>2. /\ c \in Control /\ c.persisted <= c.rev /\ c.exec = ctl[w].exec /\ c.st = "idle" /\ c.handoff = "committed"
      /\ c.background = ctl[w].background /\ c.tool = ctl[w].tool /\ c.natural = ctl[w].natural /\ c.durable
      /\ c.card = ctl[w].card
  <2> HIDE DEF r
  <2>1. c \in Control /\ c.persisted = r /\ c.rev = r
    <3>1. [[[ctl[w] EXCEPT !.handoff = "committed"] EXCEPT !.rev = r] EXCEPT !.persisted = r] \in Control
      BY <1>0, <1>1 DEF Control
    <3> QED BY <1>0, <3>1 DEF Control
  <2>2. /\ c.exec = ctl[w].exec /\ c.st = ctl[w].st /\ c.handoff = "committed"
        /\ c.background = ctl[w].background /\ c.tool = ctl[w].tool /\ c.natural = ctl[w].natural
        /\ c.durable /\ c.card = ctl[w].card
    BY <1>1 DEF Control
  <2> HIDE DEF c
  <2> QED BY <1>0, <1>1, <2>1, <2>2 DEF Drained
<1>3. /\ Expected(c, ctl[w].rev) /\ disk' = Snapshot(w, c) /\ ctl' = [ctl EXCEPT ![w] = c]
      /\ UNCHANGED <<setting, ticket, alive, waiting, proof, req, children, execs, tools>>
  <2>1. c = [ctl[w] EXCEPT !.handoff = "committed", !.rev = @ + 1, !.persisted = ctl[w].rev + 1, !.durable = TRUE]
    BY <1>1 DEF Control
  <2> QED BY <2>1 DEF Commit
<1> HIDE DEF c
<1>4. Sane(c) /\ (Rolled(c) => Rolled(ctl[w])) /\ ~Owns(c)
  BY <1>1, <1>2 DEF Sane, Rolled, Owns, HasWork, Drained
<1>5. Goes(w, c)
  BY <1>1, <1>2, <1>3, <1>4, SnapshotType DEF Goes, Expected
<1> QED BY <1>1, <1>2, <1>3, <1>5, TypesOf, GoesOn

LEMMA CompleteKeeps == ASSUME IInv, NEW w \in Workers, Complete(w) PROVE IInv'
<1> DEFINE r == ctl[w].rev + 1
           c == [[[ctl[w] EXCEPT !.st = "ending"] EXCEPT !.natural = TRUE] EXCEPT !.rev = r]
<1>1. /\ ctl[w] \in Control /\ Has(w) /\ Sane(ctl[w]) /\ ctl[w].persisted <= ctl[w].rev
      /\ ~ctl[w].background /\ ~ctl[w].tool /\ (ctl[w].st = "busy" \/ (ctl[w].st = "idle" /\ ctl[w].natural))
  BY TypesOf DEF Complete
<1>2. r \in Nat /\ ctl[w].persisted <= r
  BY <1>1, Later
<1>3. /\ c \in Control /\ c.persisted <= c.rev /\ c.exec = ctl[w].exec /\ c.st = "ending" /\ c.handoff = ctl[w].handoff
      /\ c.background = ctl[w].background /\ c.tool = ctl[w].tool /\ c.natural /\ c.card = ctl[w].card
  <2> HIDE DEF r
  <2> QED BY <1>1, <1>2 DEF Control
<1>4. /\ ctl' = [ctl EXCEPT ![w] = c]
      /\ UNCHANGED <<setting, disk, ticket, alive, req, waiting, proof, children, execs, tools>>
  BY <1>1, DomainOf DEF Complete, files
<1> HIDE DEF c
<1>5. Goes(w, c)
  BY <1>1, <1>3, <1>4 DEF Goes, Sane, Rolled, Owns, HasWork
<1> QED BY <1>3, <1>4, <1>5, TypesOf, GoesOn

LEMMA TerminateKeeps == ASSUME IInv, NEW w \in Workers, Terminate(w) PROVE IInv'
<1> DEFINE r == ctl[w].rev + 1
           q == r + 1
           a == [[ctl[w] EXCEPT !.rev = r] EXCEPT !.persisted = r]
           Stopped(d, i) == [[[[d EXCEPT !.st = "ending"] EXCEPT !.natural = FALSE] EXCEPT !.outcome = "none"] EXCEPT !.rev = i]
<1>1. /\ ctl[w] \in Control /\ Has(w) /\ Sane(ctl[w]) /\ ctl[w].persisted <= ctl[w].rev
      /\ ctl[w].st \in {"busy", "idle"} \/ ctl[w].natural
  BY TypesOf DEF Terminate
<1>2. r \in Nat /\ ctl[w].persisted <= r /\ q \in Nat /\ r <= q
  BY <1>1, Later
<1>3. UNCHANGED <<setting, ticket, alive, req, waiting, proof, children, execs, tools>>
  BY DEF Terminate
<1>4. ASSUME NEW d \in Control, NEW i \in Nat
      PROVE  /\ Stopped(d, i) \in Control /\ Stopped(d, i).exec = d.exec /\ Stopped(d, i).st = "ending"
             /\ ~Stopped(d, i).natural /\ Stopped(d, i).rev = i /\ Stopped(d, i).persisted = d.persisted
             /\ Stopped(d, i).handoff = d.handoff /\ Stopped(d, i).background = d.background
             /\ Stopped(d, i).tool = d.tool /\ Stopped(d, i).card = d.card
  <2>1. [[d EXCEPT !.st = "ending"] EXCEPT !.natural = FALSE] \in Control
    BY DEF Control
  <2>2. [[[d EXCEPT !.st = "ending"] EXCEPT !.natural = FALSE] EXCEPT !.outcome = "none"] \in Control
    BY <2>1, ZenonT(60) DEF Control, Outcomes
  <2>3. Stopped(d, i) \in Control
    BY <2>2 DEF Control
  <2> QED BY <2>3 DEF Control
<1>5. ASSUME NEW c \in Control, c.exec = ctl[w].exec, c.st = "ending", ~c.natural, c.handoff = ctl[w].handoff,
             c.background = ctl[w].background, c.tool = ctl[w].tool
      PROVE  Sane(c) /\ ~Rolled(c) /\ (Owns(c) => Owns(ctl[w]))
  BY <1>1, <1>5 DEF Sane, Rolled, Owns, HasWork
<1>6. CASE NeedsAdmission(ctl[w])
  <2> DEFINE c == Stopped(a, q)
  <2>1. /\ a \in Control /\ a.persisted = r /\ a.exec = ctl[w].exec /\ a.st = ctl[w].st /\ a.handoff = ctl[w].handoff
        /\ a.background = ctl[w].background /\ a.tool = ctl[w].tool
    <3> HIDE DEF r
    <3> QED BY <1>1, <1>2 DEF Control
  <2>2. /\ Expected(ctl[w], ctl[w].rev) /\ disk' = [Snapshot(w, a) EXCEPT !.ready = FALSE]
        /\ ctl' = [ctl EXCEPT ![w] = c]
    <3>1. a = [ctl[w] EXCEPT !.rev = @ + 1, !.persisted = ctl[w].rev + 1] /\ a.rev = r
      BY <1>1 DEF Control
    <3>2. c = [a EXCEPT !.st = "ending", !.natural = FALSE, !.outcome = "none", !.rev = @ + 1]
      BY <2>1, <3>1 DEF Control
    <3> HIDE DEF a, c
    <3> QED BY <1>6, <3>1, <3>2 DEF Terminate
  <2> HIDE DEF r, q, a, Stopped
  <2>3. /\ c \in Control /\ c.persisted <= c.rev /\ c.exec = ctl[w].exec /\ c.st = "ending" /\ ~c.natural
        /\ c.handoff = ctl[w].handoff /\ c.background = ctl[w].background /\ c.tool = ctl[w].tool
    BY <1>2, <1>4, <2>1
  <2> HIDE DEF c
  <2>4. Sane(c) /\ ~Rolled(c) /\ (Owns(c) => Owns(ctl[w]))
    BY <1>5, <2>3
  <2>5. /\ disk' \in Doc /\ disk'.exec = ctl[w].exec /\ disk'.server = w /\ disk'.st = ctl[w].st /\ ~disk'.ready
        /\ disk'.st \in {"busy", "idle"} /\ disk'.handoff = ctl[w].handoff
    <3>1. ctl[w].st \in {"busy", "idle"}
      BY <1>6 DEF NeedsAdmission
    <3> DEFINE s == Snapshot(w, a)
    <3>2. s \in Doc /\ s.exec = ctl[w].exec /\ s.server = w /\ s.st = ctl[w].st /\ s.handoff = ctl[w].handoff
      BY <2>1, <3>1, SnapshotType
    <3>3. disk' = [s EXCEPT !.ready = FALSE]
      BY <2>2
    <3> HIDE DEF s
    <3>4. disk' \in Doc
      BY <3>2, <3>3 DEF Doc
    <3>5. ~disk'.ready /\ disk'.exec = s.exec /\ disk'.server = s.server /\ disk'.st = s.st /\ disk'.handoff = s.handoff
      BY <3>2, <3>3 DEF Doc
    <3> QED BY <3>1, <3>2, <3>4, <3>5
  <2>6. Guards(w, disk') /\ disk.exec = ctl[w].exec /\ disk # None
    BY <2>2, <2>5, AdmissionAssumption DEF Guards, Expected
  <2>7. Goes(w, c)
    BY <1>1, <2>3, <2>4, <2>5, <2>6 DEF Goes
  <2> QED BY <1>3, <2>2, <2>3, <2>7, TypesOf, GoesOn
<1>7. CASE ~NeedsAdmission(ctl[w])
  <2> DEFINE c == Stopped(ctl[w], r)
  <2>1. disk' = disk /\ ctl' = [ctl EXCEPT ![w] = c]
    <3>1. c = [ctl[w] EXCEPT !.st = "ending", !.natural = FALSE, !.outcome = "none", !.rev = @ + 1]
      BY <1>1 DEF Control
    <3> HIDE DEF c
    <3> QED BY <1>7, <3>1 DEF Terminate
  <2> HIDE DEF r, Stopped
  <2>2. /\ c \in Control /\ c.persisted <= c.rev /\ c.exec = ctl[w].exec /\ c.st = "ending" /\ ~c.natural
        /\ c.handoff = ctl[w].handoff /\ c.background = ctl[w].background /\ c.tool = ctl[w].tool
    BY <1>1, <1>2, <1>4
  <2> HIDE DEF c
  <2>3. Sane(c) /\ ~Rolled(c) /\ (Owns(c) => Owns(ctl[w]))
    BY <1>5, <2>2
  <2>4. ctl[w].handoff = "none"
    BY <1>1, <1>7 DEF NeedsAdmission, Sane
  <2>5. Goes(w, c)
    BY <1>1, <2>1, <2>2, <2>3, <2>4 DEF Goes
  <2> QED BY <1>3, <2>1, <2>2, <2>5, TypesOf, GoesOn
<1> QED BY <1>6, <1>7

LEMMA EndKeeps == ASSUME IInv, NEW w \in Workers, NEW outcome \in Outcomes, End(w, outcome) PROVE IInv'
<1> DEFINE r == ctl[w].rev + 1
           c == [[[[[ctl[w] EXCEPT !.st = "ended"] EXCEPT !.outcome = outcome] EXCEPT !.rev = r]
                  EXCEPT !.background = FALSE] EXCEPT !.tool = FALSE]
<1>1. /\ ctl[w] \in Control /\ Has(w) /\ Sane(ctl[w]) /\ ctl[w].persisted <= ctl[w].rev
      /\ ctl[w].st \in {"ending", "ended"}
  BY TypesOf DEF End
<1>2. r \in Nat /\ ctl[w].persisted <= r
  BY <1>1, Later
<1>3. Persist(w, c)
  <2>1. c = [ctl[w] EXCEPT !.st = "ended", !.outcome = outcome, !.rev = @ + 1, !.background = FALSE, !.tool = FALSE]
    BY <1>1 DEF Control
  <2> HIDE DEF c
  <2> QED BY <2>1 DEF End
<1> HIDE DEF r
<1>4. c \in Control /\ c.persisted <= c.rev
  <2>1. [[ctl[w] EXCEPT !.st = "ended"] EXCEPT !.outcome = outcome] \in Control
    BY <1>1 DEF Control
  <2>2. [[[ctl[w] EXCEPT !.st = "ended"] EXCEPT !.outcome = outcome] EXCEPT !.rev = r] \in Control
    BY <1>2, <2>1 DEF Control
  <2>3. c \in Control
    BY <2>2 DEF Control
  <2> QED BY <1>1, <1>2, <2>3 DEF Control
<1>5. /\ c.exec = ctl[w].exec /\ c.st = "ended" /\ c.handoff = ctl[w].handoff /\ ~c.background /\ ~c.tool
      /\ c.natural = ctl[w].natural /\ c.card = ctl[w].card
  BY <1>1 DEF Control
<1> HIDE DEF c
<1>6. Sane(c) /\ (Rolled(c) => Rolled(ctl[w])) /\ ~Owns(c)
  BY <1>1, <1>5 DEF Sane, Rolled, Owns, HasWork
<1>7. PICK d \in Control : ctl' = [ctl EXCEPT ![w] = d] /\ d.persisted <= d.rev /\ Goes(w, d)
  BY <1>1, <1>3, <1>4, <1>5, <1>6, PersistGoes
<1>8. UNCHANGED <<setting, ticket, alive, req, execs, waiting, proof, tools>> /\ children' \subseteq Workers
  BY TypesOf DEF End
<1> QED BY <1>7, <1>8, TypesOf, GoesOn

\* A step that no controller and no request takes.
LEMMA OtherwiseKeeps ==
  ASSUME IInv, NEW w \in Workers, UNCHANGED <<setting, disk, alive, ctl, req, waiting, proof, execs, tools>>,
         ticket' \in Ticket \cup {None}, children' \subseteq Workers
  PROVE  IInv'
<1>1. LocalTypes(w)
  BY DEF LocalTypes, IInv, Types, TypeOK
<1> QED BY <1>1, LocalKeeps DEF Local, LocalRequest

LEMMA ChildEndsKeeps == ASSUME IInv, NEW w \in Workers, ChildEnds(w) PROVE IInv'
BY TypesOf, OtherwiseKeeps DEF ChildEnds, files

LEMMA ExpireKeeps == ASSUME IInv, Expire PROVE IInv'
<1>1. ticket \in Ticket
  BY DEF Expire, Open, IInv, Types, TypeOK
<1>2. ticket.by \in Workers /\ ticket' \in Ticket /\ children \subseteq Workers
  BY <1>1 DEF Expire, Ticket, IInv, Types, TypeOK
<1> QED BY <1>2, OtherwiseKeeps DEF Expire

LEMMA CrashKeeps == ASSUME IInv, NEW w \in Workers, Crash(w) PROVE IInv'
<1>1. /\ ctl \in [Workers -> Control \cup {None}] /\ req \in [Workers -> Request \cup {None}]
      /\ \A v \in Workers : ctl[v] # None => ctl[v].persisted <= ctl[v].rev
  BY DEF IInv, Types, TypeOK
<1>2. /\ ctl' \in [Workers -> Control \cup {None}] /\ req' \in [Workers -> Request \cup {None}]
      /\ ctl'[w] = None /\ req'[w] = None
      /\ \A v \in Workers \ {w} : ctl'[v] = ctl[v] /\ req'[v] = req[v]
  BY <1>1 DEF Crash, Answer, Ask
<1>3. LocalTypes(w)
  BY <1>2, TypesOf DEF LocalTypes, Crash, files
<1> QED BY <1>2, <1>3, LocalKeeps DEF Local, LocalRequest, Carries, Crash, files

-----------------------------------------------------------------------------
(* Requests, up to the step that publishes a controller.                   *)

\* A request is answered, or goes on without a controller.
LEMMA AskKeeps ==
  ASSUME IInv, NEW w \in Workers, w \in alive, NEW r \in Request \cup {None}, Ask(w, r),
         r # None => r.st = "reserve" \/ (r.st = "reserved" /\ r.ticket \in Ticket),
         ticket' \in Ticket \cup {None},
         UNCHANGED <<setting, disk, alive, ctl, waiting, proof, children, execs, tools>>
  PROVE  IInv'
<1>1. LocalTypes(w) /\ ctl'[w] = ctl[w] /\ req'[w] = r
  BY ZenonT(60), TypesOf, StillTypes DEF Ask, Has
<1> QED BY <1>1, LocalKeeps DEF Local, LocalRequest, Carries

LEMMA ReserveKeeps ==
  ASSUME IInv, NEW w \in Workers, NEW t \in Tasks, NEW perm \in BOOLEAN, Reserve(w, t, perm)
  PROVE  IInv'
<1> DEFINE localOnly == Has(w) /\ ctl[w].task = t /\ ctl[w].local /\ Drained(ctl[w])
           r == [st |-> "reserve", task |-> t, local |-> localOnly, perm |-> IF perm /\ ~localOnly THEN proof ELSE 0,
                 ticket |-> None, new |-> None, old |-> None]
<1>1. r \in Request /\ r.st = "reserve" /\ w \in alive
  <2>1. proof \in Nat /\ localOnly \in BOOLEAN
    BY TypesOf DEF Drained
  <2> HIDE DEF localOnly
  <2> QED BY <2>1 DEF Request, Reserve, Idle
<1>2. req' = [req EXCEPT ![w] = r] /\ UNCHANGED <<setting, ticket, alive, waiting, proof, children, execs, tools>>
  BY DEF Reserve, Ask
<1> HIDE DEF r
<1>3. CASE Has(w) /\ Ready(ctl[w])
  <2>1. Persist(w, ctl[w])
    BY <1>3 DEF Reserve
  <2>2. PICK d \in Control : ctl' = [ctl EXCEPT ![w] = d] /\ d.persisted <= d.rev /\ Goes(w, d)
    BY <1>3, <2>1, TypesOf, PersistGoes DEF Ready, Drained
  <2>3. LocalTypes(w) /\ ctl'[w] = d /\ req'[w] = r
    BY <1>1, <1>2, <2>2, TypesOf, StillTypes
  <2> QED BY <1>1, <2>2, <2>3, LocalKeeps DEF Local, LocalRequest, Carries
<1>4. CASE ~(Has(w) /\ Ready(ctl[w]))
  <2>1. UNCHANGED <<disk, ctl>>
    BY <1>4 DEF Reserve
  <2> QED BY <1>1, <1>2, <2>1, TypesOf, AskKeeps DEF Ask
<1> QED BY <1>3, <1>4

LEMMA ReserveResultKeeps == ASSUME IInv, NEW w \in Workers, ReserveResult(w) PROVE IInv'
<1> DEFINE q == req[w]
           a == [by |-> w, task |-> q.task, exec |-> IF disk = None THEN 0 ELSE disk.exec,
                 rev |-> IF disk = None THEN 0 ELSE disk.rev, local |-> q.local, perm |-> q.perm, expired |-> FALSE]
           r == [q EXCEPT !.st = "reserved", !.ticket = a]
<1>1. q \in Request /\ w \in alive /\ ticket \in Ticket \cup {None}
  BY TypesOf DEF ReserveResult
<1>2. a \in Ticket
  <2>1. disk # None => disk.exec \in Nat /\ disk.rev \in Nat
    BY DEF IInv, Types, TypeOK, Doc
  <2>2. q.task \in Tasks /\ q.local \in BOOLEAN /\ q.perm \in Nat
    BY <1>1 DEF Request
  <2> HIDE DEF q
  <2> QED BY <2>1, <2>2 DEF Ticket
<1>3. /\ (ticket' = a /\ Ask(w, r)) \/ (ticket' = ticket /\ Ask(w, None))
      /\ UNCHANGED <<setting, disk, alive, ctl, waiting, proof, children, execs, tools>>
  BY DEF ReserveResult, Answer
<1> HIDE DEF a
<1>4. r \in Request /\ r.st = "reserved" /\ r.ticket = a
  <2> HIDE DEF q
  <2> QED BY <1>1, <1>2 DEF Request
<1> HIDE DEF r
<1> QED BY <1>1, <1>2, <1>3, <1>4, AskKeeps

LEMMA RequireKeeps == ASSUME IInv, NEW w \in Workers, Require(w) PROVE IInv'
<1> DEFINE q == req[w]
           a == [q.ticket EXCEPT !.perm = proof]
           r == [q EXCEPT !.perm = proof, !.ticket = a]
<1>1. q \in Request /\ w \in alive /\ ticket \in Ticket \cup {None} /\ q.st = "reserved" /\ q.ticket \in Ticket
  BY TypesOf DEF Require, IInv, Types
<1>2. a \in Ticket /\ proof \in Nat
  <2>1. proof \in Nat
    BY TypesOf
  <2> HIDE DEF q
  <2> QED BY <1>1, <2>1 DEF Ticket
<1>3. /\ (ticket' = a /\ Ask(w, r)) \/ (ticket' = ticket /\ Ask(w, None))
      /\ UNCHANGED <<setting, disk, alive, ctl, waiting, proof, children, execs, tools>>
  BY DEF Require, Answer
<1> HIDE DEF a
<1>4. r \in Request /\ r.st = "reserved" /\ r.ticket = a
  <2> HIDE DEF q
  <2> QED BY <1>1, <1>2 DEF Request
<1> HIDE DEF r
<1> QED BY <1>1, <1>2, <1>3, <1>4, AskKeeps

LEMMA ReleaseKeeps == ASSUME IInv, NEW w \in Workers, Release(w) PROVE IInv'
<1>1. w \in alive /\ ticket' \in Ticket \cup {None} /\ Ask(w, None)
  BY TypesOf DEF Release, Answer
<1> QED BY <1>1, AskKeeps DEF Release

LEMMA BeginRefusedKeeps == ASSUME IInv, NEW w \in Workers, BeginRefused(w) PROVE IInv'
<1>1. w \in alive /\ ticket' \in Ticket \cup {None} /\ Ask(w, None)
  BY TypesOf DEF BeginRefused, Answer
<1> QED BY <1>1, AskKeeps DEF BeginRefused

\* A claim or an activation that the files refuse.
LEMMA RefusedKeeps ==
  ASSUME IInv, NEW w \in Workers, Claim(w) \/ Activate(w), disk' = disk, Answer(w)
  PROVE  IInv'
<1>1. w \in alive /\ ticket \in Ticket \cup {None} /\ Ask(w, None)
  BY TypesOf DEF Claim, Activate, Answer
<1>2. UNCHANGED <<setting, ticket, alive, ctl, waiting, proof, children, execs, tools>>
  BY DEF Claim, Activate
<1> QED BY <1>1, <1>2, AskKeeps

-----------------------------------------------------------------------------
(* New executions.                                                         *)

\* Executions are numbered from 1 to execs.
LEMMA NamesAreNumbers ==
  ASSUME IInv
  PROVE  \A x \in Names : x[1] \in Nat /\ x[1] <= execs /\ x[1] # execs + 1
<1>1. \A x \in Names : x[1] \in Nat
  <2>1. disk # None => disk.exec \in Nat
    BY DEF IInv, Types, TypeOK, Doc
  <2>2. \A w \in Workers : Has(w) => ctl[w].exec \in Nat
    BY TypesOf DEF Control
  <2>3. \A w \in Workers : Carries(w) => req[w].new.exec \in Nat
    BY DEF IInv, Types, Control
  <2>4. \A w \in Workers : Published(w) /\ req[w].old # None => req[w].old.exec \in Nat
    BY DEF IInv, Publication, Doc
  <2> QED BY <2>1, <2>2, <2>3, <2>4 DEF Names
<1>2. execs \in Nat /\ \A x \in Names : x[1] <= execs
  BY DEF IInv, Named, Types, TypeOK
<1> QED BY <1>1, <1>2

\* The new name belongs to the process that gave it.
LEMMA NamedAnew ==
  ASSUME IInv, NEW w \in Workers, execs' = execs + 1, Names' \subseteq Names \cup {<<execs + 1, w>>}
  PROVE  /\ \A x, y \in Names' : x[1] = y[1] => x[2] = y[2]
         /\ \A x \in Names' : x[1] <= execs'
<1>1. execs \in Nat /\ \A x, y \in Names : x[1] = y[1] => x[2] = y[2]
  BY DEF IInv, Named, Types, TypeOK
<1>2. \A x \in Names : x[1] # execs + 1 /\ x[1] <= execs + 1
  BY <1>1, NamesAreNumbers
<1> QED BY <1>1, <1>2

\* A request that takes the next name for its controller.
LEMMA NamesControl ==
  ASSUME IInv, NEW w \in Workers, w \in alive, req[w] = None \/ req[w].st = "reserved",
         NEW r \in Request, r.st \in {"claim", "activate"}, r.st = "activate" => r.ticket \in Ticket,
         r.new \in Control, Fresh(r.new), r.new.exec = execs + 1,
         req' = [req EXCEPT ![w] = r], execs' = execs + 1, execs < setting.execs,
         UNCHANGED <<setting, disk, ticket, alive, ctl, waiting, proof, children, tools>>
  PROVE  IInv'
<1>1. /\ req \in [Workers -> Request \cup {None}] /\ execs \in Nat /\ setting \in Setting /\ proof \in 0..execs
  BY TypesOf DEF IInv, Types, TypeOK
<1>2. /\ req' \in [Workers -> Request \cup {None}] /\ req'[w] = r /\ \A v \in Workers \ {w} : req'[v] = req[v]
  BY <1>1
<1>3. execs + 1 \in Nat /\ execs + 1 \in 0..setting.execs /\ 0..execs \subseteq 0..(execs + 1)
  BY <1>1 DEF Setting
<1>4. \A v \in Workers : v # w => (Carries(v)' <=> Carries(v)) /\ (Published(v)' <=> Published(v))
  BY <1>2 DEF Carries, Published
<1>5. ~Published(w) /\ ~Published(w)'
  BY <1>2 DEF Published
<1>6. Types'
  <2>1. TypeOK'
    BY <1>1, <1>2, <1>3 DEF IInv, Types, TypeOK
  <2>2. \A v \in Workers : ctl'[v] # None \/ req'[v] # None => v \in alive'
    BY <1>2 DEF IInv, Types
  <2>3. \A v \in Workers : Carries(v)' => req'[v].new \in Control /\ Fresh(req'[v].new)
    BY <1>2, <1>4 DEF IInv, Types
  <2>4. \A v \in Workers : req'[v] # None /\ req'[v].st \in {"reserved", "activate", "activated"}
                             => req'[v].ticket \in Ticket
    BY <1>2 DEF IInv, Types
  <2> QED BY <1>1, <2>1, <2>2, <2>3, <2>4 DEF Types, Fresh
<1>7. Named'
  <2>1. /\ {<<req'[v].new.exec, v>> : v \in {u \in Workers : Carries(u)'}} \subseteq Names \cup {<<execs + 1, w>>}
        /\ {<<req'[v].old.exec, req'[v].old.server>> : v \in {u \in Workers : Published(u)' /\ req'[u].old # None}} \subseteq Names
    BY <1>2, <1>4, <1>5, NamesOf
  <2>2. /\ {<<ctl[v].exec, v>> : v \in {u \in Workers : Has(u)}} \subseteq Names
        /\ (IF disk = None THEN {} ELSE {<<disk.exec, disk.server>>}) \subseteq Names
    BY DEF Names
  <2>3. Names' \subseteq Names \cup {<<execs + 1, w>>}
    BY <2>1, <2>2 DEF Names, Has
  <2>4. \A v \in Workers : Has(v)' /\ Carries(v)' => req'[v].new.exec # ctl'[v].exec
    <3>1. \A v \in Workers : Has(v) => ctl[v].exec # execs + 1
      BY NamesOf, NamesAreNumbers
    <3> QED BY <1>2, <1>4, <3>1 DEF Has, IInv, Named
  <2> QED BY <2>3, <2>4, NamedAnew DEF Named
<1>8. Publication'
  <2>1. ASSUME NEW v \in Workers, Published(v)'
        PROVE  v # w /\ Published(v) /\ req'[v] = req[v]
    BY <1>2, <1>4, <1>5, <2>1
  <2>2. \A v \in Workers : Published(v)' =>
          /\ disk' = Snapshot(v, req'[v].new) /\ req'[v].old \in Doc \cup {None}
          /\ \A u \in Workers : Has(u)' => req'[v].old # None
          /\ Has(v)' /\ Owns(ctl'[v]) => Guards(v, req'[v].old)
    BY <2>1 DEF IInv, Publication, Has
  <2> QED BY <2>2 DEF IInv, Publication, Has, Snapshot, Ready, Drained, HasWork, Owns, Guards
<1>9. Controllers'
  BY <1>2, <1>4, <1>5 DEF IInv, Controllers, Unknown, Has, Sane, Rolled
<1>10. Ownership' /\ Stops'
  BY DEF IInv, Ownership, Stops, Stopping, Has, Owns, HasWork, Guards
<1> QED BY <1>6, <1>7, <1>8, <1>9, <1>10 DEF IInv

LEMMA NewControlIs ==
  ASSUME NEW t \in Tasks, NEW durable \in BOOLEAN, NEW i \in Nat, NEW e \in Nat
  PROVE  NewControl(e, t, durable, i) \in Control /\ Fresh(NewControl(e, t, durable, i)) /\ NewControl(e, t, durable, i).exec = e
<1>1. NewControl(e, t, durable, i) \in Control
  BY DEF NewControl, Control, Outcomes
<1> QED BY <1>1 DEF NewControl, Fresh

LEMMA BeginKeeps == ASSUME IInv, NEW w \in Workers, NEW t \in Tasks, Begin(w, t) PROVE IInv'
<1> DEFINE n == NewControl(execs + 1, t, FALSE, 0)
           r == [st |-> "claim", task |-> t, local |-> FALSE, perm |-> 0, ticket |-> None, new |-> n, old |-> None]
<1>1. n \in Control /\ Fresh(n) /\ n.exec = execs + 1
  <2>1. execs + 1 \in Nat
    BY TypesOf
  <2> QED BY <2>1, NewControlIs, ZenonT(60)
<1>2. /\ req' = [req EXCEPT ![w] = r] /\ execs' = execs + 1 /\ execs < setting.execs /\ w \in alive /\ req[w] = None
      /\ UNCHANGED <<setting, disk, ticket, alive, ctl, waiting, proof, children, tools>>
  BY DEF Begin, Ask, Idle, files
<1> HIDE DEF n
<1>3. r \in Request /\ r.st = "claim" /\ r.new = n
  BY <1>1 DEF Request
<1> HIDE DEF r
<1> QED BY <1>1, <1>2, <1>3, NamesControl

LEMMA BeginAdmittedKeeps == ASSUME IInv, NEW w \in Workers, BeginAdmitted(w) PROVE IInv'
<1> DEFINE q == req[w]
           b == q.perm = 0
           n == NewControl(execs + 1, q.task, b, 1)
           r == [q EXCEPT !.st = "activate", !.new = n]
<1>1. q \in Request /\ q.st = "reserved" /\ q.ticket \in Ticket /\ w \in alive
  BY TypesOf DEF BeginAdmitted, IInv, Types
<1>2. n \in Control /\ Fresh(n) /\ n.exec = execs + 1
  <2>1. q.task \in Tasks /\ b \in BOOLEAN
    BY <1>1 DEF Request
  <2>2. execs + 1 \in Nat
    BY TypesOf
  <2> HIDE DEF b, q
  <2> QED BY <2>1, <2>2, NewControlIs
<1>3. /\ req' = [req EXCEPT ![w] = r] /\ execs' = execs + 1 /\ execs < setting.execs
      /\ UNCHANGED <<setting, disk, ticket, alive, ctl, waiting, proof, children, tools>>
  BY DEF BeginAdmitted, Ask, files
<1> HIDE DEF n
<1>4. r \in Request /\ r.st = "activate" /\ r.new = n /\ r.ticket = q.ticket
  <2> HIDE DEF q
  <2> QED BY <1>1, <1>2 DEF Request
<1> HIDE DEF r
<1> QED BY <1>1, <1>2, <1>3, <1>4, NamesControl

\* rollover_normal_execution: the control file does not know the new name and
\* keeps guarding the process under the old one.
LEMMA RolloverKeeps == ASSUME IInv, NEW w \in Workers, NEW t \in Tasks, Rollover(w, t) PROVE IInv'
<1> DEFINE r == ctl[w].rev + 1
           c == [[[[ctl[w] EXCEPT !.exec = execs + 1] EXCEPT !.task = t] EXCEPT !.st = "busy"] EXCEPT !.rev = r]
<1>1. /\ ctl[w] \in Control /\ Has(w) /\ Sane(ctl[w]) /\ ctl[w].persisted <= ctl[w].rev
      /\ ctl[w].st = "idle" /\ HasWork(ctl[w]) /\ ~NeedsAdmission(ctl[w]) /\ disk # None /\ req[w] = None
      /\ execs \in Nat /\ execs < setting.execs /\ setting \in Setting /\ proof \in 0..execs
  BY TypesOf DEF Rollover, Rolls, Refused, Idle
<1>2. r \in Nat /\ ctl[w].persisted <= r /\ execs + 1 \in Nat /\ execs + 1 \in 0..setting.execs
      /\ 0..execs \subseteq 0..(execs + 1)
  BY <1>1, Later DEF Setting
<1>3. Persist(w, c)
  <2>1. c = [ctl[w] EXCEPT !.exec = execs + 1, !.task = t, !.st = "busy", !.rev = @ + 1]
    BY <1>1 DEF Control
  <2> HIDE DEF c
  <2> QED BY <2>1 DEF Rollover
<1>4. c \in Control /\ c.persisted <= c.rev
  <2> HIDE DEF r
  <2>1. [[ctl[w] EXCEPT !.exec = execs + 1] EXCEPT !.task = t] \in Control
    BY <1>1, <1>2 DEF Control
  <2>2. c \in Control
    BY <1>2, <2>1 DEF Control
  <2> QED BY <1>1, <1>2, <2>2 DEF Control
<1>5. /\ c.exec = execs + 1 /\ c.st = "busy" /\ c.handoff = ctl[w].handoff /\ c.natural = ctl[w].natural /\ c.card = ctl[w].card
  BY <1>1 DEF Control
<1>6. /\ UNCHANGED <<setting, ticket, alive, req, waiting, proof, children, tools>> /\ execs' = execs + 1
  BY DEF Rollover
<1> HIDE DEF r, c
<1>7. /\ disk.exec # execs + 1
      /\ \A v \in Workers : Has(v) => ctl[v].exec # execs + 1
      /\ \A v \in Workers : Published(v) /\ req[v].old # None => req[v].old.exec # execs + 1
      /\ \A v \in Workers : Carries(v) => req[v].new.exec # execs + 1
  BY <1>1, NamesOf, NamesAreNumbers
<1>8. disk' = disk /\ ctl' = [ctl EXCEPT ![w] = c]
  <2>1. disk' = disk
    BY <1>1, <1>5, <1>7, <1>3 DEF Persist, CurrentOwner
  <2>2. [c EXCEPT !.persisted = c.persisted] = c
    BY <1>4 DEF Control
  <2>3. ctl' = [ctl EXCEPT ![w] = [c EXCEPT !.persisted = c.persisted]]
    BY <1>1, <1>5, <1>7, <1>3 DEF Persist
  <2> QED BY <2>1, <2>2, <2>3
<1>9. ctl \in [Workers -> Control \cup {None}]
  BY DEF IInv, Types, TypeOK
<1>10. /\ ctl' \in [Workers -> Control \cup {None}] /\ ctl'[w] = c /\ \A v \in Workers \ {w} : ctl'[v] = ctl[v]
  BY <1>4, <1>8, <1>9
<1>11. /\ \A v \in Workers : Has(v)' => Has(v)
       /\ ~Carries(w) /\ ~Published(w)
  BY <1>1, <1>10 DEF Has, Carries, Published
<1>12. Sane(c) /\ Owns(ctl[w])
  BY <1>1, <1>5 DEF Sane, HasWork, NeedsAdmission, Owns
<1>13. Types'
  <2>1. TypeOK'
    <3>1. \A v \in Workers : ctl'[v] # None => ctl'[v].persisted <= ctl'[v].rev
      BY <1>4, <1>10 DEF IInv, Types, TypeOK
    <3> QED BY <1>1, <1>2, <1>6, <1>8, <1>10, <3>1 DEF IInv, Types, TypeOK
  <2>2. \A v \in Workers : ctl'[v] # None \/ req'[v] # None => v \in alive'
    BY <1>6, <1>11 DEF IInv, Types, Has
  <2>3. \A v \in Workers : Carries(v)' => req'[v].new \in Control /\ Fresh(req'[v].new)
    BY <1>6 DEF IInv, Types, Carries
  <2>4. \A v \in Workers : req'[v] # None /\ req'[v].st \in {"reserved", "activate", "activated"}
                             => req'[v].ticket \in Ticket
    BY <1>6 DEF IInv, Types
  <2> QED BY <1>1, <1>6, <2>1, <2>2, <2>3, <2>4 DEF Types, Fresh
<1>14. Named'
  <2>1. {<<ctl'[v].exec, v>> : v \in {u \in Workers : Has(u)'}} \subseteq Names \cup {<<execs + 1, w>>}
    BY <1>5, <1>10, <1>11, NamesOf
  <2>2. /\ {<<req[v].new.exec, v>> : v \in {u \in Workers : Carries(u)}} \subseteq Names
        /\ {<<req[v].old.exec, req[v].old.server>> : v \in {u \in Workers : Published(u) /\ req[u].old # None}} \subseteq Names
        /\ (IF disk = None THEN {} ELSE {<<disk.exec, disk.server>>}) \subseteq Names
    BY DEF Names
  <2>3. Names' \subseteq Names \cup {<<execs + 1, w>>}
    BY <1>6, <1>8, <2>1, <2>2 DEF Names, Carries, Published
  <2>4. \A v \in Workers : Has(v)' /\ Carries(v)' => req'[v].new.exec # ctl'[v].exec
    BY <1>6, <1>10, <1>11 DEF Carries, IInv, Named
  <2> QED BY <1>6, <2>3, <2>4, NamedAnew DEF Named
<1>15. Controllers'
  <2>1. ASSUME NEW v \in Workers, Has(v)'
        PROVE  Sane(ctl'[v]) /\ (Rolled(ctl'[v]) => Unknown(ctl'[v].exec))
    <3>1. CASE v = w
      <4>1. \A u \in Workers : Published(u) => req[u].old # None
        BY <1>1 DEF IInv, Publication
      <4> QED BY <1>5, <1>7, <1>10, <1>12, <3>1, <4>1 DEF Unknown
    <3>2. CASE v # w
      BY <1>10, <1>11, <2>1, <3>2 DEF IInv, Controllers
    <3> QED BY <3>1, <3>2
  <2> QED BY <1>6, <1>8, <2>1 DEF Controllers, Unknown, Published, Sane, Rolled
<1>16. Publication'
  <2>1. ASSUME NEW v \in Workers, Published(v)
        PROVE  /\ disk = Snapshot(v, req[v].new) /\ req[v].old \in Doc \cup {None}
               /\ \A u \in Workers : Has(u)' => req[v].old # None
               /\ Has(v)' /\ Owns(ctl'[v]) => Guards(v, req[v].old)
    BY <1>10, <1>11, <2>1 DEF IInv, Publication
  <2>2. \A v \in Workers : Has(v)' => disk # None
    BY <1>1
  <2> QED BY <1>6, <1>8, <2>1, <2>2
        DEF Publication, Published, Snapshot, Ready, Drained, HasWork, Owns, Guards
<1>17. Ownership'
  <2>1. ASSUME NEW v \in Workers, Has(v)', Owns(ctl'[v]) PROVE Guards(v, disk)
    BY <1>1, <1>10, <1>11, <1>12, <2>1 DEF IInv, Ownership
  <2> QED BY <1>8, <2>1 DEF Ownership, Owns, HasWork, Guards
<1>18. Stops'
  <2>1. ASSUME NEW v \in Workers, Has(v)', ctl'[v].st = "ending", ctl'[v].handoff # "none"
        PROVE  ctl'[v] = ctl[v] /\ Stopping(v)
    BY <1>5, <1>10, <1>11, <2>1 DEF IInv, Stops
  <2> QED BY <1>8, <2>1 DEF Stops, Stopping, Guards
<1> QED BY <1>13, <1>14, <1>15, <1>16, <1>17, <1>18 DEF IInv

-----------------------------------------------------------------------------
(* Publishing, installing and withdrawing a controller.                    *)

\* What the control file says lets w begin, or recover: no other process that
\* lives is guarded by it, and nobody stops.
LEMMA Allowed ==
  ASSUME IInv, NEW w \in Workers, AllowsBegin(w) \/ (\E a \in Ticket : AllowsRecovery(w, a))
  PROVE  /\ \A v \in Workers : v \in alive /\ Guards(v, disk) => v = w
         /\ \A v \in Workers : Has(v) => ~Stopping(v)
<1>1. ASSUME AllowsBegin(w), disk # None
      PROVE  /\ \A v \in Workers : v \in alive /\ Guards(v, disk) => v = w
             /\ \A v \in Workers : Has(v) => ~Stopping(v)
  <2>1. \A v \in Workers : Has(v) => ~Stopping(v)
    BY <1>1 DEF AllowsBegin, Stopping
  <2>2. CASE Has(w) /\ (disk.exec = ctl[w].exec \/ disk.server = w)
    <3>1. disk.server = w
      BY <1>1, <2>2, NamesOf
    <3> QED BY <2>1, <3>1 DEF Guards
  <2>3. CASE disk.st = "ended" \/ QuietRemnant(disk)
    BY <2>1, <2>3 DEF Guards, QuietRemnant, Remnant, DeadOwner
  <2> QED BY <1>1, <2>2, <2>3 DEF AllowsBegin
<1>2. ASSUME NEW a \in Ticket, AllowsRecovery(w, a), disk # None
      PROVE  /\ \A v \in Workers : v \in alive /\ Guards(v, disk) => v = w
             /\ \A v \in Workers : Has(v) => ~Stopping(v)
  <2>1. CASE disk.ready \/ disk.st = "ended"
    BY <2>1 DEF Guards, Stopping
  <2>2. CASE disk.server = w /\ disk.handoff = "none"
    BY <2>2 DEF Guards, Stopping
  <2>3. CASE Remnant(disk)
    BY <2>3, TypesOf DEF Guards, Stopping, Remnant, DeadOwner
  <2> QED BY <1>2, <2>1, <2>2, <2>3 DEF AllowsRecovery, Committed
<1>3. ASSUME disk = None
      PROVE  /\ \A v \in Workers : v \in alive /\ Guards(v, disk) => v = w
             /\ \A v \in Workers : Has(v) => ~Stopping(v)
  BY <1>3 DEF Guards, Stopping
<1> QED BY <1>1, <1>2, <1>3

\* A request publishes its controller in a control file that allows it.
LEMMA PublishKeeps ==
  ASSUME IInv, NEW w \in Workers, w \in alive, Carries(w), ~Published(w), NEW r \in Request,
         r.st \in {"claimed", "activated"}, r.st = "activated" => r.ticket \in Ticket,
         r.new = req[w].new, r.old = disk, req' = [req EXCEPT ![w] = r], disk' = Snapshot(w, r.new),
         \A v \in Workers : v \in alive /\ Guards(v, disk) => v = w,
         \A v \in Workers : Has(v) => ~Stopping(v),
         UNCHANGED <<setting, ticket, alive, ctl, waiting, proof, children, execs, tools>>
  PROVE  IInv'
<1>1. r.new \in Control /\ Fresh(r.new)
  BY DEF IInv, Types
<1>2. /\ disk' \in Doc /\ disk' # None /\ disk'.exec = r.new.exec /\ disk'.server = w /\ Guards(w, disk')
  BY <1>1, SnapshotType, FreshGuards
<1>3. \A v \in Workers : ~Published(v)
  BY PublishedIs
<1>4. req \in [Workers -> Request \cup {None}]
  BY DEF IInv, Types, TypeOK
<1>5. req' \in [Workers -> Request \cup {None}] /\ req'[w] = r /\ \A v \in Workers \ {w} : req'[v] = req[v]
  BY <1>4
<1>6. /\ \A v \in Workers : Carries(v)' => Carries(v) /\ req'[v].new = req[v].new
      /\ \A v \in Workers : Published(v)' => v = w
  BY <1>3, <1>5 DEF Carries, Published
<1>7. Types'
  <2>1. TypeOK'
    BY <1>2, <1>5 DEF IInv, Types, TypeOK
  <2>2. \A v \in Workers : ctl'[v] # None \/ req'[v] # None => v \in alive'
    BY <1>5 DEF IInv, Types
  <2>3. \A v \in Workers : Carries(v)' => req'[v].new \in Control /\ Fresh(req'[v].new)
    BY <1>6 DEF IInv, Types
  <2>4. \A v \in Workers : req'[v] # None /\ req'[v].st \in {"reserved", "activate", "activated"}
                             => req'[v].ticket \in Ticket
    BY <1>5 DEF IInv, Types
  <2> QED BY <2>1, <2>2, <2>3, <2>4, TypesOf DEF Types, Fresh
<1>8. Named'
  <2>1. <<disk'.exec, disk'.server>> \in Names
    BY <1>2, NamesOf
  <2>2. {<<req'[v].new.exec, v>> : v \in {u \in Workers : Carries(u)'}} \subseteq Names
    BY <1>6, NamesOf
  <2>3. {<<req'[v].old.exec, req'[v].old.server>> : v \in {u \in Workers : Published(u)' /\ req'[u].old # None}} \subseteq Names
    BY <1>5, <1>6, NamesOf
  <2>4. {<<ctl[v].exec, v>> : v \in {u \in Workers : Has(u)}} \subseteq Names
    BY SMTT(60) DEF Names
  <2>5. Names' \subseteq Names
    BY <2>1, <2>2, <2>3, <2>4 DEF Names, Has
  <2>6. \A v \in Workers : Has(v)' /\ Carries(v)' => req'[v].new.exec # ctl'[v].exec
    BY <1>6 DEF Has, IInv, Named
  <2> QED BY <2>5, <2>6 DEF IInv, Named
<1>9. Controllers'
  <2>1. ASSUME NEW v \in Workers, Has(v), Rolled(ctl[v])
        PROVE  disk'.exec # ctl[v].exec /\ disk.exec # ctl[v].exec
    BY <1>2, <2>1, NamesOf, SMTT(60) DEF IInv, Controllers, Unknown
  <2> QED BY <1>5, <1>6, <2>1 DEF IInv, Controllers, Unknown, Has, Sane, Rolled
<1>10. Publication'
  <2>1. \A v \in Workers : Has(v) => disk # None /\ (Owns(ctl[v]) => Guards(v, disk))
    BY DEF IInv, Publication, Ownership
  <2>2. disk \in Doc \cup {None}
    BY DEF IInv, Types, TypeOK
  <2>3. disk' = Snapshot(w, req'[w].new) /\ req'[w].old = disk
    BY <1>5
  <2>4. ASSUME NEW v \in Workers, Published(v)'
        PROVE  /\ disk' = Snapshot(v, req'[v].new) /\ req'[v].old \in Doc \cup {None}
               /\ \A u \in Workers : Has(u) => req'[v].old # None
               /\ Has(v) /\ Owns(ctl[v]) => Guards(v, req'[v].old)
    BY <1>6, <2>1, <2>2, <2>3, <2>4
  <2> QED BY <1>2, <2>4, ZenonT(60) DEF Publication, Has, Snapshot, Ready, Drained, HasWork, Owns, Guards
<1>11. Ownership'
  <2>1. ASSUME NEW v \in Workers, Has(v), Owns(ctl[v]) PROVE v = w
    BY <2>1, TypesOf DEF IInv, Ownership
  <2> QED BY <1>2, <2>1 DEF Ownership, Has, Owns, HasWork, Guards
<1>12. Stops'
  BY DEF IInv, Stops, Has
<1> QED BY <1>7, <1>8, <1>9, <1>10, <1>11, <1>12 DEF IInv

LEMMA ClaimKeeps == ASSUME IInv, NEW w \in Workers, Claim(w) PROVE IInv'
<1>1. CASE disk' = disk /\ Answer(w)
  BY <1>1, RefusedKeeps
<1>2. CASE ~(disk' = disk /\ Answer(w))
  <2> DEFINE r == [req[w] EXCEPT !.st = "claimed", !.old = disk]
  <2>1. /\ w \in alive /\ req[w] # None /\ req[w] \in Request /\ req[w].st = "claim" /\ disk \in Doc \cup {None}
        /\ UNCHANGED <<setting, ticket, alive, ctl, waiting, proof, children, execs, tools>>
    BY TypesOf DEF Claim, IInv, Types, TypeOK
  <2>2. AllowsBegin(w) /\ disk' = Snapshot(w, req[w].new) /\ req' = [req EXCEPT ![w] = r]
    BY <1>2 DEF Claim, Ask
  <2>3. r \in Request /\ r.st = "claimed" /\ r.new = req[w].new /\ r.old = disk
    BY <2>1 DEF Request
  <2> HIDE DEF r
  <2>4. Carries(w) /\ ~Published(w)
    BY <2>1 DEF Carries, Published
  <2>5. /\ \A v \in Workers : v \in alive /\ Guards(v, disk) => v = w
        /\ \A v \in Workers : Has(v) => ~Stopping(v)
    BY <2>2, Allowed
  <2> QED BY <2>1, <2>2, <2>3, <2>4, <2>5, PublishKeeps
<1> QED BY <1>1, <1>2

LEMMA ActivateKeeps == ASSUME IInv, NEW w \in Workers, Activate(w) PROVE IInv'
<1>1. CASE disk' = disk /\ Answer(w)
  BY <1>1, RefusedKeeps
<1>2. CASE ~(disk' = disk /\ Answer(w))
  <2> DEFINE r == [req[w] EXCEPT !.st = "activated", !.old = disk]
  <2>1. /\ w \in alive /\ req[w] # None /\ req[w] \in Request /\ req[w].st = "activate" /\ disk \in Doc \cup {None}
        /\ req[w].ticket \in Ticket
        /\ UNCHANGED <<setting, ticket, alive, ctl, waiting, proof, children, execs, tools>>
    BY TypesOf DEF Activate, IInv, Types, TypeOK
  <2>2. /\ AllowsRecovery(w, req[w].ticket) /\ disk' = Snapshot(w, req[w].new) /\ req' = [req EXCEPT ![w] = r]
    BY <1>2 DEF Activate, Admitted, Ask
  <2>3. r \in Request /\ r.st = "activated" /\ r.new = req[w].new /\ r.old = disk /\ r.ticket = req[w].ticket
    BY <2>1 DEF Request
  <2> HIDE DEF r
  <2>4. Carries(w) /\ ~Published(w)
    BY <2>1 DEF Carries, Published
  <2>5. /\ \A v \in Workers : v \in alive /\ Guards(v, disk) => v = w
        /\ \A v \in Workers : Has(v) => ~Stopping(v)
    BY <2>1, <2>2, Allowed
  <2> QED BY <2>1, <2>2, <2>3, <2>4, <2>5, PublishKeeps
<1> QED BY <1>1, <1>2

\* Nobody else has published a controller while w has.
LEMMA OnlyOneIsPublished ==
  ASSUME IInv, NEW w \in Workers, Published(w), NEW v \in Workers, Published(v)
  PROVE  v = w
BY PublishedIs

LEMMA InstallKeeps == ASSUME IInv, NEW w \in Workers, Install(w) PROVE IInv'
<1> DEFINE n == req[w].new
           c == [n EXCEPT !.persisted = n.rev]
<1>1. Published(w) /\ Carries(w) /\ n \in Control /\ Fresh(n) /\ Guards(w, disk) /\ disk # None /\ w \in alive
  <2>1. Published(w)
    BY DEF Install, Published
  <2> QED BY <2>1, PublishedIs
<1>2. /\ ctl' = [ctl EXCEPT ![w] = c] /\ req' = [req EXCEPT ![w] = None]
      /\ UNCHANGED <<setting, disk, alive, proof, children, execs, tools>>
      /\ ticket' \in Ticket \cup {None} /\ waiting' \in Tasks \cup {None}
  BY TypesOf DEF Install, Installed, Answer, Ask
<1>3. /\ c \in Control /\ c.exec = n.exec /\ c.st = "busy" /\ c.card = "none" /\ c.handoff = "none" /\ ~c.background /\ ~c.tool
      /\ ~c.natural /\ c.persisted <= c.rev
  <2> HIDE DEF n
  <2>1. n.rev \in Nat
    BY <1>1 DEF Control
  <2> QED BY <1>1, <2>1 DEF Control, Fresh
<1> HIDE DEF c
<1>4. ctl \in [Workers -> Control \cup {None}] /\ req \in [Workers -> Request \cup {None}]
  BY DEF IInv, Types, TypeOK
<1>5. /\ ctl' \in [Workers -> Control \cup {None}] /\ req' \in [Workers -> Request \cup {None}]
      /\ ctl'[w] = c /\ req'[w] = None
      /\ \A v \in Workers \ {w} : ctl'[v] = ctl[v] /\ req'[v] = req[v]
  BY <1>2, <1>3, <1>4
<1>6. /\ \A v \in Workers : ~Published(v)'
      /\ \A v \in Workers : Carries(v)' => v # w /\ Carries(v) /\ req'[v] = req[v]
  BY <1>1, <1>5, OnlyOneIsPublished DEF Published, Carries
<1>7. Types'
  <2>1. TypeOK'
    <3>1. \A v \in Workers : ctl'[v] # None => ctl'[v].persisted <= ctl'[v].rev
      BY <1>3, <1>5 DEF IInv, Types, TypeOK
    <3> QED BY <1>2, <1>5, <3>1 DEF IInv, Types, TypeOK
  <2>2. \A v \in Workers : ctl'[v] # None \/ req'[v] # None => v \in alive'
    BY <1>1, <1>2, <1>5 DEF IInv, Types
  <2>3. \A v \in Workers : Carries(v)' => req'[v].new \in Control /\ Fresh(req'[v].new)
    BY <1>6 DEF IInv, Types
  <2>4. \A v \in Workers : req'[v] # None /\ req'[v].st \in {"reserved", "activate", "activated"}
                             => req'[v].ticket \in Ticket
    BY <1>5 DEF IInv, Types
  <2> QED BY <1>2, <2>1, <2>2, <2>3, <2>4, TypesOf DEF Types, Fresh
<1>8. Named'
  <2>1. {<<ctl'[v].exec, v>> : v \in {u \in Workers : Has(u)'}} \subseteq Names
    <3>1. ASSUME NEW v \in Workers, Has(v)' PROVE <<ctl'[v].exec, v>> \in Names
      <4>1. CASE v = w
        BY <1>1, <1>3, <1>5, <4>1, NamesOf
      <4>2. CASE v # w
        BY <1>5, <3>1, <4>2, NamesOf DEF Has
      <4> QED BY <4>1, <4>2
    <3> QED BY <3>1
  <2>2. /\ {<<req'[v].new.exec, v>> : v \in {u \in Workers : Carries(u)'}} \subseteq Names
        /\ {<<req'[v].old.exec, req'[v].old.server>> : v \in {u \in Workers : Published(u)' /\ req'[u].old # None}} \subseteq Names
    BY <1>6, NamesOf
  <2>3. Names' \subseteq Names
    BY <1>2, <2>1, <2>2 DEF Names
  <2>4. \A v \in Workers : Has(v)' /\ Carries(v)' => req'[v].new.exec # ctl'[v].exec
    BY <1>5, <1>6 DEF Has, IInv, Named
  <2> QED BY <1>2, <2>3, <2>4 DEF IInv, Named
<1>9. Controllers'
  <2>1. ASSUME NEW v \in Workers, Has(v)'
        PROVE  Sane(ctl'[v]) /\ (Rolled(ctl'[v]) => disk.exec # ctl'[v].exec)
    <3>1. CASE v = w
      BY <1>3, <1>5, <3>1 DEF Sane, Rolled
    <3>2. CASE v # w
      BY <1>5, <2>1, <3>2 DEF Has, IInv, Controllers, Unknown
    <3> QED BY <3>1, <3>2
  <2> QED BY <1>2, <1>6, <2>1 DEF Controllers, Unknown, Sane, Rolled
<1>10. Publication'
  BY <1>1, <1>2, <1>6 DEF Publication
<1>11. Ownership'
  <2>1. ASSUME NEW v \in Workers, Has(v)', Owns(ctl'[v]) PROVE Guards(v, disk)
    <3>1. CASE v = w
      BY <1>1, <3>1
    <3>2. CASE v # w
      BY <1>5, <2>1, <3>2 DEF Has, IInv, Ownership
    <3> QED BY <3>1, <3>2
  <2> QED BY <1>2, <2>1 DEF Ownership, Owns, HasWork, Guards
<1>12. Stops'
  <2>1. ASSUME NEW v \in Workers, Has(v)', ctl'[v].st = "ending", ctl'[v].handoff # "none"
        PROVE  ctl'[v] = ctl[v] /\ Stopping(v)
    BY <1>3, <1>5, <2>1 DEF Has, IInv, Stops
  <2> QED BY <1>2, <2>1 DEF Stops, Stopping, Guards
<1> QED BY <1>7, <1>8, <1>9, <1>10, <1>11, <1>12 DEF IInv

\* What is put back guards whom it guarded before.
LEMMA RollbackKeeps == ASSUME IInv, NEW w \in Workers, Rollback(w) PROVE IInv'
<1> DEFINE o == req[w].old
<1>1. /\ Published(w) /\ Carries(w) /\ disk # None /\ disk.exec = req[w].new.exec /\ disk.server = w /\ w \in alive
  <2>1. Published(w)
    BY DEF Rollback, Published
  <2> QED BY <2>1, PublishedIs
<1>2. /\ disk' = o /\ req' = [req EXCEPT ![w] = None]
      /\ UNCHANGED <<setting, ticket, alive, ctl, waiting, proof, children, execs, tools>>
  BY <1>1 DEF Rollback, PutBack, Answer, Ask
<1>3. /\ o \in Doc \cup {None} /\ \A v \in Workers : Has(v) => o # None
      /\ Has(w) /\ Owns(ctl[w]) => Guards(w, o)
  BY <1>1 DEF IInv, Publication
<1>4. req \in [Workers -> Request \cup {None}]
  BY DEF IInv, Types, TypeOK
<1>5. /\ req' \in [Workers -> Request \cup {None}] /\ req'[w] = None /\ \A v \in Workers \ {w} : req'[v] = req[v]
  BY <1>2, <1>4
<1>6. /\ \A v \in Workers : ~Published(v)'
      /\ \A v \in Workers : Carries(v)' => v # w /\ Carries(v) /\ req'[v] = req[v]
  BY <1>1, <1>5, OnlyOneIsPublished DEF Published, Carries
<1>7. Types'
  <2>1. TypeOK'
    BY <1>2, <1>3, <1>5 DEF IInv, Types, TypeOK
  <2>2. \A v \in Workers : ctl'[v] # None \/ req'[v] # None => v \in alive'
    BY <1>2, <1>5 DEF IInv, Types
  <2>3. \A v \in Workers : Carries(v)' => req'[v].new \in Control /\ Fresh(req'[v].new)
    BY <1>6 DEF IInv, Types
  <2>4. \A v \in Workers : req'[v] # None /\ req'[v].st \in {"reserved", "activate", "activated"}
                             => req'[v].ticket \in Ticket
    BY <1>5 DEF IInv, Types
  <2> QED BY <1>2, <2>1, <2>2, <2>3, <2>4, TypesOf DEF Types, Fresh
<1>8. Named'
  <2>1. (IF disk' = None THEN {} ELSE {<<disk'.exec, disk'.server>>}) \subseteq Names
    BY <1>1, <1>2, NamesOf
  <2>2. /\ {<<req'[v].new.exec, v>> : v \in {u \in Workers : Carries(u)'}} \subseteq Names
        /\ {<<req'[v].old.exec, req'[v].old.server>> : v \in {u \in Workers : Published(u)' /\ req'[u].old # None}} \subseteq Names
        /\ {<<ctl[v].exec, v>> : v \in {u \in Workers : Has(u)}} \subseteq Names
    BY <1>6, NamesOf
  <2>3. Names' \subseteq Names
    BY <1>2, <2>1, <2>2 DEF Names, Has
  <2>4. \A v \in Workers : Has(v)' /\ Carries(v)' => req'[v].new.exec # ctl'[v].exec
    BY <1>2, <1>6 DEF Has, IInv, Named
  <2> QED BY <1>2, <2>3, <2>4 DEF IInv, Named
<1>9. Controllers'
  <2>1. ASSUME NEW v \in Workers, Has(v)
        PROVE  Sane(ctl[v]) /\ (Rolled(ctl[v]) => disk'.exec # ctl[v].exec)
    BY <1>1, <1>2, <2>1 DEF IInv, Controllers, Unknown
  <2> QED BY <1>2, <1>6, <2>1 DEF Controllers, Unknown, Sane, Rolled, Has
<1>10. Publication'
  BY <1>2, <1>3, <1>6 DEF Publication, Has
<1>11. Ownership'
  <2>1. ASSUME NEW v \in Workers, Has(v), Owns(ctl[v]) PROVE Guards(v, o)
    <3>1. v = w
      BY <1>1, <2>1 DEF IInv, Ownership, Guards
    <3> QED BY <1>3, <2>1, <3>1
  <2> QED BY <1>2, <2>1 DEF Ownership, Owns, HasWork, Guards, Has
<1>12. Stops'
  <2>1. \A v \in Workers : Has(v) => disk.exec # ctl[v].exec
    BY <1>1, NamesOf
  <2> QED BY <1>2, <2>1 DEF IInv, Stops, Stopping, Has
<1> QED BY <1>7, <1>8, <1>9, <1>10, <1>11, <1>12 DEF IInv

-----------------------------------------------------------------------------
(* The theorem.                                                            *)

LEMMA InitHolds == ASSUME Init PROVE IInv
<1>1. Names = {} /\ setting \in Setting
  BY AdmissionAssumption DEF Init, Names, Has, Carries, Published
<1>2. TypeOK
  BY <1>1 DEF Init, TypeOK, Setting
<1>3. Types
  BY <1>1, <1>2 DEF Init, Types, Carries
<1>4. Named
  BY <1>1 DEF Init, Named, Has
<1> QED BY <1>3, <1>4
        DEF Init, IInv, Controllers, Publication, Ownership, Stops, Has, Published

LEMMA StepHolds == ASSUME IInv, [Next]_vars PROVE IInv'
<1>1. CASE UNCHANGED vars
  <2>1. UNCHANGED <<setting, disk, ticket, alive, ctl, req, waiting, proof, children, execs, tools>>
    BY <1>1 DEF vars, files
  <2>2. Types'
    BY <2>1 DEF IInv, Types, TypeOK, Carries, Fresh
  <2>3. Names' = Names
    BY <2>1 DEF Names, Has, Carries, Published
  <2>4. Named'
    BY <2>1, <2>3 DEF IInv, Named, Has, Carries
  <2>5. Controllers'
    BY <2>1 DEF IInv, Controllers, Unknown, Published, Has, Sane, Rolled
  <2>6. Publication'
    BY <2>1 DEF IInv, Publication, Published, Snapshot, Ready, Drained, HasWork, Owns, Guards, Has
  <2>7. Ownership' /\ Stops'
    BY <2>1 DEF IInv, Ownership, Stops, Stopping, Has, Owns, HasWork, Guards
  <2> QED BY <2>2, <2>4, <2>5, <2>6, <2>7 DEF IInv
<1>2. CASE Expire
  BY <1>2, ExpireKeeps
<1>3. ASSUME NEW w \in Workers, NEW t \in Tasks,
             (\E perm \in BOOLEAN : Reserve(w, t, perm)) \/ Reuse(w, t) \/ Rollover(w, t) \/ Begin(w, t)
      PROVE  IInv'
  BY <1>3, ReserveKeeps, ReuseKeeps, RolloverKeeps, BeginKeeps
<1>4. ASSUME NEW w \in Workers, ReserveResult(w) \/ Require(w) \/ Release(w) \/ BeginAdmitted(w) \/ BeginRefused(w)
      PROVE  IInv'
  BY <1>4, ReserveResultKeeps, RequireKeeps, ReleaseKeeps, BeginAdmittedKeeps, BeginRefusedKeeps
<1>5. ASSUME NEW w \in Workers, Claim(w) \/ Activate(w) \/ Install(w) \/ Rollback(w)
      PROVE  IInv'
  BY <1>5, ClaimKeeps, ActivateKeeps, InstallKeeps, RollbackKeeps
<1>6. ASSUME NEW w \in Workers,
             Spawn(w) \/ SpawnEnds(w) \/ StartTool(w) \/ EndTool(w) \/ (\E card \in BOOLEAN : Detach(w, card)) \/ Suspend(w)
      PROVE  IInv'
  BY <1>6, SpawnKeeps, SpawnEndsKeeps, StartToolKeeps, EndToolKeeps, DetachKeeps, SuspendKeeps
<1>7. ASSUME NEW w \in Workers,
             Prepare(w) \/ Commit(w) \/ Complete(w) \/ Terminate(w) \/ Crash(w) \/ ChildEnds(w)
      PROVE  IInv'
  BY <1>7, PrepareKeeps, CommitKeeps, CompleteKeeps, TerminateKeeps, CrashKeeps, ChildEndsKeeps
<1>8. ASSUME NEW w \in Workers, NEW outcome \in Outcomes \ {"none"}, End(w, outcome)
      PROVE  IInv'
  BY <1>8, EndKeeps
<1> QED BY <1>1, <1>2, <1>3, <1>4, <1>5, <1>6, <1>7, <1>8 DEF Next

\* Whoever works on the conversation, in the foreground, in the background or
\* in a subprocess tool, and whoever stops it after taking back its handoff,
\* is named by the control file (claim_begin_without_admission, activate,
\* persist_snapshot_if_current_owner, InputHandoffStore.write_snapshot): for
\* any number of processes, tasks and executions, over crashes, canceled
\* requests and tickets that expire.
THEOREM Owner == Spec => []OwnerHoldsControl
<1>1. Init => IInv
  BY InitHolds
<1>2. IInv /\ [Next]_vars => IInv'
  BY StepHolds
<1>3. IInv => OwnerHoldsControl
  <2> SUFFICES ASSUME IInv PROVE OwnerHoldsControl
    OBVIOUS
  <2>1. TypeOK
    BY DEF IInv, Types
  <2>2. WorkerOwnsControl
    BY <2>1 DEF IInv, Ownership, Owns, Guards, WorkerOwnsControl, TypeOK
  <2>3. StopKeepsControl
    BY <2>1 DEF IInv, Stops, Stopping, Guards, StopKeepsControl, TypeOK
  <2> QED BY <2>1, <2>2, <2>3 DEF OwnerHoldsControl
<1> QED BY <1>1, <1>2, <1>3, PTL DEF Spec

-----------------------------------------------------------------------------
(* A claim leaves no subprocess behind.                                    *)

\* The conversation has one task, or works on one at a time: a turn of another
\* task would replace a controller that is still busy, and its tools' marker.
OneTask == \A s, t \in Tasks : s = t

\* Without background work, a tool runs only while its turn is at work or being
\* stopped, and an outcome is known only of an execution that ended.
Working(c) == ~c.background /\ (c.tool => c.st \in {"busy", "ending"}) /\ (c.st # "ended" => c.outcome = "none")
\* A process that asks for a turn has none at work.
Resting(w) == req[w] # None /\ Has(w) => ~HasWork(ctl[w])
\* The control file says of its owner's subprocess that it may be running.
Marked(d) == d # None /\ d.server \in children => d.tools /\ d.st # "ended"
\* The control file, or the one that could be put back, is an earlier revision
\* of the controller's own: its next revision will replace it.
Behind(w) == IF Published(w) THEN req[w].old ELSE disk
Knows(w, d) == d # None /\ d.exec = ctl[w].exec /\ d.rev <= ctl[w].rev

Controls ==
  /\ \A w \in Workers : Has(w) => Working(ctl[w])
  /\ \A w \in Workers : Carries(w) => req[w].new.outcome = "none"
  /\ \A w \in Workers : Resting(w)
Markers ==
  /\ \A w \in Workers : w \in children /\ w \in alive => Has(w) /\ ctl[w].tool
  /\ Marked(disk)
  /\ \A w \in Workers : Published(w) => Marked(req[w].old)
Followed == \A w \in Workers : Has(w) /\ Owns(ctl[w]) => Knows(w, Behind(w))

OInv == Controls /\ Markers /\ Followed

\* A process that asks runs no subprocess.
LEMMA AskerIsAlone ==
  ASSUME OInv, NEW w \in Workers, req[w] # None, w \in alive
  PROVE  w \notin children
BY DEF OInv, Controls, Markers, Resting, HasWork

LEMMA SnapshotSays ==
  ASSUME NEW w \in Workers, NEW c \in Control
  PROVE  Snapshot(w, c).rev = c.rev /\ Snapshot(w, c).tools = c.tool
BY DEF Snapshot

\* The requests as far as they publish or carry a controller, or are under way.
Quiet ==
  \A v \in Workers :
    /\ Published(v)' <=> Published(v)
    /\ Published(v) => req'[v].old = req[v].old
    /\ Carries(v)' => req'[v].new.outcome = "none"

\* A controller of w that goes on as d.
Turns(w, d) ==
  /\ Has(w) /\ d # None /\ d.exec = ctl[w].exec /\ d.rev \in Nat /\ ctl[w].rev <= d.rev /\ Working(d)
  /\ Owns(d) => Owns(ctl[w])
  /\ req'[w] # None => ~HasWork(d)
  /\ w \in children' => d.tool
  /\ \/ disk' = disk /\ children' \subseteq children
     \/ /\ disk # None /\ disk.exec = ctl[w].exec /\ children' \subseteq children \cup {w}
        /\ disk' # None /\ disk'.exec = d.exec /\ disk'.server = w /\ disk'.rev <= d.rev
        /\ d.tool => disk'.tools /\ disk'.st # "ended"

LEMMA TurnKeeps ==
  ASSUME IInv, OInv, NEW w \in Workers, NEW d, Turns(w, d), Quiet,
         ctl'[w] = d, \A v \in Workers : v # w => ctl'[v] = ctl[v] /\ (req'[v] # None => req[v] # None),
         alive' = alive
  PROVE  OInv'
<1>1. \A v \in Workers : Has(v)' => Has(v)
  BY DEF Turns, Has
<1>2. Controls'
  <2>1. \A v \in Workers : Has(v)' => Working(ctl'[v])
    BY <1>1 DEF Turns, Has, OInv, Controls
  <2>2. \A v \in Workers : req'[v] # None /\ Has(v)' => ~HasWork(ctl'[v])
    BY <1>1 DEF Turns, Has, OInv, Controls, Resting
  <2>3. \A v \in Workers : Carries(v)' => req'[v].new.outcome = "none"
    BY DEF Quiet
  <2> QED BY <2>1, <2>2, <2>3 DEF Controls, Working, Resting, HasWork
<1>3. CASE disk' = disk /\ children' \subseteq children
  <2>1. \A v \in Workers : v \in children' /\ v \in alive' => Has(v)' /\ ctl'[v].tool
    BY <1>3 DEF Turns, Has, OInv, Markers
  <2>2. /\ Marked(disk)'
        /\ \A v \in Workers : Published(v)' => Marked(req[v].old)'
    BY <1>3 DEF OInv, Markers, Marked, Quiet
  <2>3. Followed'
    <3> SUFFICES ASSUME NEW v \in Workers, Has(v)', Owns(ctl'[v])
                 PROVE  /\ Behind(v)' # None /\ Behind(v)'.exec = ctl'[v].exec /\ Behind(v)'.rev <= ctl'[v].rev
      BY DEF Followed, Knows, Owns, HasWork
    <3>1. Has(v) /\ Owns(ctl[v]) /\ Knows(v, Behind(v))
      BY <1>1 DEF Turns, OInv, Followed
    <3>2. Behind(v)' = Behind(v)
      BY <1>3 DEF Behind, Quiet
    <3>3. CASE v # w
      BY <3>1, <3>2, <3>3 DEF Knows
    <3>4. CASE v = w
      <4>1. Behind(v).rev \in Nat /\ ctl[v].rev \in Nat
        <5>1. ctl[v].rev \in Nat
          BY <3>1, TypesOf DEF Control
        <5>2. Behind(v) \in Doc
          BY <3>1, TypesOf DEF Behind, Knows, IInv, Publication
        <5> QED BY <5>1, <5>2 DEF Doc
      <4> QED BY <3>1, <3>2, <3>4, <4>1 DEF Knows, Turns
    <3> QED BY <3>3, <3>4
  <2> QED BY <1>2, <2>1, <2>2, <2>3 DEF OInv, Markers, Has
<1>4. CASE ~(disk' = disk /\ children' \subseteq children)
  <2>1. /\ disk # None /\ disk.exec = ctl[w].exec /\ children' \subseteq children \cup {w}
        /\ disk' # None /\ disk'.exec = d.exec /\ disk'.server = w /\ disk'.rev <= d.rev
        /\ d.tool => disk'.tools /\ disk'.st # "ended"
    BY <1>4 DEF Turns
  <2>2. \A v \in Workers : ~Published(v) /\ ~Published(v)'
    <3>1. \A v \in Workers : ~Published(v)
      BY <2>1, NamesOf, PublishedIs DEF Turns
    <3> QED BY <3>1 DEF Quiet
  <2>3. \A v \in Workers : v \in children' /\ v \in alive' => Has(v)' /\ ctl'[v].tool
    BY <2>1 DEF Turns, Has, OInv, Markers
  <2>4. Marked(disk)'
    BY <2>1 DEF Marked, Turns
  <2>5. Followed'
    <3> SUFFICES ASSUME NEW v \in Workers, Has(v)', Owns(ctl'[v])
                 PROVE  /\ disk' # None /\ disk'.exec = ctl'[v].exec /\ disk'.rev <= ctl'[v].rev
      BY <2>2 DEF Followed, Knows, Owns, HasWork, Behind
    <3>1. CASE v # w
      <4>1. Has(v) /\ Owns(ctl[v]) /\ Knows(v, disk)
        BY <1>1, <2>2, <3>1 DEF OInv, Followed, Behind
      <4> QED BY ZenonT(60), <2>1, <3>1, <4>1, NamesOf DEF Knows, Turns
    <3>2. CASE v = w
      BY <2>1, <3>2 DEF Turns
    <3> QED BY <3>1, <3>2
  <2> QED BY <1>2, <2>2, <2>3, <2>4, <2>5 DEF OInv, Markers, Has
<1> QED BY <1>3, <1>4

\* A step that no controller takes and that publishes nothing.
LEMMA StillKeeps ==
  ASSUME IInv, OInv, Quiet, UNCHANGED <<disk, alive, ctl>>, children' \subseteq children,
         children' \cap alive = children \cap alive,
         \A v \in Workers : req'[v] # None /\ Has(v) => ~HasWork(ctl[v])
  PROVE  OInv'
<1>1. Controls'
  BY DEF Quiet, Has, OInv, Controls, Working, Resting, HasWork
<1>2. \A v \in Workers : v \in children' /\ v \in alive' => Has(v)' /\ ctl'[v].tool
  BY DEF Has, OInv, Markers
<1>3. Marked(disk)' /\ \A v \in Workers : Published(v)' => Marked(req[v].old)'
  BY DEF OInv, Markers, Marked, Quiet
<1>4. \A v \in Workers : Behind(v)' = Behind(v)
  BY DEF Behind, Quiet
<1>5. Followed'
  BY <1>4 DEF OInv, Followed, Knows, Has, Owns, HasWork
<1> QED BY <1>1, <1>2, <1>3, <1>5 DEF OInv, Markers

\* A request that goes on without publishing anything.
LEMMA AskQuiet ==
  ASSUME IInv, OInv, NEW w \in Workers, ~Published(w), NEW r, req' = [req EXCEPT ![w] = r],
         r = None \/ r.st \in {"reserve", "reserved"} \/ (r.st \in {"claim", "activate"} /\ r.new.outcome = "none")
  PROVE  Quiet /\ req'[w] = r /\ \A v \in Workers : v # w => req'[v] = req[v]
<1>1. req'[w] = r /\ \A v \in Workers : v # w => req'[v] = req[v]
  BY DEF IInv, Types, TypeOK
<1>2. /\ Published(w)' <=> Published(w)
      /\ Published(w) => req'[w].old = req[w].old
      /\ Carries(w)' => req'[w].new.outcome = "none"
  BY <1>1 DEF Published, Carries
<1>3. ASSUME NEW v \in Workers, v # w
      PROVE  /\ Published(v)' <=> Published(v)
             /\ Published(v) => req'[v].old = req[v].old
             /\ Carries(v)' => req'[v].new.outcome = "none"
  <2>1. (Published(v)' <=> Published(v)) /\ (Carries(v)' <=> Carries(v))
    BY <1>1, <1>3 DEF Published, Carries
  <2> QED BY <1>1, <1>3, <2>1 DEF OInv, Controls
<1> QED BY <1>1, <1>2, <1>3 DEF Quiet

LEMMA SameQuiet == ASSUME OInv, req' = req PROVE Quiet
BY DEF Quiet, Published, Carries, OInv, Controls

\* A request without a controller step.
LEMMA AskStays ==
  ASSUME IInv, OInv, NEW w \in Workers, ~Published(w), NEW r, req' = [req EXCEPT ![w] = r],
         r = None \/ r.st \in {"reserve", "reserved"} \/ (r.st \in {"claim", "activate"} /\ r.new.outcome = "none"),
         r # None /\ Has(w) => ~HasWork(ctl[w]), UNCHANGED <<disk, alive, ctl, children>>
  PROVE  OInv'
<1>1. Quiet /\ req'[w] = r /\ \A v \in Workers : v # w => req'[v] = req[v]
  BY AskQuiet
<1>2. \A v \in Workers : req'[v] # None /\ Has(v) => ~HasWork(ctl[v])
  BY <1>1 DEF OInv, Controls, Resting
<1> QED BY <1>1, <1>2, StillKeeps

\* A controller that goes on while its request stays as it is.
LEMMA TurnStays ==
  ASSUME IInv, OInv, NEW w \in Workers, NEW d, Turns(w, d), ctl' = [ctl EXCEPT ![w] = d],
         req' = req, alive' = alive
  PROVE  OInv'
<1>1. ctl'[w] = d /\ \A v \in Workers : v # w => ctl'[v] = ctl[v]
  BY DomainOf
<1> QED BY <1>1, SameQuiet, TurnKeeps

\* _persist_snapshot of a controller that goes on, written or not.
LEMMA PersistTurns ==
  ASSUME IInv, OInv, NEW w \in Workers, Has(w), NEW c \in Control, Persist(w, c),
         c.exec = ctl[w].exec, ctl[w].rev <= c.rev, Working(c), c.st = "ended" => ~c.tool, Owns(c) => Owns(ctl[w]),
         req'[w] # None => ~HasWork(c), w \in children' => c.tool, children' \subseteq children \cup {w},
         children' \subseteq children \/ (CurrentOwner(c.exec, c.rev) /\ c.persisted < c.rev)
  PROVE  \E d \in Control : ctl' = [ctl EXCEPT ![w] = d] /\ Turns(w, d)
<1> DEFINE stale == c.rev <= c.persisted
           mine == disk = None \/ disk.exec = c.exec
           p == IF mine /\ ~stale THEN c.rev ELSE c.persisted
           d == [c EXCEPT !.persisted = p]
<1>1. ctl' = [ctl EXCEPT ![w] = d]
  BY DEF Persist
<1>2. p \in Nat
  BY DEF Control
<1>3. \/ disk' = disk /\ children' \subseteq children
      \/ disk.exec = c.exec /\ disk' = Snapshot(w, c)
  <2>1. c.rev \in Nat /\ c.persisted \in Nat
    BY DEF Control
  <2> QED BY <2>1, TypesOf DEF Persist, CurrentOwner
<1> HIDE DEF p
<1>4. d \in Control /\ d.rev = c.rev /\ d.exec = c.exec /\ d.st = c.st /\ d.outcome = c.outcome
      /\ d.background = c.background /\ d.tool = c.tool /\ d.durable = c.durable
  BY <1>2 DEF Control
<1>5. d # None
  BY <1>4, AdmissionAssumption
<1> HIDE DEF d
<1>6. Working(d) /\ (Owns(d) => Owns(ctl[w])) /\ (HasWork(d) <=> HasWork(c))
  BY <1>4 DEF Working, Owns, HasWork
<1>7. disk # None /\ c.rev \in Nat
  BY TypesOf DEF Control
<1>8. disk' = Snapshot(w, c) =>
        /\ disk' # None /\ disk'.exec = d.exec /\ disk'.server = w /\ disk'.rev <= d.rev
        /\ d.tool => disk'.tools /\ disk'.st # "ended"
  BY <1>4, <1>7, SnapshotType, SnapshotSays
<1>9. Turns(w, d)
  BY <1>3, <1>4, <1>5, <1>6, <1>7, <1>8 DEF Turns
<1> QED BY <1>1, <1>4, <1>9

-----------------------------------------------------------------------------
(* The steps of a request, again.                                          *)

LEMMA ReserveMarks ==
  ASSUME IInv, OInv, NEW w \in Workers, NEW t \in Tasks, NEW perm \in BOOLEAN, Reserve(w, t, perm)
  PROVE  OInv'
<1> DEFINE localOnly == Has(w) /\ ctl[w].task = t /\ ctl[w].local /\ Drained(ctl[w])
           r == [st |-> "reserve", task |-> t, local |-> localOnly, perm |-> IF perm /\ ~localOnly THEN proof ELSE 0,
                 ticket |-> None, new |-> None, old |-> None]
<1>1. /\ r.st = "reserve" /\ req' = [req EXCEPT ![w] = r] /\ UNCHANGED <<alive, children>>
      /\ Has(w) => ~HasWork(ctl[w])
  BY DEF Reserve, Ask, CanAdmit, Drained
<1>2. ~Published(w) /\ req[w] = None
  BY DEF Reserve, Idle, Published
<1> HIDE DEF r
<1>3. CASE Has(w) /\ Ready(ctl[w])
  <2>1. Persist(w, ctl[w])
    BY <1>3 DEF Reserve
  <2>2. /\ ctl[w] \in Control /\ ctl[w].rev \in Nat /\ ctl[w].st = "idle" /\ ~ctl[w].tool /\ Working(ctl[w])
        /\ w \notin children
    BY <1>1, <1>3, TypesOf DEF Control, Ready, Drained, HasWork, OInv, Controls, Markers
  <2>3. PICK d \in Control : ctl' = [ctl EXCEPT ![w] = d] /\ Turns(w, d)
    BY <1>1, <1>3, <2>1, <2>2, PersistTurns
  <2>4. Quiet /\ \A v \in Workers : v # w => req'[v] = req[v]
    BY <1>1, <1>2, AskQuiet
  <2>5. ctl'[w] = d /\ \A v \in Workers : v # w => ctl'[v] = ctl[v]
    BY <2>3, DomainOf
  <2> QED BY <1>1, <2>3, <2>4, <2>5, TurnKeeps
<1>4. CASE ~(Has(w) /\ Ready(ctl[w]))
  <2>1. UNCHANGED <<disk, ctl>>
    BY <1>4 DEF Reserve
  <2> QED BY <1>1, <1>2, <2>1, AskStays
<1> QED BY <1>3, <1>4

LEMMA ReserveResultMarks == ASSUME IInv, OInv, NEW w \in Workers, ReserveResult(w) PROVE OInv'
<1> DEFINE q == req[w]
           a == [by |-> w, task |-> q.task, exec |-> IF disk = None THEN 0 ELSE disk.exec,
                 rev |-> IF disk = None THEN 0 ELSE disk.rev, local |-> q.local, perm |-> q.perm, expired |-> FALSE]
           r == [q EXCEPT !.st = "reserved", !.ticket = a]
<1>1. q \in Request /\ req[w] # None /\ q.st = "reserve" /\ UNCHANGED <<disk, alive, ctl, children>>
  BY TypesOf DEF ReserveResult
<1>2. req' = [req EXCEPT ![w] = r] \/ req' = [req EXCEPT ![w] = None]
  BY DEF ReserveResult, Answer, Ask
<1> HIDE DEF a
<1>3. r.st = "reserved"
  <2> HIDE DEF q
  <2> QED BY <1>1 DEF Request
<1> HIDE DEF r
<1>4. ~Published(w) /\ (Has(w) => ~HasWork(ctl[w]))
  BY <1>1 DEF Published, OInv, Controls, Resting
<1> QED BY <1>1, <1>2, <1>3, <1>4, AskStays

LEMMA RequireMarks == ASSUME IInv, OInv, NEW w \in Workers, Require(w) PROVE OInv'
<1> DEFINE q == req[w]
           a == [q.ticket EXCEPT !.perm = proof]
           r == [q EXCEPT !.perm = proof, !.ticket = a]
<1>1. q \in Request /\ req[w] # None /\ q.st = "reserved" /\ UNCHANGED <<disk, alive, ctl, children>>
  BY TypesOf DEF Require
<1>2. req' = [req EXCEPT ![w] = r] \/ req' = [req EXCEPT ![w] = None]
  BY DEF Require, Answer, Ask
<1> HIDE DEF a
<1>3. r.st = "reserved"
  <2> HIDE DEF q
  <2> QED BY <1>1 DEF Request
<1> HIDE DEF r
<1>4. ~Published(w) /\ (Has(w) => ~HasWork(ctl[w]))
  BY <1>1 DEF Published, OInv, Controls, Resting
<1> QED BY <1>1, <1>2, <1>3, <1>4, AskStays

LEMMA AnswerMarks ==
  ASSUME IInv, OInv, NEW w \in Workers, ~Published(w), Answer(w), UNCHANGED <<disk, alive, ctl, children>>
  PROVE  OInv'
<1>1. req' = [req EXCEPT ![w] = None]
  BY DEF Answer, Ask
<1> QED BY <1>1, AskStays

LEMMA LeaveMarks == ASSUME IInv, OInv, NEW w \in Workers, Release(w) \/ BeginRefused(w) PROVE OInv'
<1>1. ~Published(w) /\ Answer(w) /\ UNCHANGED <<disk, alive, ctl, children>>
  BY DEF Release, BeginRefused, Published
<1> QED BY <1>1, AnswerMarks

\* A turn that begins, of the one task there is, finds its controller at rest.
LEMMA BeginsAtRest ==
  ASSUME IInv, OInv, NEW w \in Workers, Has(w), NEW t \in Tasks, ctl[w].task = t, NEW admitted \in BOOLEAN,
         ~Refused(ctl[w], t, admitted), ~Reuses(ctl[w], t, FALSE), ~Rolls(ctl[w])
  PROVE  ~HasWork(ctl[w])
<1>1. /\ ctl[w] \in Control /\ Sane(ctl[w]) /\ Working(ctl[w])
  BY TypesOf DEF OInv, Controls
<1>2. ctl[w].st \in {"busy", "idle", "ending", "ended"}
  BY <1>1 DEF Control
<1>3. ctl[w].st # "busy"
  BY DEF Reuses
<1>4. ctl[w].st # "ending"
  BY <1>1 DEF Refused, Admits, Working
<1>5. CASE ctl[w].st = "idle"
  BY <1>5 DEF Rolls
<1>6. CASE ctl[w].st = "ended"
  BY <1>1, <1>6 DEF Sane, HasWork
<1> QED BY <1>2, <1>3, <1>4, <1>5, <1>6

LEMMA BeginMarks ==
  ASSUME OneTask, IInv, OInv, NEW w \in Workers, NEW t \in Tasks, Begin(w, t)
  PROVE  OInv'
<1> DEFINE n == NewControl(execs + 1, t, FALSE, 0)
           r == [st |-> "claim", task |-> t, local |-> FALSE, perm |-> 0, ticket |-> None, new |-> n, old |-> None]
<1>1. r.st = "claim" /\ r.new.outcome = "none"
  BY DEF NewControl
<1>2. req' = [req EXCEPT ![w] = r] /\ UNCHANGED <<disk, alive, ctl, children>> /\ ~Published(w)
  BY DEF Begin, Ask, Idle, files, Published
<1> HIDE DEF r
<1>3. Has(w) => ~HasWork(ctl[w])
  <2>1. Has(w) => ctl[w].task = t
    BY TypesOf DEF OneTask, Control
  <2> QED BY <2>1, BeginsAtRest DEF Begin
<1> QED BY <1>1, <1>2, <1>3, AskStays

LEMMA BeginAdmittedMarks ==
  ASSUME OneTask, IInv, OInv, NEW w \in Workers, BeginAdmitted(w)
  PROVE  OInv'
<1> DEFINE q == req[w]
           n == NewControl(execs + 1, q.task, q.perm = 0, 1)
           r == [q EXCEPT !.st = "activate", !.new = n]
<1>1. q \in Request /\ req[w] # None /\ q.st = "reserved" /\ UNCHANGED <<disk, alive, ctl, children>>
      /\ req' = [req EXCEPT ![w] = r]
  BY TypesOf DEF BeginAdmitted, Ask, files
<1>2. n.outcome = "none"
  BY DEF NewControl
<1> HIDE DEF n
<1>3. r.st = "activate" /\ r.new.outcome = "none"
  <2> HIDE DEF q
  <2> QED BY <1>1, <1>2 DEF Request
<1> HIDE DEF r
<1>4. ~Published(w) /\ (Has(w) => ~HasWork(ctl[w]))
  BY <1>1 DEF Published, OInv, Controls, Resting
<1> QED BY <1>1, <1>3, <1>4, AskStays

\* A controller that is published: its process runs no subprocess, and what it
\* replaces is the earlier document of the only one that may still work.
LEMMA PublishMarks ==
  ASSUME IInv, OInv, NEW w \in Workers, w \in alive, Carries(w), ~Published(w), NEW r,
         r # None, r.st \in {"claimed", "activated"}, r.new = req[w].new, r.old = disk, req' = [req EXCEPT ![w] = r],
         disk' = Snapshot(w, r.new), \A v \in Workers : v \in alive /\ Guards(v, disk) => v = w,
         UNCHANGED <<alive, ctl, children>>
  PROVE  OInv'
<1>1. r.new \in Control /\ r.new.outcome = "none" /\ req[w] # None
  BY DEF IInv, Types, OInv, Controls, Carries
<1>2. disk' # None /\ disk'.server = w /\ w \notin children
  BY <1>1, SnapshotType, AskerIsAlone
<1>3. \A v \in Workers : ~Published(v)
  BY PublishedIs
<1>4. req'[w] = r /\ \A v \in Workers : v # w => req'[v] = req[v]
  BY DEF IInv, Types, TypeOK
<1>5. Published(w)' /\ \A v \in Workers : v # w => ~Published(v)'
  BY <1>3, <1>4 DEF Published
<1>6. Controls'
  <2>1. \A v \in Workers : Carries(v)' => req'[v].new.outcome = "none"
    BY <1>1, <1>4 DEF OInv, Controls, Carries
  <2>2. \A v \in Workers : req'[v] # None /\ Has(v) => ~HasWork(ctl[v])
    BY <1>1, <1>4 DEF OInv, Controls, Resting
  <2>3. \A v \in Workers : Has(v) => Working(ctl[v])
    BY DEF OInv, Controls
  <2> QED BY <2>1, <2>2, <2>3 DEF Controls, Has, Resting, HasWork, Working
<1>7. Markers'
  BY <1>2, <1>4, <1>5 DEF Markers, Marked, OInv, Has
<1>8. Followed'
  <2>1. ASSUME NEW v \in Workers, Has(v), Owns(ctl[v])
        PROVE  v = w /\ Knows(w, disk)
    <3>1. v = w
      BY <2>1, TypesOf DEF IInv, Ownership
    <3> QED BY <2>1, <3>1 DEF OInv, Followed, Behind
  <2>2. Behind(w)' = disk
    BY <1>4, <1>5 DEF Behind
  <2> QED BY <2>1, <2>2 DEF Followed, Knows, Has, Owns, HasWork
<1> QED BY <1>6, <1>7, <1>8 DEF OInv

LEMMA ClaimMarks == ASSUME IInv, OInv, NEW w \in Workers, Claim(w) PROVE OInv'
<1> DEFINE r == [req[w] EXCEPT !.st = "claimed", !.old = disk]
<1>1. /\ w \in alive /\ req[w] # None /\ req[w] \in Request /\ req[w].st = "claim" /\ ~Published(w) /\ Carries(w)
      /\ UNCHANGED <<alive, ctl, children>>
  BY TypesOf DEF Claim, Published, Carries
<1>2. CASE disk' = disk /\ Answer(w)
  BY <1>1, <1>2, AnswerMarks
<1>3. CASE ~(disk' = disk /\ Answer(w))
  <2>1. AllowsBegin(w) /\ disk' = Snapshot(w, req[w].new) /\ req' = [req EXCEPT ![w] = r]
    BY <1>3 DEF Claim, Ask
  <2>2. r # None /\ r.st = "claimed" /\ r.new = req[w].new /\ r.old = disk
    <3>1. r \in Request /\ r.st = "claimed" /\ r.new = req[w].new /\ r.old = disk
      BY <1>1, TypesOf DEF Request, IInv, Types, TypeOK
    <3> HIDE DEF r
    <3> QED BY <3>1, AdmissionAssumption
  <2> HIDE DEF r
  <2>3. \A v \in Workers : v \in alive /\ Guards(v, disk) => v = w
    BY <2>1, Allowed
  <2> QED BY <1>1, <2>1, <2>2, <2>3, PublishMarks
<1> QED BY <1>2, <1>3

LEMMA ActivateMarks == ASSUME IInv, OInv, NEW w \in Workers, Activate(w) PROVE OInv'
<1> DEFINE r == [req[w] EXCEPT !.st = "activated", !.old = disk]
<1>1. /\ w \in alive /\ req[w] # None /\ req[w] \in Request /\ req[w].st = "activate" /\ ~Published(w) /\ Carries(w)
      /\ req[w].ticket \in Ticket /\ UNCHANGED <<alive, ctl, children>>
  BY TypesOf DEF Activate, Published, Carries, IInv, Types
<1>2. CASE disk' = disk /\ Answer(w)
  BY <1>1, <1>2, AnswerMarks
<1>3. CASE ~(disk' = disk /\ Answer(w))
  <2>1. AllowsRecovery(w, req[w].ticket) /\ disk' = Snapshot(w, req[w].new) /\ req' = [req EXCEPT ![w] = r]
    BY <1>3 DEF Activate, Admitted, Ask
  <2>2. r # None /\ r.st = "activated" /\ r.new = req[w].new /\ r.old = disk
    <3>1. r \in Request /\ r.st = "activated" /\ r.new = req[w].new /\ r.old = disk
      BY <1>1, TypesOf DEF Request, IInv, Types, TypeOK
    <3> HIDE DEF r
    <3> QED BY <3>1, AdmissionAssumption
  <2> HIDE DEF r
  <2>3. \A v \in Workers : v \in alive /\ Guards(v, disk) => v = w
    BY <1>1, <2>1, Allowed
  <2> QED BY <1>1, <2>1, <2>2, <2>3, PublishMarks
<1> QED BY <1>2, <1>3

LEMMA InstallMarks == ASSUME IInv, OInv, NEW w \in Workers, Install(w) PROVE OInv'
<1> DEFINE n == req[w].new
           c == [n EXCEPT !.persisted = n.rev]
<1>1. Published(w) /\ Carries(w) /\ n \in Control /\ Fresh(n) /\ disk # None /\ disk.server = w
      /\ disk.exec = n.exec /\ disk.rev = n.rev /\ w \in alive /\ req[w] # None /\ n.outcome = "none"
  <2>1. Published(w)
    BY DEF Install, Published
  <2>2. Carries(w) /\ disk = Snapshot(w, n) /\ n \in Control
    BY <2>1, PublishedIs DEF IInv, Publication
  <2>3. disk.rev = n.rev /\ n.outcome = "none"
    BY <2>2, SnapshotSays DEF OInv, Controls
  <2> QED BY <2>1, <2>3, PublishedIs DEF Published
<1>2. ctl' = [ctl EXCEPT ![w] = c] /\ req' = [req EXCEPT ![w] = None] /\ UNCHANGED <<disk, alive, children>>
  BY DEF Install, Installed, Answer, Ask
<1>3. /\ c \in Control /\ c.exec = n.exec /\ c.rev = n.rev /\ c.rev \in Nat /\ c.st = "busy" /\ ~c.background /\ ~c.tool
      /\ c.outcome = "none"
  <2> HIDE DEF n
  <2>1. n.rev \in Nat
    BY <1>1 DEF Control
  <2> QED BY <1>1, <2>1 DEF Control, Fresh
<1> HIDE DEF n, c
<1>4. /\ ctl'[w] = c /\ req'[w] = None /\ \A v \in Workers : v # w => ctl'[v] = ctl[v] /\ req'[v] = req[v]
  BY <1>2 DEF IInv, Types, TypeOK
<1>5. /\ \A v \in Workers : ~Published(v)'
      /\ \A v \in Workers : Carries(v)' => v # w /\ Carries(v)
  BY <1>1, <1>4, OnlyOneIsPublished DEF Published, Carries
<1>6. Controls'
  <2>1. \A v \in Workers : Has(v)' => Working(ctl'[v])
    BY <1>3, <1>4 DEF OInv, Controls, Has, Working
  <2>2. \A v \in Workers : Carries(v)' => req'[v].new.outcome = "none"
    BY <1>4, <1>5 DEF OInv, Controls
  <2>3. \A v \in Workers : req'[v] # None /\ Has(v)' => ~HasWork(ctl'[v])
    BY <1>4 DEF OInv, Controls, Resting, Has
  <2> QED BY <2>1, <2>2, <2>3 DEF Controls, Resting, HasWork, Working
<1>7. Markers'
  <2>1. w \notin children
    BY <1>1, AskerIsAlone
  <2> QED BY <1>1, <1>2, <1>4, <1>5, <2>1 DEF OInv, Markers, Marked, Has
<1>8. Followed'
  <2> SUFFICES ASSUME NEW v \in Workers, Has(v)', Owns(ctl'[v])
               PROVE  disk # None /\ disk.exec = ctl'[v].exec /\ disk.rev <= ctl'[v].rev
    BY <1>2, <1>5 DEF Followed, Knows, Owns, HasWork, Behind
  <2>1. v = w
    BY <1>1, <1>4 DEF IInv, Ownership, Has, Guards
  <2> QED BY <1>1, <1>3, <1>4, <2>1
<1> QED BY <1>6, <1>7, <1>8 DEF OInv

LEMMA RollbackMarks == ASSUME IInv, OInv, NEW w \in Workers, Rollback(w) PROVE OInv'
<1> DEFINE o == req[w].old
<1>1. /\ Published(w) /\ disk # None /\ disk.exec = req[w].new.exec /\ disk.server = w /\ w \in alive
  <2>1. Published(w)
    BY DEF Rollback, Published
  <2> QED BY <2>1, PublishedIs
<1>2. disk' = o /\ req' = [req EXCEPT ![w] = None] /\ UNCHANGED <<alive, ctl, children>>
  BY <1>1 DEF Rollback, PutBack, Answer, Ask
<1>3. Marked(o) /\ (Has(w) /\ Owns(ctl[w]) => Knows(w, o))
  BY <1>1 DEF OInv, Markers, Followed, Behind
<1>4. req'[w] = None /\ \A v \in Workers : v # w => req'[v] = req[v]
  BY <1>2 DEF IInv, Types, TypeOK
<1>5. /\ \A v \in Workers : ~Published(v)'
      /\ \A v \in Workers : Carries(v)' => v # w /\ Carries(v)
  BY <1>1, <1>4, OnlyOneIsPublished DEF Published, Carries
<1> HIDE DEF o
<1>6. Controls'
  <2>1. \A v \in Workers : Carries(v)' => req'[v].new.outcome = "none"
    BY <1>4, <1>5 DEF OInv, Controls
  <2>2. \A v \in Workers : req'[v] # None /\ Has(v) => ~HasWork(ctl[v])
    BY <1>4 DEF OInv, Controls, Resting
  <2> QED BY <1>2, <2>1, <2>2 DEF OInv, Controls, Has, Resting, HasWork, Working
<1>7. Markers'
  BY <1>2, <1>3, <1>5 DEF OInv, Markers, Marked, Has
<1>8. Followed'
  <2> SUFFICES ASSUME NEW v \in Workers, Has(v), Owns(ctl[v])
               PROVE  o # None /\ o.exec = ctl[v].exec /\ o.rev <= ctl[v].rev
    BY <1>2, <1>5 DEF Followed, Knows, Owns, HasWork, Behind, Has
  <2>1. v = w
    BY <1>1 DEF IInv, Ownership, Guards
  <2> QED BY <1>3, <2>1 DEF Knows
<1> QED BY <1>6, <1>7, <1>8 DEF OInv

LEMMA CrashMarks == ASSUME IInv, OInv, NEW w \in Workers, Crash(w) PROVE OInv'
<1>1. /\ ctl'[w] = None /\ req'[w] = None /\ \A v \in Workers : v # w => ctl'[v] = ctl[v] /\ req'[v] = req[v]
      /\ alive' = alive \ {w} /\ UNCHANGED <<disk, children>>
  BY DEF IInv, Types, TypeOK, Crash, Answer, Ask, files
<1>2. /\ \A v \in Workers : Carries(v)' => v # w /\ Carries(v)
      /\ \A v \in Workers : Published(v)' => v # w /\ Published(v)
      /\ \A v \in Workers : v # w => (Published(v)' <=> Published(v))
      /\ \A v \in Workers : Has(v)' => v # w /\ Has(v)
  BY <1>1 DEF Published, Carries, Has
<1>3. Controls'
  <2>1. \A v \in Workers : req'[v] # None /\ Has(v)' => ~HasWork(ctl'[v])
    BY <1>1, <1>2 DEF OInv, Controls, Resting
  <2> QED BY <1>1, <1>2, <2>1 DEF OInv, Controls, Resting, HasWork, Working
<1>4. Markers'
  BY <1>1, <1>2 DEF OInv, Markers, Marked, Has
<1>5. Followed'
  <2>1. \A v \in Workers : v # w => Behind(v)' = Behind(v)
    BY <1>1, <1>2 DEF Behind
  <2> QED BY <1>1, <1>2, <2>1 DEF OInv, Followed, Knows, Owns, HasWork
<1> QED BY <1>3, <1>4, <1>5 DEF OInv

LEMMA OtherwiseMarks == ASSUME IInv, OInv, Expire \/ (\E w \in Workers : ChildEnds(w)) PROVE OInv'
<1>1. /\ req' = req /\ UNCHANGED <<disk, alive, ctl>> /\ children' \subseteq children
      /\ children' \cap alive = children \cap alive
  BY DEF Expire, ChildEnds, files
<1>2. Quiet
  BY <1>1, SameQuiet
<1> QED BY <1>1, <1>2, StillKeeps DEF OInv, Controls, Resting

-----------------------------------------------------------------------------
(* The steps of a controller at work, again.                               *)

\* What is known of a controller before it moves.
LEMMA Before ==
  ASSUME IInv, OInv, NEW w \in Workers, Has(w)
  PROVE  /\ ctl[w] \in Control /\ Sane(ctl[w]) /\ Working(ctl[w]) /\ ctl[w].persisted <= ctl[w].rev
         /\ ctl[w].rev \in Nat /\ ctl[w].persisted \in Nat /\ w \in alive
         /\ w \in children => ctl[w].tool
         /\ req[w] # None => ~HasWork(ctl[w])
<1>1. ctl[w] \in Control
  BY TypesOf
<1> QED BY <1>1, TypesOf DEF OInv, Controls, Markers, Resting, Control

\* A controller that changes without writing the control file.
LEMMA MoveMarks ==
  ASSUME IInv, OInv, NEW w \in Workers, Has(w), NEW c \in Control, ctl' = [ctl EXCEPT ![w] = c],
         c.exec = ctl[w].exec, ctl[w].rev <= c.rev, Working(c), Owns(c) => Owns(ctl[w]),
         req[w] # None => ~HasWork(c), w \in children => c.tool, UNCHANGED <<disk, alive, req, children>>
  PROVE  OInv'
<1>1. c.rev \in Nat /\ c # None
  BY AdmissionAssumption DEF Control
<1>2. Turns(w, c)
  BY <1>1 DEF Turns
<1> QED BY <1>2, TurnStays

LEMMA SuspendMarks == ASSUME IInv, OInv, NEW w \in Workers, Suspend(w) PROVE OInv'
<1> DEFINE c == [[ctl[w] EXCEPT !.card = "suspended"] EXCEPT !.local = ~setting.shared]
<1>1. Has(w) /\ ctl[w] \in Control /\ UNCHANGED <<disk, alive, req, children>>
  BY TypesOf DEF Suspend, files
<1>2. /\ c \in Control /\ c.rev = ctl[w].rev /\ c.exec = ctl[w].exec /\ c.outcome = ctl[w].outcome
      /\ c.st = ctl[w].st /\ c.tool = ctl[w].tool /\ c.background = ctl[w].background /\ c.durable = ctl[w].durable
  BY <1>1 DEF Control
<1>3. ctl' = [ctl EXCEPT ![w] = c]
  BY <1>1, DomainOf DEF Suspend
<1> HIDE DEF c
<1>4. Working(c) /\ (Owns(c) <=> Owns(ctl[w])) /\ (HasWork(c) <=> HasWork(ctl[w]))
  BY <1>1, <1>2, Before DEF Working, Owns, HasWork
<1>5. ctl[w].rev <= c.rev /\ (req[w] # None => ~HasWork(c)) /\ (w \in children => c.tool)
  BY <1>1, <1>2, <1>4, Before
<1> QED BY <1>1, <1>2, <1>3, <1>4, <1>5, MoveMarks

LEMMA ReuseMarks == ASSUME IInv, OInv, NEW w \in Workers, NEW t \in Tasks, Reuse(w, t) PROVE OInv'
<1> DEFINE c == [[[ctl[w] EXCEPT !.st = "busy"] EXCEPT !.card = "none"] EXCEPT !.natural = FALSE]
<1>1. /\ Has(w) /\ ctl[w] \in Control /\ UNCHANGED <<disk, alive, req, children>> /\ req[w] = None
      /\ ctl[w].st = "idle" /\ ~Ready(ctl[w]) /\ ~NeedsAdmission(ctl[w])
  BY TypesOf DEF Reuse, Idle, Reuses, Refused, files
<1>2. /\ c \in Control /\ c.rev = ctl[w].rev /\ c.exec = ctl[w].exec /\ c.outcome = ctl[w].outcome
      /\ c.st = "busy" /\ c.tool = ctl[w].tool /\ c.background = ctl[w].background
  BY <1>1 DEF Control
<1>3. ctl' = [ctl EXCEPT ![w] = c]
  BY <1>1, DomainOf DEF Reuse
<1> HIDE DEF c
<1>4. Working(c)
  BY <1>1, <1>2, Before DEF Working
<1>5. Owns(ctl[w])
  BY <1>1 DEF NeedsAdmission, Ready, Owns, HasWork, Drained
<1>6. ctl[w].rev <= c.rev /\ (w \in children => c.tool)
  BY <1>1, <1>2, Before
<1> QED BY <1>1, <1>2, <1>3, <1>4, <1>5, <1>6, MoveMarks

LEMMA CompleteMarks == ASSUME IInv, OInv, NEW w \in Workers, Complete(w) PROVE OInv'
<1> DEFINE r == ctl[w].rev + 1
           c == [[[ctl[w] EXCEPT !.st = "ending"] EXCEPT !.natural = TRUE] EXCEPT !.rev = r]
<1>1. /\ Has(w) /\ ctl[w] \in Control /\ UNCHANGED <<disk, alive, req, children>>
      /\ ~ctl[w].background /\ ~ctl[w].tool /\ ctl[w].st \in {"busy", "idle"}
  BY TypesOf DEF Complete, files
<1>2. r \in Nat /\ ctl[w].rev <= r
  BY <1>1, Before, Later
<1>3. /\ c \in Control /\ c.rev = r /\ c.exec = ctl[w].exec /\ c.st = "ending" /\ c.outcome = ctl[w].outcome
      /\ c.background = ctl[w].background /\ c.tool = ctl[w].tool
  <2> HIDE DEF r
  <2> QED BY <1>1, <1>2 DEF Control
<1>4. ctl' = [ctl EXCEPT ![w] = c]
  BY <1>1, DomainOf DEF Complete, files
<1> HIDE DEF c, r
<1>5. Working(c) /\ ~HasWork(c) /\ ~Owns(c)
  BY <1>1, <1>3, Before DEF Working, HasWork, Owns
<1> QED BY <1>1, <1>2, <1>3, <1>4, <1>5, Before, MoveMarks

\* The marker is written before the tool runs: without background work the
\* control file is the controller's own, of an earlier revision.
LEMMA StartToolMarks ==
  ASSUME IInv, OInv, NEW w \in Workers, StartTool(w)
  PROVE  OInv'
<1> DEFINE r == ctl[w].rev + 1
           c == [[ctl[w] EXCEPT !.tool = TRUE] EXCEPT !.rev = r]
<1>1. /\ Has(w) /\ ctl[w] \in Control /\ UNCHANGED <<alive, req>> /\ children' = children \cup {w}
      /\ ctl[w].st \in {"busy", "idle"} /\ HasWork(ctl[w]) /\ ~ctl[w].tool
  BY TypesOf DEF StartTool
<1>2. r \in Nat /\ ctl[w].rev <= r /\ ctl[w].persisted < r /\ ctl[w].rev < r
  BY <1>1, Before
<1>3. /\ c \in Control /\ c.rev = r /\ c.exec = ctl[w].exec /\ c.st = ctl[w].st /\ c.outcome = ctl[w].outcome
      /\ c.background = ctl[w].background /\ c.tool /\ c.persisted = ctl[w].persisted
  <2> HIDE DEF r
  <2> QED BY <1>1, <1>2 DEF Control
<1>4. Persist(w, c)
  BY <1>1 DEF StartTool, Control
<1> HIDE DEF c, r
<1>5. ctl[w].st = "busy" /\ req[w] = None /\ Owns(ctl[w]) /\ Working(c)
  BY <1>1, <1>3, Before DEF Working, HasWork, Owns
<1>6. CurrentOwner(c.exec, c.rev)
  <2>1. ~Published(w) /\ Knows(w, disk)
    BY <1>1, <1>5 DEF Published, OInv, Followed, Behind
  <2>2. disk.rev \in Nat
    BY <1>1, TypesOf DEF Doc
  <2> QED BY <1>1, <1>2, <1>3, <2>1, <2>2, Before DEF Knows, CurrentOwner
<1>7. PICK d \in Control : ctl' = [ctl EXCEPT ![w] = d] /\ Turns(w, d)
  BY <1>1, <1>2, <1>3, <1>4, <1>5, <1>6, PersistTurns
<1> QED BY <1>1, <1>7, TurnStays

LEMMA EndToolMarks == ASSUME IInv, OInv, NEW w \in Workers, EndTool(w) PROVE OInv'
<1> DEFINE r == ctl[w].rev + 1
           c == [[ctl[w] EXCEPT !.tool = FALSE] EXCEPT !.rev = r]
<1>1. Has(w) /\ ctl[w] \in Control /\ ctl[w].tool /\ UNCHANGED <<alive, req>> /\ children' = children \ {w}
  BY TypesOf DEF EndTool
<1>2. r \in Nat /\ ctl[w].rev <= r
  BY <1>1, Before, Later
<1>3. /\ c \in Control /\ c.rev = r /\ c.exec = ctl[w].exec /\ c.st = ctl[w].st /\ c.outcome = ctl[w].outcome
      /\ c.background = ctl[w].background /\ ~c.tool
  <2> HIDE DEF r
  <2> QED BY <1>1, <1>2 DEF Control
<1>4. Persist(w, c)
  BY <1>1 DEF EndTool, Control
<1> HIDE DEF c, r
<1>5. Working(c) /\ Owns(ctl[w]) /\ req[w] = None
  BY <1>1, <1>3, Before DEF Working, HasWork, Owns
<1>6. PICK d \in Control : ctl' = [ctl EXCEPT ![w] = d] /\ Turns(w, d)
  BY <1>1, <1>2, <1>3, <1>4, <1>5, PersistTurns
<1> QED BY <1>1, <1>6, TurnStays

LEMMA DetachMarks == ASSUME IInv, OInv, NEW w \in Workers, NEW card \in BOOLEAN, Detach(w, card) PROVE OInv'
<1> DEFINE c == IF card
                THEN [[[[ctl[w] EXCEPT !.st = "idle"] EXCEPT !.durable = FALSE] EXCEPT !.card = "bound"] EXCEPT !.handoff = "none"]
                ELSE [[ctl[w] EXCEPT !.st = "idle"] EXCEPT !.natural = ~ctl[w].background]
           r == c.rev + 1
           e == [c EXCEPT !.rev = r]
<1>1. /\ Has(w) /\ ctl[w] \in Control /\ ctl[w].st = "busy" /\ (ctl[w].tool => ctl[w].background)
      /\ UNCHANGED <<alive, req, children>>
  BY TypesOf DEF Detach
<1>2. ~ctl[w].tool /\ ~ctl[w].background /\ ctl[w].outcome = "none" /\ w \notin children /\ Owns(ctl[w])
  BY <1>1, Before DEF Working, Owns, HasWork
<1>3. /\ c \in Control /\ c.rev = ctl[w].rev /\ c.exec = ctl[w].exec /\ c.st = "idle" /\ c.outcome = "none"
      /\ ~c.background /\ ~c.tool
  BY <1>1, <1>2 DEF Control
<1>4. IF Ready(c) THEN Persist(w, e) ELSE ctl' = [ctl EXCEPT ![w] = c] /\ disk' = disk
  BY <1>1 DEF Detach, Control
<1> HIDE DEF c
<1>5. CASE Ready(c)
  <2>1. r \in Nat /\ ctl[w].rev <= r
    BY <1>1, <1>3, Before, Later
  <2>2. /\ e \in Control /\ e.rev = r /\ e.exec = c.exec /\ e.st = c.st /\ e.outcome = "none"
        /\ ~e.background /\ ~e.tool
    <3> HIDE DEF r
    <3> QED BY <1>3, <2>1 DEF Control
  <2>3. Persist(w, e)
    BY <1>4, <1>5
  <2> HIDE DEF e, r
  <2>4. Working(e) /\ ~HasWork(e) /\ e.st = "idle"
    BY <1>3, <2>2 DEF Working, HasWork
  <2>5. PICK d \in Control : ctl' = [ctl EXCEPT ![w] = d] /\ Turns(w, d)
    BY <1>1, <1>2, <1>3, <2>1, <2>2, <2>3, <2>4, PersistTurns
  <2> QED BY <1>1, <2>5, TurnStays
<1>6. CASE ~Ready(c)
  <2>1. Working(c) /\ ~HasWork(c) /\ ctl[w].rev <= c.rev
    BY <1>1, <1>3, Before DEF Working, HasWork
  <2> QED BY <1>1, <1>2, <1>3, <1>4, <1>6, <2>1, MoveMarks
<1> QED BY <1>5, <1>6

LEMMA PrepareMarks == ASSUME IInv, OInv, NEW w \in Workers, Prepare(w) PROVE OInv'
<1> DEFINE r == ctl[w].rev + 1
           c == [[[[ctl[w] EXCEPT !.handoff = "preparing"] EXCEPT !.from = ctl[w].rev] EXCEPT !.rev = r]
                  EXCEPT !.persisted = r]
<1>1. Has(w) /\ ctl[w] \in Control /\ Drained(ctl[w]) /\ UNCHANGED <<alive, req, children>>
  BY TypesOf DEF Prepare
<1>2. r \in Nat /\ ctl[w].rev <= r
  BY <1>1, Before, Later
<1>3. /\ c \in Control /\ c.rev = r /\ c.exec = ctl[w].exec /\ c.st = ctl[w].st /\ c.outcome = ctl[w].outcome
      /\ c.background = ctl[w].background /\ c.tool = ctl[w].tool /\ c.durable = ctl[w].durable
  <2> HIDE DEF r
  <2>1. [[[ctl[w] EXCEPT !.handoff = "preparing"] EXCEPT !.from = ctl[w].rev] EXCEPT !.rev = r] \in Control
    BY <1>1, <1>2 DEF Control
  <2> QED BY ZenonT(60), <1>1, <1>2, <2>1 DEF Control
<1>4. \/ disk # None /\ disk.exec = c.exec /\ disk' = Snapshot(w, c) /\ ctl' = [ctl EXCEPT ![w] = c]
      \/ UNCHANGED <<disk, ctl>>
  <2>1. c = [ctl[w] EXCEPT !.handoff = "preparing", !.from = ctl[w].rev, !.rev = @ + 1, !.persisted = ctl[w].rev + 1]
    BY <1>1 DEF Control
  <2> HIDE DEF c
  <2> QED BY <2>1 DEF Prepare, Expected
<1> HIDE DEF c, r
<1>5. Working(c) /\ (Owns(c) <=> Owns(ctl[w])) /\ ~HasWork(c) /\ ~c.tool /\ w \notin children
  BY <1>1, <1>3, Before DEF Working, Owns, HasWork, Drained
<1>6. CASE disk # None /\ disk.exec = c.exec /\ disk' = Snapshot(w, c) /\ ctl' = [ctl EXCEPT ![w] = c]
  <2>1. disk' # None /\ disk'.exec = c.exec /\ disk'.server = w /\ disk'.rev = c.rev /\ c # None
    BY <1>3, <1>6, SnapshotType, SnapshotSays, AdmissionAssumption
  <2>2. Turns(w, c)
    BY <1>1, <1>2, <1>3, <1>5, <1>6, <2>1 DEF Turns
  <2> QED BY <1>1, <1>6, <2>2, TurnStays
<1>7. CASE UNCHANGED <<disk, ctl>>
  <2>1. Quiet
    BY <1>1, SameQuiet
  <2> QED BY <1>1, <1>7, <2>1, StillKeeps DEF OInv, Controls, Resting
<1> QED BY <1>4, <1>6, <1>7

LEMMA CommitMarks == ASSUME IInv, OInv, NEW w \in Workers, Commit(w) PROVE OInv'
<1> DEFINE r == ctl[w].rev + 1
           c == [[[[ctl[w] EXCEPT !.handoff = "committed"] EXCEPT !.rev = r]
                  EXCEPT !.persisted = r] EXCEPT !.durable = TRUE]
<1>1. Has(w) /\ ctl[w] \in Control /\ Drained(ctl[w]) /\ UNCHANGED <<alive, req, children>>
  BY TypesOf DEF Commit
<1>2. r \in Nat /\ ctl[w].rev <= r
  BY <1>1, Before, Later
<1>3. /\ c \in Control /\ c.rev = r /\ c.exec = ctl[w].exec /\ c.st = ctl[w].st /\ c.outcome = ctl[w].outcome
      /\ c.background = ctl[w].background /\ c.tool = ctl[w].tool /\ c.durable
  <2> HIDE DEF r
  <2>1. [[[ctl[w] EXCEPT !.handoff = "committed"] EXCEPT !.rev = r] EXCEPT !.persisted = r] \in Control
    BY <1>1, <1>2 DEF Control
  <2> QED BY ZenonT(60), <1>1, <1>2, <2>1 DEF Control
<1>4. disk # None /\ disk.exec = c.exec /\ disk' = Snapshot(w, c) /\ ctl' = [ctl EXCEPT ![w] = c]
  <2>1. c = [ctl[w] EXCEPT !.handoff = "committed", !.rev = @ + 1, !.persisted = ctl[w].rev + 1, !.durable = TRUE]
    BY <1>1 DEF Control
  <2> HIDE DEF c
  <2> QED BY <2>1 DEF Commit, Expected
<1> HIDE DEF c, r
<1>5. Working(c) /\ ~Owns(c) /\ ~HasWork(c) /\ ~c.tool /\ w \notin children
  BY <1>1, <1>3, Before DEF Working, Owns, HasWork, Drained
<1>6. disk' # None /\ disk'.exec = c.exec /\ disk'.server = w /\ disk'.rev = c.rev /\ c # None
  BY <1>3, <1>4, SnapshotType, SnapshotSays, AdmissionAssumption
<1>7. Turns(w, c)
  BY <1>1, <1>2, <1>3, <1>4, <1>5, <1>6 DEF Turns
<1> QED BY <1>1, <1>4, <1>7, TurnStays

LEMMA TerminateMarks == ASSUME IInv, OInv, NEW w \in Workers, Terminate(w) PROVE OInv'
<1> DEFINE r == ctl[w].rev + 1
           q == r + 1
           a == [[ctl[w] EXCEPT !.rev = r] EXCEPT !.persisted = r]
           Stopped(d, i) == [[[[d EXCEPT !.st = "ending"] EXCEPT !.natural = FALSE] EXCEPT !.outcome = "none"] EXCEPT !.rev = i]
<1>1. Has(w) /\ ctl[w] \in Control /\ UNCHANGED <<alive, req, children>>
  BY TypesOf DEF Terminate
<1>2. r \in Nat /\ ctl[w].rev <= r /\ q \in Nat /\ r <= q
  BY <1>1, Before
<1>3. ASSUME NEW d \in Control, NEW i \in Nat
      PROVE  /\ Stopped(d, i) \in Control /\ Stopped(d, i).exec = d.exec /\ Stopped(d, i).st = "ending"
             /\ Stopped(d, i).rev = i /\ Stopped(d, i).outcome = "none"
             /\ Stopped(d, i).background = d.background /\ Stopped(d, i).tool = d.tool
  <2>1. [[d EXCEPT !.st = "ending"] EXCEPT !.natural = FALSE] \in Control
    BY DEF Control
  <2>2. [[[d EXCEPT !.st = "ending"] EXCEPT !.natural = FALSE] EXCEPT !.outcome = "none"] \in Control
    BY <2>1, ZenonT(60) DEF Control, Outcomes
  <2>3. Stopped(d, i) \in Control
    BY ZenonT(60), <2>2 DEF Control
  <2> QED BY <2>3 DEF Control
<1>4. ASSUME NEW c \in Control, c.st = "ending", c.outcome = "none",
             c.background = ctl[w].background, c.tool = ctl[w].tool
      PROVE  /\ Working(c) /\ (Owns(c) => Owns(ctl[w])) /\ (req[w] # None => ~HasWork(c))
             /\ w \in children => c.tool
  <2>1. /\ Working(ctl[w]) /\ (w \in children => ctl[w].tool) /\ (req[w] # None => ~HasWork(ctl[w]))
    BY <1>1, Before
  <2>2. HasWork(c) => HasWork(ctl[w])
    BY <1>4 DEF HasWork
  <2>3. Working(c)
    BY <1>4, <2>1 DEF Working
  <2>4. Owns(c) => Owns(ctl[w])
    BY <1>4, <2>2 DEF Owns
  <2> QED BY <1>4, <2>1, <2>2, <2>3, <2>4
<1>5. CASE NeedsAdmission(ctl[w])
  <2> DEFINE c == Stopped(a, q)
  <2>1. a \in Control /\ a.rev = r /\ a.exec = ctl[w].exec /\ a.st = ctl[w].st
        /\ a.background = ctl[w].background /\ a.tool = ctl[w].tool
    <3> HIDE DEF r
    <3> QED BY <1>1, <1>2 DEF Control
  <2>2. /\ disk # None /\ disk.exec = ctl[w].exec /\ disk' = [Snapshot(w, a) EXCEPT !.ready = FALSE]
        /\ ctl' = [ctl EXCEPT ![w] = c]
    <3>1. a = [ctl[w] EXCEPT !.rev = @ + 1, !.persisted = ctl[w].rev + 1] /\ a.rev = r
      BY <1>1 DEF Control
    <3>2. c = [a EXCEPT !.st = "ending", !.natural = FALSE, !.outcome = "none", !.rev = @ + 1]
      BY <2>1, <3>1 DEF Control
    <3> HIDE DEF a, c
    <3> QED BY <1>5, <3>1, <3>2 DEF Terminate, Expected
  <2> HIDE DEF r, q, a, Stopped
  <2>3. /\ c \in Control /\ c.rev = q /\ c.exec = ctl[w].exec /\ c.st = "ending" /\ c.outcome = "none"
        /\ c.background = ctl[w].background /\ c.tool = ctl[w].tool
    BY <1>2, <1>3, <2>1
  <2> HIDE DEF c
  <2>4. /\ disk' # None /\ disk'.exec = ctl[w].exec /\ disk'.server = w /\ disk'.st # "ended" /\ disk'.rev = r
        /\ disk'.tools = ctl[w].tool
    <3>1. ctl[w].st # "ended"
      BY <1>5 DEF NeedsAdmission
    <3> DEFINE s == Snapshot(w, a)
    <3>2. s \in Doc /\ s.exec = ctl[w].exec /\ s.server = w /\ s.st = ctl[w].st /\ s.rev = r /\ s.tools = ctl[w].tool
      BY <2>1, SnapshotType, SnapshotSays
    <3>3. disk' = [s EXCEPT !.ready = FALSE]
      BY <2>2
    <3> HIDE DEF s
    <3>4. disk' \in Doc
      BY <3>2, <3>3 DEF Doc
    <3>5. disk'.exec = s.exec /\ disk'.server = s.server /\ disk'.st = s.st /\ disk'.rev = s.rev /\ disk'.tools = s.tools
      BY <3>2, <3>3 DEF Doc
    <3> QED BY <3>1, <3>2, <3>4, <3>5, AdmissionAssumption
  <2>5. c # None /\ ctl[w].rev <= q /\ ctl[w].rev \in Nat
    BY <1>1, <1>2, <2>3, Before, AdmissionAssumption
  <2>6. /\ Working(c) /\ (Owns(c) => Owns(ctl[w])) /\ (req[w] # None => ~HasWork(c))
        /\ w \in children => c.tool
    BY <1>4, <2>3
  <2>7. Turns(w, c)
    BY <1>1, <1>2, <2>2, <2>3, <2>4, <2>5, <2>6 DEF Turns
  <2> QED BY <1>1, <2>2, <2>7, TurnStays
<1>6. CASE ~NeedsAdmission(ctl[w])
  <2> DEFINE c == Stopped(ctl[w], r)
  <2>1. disk' = disk /\ ctl' = [ctl EXCEPT ![w] = c]
    <3>1. c = [ctl[w] EXCEPT !.st = "ending", !.natural = FALSE, !.outcome = "none", !.rev = @ + 1]
      BY <1>1 DEF Control
    <3> HIDE DEF c
    <3> QED BY <1>6, <3>1 DEF Terminate
  <2> HIDE DEF r, Stopped
  <2>2. /\ c \in Control /\ c.rev = r /\ c.exec = ctl[w].exec /\ c.st = "ending" /\ c.outcome = "none"
        /\ c.background = ctl[w].background /\ c.tool = ctl[w].tool
    BY <1>1, <1>2, <1>3
  <2> HIDE DEF c
  <2>3. /\ Working(c) /\ (Owns(c) => Owns(ctl[w])) /\ (req[w] # None => ~HasWork(c))
        /\ w \in children => c.tool
    BY <1>4, <2>2
  <2> QED BY <1>1, <1>2, <2>1, <2>2, <2>3, MoveMarks
<1> QED BY <1>5, <1>6

LEMMA EndMarks == ASSUME IInv, OInv, NEW w \in Workers, NEW outcome \in Outcomes, End(w, outcome) PROVE OInv'
<1> DEFINE r == ctl[w].rev + 1
           c == [[[[[ctl[w] EXCEPT !.st = "ended"] EXCEPT !.outcome = outcome] EXCEPT !.rev = r]
                  EXCEPT !.background = FALSE] EXCEPT !.tool = FALSE]
<1>1. Has(w) /\ ctl[w] \in Control /\ UNCHANGED <<alive, req>> /\ children' = children \ {w}
  BY TypesOf DEF End
<1>2. r \in Nat /\ ctl[w].rev <= r
  BY <1>1, Before, Later
<1>3. Persist(w, c)
  <2>1. c = [ctl[w] EXCEPT !.st = "ended", !.outcome = outcome, !.rev = @ + 1, !.background = FALSE, !.tool = FALSE]
    BY <1>1 DEF Control
  <2> HIDE DEF c
  <2> QED BY <2>1 DEF End
<1> HIDE DEF r
<1>4. c \in Control
  <2>1. [[ctl[w] EXCEPT !.st = "ended"] EXCEPT !.outcome = outcome] \in Control
    BY <1>1 DEF Control
  <2>2. [[[ctl[w] EXCEPT !.st = "ended"] EXCEPT !.outcome = outcome] EXCEPT !.rev = r] \in Control
    BY <1>2, <2>1 DEF Control
  <2> QED BY <2>2 DEF Control
<1>5. c.exec = ctl[w].exec /\ c.rev = r /\ c.st = "ended" /\ ~c.background /\ ~c.tool
  BY <1>1 DEF Control
<1> HIDE DEF c
<1>6. Working(c) /\ ~HasWork(c) /\ ~Owns(c)
  BY <1>5 DEF Working, HasWork, Owns
<1>7. PICK d \in Control : ctl' = [ctl EXCEPT ![w] = d] /\ Turns(w, d)
  BY <1>1, <1>2, <1>3, <1>4, <1>5, <1>6, PersistTurns
<1> QED BY <1>1, <1>7, TurnStays

\* Without background work nothing is spawned, and no execution is renamed.
LEMMA NothingSpawned ==
  ASSUME IInv, OInv, ~setting.background, NEW w \in Workers
  PROVE  ~Spawn(w) /\ ~SpawnEnds(w) /\ \A t \in Tasks : ~Rollover(w, t)
<1>1. ~Spawn(w) /\ ~SpawnEnds(w)
  BY Before DEF Spawn, SpawnEnds, Working
<1>2. ASSUME NEW t \in Tasks, Rollover(w, t) PROVE FALSE
  <2>1. Has(w) /\ ctl[w].st = "idle" /\ HasWork(ctl[w])
    BY <1>2 DEF Rollover, Rolls
  <2> QED BY <2>1, Before DEF Working, HasWork
<1> QED BY <1>1, <1>2

-----------------------------------------------------------------------------
(* The second theorem.                                                     *)

LEMMA MarksHold ==
  ASSUME OneTask, IInv, OInv, ~setting.background, [Next]_vars
  PROVE  OInv'
<1>1. CASE UNCHANGED vars
  <2>1. /\ req' = req /\ UNCHANGED <<disk, alive, ctl, children>>
    BY <1>1 DEF vars, files
  <2>2. Quiet
    BY <2>1, SameQuiet
  <2> QED BY <2>1, <2>2, StillKeeps DEF OInv, Controls, Resting
<1>2. CASE Expire
  BY <1>2, OtherwiseMarks
<1>3. ASSUME NEW w \in Workers, NEW t \in Tasks,
             (\E perm \in BOOLEAN : Reserve(w, t, perm)) \/ Reuse(w, t) \/ Rollover(w, t) \/ Begin(w, t)
      PROVE  OInv'
  BY <1>3, ReserveMarks, ReuseMarks, NothingSpawned, BeginMarks
<1>4. ASSUME NEW w \in Workers, ReserveResult(w) \/ Require(w) \/ Release(w) \/ BeginAdmitted(w) \/ BeginRefused(w)
      PROVE  OInv'
  BY <1>4, ReserveResultMarks, RequireMarks, LeaveMarks, BeginAdmittedMarks
<1>5. ASSUME NEW w \in Workers, Claim(w) \/ Activate(w) \/ Install(w) \/ Rollback(w)
      PROVE  OInv'
  BY <1>5, ClaimMarks, ActivateMarks, InstallMarks, RollbackMarks
<1>6. ASSUME NEW w \in Workers,
             Spawn(w) \/ SpawnEnds(w) \/ StartTool(w) \/ EndTool(w) \/ (\E card \in BOOLEAN : Detach(w, card)) \/ Suspend(w)
      PROVE  OInv'
  BY <1>6, NothingSpawned, StartToolMarks, EndToolMarks, DetachMarks, SuspendMarks
<1>7. ASSUME NEW w \in Workers,
             Prepare(w) \/ Commit(w) \/ Complete(w) \/ Terminate(w) \/ Crash(w) \/ ChildEnds(w)
      PROVE  OInv'
  BY <1>7, PrepareMarks, CommitMarks, CompleteMarks, TerminateMarks, CrashMarks, OtherwiseMarks
<1>8. ASSUME NEW w \in Workers, NEW outcome \in Outcomes \ {"none"}, End(w, outcome)
      PROVE  OInv'
  BY <1>8, EndMarks
<1> QED BY <1>1, <1>2, <1>3, <1>4, <1>5, <1>6, <1>7, <1>8 DEF Next

\* The deployment never changes.
LEMMA SettingStays == ASSUME [Next]_vars PROVE setting' = setting
<1>1. ASSUME NEW w \in Workers, NEW t \in Tasks,
             (\E perm \in BOOLEAN : Reserve(w, t, perm)) \/ Reuse(w, t) \/ Rollover(w, t) \/ Begin(w, t)
      PROVE  setting' = setting
  BY <1>1 DEF Reserve, Reuse, Rollover, Begin
<1>2. ASSUME NEW w \in Workers, ReserveResult(w) \/ Require(w) \/ Release(w) \/ BeginAdmitted(w) \/ BeginRefused(w)
      PROVE  setting' = setting
  BY <1>2 DEF ReserveResult, Require, Release, BeginAdmitted, BeginRefused
<1>3. ASSUME NEW w \in Workers, Claim(w) \/ Activate(w) \/ Install(w) \/ Rollback(w)
      PROVE  setting' = setting
  BY <1>3 DEF Claim, Activate, Install, Rollback
<1>4. ASSUME NEW w \in Workers,
             Spawn(w) \/ SpawnEnds(w) \/ StartTool(w) \/ EndTool(w) \/ (\E card \in BOOLEAN : Detach(w, card)) \/ Suspend(w)
      PROVE  setting' = setting
  BY <1>4 DEF Spawn, SpawnEnds, StartTool, EndTool, Detach, Suspend
<1>5. ASSUME NEW w \in Workers,
             Prepare(w) \/ Commit(w) \/ Complete(w) \/ Terminate(w) \/ Crash(w) \/ ChildEnds(w)
      PROVE  setting' = setting
  BY <1>5 DEF Prepare, Commit, Complete, Terminate, Crash, ChildEnds
<1>6. ASSUME NEW w \in Workers, NEW outcome \in Outcomes \ {"none"}, End(w, outcome)
      PROVE  setting' = setting
  BY <1>6 DEF End
<1>7. Expire => setting' = setting
  BY DEF Expire
<1>8. UNCHANGED vars => setting' = setting
  BY DEF vars
<1> QED BY <1>1, <1>2, <1>3, <1>4, <1>5, <1>6, <1>7, <1>8 DEF Next

\* A request for a claim is granted by the claim alone.
LEMMA OnlyClaims ==
  ASSUME IInv, [Next]_vars, NEW w \in Workers, req[w] # None, req[w].st = "claim", req'[w] # None, req'[w].st = "claimed"
  PROVE  AllowsBegin(w)
<1> USE DEF Ask, Answer
<1>0. DOMAIN req = Workers
  BY DEF IInv, Types, TypeOK
<1>1. CASE req' = req
  BY <1>1
<1>2. ASSUME NEW v \in Workers, NEW r, req' = [req EXCEPT ![v] = r], v = w => r = None \/ r.st # "claimed"
      PROVE  FALSE
  BY <1>0, <1>2
<1>3. ASSUME NEW v \in Workers, NEW t \in Tasks,
             (\E perm \in BOOLEAN : Reserve(v, t, perm)) \/ Reuse(v, t) \/ Rollover(v, t) \/ Begin(v, t)
      PROVE  AllowsBegin(w)
  <2>1. CASE \E perm \in BOOLEAN : Reserve(v, t, perm)
    BY <1>0, <2>1 DEF Reserve
  <2>2. CASE Reuse(v, t) \/ Rollover(v, t)
    BY <2>2 DEF Reuse, Rollover
  <2>3. CASE Begin(v, t)
    BY <1>0, <2>3 DEF Begin
  <2> QED BY <1>3, <2>1, <2>2, <2>3
<1>4. ASSUME NEW v \in Workers, ReserveResult(v) \/ Require(v) \/ Release(v) \/ BeginAdmitted(v) \/ BeginRefused(v)
      PROVE  AllowsBegin(w)
  <2>1. v # w
    <3>1. req[v].st \in {"reserve", "reserved"}
      BY <1>4 DEF ReserveResult, Require, Release, BeginAdmitted, BeginRefused
    <3> QED BY <3>1
  <2>2. \E r : req' = [req EXCEPT ![v] = r]
    BY <1>4 DEF ReserveResult, Require, Release, BeginAdmitted, BeginRefused
  <2> QED BY <1>2, <2>1, <2>2
<1>5. CASE \E v \in Workers : Claim(v)
  <2>1. PICK v \in Workers : Claim(v)
    BY <1>5
  <2>2. CASE v = w
    BY <1>0, <2>1, <2>2 DEF Claim
  <2>3. CASE v # w
    <3>1. \E r : req' = [req EXCEPT ![v] = r]
      BY <2>1 DEF Claim
    <3> QED BY <1>2, <2>3, <3>1
  <2> QED BY <2>2, <2>3
<1>6. ASSUME NEW v \in Workers, Activate(v) \/ Install(v) \/ Rollback(v)
      PROVE  AllowsBegin(w)
  <2>1. v # w
    <3>1. req[v].st \in {"activate", "activated", "claimed"}
      BY <1>6 DEF Activate, Install, Rollback
    <3> QED BY <3>1
  <2>2. \E r : req' = [req EXCEPT ![v] = r]
    BY <1>6 DEF Activate, Install, Rollback
  <2> QED BY <1>2, <2>1, <2>2
<1>7. ASSUME NEW v \in Workers,
             Spawn(v) \/ SpawnEnds(v) \/ StartTool(v) \/ EndTool(v) \/ (\E card \in BOOLEAN : Detach(v, card)) \/ Suspend(v)
      PROVE  req' = req
  BY <1>7 DEF Spawn, SpawnEnds, StartTool, EndTool, Detach, Suspend
<1>8. ASSUME NEW v \in Workers,
             Prepare(v) \/ Commit(v) \/ Complete(v) \/ Terminate(v) \/ ChildEnds(v)
      PROVE  req' = req
  BY <1>8 DEF Prepare, Commit, Complete, Terminate, ChildEnds
<1>9. ASSUME NEW v \in Workers, Crash(v) PROVE AllowsBegin(w)
  BY <1>2, <1>9 DEF Crash
<1>10. ASSUME NEW v \in Workers, NEW outcome \in Outcomes \ {"none"}, End(v, outcome)
       PROVE  req' = req
  BY <1>10 DEF End
<1>11. (Expire => req' = req) /\ (UNCHANGED vars => req' = req)
  BY DEF Expire, vars
<1> QED BY <1>1, <1>3, <1>4, <1>5, <1>6, <1>7, <1>8, <1>9, <1>10, <1>11 DEF Next

\* A turn that begins without admission never replaces the claim of a process
\* whose subprocess still runs (_claim_remnant_admits_replacement): with one
\* task and no background work, for any number of processes, executions and
\* tools, over crashes, canceled requests and turns recovered in between.
THEOREM Claims == ASSUME OneTask PROVE Spec => ClaimFindsNoOrphan
<1> DEFINE Marks == ~setting.background => OInv
<1>1. Init => IInv /\ Marks
  <2>1. Init => OInv
    BY DEF Init, OInv, Controls, Markers, Followed, Has, Carries, Published, Resting, Marked
  <2> QED BY <2>1, InitHolds
<1>2. IInv /\ Marks /\ [Next]_vars => IInv' /\ Marks'
  BY OneTask, StepHolds, MarksHold, SettingStays
<1>3. IInv /\ Marks /\ [Next]_vars =>
        [~setting.background =>
           \A w \in Workers : /\ req[w] # None /\ req[w].st = "claim"
                             /\ req'[w] # None /\ req'[w].st = "claimed"
                             /\ disk # None /\ disk.server # w
                             => disk.server \notin children]_vars
  <2> SUFFICES ASSUME IInv, OInv, [Next]_vars, NEW w \in Workers, req[w] # None, req[w].st = "claim",
                      req'[w] # None, req'[w].st = "claimed", disk # None, disk.server # w, disk.server \in children
               PROVE  FALSE
    OBVIOUS
  <2>1. disk.tools /\ disk.st # "ended"
    BY DEF OInv, Markers, Marked
  <2>2. AllowsBegin(w)
    BY OnlyClaims
  <2>3. Has(w) => disk.exec # ctl[w].exec
    BY NamesOf
  <2> QED BY <2>1, <2>2, <2>3 DEF AllowsBegin, QuietRemnant
<1> HIDE DEF Marks
<1> QED BY <1>1, <1>2, <1>3, PTL DEF Spec, ClaimFindsNoOrphan

-----------------------------------------------------------------------------
(* The third theorem, a conversation at rest: what the control file says    *)
(* while a request may put another in its place fits the controller of the  *)
(* process it names.                                                        *)

\* The document d of a controller c, while the session proves the wait of t:
\* a turn at work, or waiting in this process alone, left its mark; a durable
\* wait is published, or will be with a later revision; a committed handoff is
\* there; and only a stop of one leaves a handoff behind.
Lives(st) == st \in {"busy", "idle"}
Fits(d, c, t) ==
  /\ d.exec = c.exec /\ d.task = c.task /\ d.rev <= c.rev
  /\ c.st = "busy" \/ (c.st = "idle" /\ ~c.durable) => ~d.ready /\ Lives(d.st) /\ d.handoff = c.handoff
  /\ c.st = "idle" /\ c.durable /\ c.handoff = "none" =>
        d.handoff = "none" /\ (d.ready \/ (c.persisted < c.rev /\ d.rev < c.rev))
  /\ c.st = "idle" /\ c.handoff = "committed" => Committed(d)
  /\ c.st \in {"ending", "ended"} /\ Lives(d.st) /\ d.handoff # "none" => c.st = "ending" /\ c.handoff # "none"
  /\ c.st = "ended" /\ c.outcome = "receipt" /\ c.persisted = c.rev => d.st = "ended"
  /\ d.ready \/ c.st = "idle" => t = c.task
  /\ d.ready => d.st = "idle"

\* A controller of a deployment without background work.
Shaped(c) ==
  /\ Working(c)
  /\ c.local => c.handoff = "none" /\ ~c.durable
  /\ c.st = "busy" => c.card = "none"
  /\ c.st = "idle" /\ c.card # "none" /\ c.handoff # "committed" => ~c.durable
  /\ c.st = "idle" /\ c.handoff # "none" => c.card = "suspended"
  /\ c.st = "idle" /\ c.handoff = "preparing" => ~c.durable /\ c.rev = c.from + 1
  /\ c.st = "idle" /\ c.handoff = "committed" => c.durable /\ c.persisted = c.rev /\ c.rev = c.from + 2

\* The document a process is known by: the control file, but for a controller
\* not installed yet, and what such a one would put back.
Stands(d) ==
  \/ d = disk /\ ~Published(d.server)
  \/ \E w \in Workers : Published(w) /\ d = req[w].old

Ties == \A d \in Doc : Stands(d) /\ d.server \in alive => Has(d.server) /\ Fits(d, ctl[d.server], waiting)
Shapes == \A w \in Workers : Has(w) => Shaped(ctl[w]) /\ (ctl[w].local => ~setting.shared)
Brings == \A w \in Workers : Carries(w) => Shaped(req[w].new) /\ ~req[w].new.local
WInv == Ties /\ Shapes /\ Brings

\* Only the process itself has a document that stands while it owns the
\* conversation; while the control file is its own, only that.
LEMMA OwnerStands ==
  ASSUME IInv, NEW w \in Workers, Has(w), Owns(ctl[w]), NEW d \in Doc, Stands(d)
  PROVE  d.server = w
<1>1. disk.server = w
  BY DEF IInv, Ownership, Guards
<1>2. ASSUME NEW v \in Workers, Published(v), d = req[v].old
      PROVE  d.server = w
  <2>1. v = w
    BY <1>1, <1>2, PublishedIs
  <2> QED BY <1>2, <2>1 DEF IInv, Publication, Guards
<1> QED BY <1>1, <1>2 DEF Stands

LEMMA OwnDocument ==
  ASSUME IInv, NEW w \in Workers, Has(w), disk.exec = ctl[w].exec
  PROVE  /\ disk \in Doc /\ disk # None /\ disk.server = w /\ w \in alive
         /\ \A v \in Workers : ~Published(v)
         /\ Stands(disk)
<1>1. disk \in Doc /\ disk # None /\ w \in alive
  BY TypesOf
<1>2. disk.server = w
  BY <1>1, NamesOf
<1>3. \A v \in Workers : ~Published(v)
  BY NamesOf, PublishedIs
<1> QED BY <1>1, <1>2, <1>3 DEF Stands

\* Such a document fits, and is of no later revision.
LEMMA OwnFits ==
  ASSUME IInv, WInv, NEW w \in Workers, Has(w), disk.exec = ctl[w].exec
  PROVE  Fits(disk, ctl[w], waiting) /\ disk.rev <= ctl[w].rev
<1>1. Fits(disk, ctl[w], waiting)
  BY OwnDocument DEF WInv, Ties
<1> QED BY <1>1 DEF Fits

-----------------------------------------------------------------------------
(* How a step keeps the documents fitting.                                 *)

\* The requests as far as they publish or carry a controller.
Asked ==
  \A v \in Workers :
    /\ Published(v)' <=> Published(v)
    /\ Published(v) => req'[v].old = req[v].old
    /\ Carries(v)' => Shaped(req'[v].new) /\ ~req'[v].new.local

\* The controller of w goes on as c.
Shifts(w, c) ==
  /\ Has(w) /\ c \in Control /\ ctl' = [ctl EXCEPT ![w] = c] /\ UNCHANGED <<setting, alive>>
  /\ Shaped(c) /\ (c.local => ~setting.shared)

LEMMA ShiftShapes ==
  ASSUME IInv, WInv, NEW w \in Workers, NEW c, Shifts(w, c), Asked
  PROVE  /\ Shapes' /\ Brings'
         /\ ctl'[w] = c /\ Has(w)' /\ \A v \in Workers : v # w => ctl'[v] = ctl[v] /\ (Has(v)' <=> Has(v))
<1>1. ctl'[w] = c /\ \A v \in Workers : v # w => ctl'[v] = ctl[v]
  BY DomainOf DEF Shifts
<1>2. c # None
  BY AdmissionAssumption DEF Shifts
<1>3. ASSUME NEW v \in Workers, Has(v)'
      PROVE  Shaped(ctl'[v]) /\ (ctl'[v].local => ~setting'.shared)
  <2>1. CASE v = w
    BY <1>1, <2>1 DEF Shifts
  <2>2. CASE v # w
    BY <1>1, <1>3, <2>2 DEF WInv, Shapes, Shifts, Has
  <2> QED BY <2>1, <2>2
<1>4. \A v \in Workers : Carries(v)' => Shaped(req'[v].new) /\ ~req'[v].new.local
  BY DEF Asked
<1> QED BY <1>1, <1>2, <1>3, <1>4 DEF Shapes, Brings, Has, Shaped, Working

\* It leaves the control file alone.
LEMMA ShiftTies ==
  ASSUME IInv, WInv, NEW w \in Workers, NEW c, Shifts(w, c), Asked, disk' = disk,
         waiting' = waiting \/ Owns(ctl[w]),
         \A d \in Doc : d.server = w /\ Fits(d, ctl[w], waiting) /\ (d = disk \/ disk.exec # ctl[w].exec)
                          => Fits(d, c, waiting')
  PROVE  WInv'
<1>1. /\ Shapes' /\ Brings' /\ ctl'[w] = c /\ Has(w)'
      /\ \A v \in Workers : v # w => ctl'[v] = ctl[v] /\ (Has(v)' <=> Has(v))
  BY ShiftShapes
<1>2. ASSUME NEW d \in Doc, Stands(d)'
      PROVE  Stands(d)
  <2>1. d.server \in Workers
    BY DEF Doc
  <2> QED BY <1>2, <2>1 DEF Stands, Asked
<1>3. ASSUME NEW d \in Doc, Stands(d), d.server \in alive
      PROVE  Has(d.server)' /\ Fits(d, ctl'[d.server], waiting')
  <2>1. d.server \in Workers /\ Has(d.server) /\ Fits(d, ctl[d.server], waiting)
    BY <1>3 DEF WInv, Ties, Doc
  <2>2. CASE d.server = w
    <3>1. d = disk \/ disk.exec # ctl[w].exec
      <4>1. ASSUME NEW v \in Workers, Published(v)
            PROVE  disk.exec # ctl[w].exec
        BY <4>1, OwnDocument DEF Shifts
      <4> QED BY <1>3, <4>1 DEF Stands
    <3> QED BY <1>1, <2>1, <2>2, <3>1
  <2>3. CASE d.server # w
    <3>1. waiting' = waiting
      BY <1>3, <2>3, OwnerStands DEF Shifts
    <3> QED BY <1>1, <2>1, <2>3, <3>1
  <2> QED BY <2>2, <2>3
<1>4. Ties'
  BY <1>2, <1>3 DEF Ties, Shifts, Fits, Has, Committed, Lives
<1> QED BY <1>1, <1>4 DEF WInv

\* It writes the control file, which is its own.
LEMMA WriteTies ==
  ASSUME IInv, WInv, NEW w \in Workers, NEW c, Shifts(w, c), Asked, disk.exec = ctl[w].exec,
         NEW d \in Doc, disk' = d, d.server = w, Fits(d, c, waiting')
  PROVE  WInv'
<1>1. Shapes' /\ Brings' /\ ctl'[w] = c /\ Has(w)'
  BY ShiftShapes
<1>2. \A v \in Workers : ~Published(v)'
  BY OwnDocument DEF Shifts, Asked
<1>3. ASSUME NEW e \in Doc, Stands(e)'
      PROVE  e = d
  BY <1>2, <1>3 DEF Stands
<1>4. Ties'
  BY <1>1, <1>3 DEF Ties
<1> QED BY <1>1, <1>4 DEF WInv

\* Only requests move, and publish or withdraw nothing.
LEMMA AskTies ==
  ASSUME IInv, WInv, Asked, UNCHANGED <<setting, disk, alive, ctl, waiting>>
  PROVE  WInv'
<1>1. ASSUME NEW d \in Doc, Stands(d)'
      PROVE  Stands(d)
  <2>1. d.server \in Workers
    BY DEF Doc
  <2> QED BY <1>1, <2>1 DEF Stands, Asked
<1>2. Ties'
  BY <1>1 DEF WInv, Ties, Fits, Has, Committed, Lives
<1>3. Shapes' /\ Brings'
  BY DEF WInv, Shapes, Brings, Asked, Has, Shaped, Working
<1> QED BY <1>2, <1>3 DEF WInv

LEMMA AskAsked ==
  ASSUME IInv, WInv, NEW w \in Workers, ~Published(w), NEW r, req' = [req EXCEPT ![w] = r],
         r = None \/ r.st \in {"reserve", "reserved"} \/ (r.st \in {"claim", "activate"} /\ Shaped(r.new) /\ ~r.new.local)
  PROVE  Asked
<1>1. req'[w] = r /\ \A v \in Workers : v # w => req'[v] = req[v]
  BY DEF IInv, Types, TypeOK
<1>2. /\ Published(w)' <=> Published(w)
      /\ Carries(w)' => Shaped(req'[w].new) /\ ~req'[w].new.local
  BY <1>1 DEF Published, Carries
<1>3. ASSUME NEW v \in Workers, v # w
      PROVE  /\ Published(v)' <=> Published(v)
             /\ Published(v) => req'[v].old = req[v].old
             /\ Carries(v)' => Shaped(req'[v].new) /\ ~req'[v].new.local
  <2>1. (Published(v)' <=> Published(v)) /\ (Carries(v)' <=> Carries(v))
    BY <1>1, <1>3 DEF Published, Carries
  <2> QED BY <1>1, <1>3, <2>1 DEF WInv, Brings
<1> QED BY <1>2, <1>3 DEF Asked

LEMMA SameAsked == ASSUME WInv, req' = req PROVE Asked
BY DEF Asked, Published, Carries, WInv, Brings

-----------------------------------------------------------------------------
(* _persist_snapshot, once more.                                           *)

\* A controller whose last revision was written.
Stored(c) == [c EXCEPT !.persisted = c.rev]

\* A document fits the controller it was written for.
LEMMA SnapshotFits ==
  ASSUME NEW w \in Workers, NEW c \in Control, Shaped(c), NEW t, c.st = "idle" => t = c.task
  PROVE  /\ Fits(Snapshot(w, c), c, t) /\ Fits(Snapshot(w, c), Stored(c), t)
         /\ Stored(c) \in Control /\ Shaped(Stored(c)) /\ Stored(c).local = c.local
<1> DEFINE s == Snapshot(w, c)
<1>1. /\ s.exec = c.exec /\ s.task = c.task /\ s.rev = c.rev /\ s.st = c.st /\ s.tools = c.tool /\ s.outcome = c.outcome
      /\ s.ready <=> Ready(c)
      /\ s.handoff = IF Lives(c.st) THEN c.handoff ELSE "none"
  BY DEF Snapshot, Lives
<1> HIDE DEF s
<1>2. c.rev \in Nat
  BY DEF Control
<1>3. c.st = "idle" => ~HasWork(c) /\ Drained(c)
  BY DEF Shaped, Working, HasWork, Drained
<1>4. Ready(c) => c.st = "idle" /\ c.durable
  BY DEF Ready, Drained
<1>5. c.st = "idle" /\ c.durable /\ c.handoff = "none" => Ready(c)
  BY <1>3 DEF Ready
<1>6. c.st = "idle" /\ c.handoff = "committed" => Committed(s)
  <2>1. c.st = "idle" /\ c.handoff = "committed" => Ready(c)
    BY <1>3 DEF Ready, Shaped
  <2> QED BY <1>1, <1>3, <2>1 DEF Committed, HasWork, Lives
<1>7. Fits(s, c, t)
  BY <1>1, <1>2, <1>4, <1>5, <1>6 DEF Fits, Lives
<1>8. /\ Stored(c) \in Control /\ Stored(c).rev = c.rev /\ Stored(c).persisted = c.rev
      /\ Stored(c).exec = c.exec /\ Stored(c).task = c.task /\ Stored(c).st = c.st /\ Stored(c).durable = c.durable
      /\ Stored(c).card = c.card /\ Stored(c).local = c.local /\ Stored(c).handoff = c.handoff /\ Stored(c).from = c.from
      /\ Stored(c).background = c.background /\ Stored(c).tool = c.tool /\ Stored(c).outcome = c.outcome
  BY <1>2 DEF Stored, Control
<1>9. Shaped(Stored(c))
  BY <1>8 DEF Shaped, Working
<1>10. Fits(s, Stored(c), t)
  BY <1>1, <1>2, <1>4, <1>5, <1>6, <1>8 DEF Fits, Lives
<1> QED BY <1>7, <1>8, <1>9, <1>10 DEF s

\* Written, refused as the document is not older, or not asked.
LEMMA PersistCases ==
  ASSUME IInv, NEW w \in Workers, Has(w), NEW c \in Control, c.exec = ctl[w].exec, Persist(w, c)
  PROVE  \/ disk.exec = ctl[w].exec /\ disk' = Snapshot(w, c) /\ ctl' = [ctl EXCEPT ![w] = Stored(c)]
         \/ /\ disk' = disk /\ disk.exec = ctl[w].exec /\ c.persisted < c.rev /\ c.rev <= disk.rev
            /\ ctl' = [ctl EXCEPT ![w] = Stored(c)]
         \/ disk' = disk /\ (disk.exec # ctl[w].exec \/ c.rev <= c.persisted) /\ ctl' = [ctl EXCEPT ![w] = c]
<1>1. disk # None /\ disk \in Doc
  BY TypesOf
<1>2. disk.rev \in Nat /\ c.rev \in Nat /\ c.persisted \in Nat /\ c = [c EXCEPT !.persisted = @]
  BY <1>1 DEF Doc, Control
<1>3. CASE c.rev <= c.persisted
  <2>1. disk' = disk /\ ctl' = [ctl EXCEPT ![w] = [c EXCEPT !.persisted = @]]
    BY <1>3 DEF Persist
  <2> QED BY <1>2, <1>3, <2>1
<1>4. CASE disk.exec # c.exec
  <2>1. disk' = disk /\ ctl' = [ctl EXCEPT ![w] = [c EXCEPT !.persisted = @]]
    BY <1>1, <1>4 DEF Persist, CurrentOwner
  <2> QED BY <1>2, <1>4, <2>1
<1>5. CASE disk.exec = c.exec /\ ~(c.rev <= c.persisted)
  <2>1. /\ disk' = IF disk.rev < c.rev THEN Snapshot(w, c) ELSE disk
        /\ ctl' = [ctl EXCEPT ![w] = [c EXCEPT !.persisted = c.rev]]
    BY <1>1, <1>5 DEF Persist, CurrentOwner
  <2> QED BY <1>2, <1>5, <2>1 DEF Stored
<1> QED BY <1>3, <1>4, <1>5

\* A new revision of a controller.
LEMMA PersistTies ==
  ASSUME IInv, WInv, Asked, NEW w \in Workers, Has(w), NEW c \in Control, c.exec = ctl[w].exec, Persist(w, c),
         ctl[w].rev < c.rev, c.persisted < c.rev, Shaped(c), c.local => ~setting.shared, UNCHANGED <<setting, alive>>,
         waiting' = waiting \/ Owns(ctl[w]), c.st = "idle" => waiting' = c.task,
         \A d \in Doc : d.server = w /\ Fits(d, ctl[w], waiting) /\ disk.exec # ctl[w].exec => Fits(d, c, waiting')
  PROVE  WInv'
<1>1. /\ c.rev \in Nat /\ ctl[w].rev \in Nat /\ c.persisted \in Nat /\ disk.rev \in Nat
  BY TypesOf DEF Control, Doc
<1>2. disk.exec = ctl[w].exec => disk.rev <= ctl[w].rev
  BY OwnFits
<1>3. CASE disk.exec = ctl[w].exec
  <2>1. disk' = Snapshot(w, c) /\ ctl' = [ctl EXCEPT ![w] = Stored(c)]
    BY <1>1, <1>2, <1>3, PersistCases
  <2>2. /\ Fits(Snapshot(w, c), Stored(c), waiting')
        /\ Stored(c) \in Control /\ Shaped(Stored(c)) /\ Stored(c).local = c.local
    BY SnapshotFits
  <2>3. Shifts(w, Stored(c))
    BY <2>1, <2>2 DEF Shifts
  <2> QED BY <1>3, <2>1, <2>2, <2>3, SnapshotType, WriteTies
<1>4. CASE disk.exec # ctl[w].exec
  <2>1. disk' = disk /\ ctl' = [ctl EXCEPT ![w] = c]
    BY <1>4, PersistCases
  <2>2. Shifts(w, c)
    BY <2>1 DEF Shifts
  <2> QED BY <1>4, <2>1, <2>2, ShiftTies
<1> QED BY <1>3, <1>4

-----------------------------------------------------------------------------
(* The steps of a request, for the third theorem.                          *)

\* A durable wait is published again before its continuation is reserved.
LEMMA ReserveTies ==
  ASSUME IInv, WInv, NEW w \in Workers, NEW t \in Tasks, NEW perm \in BOOLEAN, Reserve(w, t, perm)
  PROVE  WInv'
<1> DEFINE c == ctl[w]
           localOnly == Has(w) /\ c.task = t /\ c.local /\ Drained(c)
           r == [st |-> "reserve", task |-> t, local |-> localOnly, perm |-> IF perm /\ ~localOnly THEN proof ELSE 0,
                 ticket |-> None, new |-> None, old |-> None]
<1>1. /\ r.st = "reserve" /\ req' = [req EXCEPT ![w] = r] /\ UNCHANGED <<setting, alive, waiting>>
      /\ ~Published(w) /\ waiting = t /\ (Has(w) => c.task = t)
  BY DEF Reserve, Ask, CanAdmit, Idle, Published
<1> HIDE DEF r
<1>2. Asked
  BY <1>1, AskAsked
<1>3. CASE Has(w) /\ Ready(c)
  <2>1. /\ c \in Control /\ c.st = "idle" /\ c.durable /\ Shaped(c) /\ (c.local => ~setting.shared) /\ Persist(w, c)
        /\ c.handoff = "none" \/ (c.handoff = "committed" /\ c.persisted = c.rev)
        /\ ctl = [ctl EXCEPT ![w] = c]
    BY <1>3, TypesOf DEF WInv, Shapes, Ready, Drained, Reserve
  <2>2. /\ Fits(Snapshot(w, c), Stored(c), waiting)
        /\ Stored(c) \in Control /\ Shaped(Stored(c)) /\ Stored(c).local = c.local
    BY <1>1, <1>3, <2>1, SnapshotFits
  <2>3. CASE disk.exec = c.exec /\ disk' = Snapshot(w, c) /\ ctl' = [ctl EXCEPT ![w] = Stored(c)]
    <3>1. Shifts(w, Stored(c))
      BY <1>1, <1>3, <2>1, <2>2, <2>3 DEF Shifts
    <3> QED BY <1>1, <1>2, <1>3, <2>1, <2>2, <2>3, <3>1, SnapshotType, WriteTies
  <2>4. CASE /\ disk' = disk /\ disk.exec = c.exec /\ c.persisted < c.rev /\ c.rev <= disk.rev
             /\ ctl' = [ctl EXCEPT ![w] = Stored(c)]
    <3>1. Shifts(w, Stored(c))
      BY <1>1, <1>3, <2>1, <2>2, <2>4 DEF Shifts
    <3>2. Fits(disk, c, waiting) /\ disk.rev \in Nat /\ c.rev \in Nat /\ c.persisted \in Nat
      BY <1>3, <2>1, <2>4, OwnFits, OwnDocument DEF Doc, Control
    <3>3. c.handoff = "none"
      BY <2>1, <2>4, <3>2
    <3>4. /\ Stored(c).exec = c.exec /\ Stored(c).task = c.task /\ Stored(c).rev = c.rev /\ Stored(c).st = c.st
          /\ Stored(c).durable = c.durable /\ Stored(c).handoff = c.handoff
      BY <2>1 DEF Stored, Control
    <3>5. Fits(disk, Stored(c), waiting)
      BY <2>1, <2>4, <3>2, <3>3, <3>4 DEF Fits
    <3> QED BY <1>1, <1>2, <1>3, <2>4, <3>1, <3>5, ShiftTies
  <2>5. CASE disk' = disk /\ ctl' = [ctl EXCEPT ![w] = c]
    BY <1>1, <1>2, <2>1, <2>5, AskTies
  <2> QED BY <1>3, <2>1, <2>3, <2>4, <2>5, PersistCases
<1>4. CASE ~(Has(w) /\ Ready(c))
  <2>1. UNCHANGED <<disk, ctl>>
    BY <1>4 DEF Reserve
  <2> QED BY <1>1, <1>2, <2>1, AskTies
<1> QED BY <1>3, <1>4

LEMMA AnswerTies ==
  ASSUME IInv, WInv, NEW w \in Workers, ~Published(w), Answer(w), UNCHANGED <<setting, disk, alive, ctl, waiting>>
  PROVE  WInv'
<1>1. req' = [req EXCEPT ![w] = None]
  BY DEF Answer, Ask
<1> QED BY <1>1, AskAsked, AskTies

LEMMA LeaveTies == ASSUME IInv, WInv, NEW w \in Workers, Release(w) \/ BeginRefused(w) PROVE WInv'
<1>1. ~Published(w) /\ Answer(w) /\ UNCHANGED <<setting, disk, alive, ctl, waiting>>
  BY DEF Release, BeginRefused, Published
<1> QED BY <1>1, AnswerTies

LEMMA ReserveResultTies == ASSUME IInv, WInv, NEW w \in Workers, ReserveResult(w) PROVE WInv'
<1> DEFINE q == req[w]
           a == [by |-> w, task |-> q.task, exec |-> IF disk = None THEN 0 ELSE disk.exec,
                 rev |-> IF disk = None THEN 0 ELSE disk.rev, local |-> q.local, perm |-> q.perm, expired |-> FALSE]
           r == [q EXCEPT !.st = "reserved", !.ticket = a]
<1>1. /\ q \in Request /\ req[w] # None /\ q.st = "reserve" /\ ~Published(w)
      /\ UNCHANGED <<setting, disk, alive, ctl, waiting>>
  BY TypesOf DEF ReserveResult, Published
<1>2. req' = [req EXCEPT ![w] = r] \/ Answer(w)
  BY DEF ReserveResult, Ask
<1> HIDE DEF a
<1>3. r.st = "reserved"
  <2> HIDE DEF q
  <2> QED BY <1>1 DEF Request
<1> HIDE DEF r
<1> QED BY <1>1, <1>2, <1>3, AskAsked, AskTies, AnswerTies

LEMMA RequireTies == ASSUME IInv, WInv, NEW w \in Workers, Require(w) PROVE WInv'
<1> DEFINE q == req[w]
           a == [q.ticket EXCEPT !.perm = proof]
           r == [q EXCEPT !.perm = proof, !.ticket = a]
<1>1. /\ q \in Request /\ req[w] # None /\ q.st = "reserved" /\ ~Published(w)
      /\ UNCHANGED <<setting, disk, alive, ctl, waiting>>
  BY TypesOf DEF Require, Published
<1>2. req' = [req EXCEPT ![w] = r] \/ Answer(w)
  BY DEF Require, Ask
<1> HIDE DEF a
<1>3. r.st = "reserved"
  <2> HIDE DEF q
  <2> QED BY <1>1 DEF Request
<1> HIDE DEF r
<1> QED BY <1>1, <1>2, <1>3, AskAsked, AskTies, AnswerTies

LEMMA NewShaped ==
  ASSUME NEW e, NEW t, NEW durable, NEW r
  PROVE  Shaped(NewControl(e, t, durable, r)) /\ ~NewControl(e, t, durable, r).local
BY DEF NewControl, Shaped, Working

LEMMA BeginTies == ASSUME IInv, WInv, NEW w \in Workers, NEW t \in Tasks, Begin(w, t) PROVE WInv'
<1> DEFINE n == NewControl(execs + 1, t, FALSE, 0)
           r == [st |-> "claim", task |-> t, local |-> FALSE, perm |-> 0, ticket |-> None, new |-> n, old |-> None]
<1>1. req' = [req EXCEPT ![w] = r] /\ UNCHANGED <<setting, disk, alive, ctl, waiting>> /\ ~Published(w)
  BY DEF Begin, Ask, Idle, files, Published
<1>2. r.st = "claim" /\ Shaped(r.new) /\ ~r.new.local
  BY NewShaped
<1> HIDE DEF r
<1> QED BY <1>1, <1>2, AskAsked, AskTies

LEMMA BeginAdmittedTies == ASSUME IInv, WInv, NEW w \in Workers, BeginAdmitted(w) PROVE WInv'
<1> DEFINE q == req[w]
           n == NewControl(execs + 1, q.task, q.perm = 0, 1)
           r == [q EXCEPT !.st = "activate", !.new = n]
<1>1. /\ q \in Request /\ req[w] # None /\ q.st = "reserved" /\ ~Published(w)
      /\ UNCHANGED <<setting, disk, alive, ctl, waiting>> /\ req' = [req EXCEPT ![w] = r]
  BY TypesOf DEF BeginAdmitted, Ask, files, Published
<1>2. Shaped(n) /\ ~n.local
  BY NewShaped
<1> HIDE DEF n
<1>3. r.st = "activate" /\ r.new = n
  <2> HIDE DEF q
  <2> QED BY <1>1 DEF Request
<1> HIDE DEF r
<1> QED BY <1>1, <1>2, <1>3, AskAsked, AskTies

\* A controller that is published: the document it replaces stands instead.
LEMMA PublishTies ==
  ASSUME IInv, WInv, NEW w \in Workers, w \in alive, Carries(w), ~Published(w), NEW r,
         r # None, r.st \in {"claimed", "activated"}, r.new = req[w].new, r.old = disk, req' = [req EXCEPT ![w] = r],
         disk' = Snapshot(w, r.new), \A v \in Workers : v \in alive /\ Guards(v, disk) => v = w,
         UNCHANGED <<setting, alive, ctl, waiting>>
  PROVE  WInv'
<1>1. r.new \in Control /\ disk'.server = w
  BY SnapshotType DEF IInv, Types
<1>2. \A v \in Workers : ~Published(v)
  BY PublishedIs
<1>3. req'[w] = r /\ \A v \in Workers : v # w => req'[v] = req[v]
  BY DEF IInv, Types, TypeOK
<1>4. Published(w)' /\ \A v \in Workers : v # w => ~Published(v)'
  BY <1>2, <1>3 DEF Published
<1>5. ASSUME NEW d \in Doc, Stands(d)'
      PROVE  Stands(d)
  <2>1. d = disk
    BY <1>1, <1>3, <1>4, <1>5 DEF Stands
  <2> QED BY <1>2, <2>1 DEF Stands, Doc
<1>6. Ties'
  BY <1>5 DEF WInv, Ties, Fits, Has, Committed, Lives
<1>7. Shapes'
  BY DEF WInv, Shapes, Has, Shaped, Working
<1>8. Brings'
  <2>1. \A v \in Workers : Carries(v)' => Carries(v) /\ req'[v].new = req[v].new
    BY <1>3 DEF Carries
  <2>2. \A v \in Workers : Carries(v)' => Shaped(req'[v].new) /\ ~req'[v].new.local
    BY <2>1 DEF WInv, Brings
  <2> QED BY <2>2 DEF Brings, Shaped, Working
<1> QED BY <1>6, <1>7, <1>8 DEF WInv

LEMMA ClaimTies == ASSUME IInv, WInv, NEW w \in Workers, Claim(w) PROVE WInv'
<1> DEFINE r == [req[w] EXCEPT !.st = "claimed", !.old = disk]
<1>1. /\ w \in alive /\ req[w] # None /\ req[w] \in Request /\ req[w].st = "claim" /\ ~Published(w) /\ Carries(w)
      /\ UNCHANGED <<setting, alive, ctl, waiting>>
  BY TypesOf DEF Claim, Published, Carries
<1>2. CASE disk' = disk /\ Answer(w)
  BY <1>1, <1>2, AnswerTies
<1>3. CASE ~(disk' = disk /\ Answer(w))
  <2>1. AllowsBegin(w) /\ disk' = Snapshot(w, req[w].new) /\ req' = [req EXCEPT ![w] = r]
    BY <1>3 DEF Claim, Ask
  <2>2. r # None /\ r.st = "claimed" /\ r.new = req[w].new /\ r.old = disk
    <3>1. r \in Request /\ r.st = "claimed" /\ r.new = req[w].new /\ r.old = disk
      BY <1>1, TypesOf DEF Request, IInv, Types, TypeOK
    <3> HIDE DEF r
    <3> QED BY <3>1, AdmissionAssumption
  <2> HIDE DEF r
  <2>3. \A v \in Workers : v \in alive /\ Guards(v, disk) => v = w
    BY <2>1, Allowed
  <2> QED BY <1>1, <2>1, <2>2, <2>3, PublishTies
<1> QED BY <1>2, <1>3

LEMMA ActivateTies == ASSUME IInv, WInv, NEW w \in Workers, Activate(w) PROVE WInv'
<1> DEFINE r == [req[w] EXCEPT !.st = "activated", !.old = disk]
<1>1. /\ w \in alive /\ req[w] # None /\ req[w] \in Request /\ req[w].st = "activate" /\ ~Published(w) /\ Carries(w)
      /\ req[w].ticket \in Ticket /\ UNCHANGED <<setting, alive, ctl, waiting>>
  BY TypesOf DEF Activate, Published, Carries, IInv, Types
<1>2. CASE disk' = disk /\ Answer(w)
  BY <1>1, <1>2, AnswerTies
<1>3. CASE ~(disk' = disk /\ Answer(w))
  <2>1. AllowsRecovery(w, req[w].ticket) /\ disk' = Snapshot(w, req[w].new) /\ req' = [req EXCEPT ![w] = r]
    BY <1>3 DEF Activate, Admitted, Ask
  <2>2. r # None /\ r.st = "activated" /\ r.new = req[w].new /\ r.old = disk
    <3>1. r \in Request /\ r.st = "activated" /\ r.new = req[w].new /\ r.old = disk
      BY <1>1, TypesOf DEF Request, IInv, Types, TypeOK
    <3> HIDE DEF r
    <3> QED BY <3>1, AdmissionAssumption
  <2> HIDE DEF r
  <2>3. \A v \in Workers : v \in alive /\ Guards(v, disk) => v = w
    BY <1>1, <2>1, Allowed
  <2> QED BY <1>1, <2>1, <2>2, <2>3, PublishTies
<1> QED BY <1>2, <1>3

LEMMA InstallTies == ASSUME IInv, WInv, NEW w \in Workers, Install(w) PROVE WInv'
<1> DEFINE n == req[w].new
<1>1. Published(w) /\ Carries(w) /\ n \in Control /\ Fresh(n) /\ disk = Snapshot(w, n) /\ disk.server = w
  <2>1. Published(w)
    BY DEF Install, Published
  <2> QED BY <2>1, PublishedIs DEF IInv, Publication
<1>2. ctl' = [ctl EXCEPT ![w] = Stored(n)] /\ req' = [req EXCEPT ![w] = None] /\ UNCHANGED <<setting, disk, alive>>
  BY DEF Install, Installed, Answer, Ask, Stored
<1>3. Shaped(n) /\ ~n.local /\ n.st # "idle"
  BY <1>1 DEF WInv, Brings, Fresh
<1>4. /\ Fits(disk, Stored(n), waiting') /\ Stored(n) \in Control /\ Shaped(Stored(n)) /\ ~Stored(n).local
  BY <1>1, <1>3, SnapshotFits
<1>5. Stored(n) # None
  BY <1>4, AdmissionAssumption
<1> HIDE DEF n
<1>6. /\ ctl'[w] = Stored(n) /\ req'[w] = None /\ \A v \in Workers : v # w => ctl'[v] = ctl[v] /\ req'[v] = req[v]
  BY <1>2 DEF IInv, Types, TypeOK
<1>7. /\ \A v \in Workers : ~Published(v)'
      /\ \A v \in Workers : Carries(v)' => v # w /\ Carries(v)
  BY <1>1, <1>6, OnlyOneIsPublished DEF Published, Carries
<1>8. Ties'
  <2>1. \A d \in Doc : Stands(d)' => d = disk
    BY <1>2, <1>7 DEF Stands
  <2>2. Has(w)' /\ Fits(disk, ctl'[w], waiting')
    BY <1>4, <1>5, <1>6 DEF Has
  <2> QED BY <1>1, <2>1, <2>2 DEF Ties
<1>9. Shapes'
  <2>1. \A v \in Workers : Has(v)' => Shaped(ctl'[v]) /\ (ctl'[v].local => ~setting'.shared)
    BY <1>2, <1>4, <1>6 DEF WInv, Shapes, Has
  <2> QED BY <2>1 DEF Shapes, Shaped, Working
<1>10. Brings'
  <2>1. \A v \in Workers : Carries(v)' => Shaped(req'[v].new) /\ ~req'[v].new.local
    BY <1>6, <1>7 DEF WInv, Brings
  <2> QED BY <2>1 DEF Brings, Shaped, Working
<1> QED BY <1>8, <1>9, <1>10 DEF WInv

\* A request that is canceled puts back the document that stood.
LEMMA RollbackTies == ASSUME IInv, WInv, NEW w \in Workers, Rollback(w) PROVE WInv'
<1>1. Published(w) /\ disk # None /\ disk.exec = req[w].new.exec
  <2>1. Published(w)
    BY DEF Rollback, Published
  <2> QED BY <2>1, PublishedIs
<1>2. disk' = req[w].old /\ req' = [req EXCEPT ![w] = None] /\ UNCHANGED <<setting, alive, ctl, waiting>>
  BY <1>1 DEF Rollback, PutBack, Answer, Ask
<1>3. req'[w] = None /\ \A v \in Workers : v # w => req'[v] = req[v]
  BY <1>2 DEF IInv, Types, TypeOK
<1>4. /\ \A v \in Workers : ~Published(v)'
      /\ \A v \in Workers : Carries(v)' => v # w /\ Carries(v)
  BY <1>1, <1>3, OnlyOneIsPublished DEF Published, Carries
<1>5. Ties'
  <2>1. \A d \in Doc : Stands(d)' => Stands(d)
    BY <1>1, <1>2, <1>4 DEF Stands
  <2> QED BY <1>2, <2>1 DEF WInv, Ties, Fits, Has, Committed, Lives
<1>6. Shapes'
  BY <1>2 DEF WInv, Shapes, Has, Shaped, Working
<1>7. Brings'
  <2>1. \A v \in Workers : Carries(v)' => Shaped(req'[v].new) /\ ~req'[v].new.local
    BY <1>3, <1>4 DEF WInv, Brings
  <2> QED BY <2>1 DEF Brings, Shaped, Working
<1> QED BY <1>5, <1>6, <1>7 DEF WInv

\* The document of a process that died is tied to nothing.
LEMMA CrashTies == ASSUME IInv, WInv, NEW w \in Workers, Crash(w) PROVE WInv'
<1>1. /\ ctl'[w] = None /\ req'[w] = None /\ \A v \in Workers : v # w => ctl'[v] = ctl[v] /\ req'[v] = req[v]
      /\ alive' = alive \ {w} /\ UNCHANGED <<setting, disk, waiting>>
  BY DEF IInv, Types, TypeOK, Crash, Answer, Ask, files
<1>2. /\ \A v \in Workers : Carries(v)' => v # w /\ Carries(v)
      /\ \A v \in Workers : Published(v)' => v # w /\ Published(v)
      /\ \A v \in Workers : v # w => (Published(v)' <=> Published(v))
      /\ \A v \in Workers : Has(v)' => v # w /\ Has(v)
      /\ \A v \in Workers : v # w /\ Has(v) => Has(v)'
  BY <1>1 DEF Published, Carries, Has
<1>3. Ties'
  <2> SUFFICES ASSUME NEW d \in Doc, Stands(d)', d.server \in alive'
               PROVE  Has(d.server)' /\ Fits(d, ctl'[d.server], waiting)
    BY <1>1 DEF Ties, Fits, Committed, Lives
  <2>1. d.server # w /\ d.server \in Workers /\ d.server \in alive
    BY <1>1 DEF Doc
  <2>2. Stands(d)
    BY <1>1, <1>2, <2>1 DEF Stands
  <2> QED BY <1>1, <1>2, <2>1, <2>2 DEF WInv, Ties
<1>4. Shapes'
  <2>1. \A v \in Workers : Has(v)' => Shaped(ctl'[v]) /\ (ctl'[v].local => ~setting'.shared)
    BY <1>1, <1>2 DEF WInv, Shapes
  <2> QED BY <2>1 DEF Shapes, Shaped, Working
<1>5. Brings'
  <2>1. \A v \in Workers : Carries(v)' => Shaped(req'[v].new) /\ ~req'[v].new.local
    BY <1>1, <1>2 DEF WInv, Brings
  <2> QED BY <2>1 DEF Brings, Shaped, Working
<1> QED BY <1>3, <1>4, <1>5 DEF WInv

LEMMA OtherwiseTies == ASSUME IInv, WInv, Expire \/ (\E w \in Workers : ChildEnds(w)) PROVE WInv'
<1>1. req' = req /\ UNCHANGED <<setting, disk, alive, ctl, waiting>>
  BY DEF Expire, ChildEnds, files
<1> QED BY <1>1, SameAsked, AskTies

-----------------------------------------------------------------------------
(* The steps of a controller, for the third theorem.                       *)

\* What is known of a controller before it moves.
LEMMA BeforeTies ==
  ASSUME IInv, WInv, NEW w \in Workers, Has(w)
  PROVE  /\ ctl[w] \in Control /\ Sane(ctl[w]) /\ Shaped(ctl[w]) /\ (ctl[w].local => ~setting.shared)
         /\ ctl[w].persisted <= ctl[w].rev /\ ctl[w].rev \in Nat /\ ctl[w].persisted \in Nat
         /\ ctl[w].rev + 1 \in Nat /\ ctl[w].rev < ctl[w].rev + 1 /\ ctl[w].persisted < ctl[w].rev + 1
<1>1. ctl[w] \in Control /\ Sane(ctl[w]) /\ ctl[w].persisted <= ctl[w].rev
  BY TypesOf
<1>2. ctl[w].rev \in Nat /\ ctl[w].persisted \in Nat
  BY <1>1 DEF Control
<1> QED BY <1>1, <1>2 DEF WInv, Shapes

LEMMA NoneSpawned ==
  ASSUME IInv, WInv, ~setting.background, NEW w \in Workers
  PROVE  ~Spawn(w) /\ ~SpawnEnds(w) /\ \A t \in Tasks : ~Rollover(w, t)
<1>1. ~Spawn(w) /\ ~SpawnEnds(w)
  BY BeforeTies DEF Spawn, SpawnEnds, Shaped, Working
<1>2. ASSUME NEW t \in Tasks, Rollover(w, t) PROVE FALSE
  <2>1. Has(w) /\ ctl[w].st = "idle" /\ HasWork(ctl[w])
    BY <1>2 DEF Rollover, Rolls
  <2> QED BY <2>1, BeforeTies DEF Shaped, Working, HasWork
<1> QED BY <1>1, <1>2

LEMMA SuspendTies == ASSUME IInv, WInv, NEW w \in Workers, Suspend(w) PROVE WInv'
<1> DEFINE c == [[ctl[w] EXCEPT !.card = "suspended"] EXCEPT !.local = ~setting.shared]
<1>1. /\ Has(w) /\ ctl[w] \in Control /\ Shaped(ctl[w]) /\ ctl[w].card = "bound" /\ ctl[w].st = "idle"
      /\ UNCHANGED <<setting, disk, alive, req, waiting>>
  BY BeforeTies DEF Suspend, files, Drained
<1>2. setting.shared \in BOOLEAN
  BY TypesOf DEF Setting
<1>3. /\ c \in Control /\ c.rev = ctl[w].rev /\ c.exec = ctl[w].exec /\ c.task = ctl[w].task
      /\ c.persisted = ctl[w].persisted /\ c.st = ctl[w].st /\ c.durable = ctl[w].durable /\ c.card = "suspended"
      /\ (c.local <=> ~setting.shared) /\ c.handoff = ctl[w].handoff /\ c.from = ctl[w].from
      /\ c.background = ctl[w].background /\ c.tool = ctl[w].tool /\ c.outcome = ctl[w].outcome
  BY <1>1, <1>2 DEF Control
<1>4. ctl' = [ctl EXCEPT ![w] = c]
  BY <1>1, DomainOf DEF Suspend
<1> HIDE DEF c
<1>5. ctl[w].handoff = "none" /\ ~ctl[w].durable
  BY <1>1 DEF Shaped, Control
<1>6. Shifts(w, c)
  BY <1>1, <1>3, <1>4, <1>5 DEF Shifts, Shaped, Working
<1>7. \A d \in Doc : Fits(d, ctl[w], waiting) => Fits(d, c, waiting)
  BY <1>3 DEF Fits
<1> QED BY <1>1, <1>6, <1>7, SameAsked, ShiftTies

LEMMA ReuseTies == ASSUME IInv, WInv, NEW w \in Workers, NEW t \in Tasks, Reuse(w, t) PROVE WInv'
<1> DEFINE c == [[[ctl[w] EXCEPT !.st = "busy"] EXCEPT !.card = "none"] EXCEPT !.natural = FALSE]
<1>1. /\ Has(w) /\ ctl[w] \in Control /\ Shaped(ctl[w]) /\ (ctl[w].local => ~setting.shared)
      /\ UNCHANGED <<setting, disk, alive, req>>
      /\ ctl[w].st = "idle" /\ ~Ready(ctl[w]) /\ ~NeedsAdmission(ctl[w])
  BY BeforeTies DEF Reuse, Idle, Reuses, Refused, files
<1>2. /\ c \in Control /\ c.rev = ctl[w].rev /\ c.exec = ctl[w].exec /\ c.task = ctl[w].task
      /\ c.persisted = ctl[w].persisted /\ c.st = "busy" /\ c.durable = ctl[w].durable /\ c.card = "none"
      /\ c.local = ctl[w].local /\ c.handoff = ctl[w].handoff /\ c.from = ctl[w].from
      /\ c.background = ctl[w].background /\ c.tool = ctl[w].tool /\ c.outcome = ctl[w].outcome
  BY <1>1 DEF Control
<1>3. ctl' = [ctl EXCEPT ![w] = c]
  BY <1>1, DomainOf DEF Reuse
<1> HIDE DEF c
<1>4. ctl[w].handoff = "none" /\ ~ctl[w].durable /\ Owns(ctl[w])
  BY <1>1 DEF NeedsAdmission, Ready, Owns, HasWork, Drained, Shaped, Working
<1>5. Shifts(w, c)
  BY <1>1, <1>2, <1>3, <1>4 DEF Shifts, Shaped, Working
<1>6. \A d \in Doc : Fits(d, ctl[w], waiting) => Fits(d, c, waiting')
  BY <1>1, <1>2, <1>4 DEF Fits
<1> QED BY <1>1, <1>4, <1>5, <1>6, SameAsked, ShiftTies

LEMMA CompleteTies == ASSUME IInv, WInv, NEW w \in Workers, Complete(w) PROVE WInv'
<1> DEFINE r == ctl[w].rev + 1
           c == [[[ctl[w] EXCEPT !.st = "ending"] EXCEPT !.natural = TRUE] EXCEPT !.rev = r]
<1>1. /\ Has(w) /\ ctl[w] \in Control /\ Shaped(ctl[w]) /\ (ctl[w].local => ~setting.shared) /\ Sane(ctl[w])
      /\ UNCHANGED <<setting, disk, alive, req, waiting>>
      /\ ctl[w].st = "busy" \/ (ctl[w].st = "idle" /\ ctl[w].natural)
  BY BeforeTies DEF Complete, files
<1>2. r \in Nat /\ ctl[w].rev < r /\ ctl[w].rev \in Nat
  BY <1>1, BeforeTies
<1>3. /\ c \in Control /\ c.rev = r /\ c.exec = ctl[w].exec /\ c.task = ctl[w].task
      /\ c.st = "ending" /\ c.local = ctl[w].local /\ c.durable = ctl[w].durable /\ c.handoff = ctl[w].handoff
      /\ c.background = ctl[w].background /\ c.tool = ctl[w].tool /\ c.outcome = ctl[w].outcome
  <2> HIDE DEF r
  <2> QED BY <1>1, <1>2 DEF Control
<1>4. ctl' = [ctl EXCEPT ![w] = c]
  BY <1>1, DomainOf DEF Complete, files
<1> HIDE DEF c, r
<1>5. ctl[w].handoff = "none"
  BY <1>1 DEF Sane
<1>6. Shifts(w, c)
  BY <1>1, <1>3, <1>4 DEF Shifts, Shaped, Working
<1>7. ASSUME NEW d \in Doc, Fits(d, ctl[w], waiting)
      PROVE  Fits(d, c, waiting)
  <2>1. d.handoff = "none"
    BY <1>1, <1>5, <1>7 DEF Fits
  <2>2. d.rev \in Nat
    BY DEF Doc
  <2> QED BY <1>2, <1>3, <1>7, <2>1, <2>2 DEF Fits
<1> QED BY <1>1, <1>6, <1>7, SameAsked, ShiftTies

LEMMA StartToolTies == ASSUME IInv, WInv, NEW w \in Workers, StartTool(w) PROVE WInv'
<1> DEFINE r == ctl[w].rev + 1
           c == [[ctl[w] EXCEPT !.tool = TRUE] EXCEPT !.rev = r]
<1>1. /\ Has(w) /\ ctl[w] \in Control /\ Shaped(ctl[w]) /\ (ctl[w].local => ~setting.shared)
      /\ UNCHANGED <<setting, alive, req, waiting>>
      /\ ctl[w].st \in {"busy", "idle"} /\ HasWork(ctl[w]) /\ ~ctl[w].tool
  BY BeforeTies DEF StartTool
<1>2. r \in Nat /\ ctl[w].rev < r /\ ctl[w].persisted < r /\ ctl[w].rev \in Nat
  BY <1>1, BeforeTies
<1>3. /\ c \in Control /\ c.rev = r /\ c.exec = ctl[w].exec /\ c.task = ctl[w].task /\ c.persisted = ctl[w].persisted
      /\ c.st = ctl[w].st /\ c.local = ctl[w].local /\ c.durable = ctl[w].durable /\ c.handoff = ctl[w].handoff
      /\ c.card = ctl[w].card /\ c.background = ctl[w].background /\ c.tool /\ c.outcome = ctl[w].outcome
  <2> HIDE DEF r
  <2> QED BY <1>1, <1>2 DEF Control
<1>4. Persist(w, c)
  BY <1>1 DEF StartTool, Control
<1> HIDE DEF c, r
<1>5. ctl[w].st = "busy"
  BY <1>1 DEF Shaped, Working, HasWork
<1>6. Shaped(c)
  BY <1>1, <1>3, <1>5 DEF Shaped, Working
<1>7. ASSUME NEW d \in Doc, Fits(d, ctl[w], waiting)
      PROVE  Fits(d, c, waiting)
  <2>1. d.rev \in Nat
    BY DEF Doc
  <2> QED BY <1>2, <1>3, <1>5, <1>7, <2>1 DEF Fits
<1> QED BY <1>1, <1>2, <1>3, <1>4, <1>5, <1>6, <1>7, SameAsked, PersistTies

LEMMA EndToolTies == ASSUME IInv, WInv, NEW w \in Workers, EndTool(w) PROVE WInv'
<1> DEFINE r == ctl[w].rev + 1
           c == [[ctl[w] EXCEPT !.tool = FALSE] EXCEPT !.rev = r]
<1>1. /\ Has(w) /\ ctl[w] \in Control /\ Shaped(ctl[w]) /\ (ctl[w].local => ~setting.shared)
      /\ UNCHANGED <<setting, alive, req, waiting>> /\ ctl[w].tool
  BY BeforeTies DEF EndTool
<1>2. r \in Nat /\ ctl[w].rev < r /\ ctl[w].persisted < r /\ ctl[w].rev \in Nat
  BY <1>1, BeforeTies
<1>3. /\ c \in Control /\ c.rev = r /\ c.exec = ctl[w].exec /\ c.task = ctl[w].task /\ c.persisted = ctl[w].persisted
      /\ c.st = ctl[w].st /\ c.local = ctl[w].local /\ c.durable = ctl[w].durable /\ c.handoff = ctl[w].handoff
      /\ c.card = ctl[w].card /\ c.background = ctl[w].background /\ ~c.tool /\ c.outcome = ctl[w].outcome
  <2> HIDE DEF r
  <2> QED BY <1>1, <1>2 DEF Control
<1>4. Persist(w, c)
  BY <1>1 DEF EndTool, Control
<1> HIDE DEF c, r
<1>5. ctl[w].st \in {"busy", "ending"}
  BY <1>1 DEF Shaped, Working
<1>6. Shaped(c)
  BY <1>1, <1>3, <1>5 DEF Shaped, Working
<1>7. ASSUME NEW d \in Doc, Fits(d, ctl[w], waiting)
      PROVE  Fits(d, c, waiting)
  <2>1. d.rev \in Nat
    BY DEF Doc
  <2> QED BY <1>2, <1>3, <1>5, <1>7, <2>1 DEF Fits
<1> QED BY <1>1, <1>2, <1>3, <1>4, <1>5, <1>6, <1>7, SameAsked, PersistTies

\* A detached turn publishes its wait, or will with the revision it reached.
LEMMA DetachTies == ASSUME IInv, WInv, NEW w \in Workers, NEW card \in BOOLEAN, Detach(w, card) PROVE WInv'
<1> DEFINE c == IF card
                THEN [[[[ctl[w] EXCEPT !.st = "idle"] EXCEPT !.durable = FALSE] EXCEPT !.card = "bound"] EXCEPT !.handoff = "none"]
                ELSE [[ctl[w] EXCEPT !.st = "idle"] EXCEPT !.natural = ~ctl[w].background]
           r == c.rev + 1
           e == [c EXCEPT !.rev = r]
<1>1. /\ Has(w) /\ ctl[w] \in Control /\ ctl[w].st = "busy" /\ (ctl[w].tool => ctl[w].background)
      /\ Shaped(ctl[w]) /\ (ctl[w].local => ~setting.shared) /\ Sane(ctl[w])
      /\ UNCHANGED <<setting, alive, req>> /\ waiting' = ctl[w].task
  BY BeforeTies DEF Detach
<1>2. /\ ~ctl[w].tool /\ ~ctl[w].background /\ ctl[w].outcome = "none" /\ ctl[w].handoff = "none" /\ ctl[w].card = "none"
      /\ Owns(ctl[w])
  BY <1>1 DEF Shaped, Working, Sane, Owns, HasWork
<1>3. /\ c \in Control /\ c.rev = ctl[w].rev /\ c.exec = ctl[w].exec /\ c.task = ctl[w].task
      /\ c.persisted = ctl[w].persisted /\ c.st = "idle" /\ c.outcome = "none"
      /\ c.handoff = "none" /\ (card => ~c.durable) /\ (~card => c.durable = ctl[w].durable /\ c.card = "none")
      /\ c.local = ctl[w].local /\ ~c.background /\ ~c.tool
  BY <1>1, <1>2 DEF Control
<1>4. IF Ready(c) THEN Persist(w, e) ELSE ctl' = [ctl EXCEPT ![w] = c] /\ disk' = disk
  BY <1>1 DEF Detach, Control
<1> HIDE DEF c
<1>5. Ready(c) <=> c.durable
  BY <1>3 DEF Ready, Drained, HasWork
<1>6. Shaped(c)
  BY <1>1, <1>2, <1>3 DEF Shaped, Working
<1>7. r \in Nat /\ ctl[w].rev < r /\ ctl[w].persisted < r /\ ctl[w].rev \in Nat
  BY <1>1, <1>3, BeforeTies
<1>8. CASE Ready(c)
  <2>1. /\ e \in Control /\ e.rev = r /\ e.exec = c.exec /\ e.task = c.task /\ e.persisted = c.persisted /\ e.st = c.st
        /\ e.outcome = c.outcome /\ e.handoff = c.handoff /\ e.durable = c.durable /\ e.card = c.card /\ e.local = c.local
        /\ e.background = c.background /\ e.tool = c.tool
    <3> HIDE DEF r
    <3> QED BY <1>3, <1>7 DEF Control
  <2>2. Persist(w, e)
    BY <1>4, <1>8
  <2> HIDE DEF e, r
  <2>3. Shaped(e)
    BY <1>3, <1>6, <2>1 DEF Shaped, Working
  <2>4. ASSUME NEW d \in Doc, Fits(d, ctl[w], waiting)
        PROVE  Fits(d, e, waiting')
    <3>1. d.rev \in Nat
      BY DEF Doc
    <3> QED BY <1>1, <1>2, <1>3, <1>5, <1>7, <1>8, <2>1, <2>4, <3>1 DEF Fits
  <2> QED BY <1>1, <1>2, <1>3, <1>7, <2>1, <2>2, <2>3, <2>4, SameAsked, PersistTies
<1>9. CASE ~Ready(c)
  <2>1. Shifts(w, c)
    BY <1>1, <1>3, <1>4, <1>6, <1>9 DEF Shifts
  <2>2. ASSUME NEW d \in Doc, Fits(d, ctl[w], waiting)
        PROVE  Fits(d, c, waiting')
    BY <1>1, <1>2, <1>3, <1>5, <1>9, <2>2 DEF Fits
  <2> QED BY <1>1, <1>2, <1>4, <1>9, <2>1, <2>2, SameAsked, ShiftTies
<1> QED BY <1>8, <1>9

LEMMA PrepareTies == ASSUME IInv, WInv, NEW w \in Workers, Prepare(w) PROVE WInv'
<1> DEFINE r == ctl[w].rev + 1
           c == [[[[ctl[w] EXCEPT !.handoff = "preparing"] EXCEPT !.from = ctl[w].rev] EXCEPT !.rev = r]
                  EXCEPT !.persisted = r]
<1>1. /\ Has(w) /\ ctl[w] \in Control /\ Shaped(ctl[w]) /\ (ctl[w].local => ~setting.shared) /\ setting.shared
      /\ Drained(ctl[w]) /\ ctl[w].card = "suspended" /\ ctl[w].handoff = "none"
      /\ UNCHANGED <<setting, alive, req, waiting>>
  BY BeforeTies DEF Prepare
<1>2. r \in Nat /\ ctl[w].rev < r /\ ctl[w].rev \in Nat
  BY <1>1, BeforeTies
<1>3. /\ c \in Control /\ c.rev = r /\ c.persisted = r /\ c.from = ctl[w].rev /\ c.exec = ctl[w].exec /\ c.task = ctl[w].task
      /\ c.st = ctl[w].st /\ c.local = ctl[w].local /\ c.durable = ctl[w].durable /\ c.handoff = "preparing"
      /\ c.card = "suspended" /\ c.background = ctl[w].background /\ c.tool = ctl[w].tool /\ c.outcome = ctl[w].outcome
  <2> HIDE DEF r
  <2>1. [[[ctl[w] EXCEPT !.handoff = "preparing"] EXCEPT !.from = ctl[w].rev] EXCEPT !.rev = r] \in Control
    BY <1>1, <1>2 DEF Control
  <2>2. c \in Control
    BY ZenonT(60), <1>1, <1>2, <2>1 DEF Control
  <2> QED BY <1>1, <1>2, <2>2 DEF Control
<1>4. \/ disk.exec = c.exec /\ disk' = Snapshot(w, c) /\ ctl' = [ctl EXCEPT ![w] = c]
      \/ UNCHANGED <<disk, ctl>>
  <2>1. c = [ctl[w] EXCEPT !.handoff = "preparing", !.from = ctl[w].rev, !.rev = @ + 1, !.persisted = ctl[w].rev + 1]
    BY <1>1 DEF Control
  <2> HIDE DEF c
  <2> QED BY <2>1 DEF Prepare, Expected
<1>5. c.rev = c.from + 1
  BY <1>3
<1> HIDE DEF c, r
<1>6. ctl[w].st = "idle" /\ ~ctl[w].durable /\ ~ctl[w].local
  BY <1>1 DEF Drained, Shaped
<1>7. Shaped(c)
  BY <1>1, <1>3, <1>5, <1>6 DEF Shaped, Working
<1>8. CASE disk.exec = c.exec /\ disk' = Snapshot(w, c) /\ ctl' = [ctl EXCEPT ![w] = c]
  <2>1. waiting = c.task
    BY <1>1, <1>3, <1>6, <1>8, OwnFits DEF Fits
  <2>2. Fits(Snapshot(w, c), c, waiting)
    BY <1>3, <1>7, <2>1, SnapshotFits
  <2>3. Shifts(w, c)
    BY <1>1, <1>3, <1>6, <1>7, <1>8 DEF Shifts
  <2> QED BY <1>1, <1>3, <1>8, <2>2, <2>3, SameAsked, SnapshotType, WriteTies
<1>9. CASE UNCHANGED <<disk, ctl>>
  BY <1>1, <1>9, SameAsked, AskTies
<1> QED BY <1>4, <1>8, <1>9

LEMMA CommitTies == ASSUME IInv, WInv, NEW w \in Workers, Commit(w) PROVE WInv'
<1> DEFINE r == ctl[w].rev + 1
           c == [[[[ctl[w] EXCEPT !.handoff = "committed"] EXCEPT !.rev = r]
                  EXCEPT !.persisted = r] EXCEPT !.durable = TRUE]
<1>1. /\ Has(w) /\ ctl[w] \in Control /\ Shaped(ctl[w]) /\ Drained(ctl[w]) /\ ctl[w].handoff = "preparing"
      /\ UNCHANGED <<setting, alive, req, waiting>>
  BY BeforeTies DEF Commit
<1>2. r \in Nat /\ ctl[w].rev < r /\ ctl[w].rev \in Nat
  BY <1>1, BeforeTies
<1>3. /\ c \in Control /\ c.rev = r /\ c.persisted = r /\ c.from = ctl[w].from /\ c.exec = ctl[w].exec /\ c.task = ctl[w].task
      /\ c.st = ctl[w].st /\ c.local = ctl[w].local /\ c.durable /\ c.handoff = "committed"
      /\ c.card = ctl[w].card /\ c.background = ctl[w].background /\ c.tool = ctl[w].tool /\ c.outcome = ctl[w].outcome
  <2> HIDE DEF r
  <2>1. [[[ctl[w] EXCEPT !.handoff = "committed"] EXCEPT !.rev = r] EXCEPT !.persisted = r] \in Control
    BY <1>1, <1>2 DEF Control
  <2>2. c \in Control
    BY ZenonT(60), <1>1, <1>2, <2>1 DEF Control
  <2> QED BY <1>1, <1>2, <2>2 DEF Control
<1>4. disk.exec = c.exec /\ disk' = Snapshot(w, c) /\ ctl' = [ctl EXCEPT ![w] = c]
  <2>1. c = [ctl[w] EXCEPT !.handoff = "committed", !.rev = @ + 1, !.persisted = ctl[w].rev + 1, !.durable = TRUE]
    BY <1>1 DEF Control
  <2> HIDE DEF c
  <2> QED BY <2>1 DEF Commit, Expected
<1>5. ctl[w].st = "idle" /\ ctl[w].card = "suspended" /\ ~ctl[w].local /\ ctl[w].rev = ctl[w].from + 1
  BY <1>1 DEF Drained, Shaped
<1>6. c.rev = c.from + 2
  <2>1. ctl[w].from \in Nat
    BY <1>1 DEF Control
  <2> QED BY <1>3, <1>5, <2>1
<1> HIDE DEF c, r
<1>7. Shaped(c)
  BY <1>1, <1>3, <1>5, <1>6 DEF Shaped, Working
<1>8. waiting = c.task
  BY <1>1, <1>3, <1>4, <1>5, OwnFits DEF Fits
<1>9. Fits(Snapshot(w, c), c, waiting)
  BY <1>3, <1>7, <1>8, SnapshotFits
<1>10. Shifts(w, c)
  BY <1>1, <1>3, <1>4, <1>5, <1>7 DEF Shifts
<1> QED BY <1>1, <1>3, <1>4, <1>9, <1>10, SameAsked, SnapshotType, WriteTies

\* A stop of a handed over wait leaves the handoff behind, taken back.
LEMMA TerminateTies == ASSUME IInv, WInv, NEW w \in Workers, Terminate(w) PROVE WInv'
<1> DEFINE r == ctl[w].rev + 1
           q == r + 1
           a == [[ctl[w] EXCEPT !.rev = r] EXCEPT !.persisted = r]
           Stopped(d, i) == [[[[d EXCEPT !.st = "ending"] EXCEPT !.natural = FALSE] EXCEPT !.outcome = "none"] EXCEPT !.rev = i]
<1>1. /\ Has(w) /\ ctl[w] \in Control /\ Shaped(ctl[w]) /\ (ctl[w].local => ~setting.shared) /\ Sane(ctl[w])
      /\ UNCHANGED <<setting, alive, req, waiting>>
  BY BeforeTies DEF Terminate
<1>2. /\ r \in Nat /\ q \in Nat /\ ctl[w].rev \in Nat /\ ctl[w].rev < r /\ r < q
  BY <1>1, BeforeTies
<1>3. ASSUME NEW d \in Control, NEW i \in Nat
      PROVE  /\ Stopped(d, i) \in Control /\ Stopped(d, i).exec = d.exec /\ Stopped(d, i).st = "ending"
             /\ Stopped(d, i).rev = i /\ Stopped(d, i).outcome = "none" /\ Stopped(d, i).task = d.task
             /\ Stopped(d, i).local = d.local /\ Stopped(d, i).handoff = d.handoff /\ Stopped(d, i).durable = d.durable
             /\ Stopped(d, i).background = d.background /\ Stopped(d, i).tool = d.tool
  <2>1. [[d EXCEPT !.st = "ending"] EXCEPT !.natural = FALSE] \in Control
    BY DEF Control
  <2>2. [[[d EXCEPT !.st = "ending"] EXCEPT !.natural = FALSE] EXCEPT !.outcome = "none"] \in Control
    BY <2>1, ZenonT(60) DEF Control, Outcomes
  <2>3. Stopped(d, i) \in Control
    BY ZenonT(60), <2>2 DEF Control
  <2> QED BY <2>3 DEF Control
<1>4. ASSUME NEW c \in Control, c.st = "ending", c.outcome = "none", c.background = ctl[w].background, c.tool = ctl[w].tool,
             c.local = ctl[w].local, c.handoff = ctl[w].handoff, c.durable = ctl[w].durable
      PROVE  Shaped(c) /\ (c.local => ~setting.shared)
  BY <1>1, <1>4 DEF Shaped, Working
<1>5. CASE NeedsAdmission(ctl[w])
  <2> DEFINE c == Stopped(a, q)
             s == Snapshot(w, a)
  <2>1. a \in Control /\ a.rev = r /\ a.exec = ctl[w].exec /\ a.st = ctl[w].st /\ a.task = ctl[w].task
        /\ a.local = ctl[w].local /\ a.handoff = ctl[w].handoff /\ a.durable = ctl[w].durable
        /\ a.background = ctl[w].background /\ a.tool = ctl[w].tool
    <3> HIDE DEF r
    <3> QED BY <1>1, <1>2 DEF Control
  <2>2. disk.exec = ctl[w].exec /\ disk' = [s EXCEPT !.ready = FALSE] /\ ctl' = [ctl EXCEPT ![w] = c]
    <3>1. a = [ctl[w] EXCEPT !.rev = @ + 1, !.persisted = ctl[w].rev + 1] /\ a.rev = r
      BY <1>1 DEF Control
    <3>2. c = [a EXCEPT !.st = "ending", !.natural = FALSE, !.outcome = "none", !.rev = @ + 1]
      BY <2>1, <3>1 DEF Control
    <3> HIDE DEF a, c
    <3> QED BY <1>5, <3>1, <3>2 DEF Terminate, Expected
  <2>3. /\ s \in Doc /\ s.exec = ctl[w].exec /\ s.task = ctl[w].task /\ s.server = w /\ s.rev = r
        /\ s.handoff # "none" => ctl[w].handoff # "none"
    <3>1. s.task = a.task /\ (s.handoff # "none" => a.handoff # "none")
      BY DEF Snapshot
    <3> HIDE DEF a
    <3> QED BY <2>1, <3>1, SnapshotType, SnapshotSays
  <2> HIDE DEF r, q, a, Stopped, s
  <2>4. /\ c \in Control /\ c.rev = q /\ c.exec = ctl[w].exec /\ c.task = ctl[w].task /\ c.st = "ending" /\ c.outcome = "none"
        /\ c.background = ctl[w].background /\ c.tool = ctl[w].tool
        /\ c.local = ctl[w].local /\ c.handoff = ctl[w].handoff /\ c.durable = ctl[w].durable
    BY <1>2, <1>3, <2>1
  <2> HIDE DEF c
  <2>5. Shifts(w, c)
    BY <1>1, <1>4, <2>2, <2>4 DEF Shifts
  <2>6. /\ disk' \in Doc /\ disk'.server = w /\ ~disk'.ready /\ disk'.exec = s.exec /\ disk'.task = s.task /\ disk'.rev = s.rev
        /\ disk'.handoff = s.handoff
    BY <2>2, <2>3 DEF Doc
  <2>7. Fits(disk', c, waiting')
    BY <1>2, <2>3, <2>4, <2>6 DEF Fits
  <2> QED BY <1>1, <2>2, <2>5, <2>6, <2>7, SameAsked, WriteTies
<1>6. CASE ~NeedsAdmission(ctl[w])
  <2> DEFINE c == Stopped(ctl[w], r)
  <2>1. disk' = disk /\ ctl' = [ctl EXCEPT ![w] = c]
    <3>1. c = [ctl[w] EXCEPT !.st = "ending", !.natural = FALSE, !.outcome = "none", !.rev = @ + 1]
      BY <1>1 DEF Control
    <3> HIDE DEF c
    <3> QED BY <1>6, <3>1 DEF Terminate
  <2> HIDE DEF r, Stopped
  <2>2. /\ c \in Control /\ c.rev = r /\ c.exec = ctl[w].exec /\ c.task = ctl[w].task /\ c.st = "ending" /\ c.outcome = "none"
        /\ c.background = ctl[w].background /\ c.tool = ctl[w].tool
        /\ c.local = ctl[w].local /\ c.handoff = ctl[w].handoff /\ c.durable = ctl[w].durable
    BY SMTT(60), <1>1, <1>2, <1>3
  <2> HIDE DEF c
  <2>3. Shifts(w, c)
    BY <1>1, <1>4, <2>1, <2>2 DEF Shifts
  <2>4. ASSUME NEW d \in Doc, Fits(d, ctl[w], waiting)
        PROVE  Fits(d, c, waiting)
    <3>1. ctl[w].st \in {"busy", "idle"} => ctl[w].handoff = "none"
      BY <1>6 DEF NeedsAdmission
    <3>2. ctl[w].st \in {"busy", "idle", "ending", "ended"} /\ d.rev \in Nat
      BY <1>1 DEF Control, Doc
    <3>3. CASE ctl[w].st \in {"busy", "idle"}
      <4>1. d.handoff = "none"
        BY <2>4, <3>1, <3>3 DEF Fits
      <4> QED BY <1>2, <2>2, <2>4, <3>2, <4>1 DEF Fits
    <3>4. CASE ctl[w].st \in {"ending", "ended"}
      BY <1>2, <2>2, <2>4, <3>2, <3>4 DEF Fits
    <3> QED BY <3>2, <3>3, <3>4
  <2> QED BY <1>1, <2>1, <2>3, <2>4, SameAsked, ShiftTies
<1> QED BY <1>5, <1>6

\* An end replaces the document of a stop, as nobody takes the control file
\* from a stop; so the handoff left behind is gone with it.
LEMMA EndTies == ASSUME IInv, WInv, NEW w \in Workers, NEW outcome \in Outcomes, End(w, outcome) PROVE WInv'
<1> DEFINE r == ctl[w].rev + 1
           c == [[[[[ctl[w] EXCEPT !.st = "ended"] EXCEPT !.outcome = outcome] EXCEPT !.rev = r]
                  EXCEPT !.background = FALSE] EXCEPT !.tool = FALSE]
<1>1. /\ Has(w) /\ ctl[w] \in Control /\ Shaped(ctl[w]) /\ (ctl[w].local => ~setting.shared)
      /\ ctl[w].st \in {"ending", "ended"} /\ UNCHANGED <<setting, alive, req, waiting>>
  BY BeforeTies DEF End
<1>2. r \in Nat /\ ctl[w].rev < r /\ ctl[w].persisted < r /\ ctl[w].rev \in Nat /\ ctl[w].persisted \in Nat
  BY <1>1, BeforeTies
<1>3. Persist(w, c)
  <2>1. c = [ctl[w] EXCEPT !.st = "ended", !.outcome = outcome, !.rev = @ + 1, !.background = FALSE, !.tool = FALSE]
    BY <1>1 DEF Control
  <2> HIDE DEF c
  <2> QED BY <2>1 DEF End
<1> HIDE DEF r
<1>4. /\ c \in Control /\ c.rev = r /\ c.exec = ctl[w].exec /\ c.task = ctl[w].task /\ c.persisted = ctl[w].persisted
      /\ c.st = "ended" /\ c.local = ctl[w].local /\ c.durable = ctl[w].durable /\ c.handoff = ctl[w].handoff
      /\ ~c.background /\ ~c.tool
  <2>1. [[ctl[w] EXCEPT !.st = "ended"] EXCEPT !.outcome = outcome] \in Control
    BY <1>1 DEF Control
  <2>2. [[[ctl[w] EXCEPT !.st = "ended"] EXCEPT !.outcome = outcome] EXCEPT !.rev = r] \in Control
    BY <1>2, <2>1 DEF Control
  <2>3. c \in Control
    BY <2>2 DEF Control
  <2> QED BY <1>1, <2>3 DEF Control
<1> HIDE DEF c
<1>5. Shaped(c)
  BY <1>1, <1>4 DEF Shaped, Working
<1>6. ASSUME NEW d \in Doc, Fits(d, ctl[w], waiting), disk.exec # ctl[w].exec
      PROVE  Fits(d, c, waiting)
  <2>1. ~(ctl[w].st = "ending" /\ ctl[w].handoff # "none")
    BY <1>1, <1>6 DEF IInv, Stops, Stopping
  <2>2. d.rev \in Nat
    BY DEF Doc
  <2> QED BY <1>1, <1>2, <1>4, <1>6, <2>1, <2>2 DEF Fits
<1> QED BY <1>1, <1>2, <1>3, <1>4, <1>5, <1>6, SameAsked, PersistTies

-----------------------------------------------------------------------------
(* The theorem.                                                            *)

LEMMA TiesHold ==
  ASSUME IInv, WInv, ~setting.background, [Next]_vars
  PROVE  WInv'
<1>1. CASE UNCHANGED vars
  <2>1. req' = req /\ UNCHANGED <<setting, disk, alive, ctl, waiting>>
    BY <1>1 DEF vars, files
  <2> QED BY <2>1, SameAsked, AskTies
<1>2. CASE Expire
  BY <1>2, OtherwiseTies
<1>3. ASSUME NEW w \in Workers, NEW t \in Tasks,
             (\E perm \in BOOLEAN : Reserve(w, t, perm)) \/ Reuse(w, t) \/ Rollover(w, t) \/ Begin(w, t)
      PROVE  WInv'
  BY <1>3, ReserveTies, ReuseTies, NoneSpawned, BeginTies
<1>4. ASSUME NEW w \in Workers, ReserveResult(w) \/ Require(w) \/ Release(w) \/ BeginAdmitted(w) \/ BeginRefused(w)
      PROVE  WInv'
  BY <1>4, ReserveResultTies, RequireTies, LeaveTies, BeginAdmittedTies
<1>5. ASSUME NEW w \in Workers, Claim(w) \/ Activate(w) \/ Install(w) \/ Rollback(w)
      PROVE  WInv'
  BY <1>5, ClaimTies, ActivateTies, InstallTies, RollbackTies
<1>6. ASSUME NEW w \in Workers,
             Spawn(w) \/ SpawnEnds(w) \/ StartTool(w) \/ EndTool(w) \/ (\E card \in BOOLEAN : Detach(w, card)) \/ Suspend(w)
      PROVE  WInv'
  BY <1>6, NoneSpawned, StartToolTies, EndToolTies, DetachTies, SuspendTies
<1>7. ASSUME NEW w \in Workers,
             Prepare(w) \/ Commit(w) \/ Complete(w) \/ Terminate(w) \/ Crash(w) \/ ChildEnds(w)
      PROVE  WInv'
  BY <1>7, PrepareTies, CommitTies, CompleteTies, TerminateTies, CrashTies, OtherwiseTies
<1>8. ASSUME NEW w \in Workers, NEW outcome \in Outcomes \ {"none"}, End(w, outcome)
      PROVE  WInv'
  BY <1>8, EndTies
<1> QED BY <1>1, <1>2, <1>3, <1>4, <1>5, <1>6, <1>7, <1>8 DEF Next

\* When nothing is under way, the process the control file names may begin a
\* turn or reserve the continuation it waits for, whatever it did before.
LEMMA OwnerMayAsk ==
  ASSUME IInv, WInv, disk # None, NEW o \in Workers, disk.server = o, o \in alive, ~Open,
         \A w \in alive : req[w] = None, Has(o) => Settled(ctl[o])
  PROVE  MayBegin(o) \/ MayReserve(o)
<1> DEFINE c == ctl[o]
           a == [task |-> waiting, exec |-> 0, rev |-> 0, perm |-> 0, local |-> Has(o) /\ c.local /\ Drained(c)]
<1>1. Has(o) /\ Fits(disk, c, waiting) /\ disk \in Doc
  <2>1. disk \in Doc
    BY DEF IInv, Types, TypeOK
  <2>2. Stands(disk)
    BY DEF Stands, Published
  <2> QED BY <2>1, <2>2 DEF WInv, Ties
<1>2. /\ c \in Control /\ Shaped(c) /\ c.rev \in Nat /\ c.persisted \in Nat /\ Settled(c)
  BY <1>1, BeforeTies
<1>3. disk.exec = c.exec /\ disk.task = c.task /\ (disk.ready => disk.st = "idle" /\ waiting = c.task)
  BY <1>1 DEF Fits
<1>4. waiting = c.task => waiting # None
  BY <1>2, AdmissionAssumption DEF Control
<1>5. a.task = waiting /\ a.exec = 0 /\ a.perm = 0 /\ (a.local <=> Has(o) /\ c.local /\ Drained(c))
  OBVIOUS
<1>6. waiting # None /\ (a.local \/ CanAdmit(c, waiting)) /\ (AllowsRecovery(o, a) \/ Republishes(o)) => MayReserve(o)
  BY DEF MayReserve
<1> HIDE DEF a
<1>7. CASE GaveWay(c) /\ Ready(c)
  <2>1. /\ c.st = "idle" /\ c.durable /\ waiting = c.task /\ ~c.local /\ ~HasWork(c)
        /\ c.handoff \in {"none", "committed"}
    BY <1>1, <1>2, <1>7 DEF Ready, Drained, Shaped, Fits
  <2>2. CanAdmit(c, waiting)
    BY <1>7, <2>1 DEF CanAdmit
  <2>3. CASE c.handoff = "none" /\ ~disk.ready
    <3>1. c.persisted < c.rev /\ disk.rev < c.rev
      BY <1>1, <2>1, <2>3 DEF Fits
    <3>2. Republishes(o)
      BY <1>1, <1>3, <1>7, <2>1, <3>1 DEF Republishes, CurrentOwner
    <3> QED BY <1>4, <1>6, <2>1, <2>2, <3>2
  <2>4. CASE c.handoff = "none" /\ disk.ready
    <3>1. disk.handoff = "none"
      BY <1>1, <2>1, <2>4 DEF Fits
    <3>2. AllowsRecovery(o, a)
      BY <1>3, <1>5, <2>1, <2>4, <3>1 DEF AllowsRecovery
    <3> QED BY <1>4, <1>6, <2>1, <2>2, <3>2
  <2>5. CASE c.handoff = "committed"
    <3>1. Committed(disk)
      BY <1>1, <2>1, <2>5 DEF Fits
    <3>2. AllowsRecovery(o, a)
      BY <1>3, <1>5, <2>1, <3>1 DEF AllowsRecovery, Committed
    <3> QED BY <1>4, <1>6, <2>1, <2>2, <3>2
  <2> QED BY <2>1, <2>3, <2>4, <2>5
<1>8. CASE GaveWay(c) /\ ~Ready(c)
  <2>1. c.st = "idle" /\ ~HasWork(c) /\ Drained(c) /\ waiting = c.task
    BY <1>1, <1>8 DEF GaveWay, Drained, Fits
  <2>2. c.handoff = "none" /\ ~c.durable
    <3>1. c.handoff # "committed"
      BY <1>2, <1>8, <2>1 DEF Shaped, Ready
    <3>2. c.handoff = "none"
      BY <1>2, <1>8, <2>1, <3>1 DEF Shaped, GaveWay
    <3> QED BY <1>8, <2>1, <3>2 DEF Ready
  <2>3. ~disk.ready /\ Lives(disk.st) /\ disk.handoff = "none"
    BY <1>1, <2>1, <2>2 DEF Fits
  <2>4. CASE c.card = "suspended"
    <3>1. c.local
      BY <1>8, <2>2, <2>4 DEF GaveWay
    <3>2. a.local /\ AllowsRecovery(o, a)
      BY <1>1, <1>3, <1>5, <2>1, <2>3, <3>1 DEF AllowsRecovery, Lives
    <3> QED BY <1>4, <1>6, <2>1, <3>2
  <2>5. CASE c.card # "suspended"
    BY <1>1, <1>3, <1>8, <2>2, <2>3, <2>5 DEF MayBegin, LocalGivesWay, AllowsBegin, NeedsAdmission
  <2> QED BY <2>4, <2>5
<1>9. CASE Admits(c) \/ (c.st = "ended" /\ c.outcome = "released")
  <2>1. c.st = "ended" /\ ~HasWork(c) /\ ~Ready(c) /\ ~NeedsAdmission(c) /\ ~Drained(c)
    BY <1>1, <1>9, BeforeTies DEF Admits, Ready, Drained, NeedsAdmission, Sane, HasWork
  <2>2. Lives(disk.st) => disk.handoff = "none"
    BY <1>1, <2>1 DEF Fits
  <2>3. CASE ~disk.ready
    BY <1>1, <1>3, <2>1, <2>2, <2>3 DEF MayBegin, LocalGivesWay, AllowsBegin, Lives
  <2>4. CASE disk.ready
    <3>1. disk.st = "idle" /\ waiting = c.task /\ disk.handoff = "none"
      BY <1>3, <2>2, <2>4 DEF Lives
    <3>2. c.outcome = "released"
      BY <1>1, <1>9, <3>1 DEF Admits, Fits
    <3>3. CanAdmit(c, waiting)
      BY <2>1, <3>1, <3>2 DEF CanAdmit
    <3>4. AllowsRecovery(o, a)
      BY <1>3, <1>5, <2>1, <2>4, <3>1 DEF AllowsRecovery
    <3> QED BY <1>4, <1>6, <3>1, <3>3, <3>4
  <2> QED BY <2>3, <2>4
<1> QED BY <1>2, <1>7, <1>8, <1>9 DEF Settled

\* A conversation whose owner lives is never locked
\* (_persisted_control_allows_recovery, reserve_recoverable_input_continuation):
\* while it waits with nothing under way and no background work, some process
\* may begin or recover it, for any number of processes and tasks, whatever
\* crashed, expired, was canceled or replaced before.
THEOREM Unlocked == Spec => []NeverLockedOut
<1> DEFINE Waits == ~setting.background => WInv
<1>1. Init => IInv /\ Waits
  <2>1. Init => WInv
    BY AdmissionAssumption DEF Init, WInv, Ties, Stands, Shapes, Brings, Has, Carries, Published
  <2> QED BY <2>1, InitHolds
<1>2. IInv /\ Waits /\ [Next]_vars => IInv' /\ Waits'
  BY StepHolds, TiesHold, SettingStays
<1>3. IInv /\ Waits => NeverLockedOut
  <2> SUFFICES ASSUME IInv, WInv, disk # None, disk.server \in alive, ~Open,
                      \A w \in alive : req[w] = None /\ (Has(w) => Settled(ctl[w]))
               PROVE  \E w \in alive : MayBegin(w) \/ MayReserve(w)
    BY DEF NeverLockedOut
  <2>1. disk.server \in Workers
    BY DEF IInv, Types, TypeOK
  <2> QED BY <2>1, OwnerMayAsk
<1> HIDE DEF Waits
<1> QED BY <1>1, <1>2, <1>3, PTL DEF Spec

=============================================================================
