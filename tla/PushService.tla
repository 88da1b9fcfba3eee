------------------------------ MODULE PushService ------------------------------
(***************************************************************************)
(* The push notifications of an A2A server: --push-queue selects one of    *)
(* the two queues, and either is to deliver at least once (PushDelivery).  *)
(***************************************************************************)
EXTENDS RedisPushQueue

CONSTANTS NJobs, MaxCrashes  \* of the local-file queue

ASSUME FileQueueAssumption == NJobs \in Nat /\ MaxCrashes \in Nat /\ Jobs \subseteq 1..NJobs

VARIABLES
  queue,  \* --push-queue
  file, todo, fileWorker, fileAccepted, fileDelivered, crashes  \* the local-file queue

fileVars == <<file, todo, fileWorker, fileAccepted, fileDelivered, crashes>>
serviceVars == <<queue, fileVars, vars>>

FileQueue == INSTANCE FilePushQueue WITH
               worker <- fileWorker, accepted <- fileAccepted, delivered <- fileDelivered

Redis == queue = "redis-streams"
Local == queue = "local-file"

ServiceInit == queue \in {"redis-streams", "local-file"} /\ Init /\ FileQueue!Init

ServiceNext ==
  \/ Redis /\ Next /\ UNCHANGED <<queue, fileVars>>
  \/ Local /\ FileQueue!Next /\ UNCHANGED <<queue, vars>>

\* The event loop runs the local queue's worker and the methods it calls, and
\* time passes.  Of Redis nothing is promised.
LocalFairness ==
  /\ WF_serviceVars(Local /\ FileQueue!FileOp /\ UNCHANGED <<queue, vars>>)
  /\ WF_serviceVars(Local /\ FileQueue!Work /\ UNCHANGED <<queue, vars>>)
  /\ \A d \in FileQueue!Dirs, j \in FileQueue!Notifications :
       WF_serviceVars(Local /\ FileQueue!TimePasses(d, j) /\ UNCHANGED <<queue, vars>>)

ServiceSpec == ServiceInit /\ [][ServiceNext]_serviceVars /\ LocalFairness

-----------------------------------------------------------------------------
\* The types of the queue in use, and nothing in the other one.
ServiceTypeOK ==
  /\ TypeOK /\ (Local => Init)
  /\ FileQueue!TypeOK /\ (Redis => FileQueue!Init)

\* The local queue keeps one file of a job at a time, so that a retry, a dead
\* letter or a recovered lease leaves no second copy that is delivered on its
\* own; and a crash costs it at most the one notification whose file was being
\* replaced (LocalFileA2APushQueue._write, retry, dead_letter).
FilesSurvive == ServiceTypeOK /\ FileQueue!OneCopy /\ FileQueue!LossPerCrash

\* A notification that is neither confirmed nor dead-lettered is stored in Redis
\* wherever a worker dies, and an entry about to be acknowledged has its
\* successor stored, also after another worker has taken it over
\* (RedisStreamsA2APushQueue.retry, dead_letter, claim).
JobsAreStored == NoLostJob /\ SafeToAck

\* Either queue implements at-least-once delivery: a job disappears, from Redis,
\* the directories and the workers, only after it was confirmed or buried, or
\* by a crash of the server that keeps it in files.
Delivery == INSTANCE PushDelivery WITH
              Jobs      <- 1..NJobs,
              accepted  <- accepted \cup fileAccepted,
              delivered <- delivered \cup fileDelivered,
              tracked   <- Tracked \cup FileQueue!Tracked,
              dead      <- dead \cup FileQueue!Dead
AtLeastOnce == Delivery!Spec

\* "is at-least-once" (website/docs/a2a/protocol-reference.md:97): until the
\* first crash every notification the local queue accepted is confirmed or
\* dead-lettered: retries come due, are claimed again and use up their attempts.
EverySettled ==
  \A j \in 1..NJobs : (j \in fileAccepted) ~> (FileQueue!Settled(j) \/ crashes > 0)
=============================================================================
