----------------------------- MODULE PushDelivery -----------------------------
(***************************************************************************)
(* What a push queue promises (the A2APushQueue protocol of                *)
(* a2a/push_queue.py, and "at-least-once" of the A2A documentation): a     *)
(* notification that was accepted stays the queue's business until the     *)
(* receiver confirmed it or it was dead-lettered.  It may be delivered     *)
(* more than once, and a late worker may take it up again.                 *)
(***************************************************************************)
CONSTANT Jobs

VARIABLES
  accepted,    \* jobs enqueue returned for
  tracked,     \* jobs the queue or one of its workers still holds
  delivered,   \* jobs the receiver confirmed with a 2xx answer
  dead         \* jobs in the dead-letter store

vars == <<accepted, tracked, delivered, dead>>

Init == accepted = {} /\ tracked = {} /\ delivered = {} /\ dead = {}

\* enqueue
Accept(j) ==
  /\ j \notin accepted
  /\ accepted' = accepted \cup {j}
  /\ tracked' = tracked \cup {j}
  /\ UNCHANGED <<delivered, dead>>

\* A worker posts a job it holds and the receiver confirms it.
Confirm(j) ==
  /\ j \in tracked
  /\ delivered' = delivered \cup {j}
  /\ UNCHANGED <<accepted, tracked, dead>>

\* dead_letter
Bury(j) ==
  /\ j \in tracked
  /\ dead' = dead \cup {j}
  /\ UNCHANGED <<accepted, tracked, delivered>>

\* ack, or the loss of a worker with the copies it held: only settled jobs may
\* disappear.
Forget(gone) ==
  /\ gone \subseteq tracked /\ gone \subseteq delivered \cup dead
  /\ tracked' = tracked \ gone
  /\ UNCHANGED <<accepted, delivered, dead>>

Next ==
  \/ \E j \in Jobs : Accept(j) \/ Confirm(j) \/ Bury(j)
  \/ \E gone \in SUBSET Jobs : Forget(gone)

Spec == Init /\ [][Next]_vars
=============================================================================
