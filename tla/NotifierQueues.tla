--------------------------- MODULE NotifierQueues ---------------------------
(***************************************************************************)
(* What a printer promises its notifiers: each has a queue of its own, in  *)
(* which every event it accepts is put, in the order of the reports; each  *)
(* entry is sent once, in that order, whatever happens to the sends of     *)
(* other notifiers and whether or not a send succeeds.                     *)
(***************************************************************************)
EXTENDS Events

CONSTANTS
  Notifiers,
  Batches,   \* sequences of event types published together
  Wants      \* Wants[n]: the types that a notifier wants

VARIABLE queue

QueuesInit == queue = [n \in Notifiers |-> <<>>]

Accepted(n, types) == Wanted(types, Wants[n])[Len(types)]

Publish(types) ==
  queue' = [n \in Notifiers |-> queue[n] \o Accepted(n, types)]

Send(n) ==
  /\ queue[n] # <<>>
  /\ queue' = [queue EXCEPT ![n] = Tail(@)]

QueuesNext ==
  \/ \E types \in Batches : Publish(types)
  \/ \E n \in Notifiers : Send(n)

QueuesSpec == QueuesInit /\ [][QueuesNext]_queue
=============================================================================
