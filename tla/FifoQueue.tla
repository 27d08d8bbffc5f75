------------------------------ MODULE FifoQueue ------------------------------
(***************************************************************************)
(* What util/queue.h promises: a first-in first-out queue of ints that     *)
(* several threads may use at once.  ConnQueue implements it, Server uses  *)
(* it for the sockets of accepted connections.                             *)
(***************************************************************************)
EXTENDS Sequences

CONSTANTS
  Data,      \* the ints that are queued
  Callers,   \* the threads that use the queue
  Nothing    \* what queue_dequeue returns when the queue is empty

VARIABLES
  items,     \* the ints in the queue, oldest first
  got        \* what each caller's last queue_dequeue returned

Init ==
  /\ items = <<>>
  /\ got = [p \in Callers |-> Nothing]

\* queue_enqueue.
Enqueue(d) ==
  /\ items' = Append(items, d)
  /\ UNCHANGED got

\* Mutation: the oldest int is read and left in the queue.
DequeuePeek(p) ==
  /\ items # <<>>
  /\ got' = [got EXCEPT ![p] = Head(items)]
  /\ UNCHANGED items

\* queue_dequeue.
Dequeue(p) ==
  /\ items # <<>>
  /\ got' = [got EXCEPT ![p] = Head(items)]
  /\ items' = Tail(items)

DequeueEmpty(p) ==
  /\ items = <<>>
  /\ got' = [got EXCEPT ![p] = Nothing]
  /\ UNCHANGED items

\* queue_destroy.
Destroy ==
  /\ items' = <<>>
  /\ UNCHANGED got

Next ==
  \/ \E d \in Data : Enqueue(d)
  \/ \E p \in Callers : Dequeue(p) \/ DequeueEmpty(p)
  \/ Destroy

Spec == Init /\ [][Next]_<<items, got>>

===============================================================================
