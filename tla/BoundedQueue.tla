---------------------------- MODULE BoundedQueue ----------------------------
(***************************************************************************)
(* What a ck.ring promises its users: a FIFO queue of serialized values    *)
(* holding at most Cap of them.  An enqueue appends when there is room; a  *)
(* dequeue hands the oldest value to the calling thread.  Every operation  *)
(* is atomic.                                                              *)
(***************************************************************************)
EXTENDS Naturals, Sequences

CONSTANTS
  Cap,          \* the number of values the queue can hold
  Threads,      \* callers of dequeue
  Values,       \* the values that may be enqueued
  None          \* no value dequeued yet

VARIABLES
  queue,        \* the values enqueued and not yet dequeued, oldest first
  got           \* thread -> the value its last successful dequeue returned

qvars == <<queue, got>>

QInit ==
  /\ queue = << >>
  /\ got = [t \in Threads |-> None]

QEnqueue(v) ==
  /\ Len(queue) < Cap
  /\ queue' = Append(queue, v)
  /\ UNCHANGED got

QDequeue(t) ==
  /\ queue # << >>
  /\ got' = [got EXCEPT ![t] = Head(queue)]
  /\ queue' = Tail(queue)

QNext == (\E v \in Values : QEnqueue(v)) \/ (\E t \in Threads : QDequeue(t))

QSpec == QInit /\ [][QNext]_qvars
====
