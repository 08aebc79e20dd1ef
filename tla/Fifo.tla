-------------------------------- MODULE Fifo --------------------------------
(***************************************************************************)
(* What rte_ring.h promises its callers: a bounded queue of objects, which *)
(* threads put in and take out in bulks, all of a bulk or nothing.         *)
(***************************************************************************)
EXTENDS Integers, Sequences, Functions

CONSTANTS Threads, Objects, Capacity, Bulks

VARIABLES
  queue,          \* the objects in the queue, oldest first
  owned           \* Threads -> the objects the thread owns

vars == <<queue, owned>>

\* Every object is in one place.
Init ==
  /\ queue \in Seq(Objects) /\ Len(queue) <= Capacity /\ IsInjective(queue)
  /\ owned \in [Threads -> SUBSET Objects]
  /\ \A o \in Range(queue), t \in Threads : o \notin owned[t]
  /\ \A o \in Objects \ Range(queue) : \E t \in Threads : \A u \in Threads : o \in owned[u] <=> u = t

Enqueue(t, objs) ==
  /\ Len(queue) + Len(objs) <= Capacity
  /\ queue' = queue \o objs
  /\ owned' = [owned EXCEPT ![t] = @ \ Range(objs)]

Dequeue(t, n) ==
  /\ n <= Len(queue)
  /\ queue' = SubSeq(queue, n + 1, Len(queue))
  /\ owned' = [owned EXCEPT ![t] = @ \cup Range(SubSeq(queue, 1, n))]

Next == \E t \in Threads, n \in Bulks :
          \/ \E objs \in [1 .. n -> owned[t]] : IsInjective(objs) /\ Enqueue(t, objs)
          \/ Dequeue(t, n)

Spec == Init /\ [][Next]_vars
=============================================================================
