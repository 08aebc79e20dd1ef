-------------------------------- MODULE Ring --------------------------------
(***************************************************************************)
(* The lock-free ring of rte_ring.h a mempool keeps its free buffers in:   *)
(* rte_ring_mp_enqueue_bulk and rte_ring_mc_dequeue_bulk, by any number of *)
(* threads, every access to a shared index and to a slot a step of its     *)
(* own.  The two directions run the same code on the two ends of the ring: *)
(* side "prod" enqueues, side "cons" dequeues.  The indexes are unsigned   *)
(* words that count modulo UINT (2^32) and are masked to find a slot.      *)
(***************************************************************************)
EXTENDS Integers, FiniteSets, Sequences, Functions

CONSTANTS
  Threads,
  Objects,        \* the pointers stored
  Stored,         \* the sequence of those in the ring at the start
  UINT,           \* number of values of an index, a multiple of size
  size,           \* slots of the ring, a power of two
  FirstIndex,     \* where the indexes start
  Bulks,          \* numbers of objects of a call
  MaxMoved        \* bound: objects that calls ask to move over either end

ASSUME RingAssumption ==
  /\ size \in Nat \ {0} /\ UINT \in Nat /\ UINT % size = 0 /\ UINT >= 2 * size
  /\ FirstIndex \in 0 .. UINT - 1 /\ MaxMoved \in Nat
  /\ Bulks \subseteq Nat \ {0}
  /\ Stored \in Seq(Objects) /\ Len(Stored) < size /\ IsInjective(Stored)
  /\ IsFiniteSet(Objects)

Sides == {"prod", "cons"}
capacity == size - 1
Slot(i) == i % size
Plus(i, n) == (i + n) % UINT
Minus(i, j) == (i - j) % UINT

VARIABLES
  head, tail,     \* Sides -> index
  ring,           \* 0 .. size - 1 -> the object last written
  held,           \* Threads -> the objects the thread owns outside a call
  pc,             \* Threads -> where the thread is in its call
  call,           \* Threads -> side, n, obj_table, old_head and copied of its call
  moved           \* Sides -> objects the calls so far were to move

vars == <<head, tail, ring, held, pc, call, moved>>

NoCall == [side |-> "prod", n |-> 0, obj_table |-> <<>>, old_head |-> 0, copied |-> 0]

Init ==
  /\ head = [prod |-> Plus(FirstIndex, Len(Stored)), cons |-> FirstIndex]
  /\ tail = head
  /\ ring = [s \in 0 .. capacity |->
               LET i == Minus(s, FirstIndex) % size
               IN  IF i < Len(Stored) THEN Stored[i + 1] ELSE CHOOSE o \in Objects : TRUE]
  /\ held \in [Threads -> SUBSET (Objects \ Range(Stored))]
  /\ \A o \in Objects \ Range(Stored) : \E t \in Threads :
       \A u \in Threads : o \in held[u] <=> u = t
  /\ pc = [t \in Threads |-> "idle"]
  /\ call = [t \in Threads |-> NoCall]
  /\ moved = [s \in Sides |-> 0]
-----------------------------------------------------------------------------
Starts(t, side, n, objs) ==
  /\ pc[t] = "idle"
  /\ n \in Bulks
  /\ moved[side] + n <= MaxMoved
  /\ moved' = [moved EXCEPT ![side] = @ + n]
  /\ pc' = [pc EXCEPT ![t] = "head"]
  /\ call' = [call EXCEPT ![t] = [NoCall EXCEPT !.side = side, !.n = n, !.obj_table = objs]]
  /\ held' = [held EXCEPT ![t] = @ \ Range(objs)]
  /\ UNCHANGED <<head, tail, ring>>

\* A thread that owns the objects puts them, any thread may ask for some.
mp_enqueue_bulk(t) == \E n \in Bulks : \E objs \in [1 .. n -> held[t]] :
                        IsInjective(objs) /\ Starts(t, "prod", n, objs)
mc_dequeue_bulk(t) == \E n \in Bulks : Starts(t, "cons", n, <<>>)

\* *old_head = r->prod.head, or r->cons.head
ReadHead(t) ==
  /\ pc[t] = "head"
  /\ call' = [call EXCEPT ![t].old_head = head[call[t].side]]
  /\ pc' = [pc EXCEPT ![t] = "room"]
  /\ UNCHANGED <<head, tail, ring, held, moved>>

free_entriesShortMutant(old_head) == Minus(capacity - 1 + tail["cons"], old_head)
free_entries(old_head) == Minus(capacity + tail["cons"], old_head)

entries(old_head) == Minus(tail["prod"], old_head)

Room(t) == IF call[t].side = "prod" THEN free_entries(call[t].old_head)
                                    ELSE entries(call[t].old_head)

\* The other end's tail is read; with too little room a bulk call gives up and
\* an enqueue leaves the caller with its objects.
ReadRoom(t) ==
  /\ pc[t] = "room"
  /\ IF call[t].n > Room(t)
       THEN /\ pc' = [pc EXCEPT ![t] = "refused"]
            /\ held' = [held EXCEPT ![t] = @ \cup Range(call[t].obj_table)]
       ELSE /\ pc' = [pc EXCEPT ![t] = "move"]
            /\ UNCHANGED held
  /\ UNCHANGED <<head, tail, ring, call, moved>>

\* rte_atomic32_cmpset on the head; a loser starts over.
CmpsetMutant(t) == TRUE
Cmpset(t) == head[call[t].side] = call[t].old_head

\* The cmpset cannot tell the head from one a whole lap further.  No thread that
\* has read a head sleeps until others have moved it by almost 2^32 objects.
NoLap(t) ==
  \A u \in Threads : pc[u] \in {"room", "move"} /\ call[u].side = call[t].side =>
    Minus(head[call[t].side], call[u].old_head) + call[t].n <= UINT - size

MoveHead(t) ==
  /\ pc[t] = "move"
  /\ IF Cmpset(t)
       THEN /\ NoLap(t)
            /\ head' = [head EXCEPT ![call[t].side] = Plus(call[t].old_head, call[t].n)]
            /\ pc' = [pc EXCEPT ![t] = "copy"]
       ELSE pc' = [pc EXCEPT ![t] = "head"] /\ UNCHANGED head
  /\ UNCHANGED <<tail, ring, held, call, moved>>

\* The slot the copy loop is at.
Here(t) == Slot(Plus(call[t].old_head, call[t].copied))

ENQUEUE_PTRS(t) ==
  /\ pc[t] = "copy" /\ call[t].side = "prod"
  /\ call[t].copied < call[t].n
  /\ ring' = [ring EXCEPT ![Here(t)] = call[t].obj_table[call[t].copied + 1]]
  /\ call' = [call EXCEPT ![t].copied = @ + 1]
  /\ UNCHANGED <<head, tail, held, pc, moved>>

DEQUEUE_PTRS(t) ==
  /\ pc[t] = "copy" /\ call[t].side = "cons"
  /\ call[t].copied < call[t].n
  /\ call' = [call EXCEPT ![t].obj_table = Append(@, ring[Here(t)]), ![t].copied = @ + 1]
  /\ UNCHANGED <<head, tail, ring, held, pc, moved>>

MyTurnMutant(t) == TRUE
MyTurnLateMutant(t) == tail[call[t].side] = Plus(call[t].old_head, call[t].n)
MyTurn(t) == tail[call[t].side] = call[t].old_head

\* update_tail spins until the calls before this one are through; then the
\* call returns and a consumer owns what it copied.
update_tail(t) ==
  /\ pc[t] = "copy"
  /\ call[t].copied = call[t].n
  /\ MyTurn(t)
  /\ tail' = [tail EXCEPT ![call[t].side] = Plus(call[t].old_head, call[t].n)]
  /\ held' = IF call[t].side = "cons" THEN [held EXCEPT ![t] = @ \cup Range(call[t].obj_table)] ELSE held
  /\ pc' = [pc EXCEPT ![t] = "idle"]
  /\ call' = [call EXCEPT ![t] = NoCall]
  /\ UNCHANGED <<head, ring, moved>>

\* A bulk call that found too little room returns 0.
Refused(t) ==
  /\ pc[t] = "refused"
  /\ pc' = [pc EXCEPT ![t] = "idle"]
  /\ call' = [call EXCEPT ![t] = NoCall]
  /\ UNCHANGED <<head, tail, ring, held, moved>>

\* A thread inside a call runs.
Step(t) == \/ ReadHead(t) \/ ReadRoom(t) \/ MoveHead(t) \/ ENQUEUE_PTRS(t) \/ DEQUEUE_PTRS(t)
           \/ update_tail(t) \/ Refused(t)

Next == \E t \in Threads : mp_enqueue_bulk(t) \/ mc_dequeue_bulk(t) \/ Step(t)

Spec == Init /\ [][Next]_vars
FairSpec == Spec /\ \A t \in Threads : WF_vars(Step(t))
-----------------------------------------------------------------------------
\* The slots a call has reserved by moving the head, and not yet released.
Reserved(t) == IF pc[t] = "copy"
                 THEN {Slot(Plus(call[t].old_head, i)) : i \in 0 .. call[t].n - 1}
                 ELSE {}

\* The slots whose contents consumers may still come for.
Published == {Slot(Plus(head["cons"], i)) : i \in 0 .. Minus(tail["prod"], head["cons"]) - 1}

\* No slot is written or read by one call while another call works on it, and
\* none that is waiting to be dequeued is overwritten: the copies of
\* ENQUEUE_PTRS and DEQUEUE_PTRS, which are plain loads and stores, never race.
SlotExclusive ==
  \A t \in Threads :
    /\ Reserved(t) \cap Published = {}
    /\ \A u \in Threads \ {t} : Reserved(t) \cap Reserved(u) = {}

\* What a thread owns: what it holds, what it is still putting in, and what it
\* has reserved to take out.
Owned(t) ==
  held[t] \cup (CASE pc[t] = "copy" /\ call[t].side = "cons" ->
                        Range(call[t].obj_table)
                          \cup {ring[Slot(Plus(call[t].old_head, i))] : i \in call[t].copied .. call[t].n - 1}
                  [] OTHER -> Range(call[t].obj_table))

Contents == [i \in 1 .. Minus(tail["prod"], head["cons"]) |-> ring[Slot(Plus(head["cons"], i - 1))]]

Abstract == INSTANCE Fifo WITH Capacity <- capacity, queue <- Contents,
                               owned <- [t \in Threads |-> Owned(t)]

\* To its callers the ring is a bounded queue that whole bulks enter and leave
\* at one moment, in order: an enqueue takes effect when update_tail publishes
\* it, a dequeue when it moves cons.head.
ImplementsFifo == Abstract!Spec

\* A mempool throws away the result of its enqueue (rte_mempool.h:1083 outside
\* debug builds) and would lose the buffers: when there are no more objects than
\* capacity, no interleaving of calls in progress makes an enqueue give up.
PutNeverRefused ==
  Cardinality(Objects) <= capacity =>
    \A t \in Threads : pc[t] = "refused" => call[t].side = "cons"

\* Waiting for the calls before it (update_tail) never keeps a call for good
\* once it has moved the head, if every thread in a call keeps running.
ReservedIsReleased == \A t \in Threads : pc[t] = "copy" ~> pc[t] = "idle"
=============================================================================
