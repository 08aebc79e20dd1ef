------------------------------ MODULE SeqList ------------------------------
(***************************************************************************)
(* What pointer_list.h promises: a sequence of pointers, and what each     *)
(* call does to it.  A call that may need memory may find none, and then   *)
(* the process ends.                                                       *)
(***************************************************************************)
EXTENDS Integers, FiniteSets, Sequences

CONSTANTS
  Values,         \* the pointers that are stored
  Indexes,        \* the positions a call may name, counted from 0
  None            \* what is returned when there is no element

VARIABLES
  seq,            \* the elements
  result,         \* what the last call returned that returns an element
  running,        \* FALSE once the process has ended
  called          \* the last call and its arguments

vars == <<seq, result, running, called>>

Init == seq = <<>> /\ result = None /\ running = TRUE /\ called = <<"init">>

RemoveAt(s, i) == SubSeq(s, 1, i - 1) \o SubSeq(s, i + 1, Len(s))
InsertAt(s, i, v) == SubSeq(s, 1, i - 1) \o <<v>> \o SubSeq(s, i, Len(s))

\* The call leaves the elements s and the result x.
Becomes(s, x) == seq' = s /\ result' = x /\ UNCHANGED running

OutOfMemory == running' = FALSE /\ UNCHANGED <<seq, result>>

append(v) == Becomes(Append(seq, v), result) \/ OutOfMemory

insert(v, pos) ==
  IF pos <= Len(seq) THEN Becomes(InsertAt(seq, pos + 1, v), result) \/ OutOfMemory
                     ELSE Becomes(seq, result)

remove(index) ==
  IF index < Len(seq) THEN Becomes(RemoveAt(seq, index + 1), result) \/ OutOfMemory
                      ELSE Becomes(seq, result)

pop ==
  IF seq # <<>> THEN Becomes(SubSeq(seq, 1, Len(seq) - 1), seq[Len(seq)]) \/ OutOfMemory
                ELSE Becomes(seq, None)

get(index) == Becomes(seq, IF index < Len(seq) THEN seq[index + 1] ELSE None)

set(index, v) == Becomes(IF index < Len(seq) THEN [seq EXCEPT ![index + 1] = v] ELSE seq, result)

clear == Becomes(<<>>, result)

\* seq' has the elements of seq, in ascending order.
sort ==
  /\ \A i, j \in DOMAIN seq' : i < j => seq'[i] <= seq'[j]
  /\ Len(seq') = Len(seq)
  /\ \A v \in Values : Cardinality({i \in DOMAIN seq' : seq'[i] = v})
                         = Cardinality({i \in DOMAIN seq : seq[i] = v})
  /\ UNCHANGED <<result, running>>

Next ==
  /\ running
  /\ \/ \E v \in Values : called' = <<"append", v>> /\ append(v)
     \/ \E v \in Values, pos \in Indexes : called' = <<"insert", v, pos>> /\ insert(v, pos)
     \/ \E index \in Indexes : called' = <<"remove", index>> /\ remove(index)
     \/ called' = <<"pop">> /\ pop
     \/ \E index \in Indexes : called' = <<"get", index>> /\ get(index)
     \/ \E index \in Indexes, v \in Values : called' = <<"set", index, v>> /\ set(index, v)
     \/ called' = <<"clear">> /\ clear
     \/ called' = <<"sort">> /\ sort

Spec == Init /\ [][Next]_vars
=============================================================================
