---------------------------- MODULE PointerList ----------------------------
(***************************************************************************)
(* utils/pointer_list.c: a growing and shrinking array of pointers.  The   *)
(* memory behind _list is a sequence of cells; _len cells hold elements,   *)
(* _cap is the number of cells the code believes it has.                   *)
(***************************************************************************)
EXTENDS Integers, Sequences, FiniteSets

CONSTANTS
  Values,     \* the pointers stored, integers so that they can be sorted
  UINT,       \* 2^32: unsigned int counts modulo UINT
  MaxLen,     \* bound on the elements a client stores
  NULL,       \* the null pointer
  Garbage     \* the content of a cell nothing was written to

ASSUME PointerListAssumption ==
  /\ UINT \in Nat \ {0, 1}
  /\ MaxLen \in Nat
  /\ Values \subseteq Int
  /\ NULL \notin Seq(Values \cup {Garbage})

VARIABLES
  list,       \* the cells of _list, or NULL
  len,        \* _len
  cap,        \* _cap
  result,     \* what the last pointer_list_pop or pointer_list_get returned
  denied,     \* realloc of at least one cell has returned NULL
  status,     \* "ok", or the exit(EXIT_FAILURE) the process ended in
  called      \* the last call and its arguments (a history variable)

memory == <<list, len, cap, result, denied, status>>
vars == <<memory, called>>

Cells == IF list = NULL THEN <<>> ELSE list
Elements == SubSeq(Cells, 1, len)

(***************************************************************************)
(* What a call leaves behind: the cells, the length and the result.        *)
(* It is written into memory that _pointer_list_realloc has resized        *)
(* before, or found no memory for: realloc may be denied, and realloc of   *)
(* zero bytes frees the array and returns NULL.  A call that exits leaves  *)
(* memory as it was: nothing reads it any more.                            *)
(***************************************************************************)
Leaves(cells, n, x) == list' = cells /\ len' = n /\ result' = x

\* The cells after a realloc to n of them.
Resized(n) == [i \in 1 .. n |-> IF i <= Len(Cells) THEN Cells[i] ELSE Garbage]

pointer_list_realloc(new_cap, cells, n, x) ==
  \/ new_cap > 0 /\ cap' = new_cap /\ Leaves(cells, n, x) /\ UNCHANGED <<denied, status>>
  \/ /\ status' = "exit_alloc"
     /\ denied' = (denied \/ new_cap > 0)
     /\ UNCHANGED <<list, len, cap, result>>

ExpandedCapMutant(c) == (c + c \div 2) % UINT
ExpandedCap(c) == (c + c \div 2 + 1) % UINT

pointer_list_expand(cells) ==
  \/ /\ ExpandedCap(cap) <= cap
     /\ status' = "exit_grow"
     /\ UNCHANGED <<list, len, cap, result, denied>>
  \/ /\ ExpandedCap(cap) > cap
     /\ pointer_list_realloc(ExpandedCap(cap), cells, len + 1, result)

ContractedCap(c) ==
  CASE c <= 0 -> 0
    [] c > 0 /\ c < 3 -> c - 1
    [] OTHER -> c - c \div 3

\* The cells an append writes to.
Roomy == IF len >= cap THEN Resized(ExpandedCap(cap)) ELSE Cells

\* pointer_list_append makes the list one longer, expanded if it is full, and
\* leaves these cells.
Grow(cells) ==
  \/ len >= cap /\ pointer_list_expand(cells)
  \/ len < cap /\ Leaves(cells, len + 1, result) /\ UNCHANGED <<cap, denied, status>>

pointer_list_append(v) ==
  /\ status = "ok"
  /\ len < MaxLen
  /\ Grow([Roomy EXCEPT ![len + 1] = v])

ShiftedMutant(cells, pos, v) ==
  [i \in DOMAIN cells |-> IF i \in pos + 1 .. len + 1 THEN v ELSE cells[i]]
\* The loop of pointer_list_insert, after NULL was appended.
Shifted(cells, pos, v) ==
  [i \in DOMAIN cells |-> IF i = pos + 1 THEN v
                          ELSE IF i \in pos + 2 .. len + 1 THEN cells[i - 1] ELSE cells[i]]

\* pos is counted from 0; a pos beyond the end is ignored.
pointer_list_insert(v, pos) ==
  /\ status = "ok"
  /\ \/ pos > len /\ UNCHANGED memory
     \/ pos <= len /\ len < MaxLen /\ Grow(Shifted(Roomy, pos, v))

\* pointer_list_contract(self, 0) is called and has an effect, for the new length n.
ShrinksMutant(n) == n <= ContractedCap(cap) + 1 /\ ContractedCap(cap) < cap
Shrinks(n) == n <= ContractedCap(cap) /\ ContractedCap(cap) < cap

\* The loop of pointer_list_remove.
Closed(index) == [i \in DOMAIN Cells |-> IF i > index /\ i < len THEN Cells[i + 1] ELSE Cells[i]]

\* pointer_list_remove of an element there is, at index counted from 0; x is what
\* its caller returns.
Remove(index, x) ==
  LET new_cap == ContractedCap(cap)
  IN  \/ /\ Shrinks(len - 1)
         /\ pointer_list_realloc(new_cap, SubSeq(Closed(index), 1, new_cap), len - 1, x)
      \/ /\ ~Shrinks(len - 1)
         /\ Leaves(Closed(index), len - 1, x)
         /\ UNCHANGED <<cap, denied, status>>

pointer_list_remove(index) ==
  /\ status = "ok"
  /\ IF index >= len THEN UNCHANGED memory ELSE Remove(index, result)

pointer_list_pop ==
  /\ status = "ok"
  /\ IF len <= 0
       THEN result' = NULL /\ UNCHANGED <<list, len, cap, denied, status>>
       ELSE Remove(len - 1, Cells[len])

pointer_list_get(index) ==
  /\ status = "ok"
  /\ result' = IF index >= len THEN NULL ELSE Cells[index + 1]
  /\ UNCHANGED <<list, len, cap, denied, status>>

pointer_list_set(index, v) ==
  /\ status = "ok"
  /\ list' = IF index >= len THEN list ELSE [list EXCEPT ![index + 1] = v]
  /\ UNCHANGED <<len, cap, result, denied, status>>

\* pointer_list_clear; pointer_list_deep_clear frees the elements before.
pointer_list_clear ==
  /\ status = "ok"
  /\ \/ list = NULL /\ UNCHANGED memory
     \/ list # NULL /\ list' = NULL /\ len' = 0 /\ cap' = 0 /\ UNCHANGED <<result, denied, status>>

Occurrences(s, v) == Cardinality({i \in DOMAIN s : s[i] = v})

\* qsort of the first _len cells, with a comparison of the values: it leaves the
\* same elements, in ascending order.  There are none if list is NULL.
pointer_list_sort ==
  /\ status = "ok"
  /\ \E s \in [1 .. len -> Values] :
       /\ \A i, j \in 1 .. len : i < j => s[i] <= s[j]
       /\ \A v \in Values : Occurrences(s, v) = Occurrences(Elements, v)
       /\ list' = IF list = NULL THEN NULL ELSE s \o SubSeq(list, len + 1, Len(list))
  /\ UNCHANGED <<len, cap, result, denied, status>>

\* pointer_list_init: malloc(0) returns a pointer that can be freed.
Init ==
  /\ list = <<>>
  /\ len = 0
  /\ cap = 0
  /\ result = NULL
  /\ denied = FALSE
  /\ status = "ok"
  /\ called = <<"init">>

Indexes == 0 .. MaxLen

\* A client makes a call.
Next ==
  \/ \E v \in Values : called' = <<"append", v>> /\ pointer_list_append(v)
  \/ \E v \in Values, pos \in Indexes : called' = <<"insert", v, pos>> /\ pointer_list_insert(v, pos)
  \/ \E index \in Indexes : called' = <<"remove", index>> /\ pointer_list_remove(index)
  \/ called' = <<"pop">> /\ pointer_list_pop
  \/ \E index \in Indexes : called' = <<"get", index>> /\ pointer_list_get(index)
  \/ \E index \in Indexes, v \in Values : called' = <<"set", index, v>> /\ pointer_list_set(index, v)
  \/ called' = <<"clear">> /\ pointer_list_clear
  \/ called' = <<"sort">> /\ pointer_list_sort

Spec == Init /\ [][Next]_vars
-----------------------------------------------------------------------------
\* _cap is the number of cells really allocated, the elements fit in them and
\* no element is a cell nothing was written to, after any sequence of calls.
TypeOK ==
  /\ len \in 0 .. MaxLen
  /\ cap \in 0 .. UINT - 1
  /\ list = NULL \/ \A i \in DOMAIN list : list[i] \in Values \cup {Garbage}
  /\ status = "ok" => len <= cap /\ cap = Len(Cells) /\ \A i \in 1 .. len : Cells[i] \in Values
  /\ result \in Values \cup {NULL}
  /\ denied \in BOOLEAN
  /\ status \in {"ok", "exit_alloc", "exit_grow"}

\* The process ends in the list for a reason.  "Pointer list cannot grow larger!"
\* is reported only where the next capacity really does not fit an unsigned int,
\* and "Unable to allocate memory!" only when memory was denied, and in one case
\* more: the last element leaves an array of one cell, which pointer_list_contract
\* reallocates to zero bytes.
ExitsExplained ==
  /\ status = "exit_grow" => cap + cap \div 2 + 1 >= UINT
  /\ status = "exit_alloc" => denied \/ (len = 1 /\ cap = 1)

\* The list as its clients see it.
S == INSTANCE SeqList WITH
  None    <- NULL,
  seq     <- Elements,
  running <- status = "ok"

\* Growing, shrinking, shifting and reallocating never lose, reorder or invent
\* an element: each call, with its arguments, does to the array and returns what
\* SeqList says of that call, indexes beyond the end included, and only a call that
\* may need memory ends the process.
ImplementsSeqList == S!Spec
=============================================================================
