-------------------------------- MODULE Fib --------------------------------
(***************************************************************************)
(* What routing_table.h promises its callers: routes are collected, a      *)
(* build turns everything collected into a forwarding function that maps   *)
(* each address to the next hop of its longest match, and the next build   *)
(* starts from nothing.  Between the first add_route of a new collection   *)
(* and the end of its build nothing is promised about lookups.             *)
(***************************************************************************)
EXTENDS Integers, Sequences

CONSTANTS
  W,              \* width of an address in bits
  Capacity,       \* routes one collection can hold
  Routes,         \* the routes that may be added: [ip_addr, prefix, next_hop]
  Buildable(_),   \* the collections a build can digest
  NULL,           \* the answer for an address no route covers
  Unspecified     \* the forwarding function when nothing is promised

VARIABLES
  pending,        \* the routes collected, in the order they were added
  fib,            \* the forwarding function
  running         \* FALSE once the process has ended or lost its memory

vars == <<pending, fib, running>>

Covers(r, a) == a \div 2^(W - r.prefix) = r.ip_addr \div 2^(W - r.prefix)

\* The next hop of the longest route of rs that covers a; the last added of
\* the longest ones, when a prefix was added twice.
LongestMatch(rs, a) ==
  LET covering == {i \in DOMAIN rs : Covers(rs[i], a)}
      beats(i, j) == rs[j].prefix < rs[i].prefix \/ (rs[j].prefix = rs[i].prefix /\ j <= i)
  IN  IF covering = {}
        THEN NULL
        ELSE rs[CHOOSE i \in covering : \A j \in covering : beats(i, j)].next_hop

Init ==
  /\ pending = <<>>
  /\ fib = Unspecified
  /\ running = TRUE

Add(r) ==
  /\ running
  /\ Len(pending) < Capacity
  /\ pending' = Append(pending, r)
  /\ fib' = Unspecified
  /\ UNCHANGED running

\* The table in service is given up before a build has its successor ready.
Retire ==
  /\ running
  /\ fib' = Unspecified
  /\ UNCHANGED <<pending, running>>

Build ==
  /\ running
  /\ Buildable(pending)
  /\ fib' = [a \in 0 .. 2^W - 1 |-> LongestMatch(pending, a)]
  /\ pending' = <<>>
  /\ UNCHANGED running

\* The only two ways to fail: one route too many, or routes no build can digest.
Fail ==
  /\ running
  /\ Len(pending) = Capacity \/ ~Buildable(pending)
  /\ running' = FALSE
  /\ fib' = Unspecified
  /\ UNCHANGED pending

Next == (\E r \in Routes : Add(r)) \/ Retire \/ Build \/ Fail

Spec == Init /\ [][Next]_vars
=============================================================================
