------------------------------ MODULE RingPuts ------------------------------
(***************************************************************************)
(* A mempool never fails to put a buffer back into its ring.  The argument *)
(* counts objects, so it stands apart from RingProofs: no other proof      *)
(* about the ring needs cardinalities.                                     *)
(***************************************************************************)
EXTENDS RingProofs, FiniteSetTheorems

\* Different objects in m places are m objects.
LEMMA Pigeons ==
  ASSUME NEW m \in Nat, NEW f \in [1 .. m -> Objects], \A i, j \in 1 .. m : f[i] = f[j] => i = j,
         NEW c \in Nat, Cardinality(Objects) <= c
  PROVE  m <= c
<1>1. PICK S : S = 1 .. m
  BY Zenon
<1>2. IsFiniteSet(1 .. m) /\ Cardinality(1 .. m) = m
  <2>1. IsFiniteSet(1 .. m) /\ Cardinality(1 .. m) = IF 1 > m THEN 0 ELSE m - 1 + 1
    BY FS_Interval
  <2>. QED BY <2>1
<1>3. IsFiniteSet(S) /\ Cardinality(S) = m
  BY <1>1, <1>2, ZenonT(40)
<1>4. IsFiniteSet(Objects)
  BY RingAssumption, ZenonT(40)
<1>5. PICK n \in Nat : n = Cardinality(Objects)
  BY <1>4, FS_CardinalityType, ZenonT(40)
<1>6. ~(n < m)
  <2> SUFFICES ASSUME n < m PROVE FALSE
    BY ZenonT(40)
  <2>1. Cardinality(Objects) < Cardinality(S) /\ f \in [S -> Objects]
    BY <1>1, <1>3, <1>5, ZenonT(40)
  <2>2. \E i, j \in S : i # j /\ f[i] = f[j]
    BY ONLY <1>3, <1>4, <2>1, FS_PigeonHole, ZenonT(40)
  <2>. QED BY <1>1, <2>2, ZenonT(40)
<1>. QED BY <1>5, <1>6, SMTT(30)

\* A producer finds the room it needs.
LEMMA NeverShort ==
  ASSUME Typed, GInv, NEW t \in Threads, pc[t] = "room", call[t].side = "prod", Cardinality(Objects) <= capacity
  PROVE  ~(call[t].n > Room(t))
<1> SUFFICES ASSUME call[t].n > Room(t) PROVE FALSE
  BY Zenon
<1>1. PICK m \in Nat : \E f \in [1 .. m -> Objects] : m > capacity /\ \A i, j \in 1 .. m : f[i] = f[j] => i = j
  BY Crowded, Zenon
<1>2. capacity \in Nat
  BY Sizes, ZenonT(40)
<1>3. m <= capacity /\ m > capacity
  BY <1>1, <1>2, Pigeons, ZenonT(40)
<1>. QED BY <1>2, <1>3

\* A mempool with no more buffers than its ring has room for never has one of them
\* refused, although rte_mempool.h does not look at the result of its enqueue.
THEOREM PutsAreNeverRefused == Spec => []PutNeverRefused
<1>1. Init => PutNeverRefused
  BY Zenon DEF Init, PutNeverRefused
<1>2. Typed /\ GInv /\ PutNeverRefused /\ [Next]_vars => PutNeverRefused'
  <2> SUFFICES ASSUME Typed, GInv, PutNeverRefused, [Next]_vars, Cardinality(Objects) <= capacity,
                      NEW u \in Threads, pc'[u] = "refused"
               PROVE  call'[u].side = "cons"
    BY Zenon DEF PutNeverRefused
  <2>1. call'[u] = call[u] /\ (pc[u] = "refused" \/ (pc[u] = "room" /\ call[u].n > Room(u)))
    BY RefusedIs, ZenonT(40)
  <2>2. pc[u] = "refused" => call[u].side = "cons"
    BY Zenon DEF PutNeverRefused
  <2>3. pc[u] = "room" /\ call[u].n > Room(u) => call[u].side # "prod"
    BY NeverShort, Zenon
  <2>. QED BY <2>1, <2>2, <2>3, CallTypes, ZenonT(40) DEF Sides
<1>. QED BY <1>1, <1>2, RingIsOrdered, PTL DEF Spec
=============================================================================
