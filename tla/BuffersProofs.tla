---------------------------- MODULE BuffersProofs ---------------------------
(***************************************************************************)
(* Proofs about Mempool and Buffers, for every number of lcores and ports  *)
(* and every size of pool, cache, ring and burst.                          *)
(*                                                                         *)
(* A cache never outgrows its threshold between calls, nor its array       *)
(* within one: the three conjuncts of IInv are inductive together, as the  *)
(* array bound of a put needs the length before it.                        *)
(*                                                                         *)
(* The buffers of a receive queue are conserved.  BInv adds to the sum     *)
(* what keeps its summands natural numbers: a transmission has its packet  *)
(* in hand and reclaims no more than was sent, and no ring is overfull.    *)
(* The sums are cardinalities, so a change of one summand is a lemma about *)
(* finite sets and needs no induction.                                     *)
(*                                                                         *)
(* With the sizes of the router the pool never runs dry: the setup of the  *)
(* queue leaves a single buffer in the master's cache.                     *)
(***************************************************************************)
EXTENDS Buffers, FiniteSetTheorems, TLAPS

\* CALC_CACHE_FLUSHTHRESH is between the cache size and one and a half of it.
LEMMA FlushThreshold ==
  /\ flushthresh \in Nat
  /\ cache_size <= flushthresh
  /\ 2 * flushthresh <= 3 * cache_size
BY MempoolAssumption, SMT DEF flushthresh

IInv == TypeOK /\ CacheBounded /\ CacheWithinArray

LEMMA HigherBound ==
  ASSUME TypeOK, CacheWithinArray, NEW l \in Lcores, NEW i \in Nat, i <= 3 * MAX_SIZE, Higher(l, i)
  PROVE  high' \in [Lcores -> Nat] /\ CacheWithinArray'
BY MempoolAssumption, Zenon DEF TypeOK, CacheWithinArray, Higher

LEMMA GetsInv ==
  ASSUME IInv, NEW l \in Lcores, NEW n \in Bulks, Gets(l, n), user' \in [Lcores -> Nat]
  PROVE  IInv'
<1>. n \in Nat \ {0}
  BY MempoolAssumption
<1>. USE MempoolAssumption, FlushThreshold
<1>1. CASE Backfill(l, n)
  <2>. DEFINE req == n + (cache_size - len[l])
  <2>1. /\ req \in Nat /\ len[l] + req = n + cache_size /\ n < cache_size
        /\ req <= common /\ common' = common - req
        /\ len' = [len EXCEPT ![l] = @ + req - n]
        /\ Higher(l, len[l] + req)
    BY <1>1 DEF Backfill, IInv, TypeOK
  <2>2. len[l] + req - n = cache_size
    BY <2>1 DEF IInv, TypeOK
  <2>3. len' = [len EXCEPT ![l] = cache_size]
    BY <2>1, <2>2, Zenon DEF IInv, TypeOK
  <2>4. high' \in [Lcores -> Nat] /\ CacheWithinArray'
    BY <2>1, HigherBound DEF IInv, TypeOK
  <2>5. common' \in Nat
    BY <2>1 DEF IInv, TypeOK
  <2>6. len' \in [Lcores -> Nat] /\ cache_size \in Nat
    BY <2>3 DEF IInv, TypeOK
  <2>7. \A k \in Lcores : len'[k] = IF k = l THEN cache_size ELSE len[k]
    BY <2>3, Zenon DEF IInv, TypeOK
  <2>8. CacheBounded'
    BY <2>6, <2>7 DEF IInv, CacheBounded
  <2>. QED
    BY <2>4, <2>5, <2>6, <2>8, Zenon DEF IInv, TypeOK
<1>2. CASE FromCache(l, n)
  BY <1>2 DEF FromCache, IInv, TypeOK, CacheBounded, CacheWithinArray
<1>3. CASE FromRing(l, n)
  BY <1>3 DEF FromRing, IInv, TypeOK, CacheBounded, CacheWithinArray
<1>. QED
  BY <1>1, <1>2, <1>3, Zenon DEF Gets

LEMMA PutsInv ==
  ASSUME IInv, NEW l \in Lcores, NEW n \in Bulks, Puts(l, n), user' \in [Lcores -> Nat]
  PROVE  IInv'
<1>. n \in Nat \ {0}
  BY MempoolAssumption
<1>. USE MempoolAssumption, FlushThreshold
<1>1. CASE Bypasses(n)
  BY <1>1 DEF Puts, IInv, TypeOK, CacheBounded, CacheWithinArray
<1>2. CASE ~Bypasses(n)
  <2>1. Higher(l, len[l] + n) /\ n <= MAX_SIZE
    BY <1>2 DEF Puts, Bypasses
  <2>2. len[l] \in Nat /\ 2 * len[l] <= 3 * MAX_SIZE
    BY DEF IInv, TypeOK, CacheBounded
  <2>3. high' \in [Lcores -> Nat] /\ CacheWithinArray'
    BY <2>1, <2>2, HigherBound DEF IInv
  <2>4. CASE Flushes(l, n)
    <3>1. common' = common + (len[l] + n - cache_size) /\ len' = [len EXCEPT ![l] = cache_size]
      BY <1>2, <2>4, Zenon DEF Puts
    <3>2. len[l] + n >= cache_size
      BY <2>2, <2>4 DEF Flushes
    <3>. QED
      BY <2>2, <2>3, <3>1, <3>2 DEF IInv, TypeOK, CacheBounded
  <2>5. CASE ~Flushes(l, n)
    <3>1. common' = common /\ len' = [len EXCEPT ![l] = @ + n] /\ len[l] + n < flushthresh
      BY <1>2, <2>2, <2>5 DEF Puts, Flushes
    <3>. QED
      BY <2>2, <2>3, <3>1 DEF IInv, TypeOK, CacheBounded
  <2>. QED
    BY <2>4, <2>5, Zenon
<1>. QED
  BY <1>1, <1>2, Zenon

LEMMA StepInv == IInv /\ [Next]_vars => IInv'
<1>. SUFFICES ASSUME IInv, [Next]_vars PROVE IInv'
  OBVIOUS
<1>. USE MempoolAssumption
<1>1. ASSUME NEW l \in Lcores, NEW n \in Bulks, Get(l, n) PROVE IInv'
  <2>1. user' \in [Lcores -> Nat]
    BY <1>1 DEF Get, IInv, TypeOK
  <2>. QED
    BY <1>1, <2>1, GetsInv, Zenon DEF Get
<1>2. ASSUME NEW l \in Lcores, NEW n \in Bulks, Put(l, n) PROVE IInv'
  <2>1. user' \in [Lcores -> Nat]
    BY <1>2 DEF Put, IInv, TypeOK
  <2>. QED
    BY <1>2, <2>1, PutsInv, Zenon DEF Put
<1>3. ASSUME NEW l \in Lcores, NEW k \in Lcores, Pass(l, k) PROVE IInv'
  BY <1>3 DEF Pass, pool, IInv, TypeOK, CacheBounded, CacheWithinArray
<1>4. CASE UNCHANGED vars
  BY <1>4, Zenon DEF vars, pool, IInv, TypeOK, CacheBounded, CacheWithinArray
<1>. QED
  BY <1>1, <1>2, <1>3, <1>4, Zenon DEF Next

LEMMA Inductive == Spec => []IInv
<1>1. Init => IInv
  BY MempoolAssumption DEF Init, IInv, TypeOK, CacheBounded, CacheWithinArray
<1>. QED
  BY <1>1, StepInv, PTL DEF Spec

\* Whatever the sizes, __mempool_generic_get and __mempool_generic_put never
\* write behind cache->objs.
THEOREM CacheNeverOverruns == Spec => []CacheWithinArray
BY Inductive, PTL DEF IInv

\* Whatever the sizes, the buffers one lcore keeps from the others stay below
\* the flush threshold between two calls.
THEOREM CacheStaysBounded == Spec => []CacheBounded
BY Inductive, PTL DEF IInv
-----------------------------------------------------------------------------
(***************************************************************************)
(* Totals.                                                                 *)
(***************************************************************************)
\* What f counts at the places of S.
At(f, S) == {y \in Counted(f) : y[1] \in S}

LEMMA CountedIs ==
  ASSUME NEW D, NEW f \in [D -> Nat]
  PROVE  \A y : y \in Counted(f) <=> y \in D \X Nat /\ y[2] \in 1 .. f[y[1]]
BY DEF Counted

LEMMA RowCounts ==
  ASSUME NEW d, NEW n \in Nat
  PROVE  IsFiniteSet({d} \X (1 .. n)) /\ Cardinality({d} \X (1 .. n)) = n
<1>1. IsFiniteSet({d}) /\ Cardinality({d}) = 1
  BY FS_Singleton
<1>2. IsFiniteSet(1 .. n) /\ Cardinality(1 .. n) = n
  <2>1. 1 \in Int /\ n \in Int /\ (1 > n => n = 0) /\ n - 1 + 1 = n
    OBVIOUS
  <2>. QED BY <2>1, FS_Interval
<1>3. PICK S, T : S = {d} /\ T = 1 .. n
  BY Zenon
<1>4. IsFiniteSet(S \X T) /\ Cardinality(S \X T) = Cardinality(S) * Cardinality(T)
  BY <1>1, <1>2, <1>3, FS_Product, Zenon
<1>5. Cardinality(S) * Cardinality(T) = n
  BY <1>1, <1>2, <1>3
<1>. QED BY <1>3, <1>4, <1>5, Zenon

LEMMA CountedFinite ==
  ASSUME NEW D, NEW f \in [D -> Nat], IsFiniteSet(D)
  PROVE  IsFiniteSet(Counted(f)) /\ Total(f) \in Nat
<1> DEFINE C == {{x} \X (1 .. f[x]) : x \in D}
           g == [x \in D |-> {x} \X (1 .. f[x])]
<1>1. g \in Surjection(D, C)
  BY Zenon DEF Surjection
<1>2. IsFiniteSet(C)
  BY <1>1, FS_Surjection, Zenon
<1>3. ASSUME NEW x \in D PROVE IsFiniteSet({x} \X (1 .. f[x]))
  BY RowCounts, Zenon
<1>4. Counted(f) = UNION C /\ \A T \in C : IsFiniteSet(T)
  BY <1>3, Zenon DEF Counted
<1>5. IsFiniteSet(Counted(f))
  BY <1>2, <1>4, FS_UNION, Zenon
<1>. QED BY <1>5, FS_CardinalityType DEF Total

\* A total changes by as much as one of its summands.
LEMMA TotalChanges ==
  ASSUME NEW D, NEW f \in [D -> Nat], IsFiniteSet(D), NEW d \in D, NEW n \in Nat
  PROVE  /\ Total([f EXCEPT ![d] = n]) = Total(f) - f[d] + n
         /\ f[d] <= Total(f) /\ Total(f) \in Nat
<1>1. ASSUME NEW h \in [D -> Nat], \A x \in D : x # d => h[x] = f[x]
      PROVE  Total(h) = Cardinality(At(f, D \ {d})) + h[d] /\ Cardinality(At(f, D \ {d})) \in Nat
  <2> DEFINE A == At(f, D \ {d})
             B == {d} \X (1 .. h[d])
  <2>1. Counted(h) = A \cup B
    <3>1. \A y : y \in Counted(h) <=> y \in D \X Nat /\ y[2] \in 1 .. h[y[1]]
      BY <1>1, CountedIs, Zenon
    <3>2. \A y : y \in A <=> y \in D \X Nat /\ y[2] \in 1 .. f[y[1]] /\ y[1] # d
      BY CountedIs, Zenon DEF At
    <3>3. \A y : y \in B <=> y \in D \X Nat /\ y[2] \in 1 .. h[y[1]] /\ y[1] = d
      BY <1>1
    <3> HIDE DEF A, B
    <3>4. \A y : y \in Counted(h) <=> y \in A \/ y \in B
      BY <1>1, <3>1, <3>2, <3>3, Zenon
    <3>. QED BY <3>4
  <2>2. A \cap B = {}
    BY DEF At
  <2>3. IsFiniteSet(A) /\ Cardinality(A) \in Nat
    <3>1. A \in SUBSET Counted(f)
      BY DEF At
    <3>. QED BY <3>1, CountedFinite, FS_Subset, FS_CardinalityType, Zenon
  <2>4. IsFiniteSet(B) /\ Cardinality(B) = h[d]
    BY <1>1, RowCounts, Zenon
  <2> HIDE DEF A, B
  <2>5. Cardinality(A \cup B) = Cardinality(A) + Cardinality(B)
    BY <2>2, <2>3, <2>4, FS_Union, FS_EmptySet
  <2>. QED BY <2>1, <2>3, <2>4, <2>5, Zenon DEF Total, A
<1>2. PICK r \in Nat : r = Cardinality(At(f, D \ {d}))
  BY <1>1, Zenon
<1>3. Total(f) = r + f[d]
  BY <1>1, <1>2, Zenon
<1>4. PICK h : h = [f EXCEPT ![d] = n]
  BY Zenon
<1>5. h \in [D -> Nat] /\ (\A x \in D : x # d => h[x] = f[x]) /\ h[d] = n
  BY <1>4
<1>6. Total(h) = r + n
  BY <1>1, <1>2, <1>5, Zenon
<1>7. f[d] \in Nat
  OBVIOUS
<1>. QED BY <1>2, <1>3, <1>4, <1>6, <1>7

LEMMA TotalOfZero ==
  ASSUME NEW D, NEW f \in [D -> Nat], \A x \in D : f[x] = 0
  PROVE  Total(f) = 0
<1>1. Counted(f) = {}
  BY CountedIs
<1>. QED BY <1>1, FS_EmptySet DEF Total

\* What two functions count fits into as many rows of N as they have places.
LEMMA TotalsBounded ==
  ASSUME NEW D, NEW f \in [D -> Nat], NEW g \in [D -> Nat], IsFiniteSet(D), NEW N \in Nat,
         \A x \in D : f[x] + g[x] <= N
  PROVE  Total(f) + Total(g) <= Cardinality(D) * N
<1> DEFINE Behind(y) == <<y[1], f[y[1]] + y[2]>>
           B == {Behind(y) : y \in Counted(g)}
           R == D \X (1 .. N)
<1>1. \A y : y \in Counted(f) <=> y \in D \X Nat /\ y[2] \in 1 .. f[y[1]]
  BY CountedIs, Zenon
<1>2. \A y : y \in Counted(g) <=> y \in D \X Nat /\ y[2] \in 1 .. g[y[1]]
  BY CountedIs, Zenon
<1>3. IsFiniteSet(B) /\ Cardinality(B) = Total(g)
  <2> DEFINE b == [y \in Counted(g) |-> Behind(y)]
  <2>1. b \in Surjection(Counted(g), B)
    BY Zenon DEF Surjection
  <2>2. ASSUME NEW y \in Counted(g), NEW z \in Counted(g), Behind(y) = Behind(z) PROVE y = z
    <3>1. PICK k \in D, i \in Nat : y = <<k, i>>
      BY <1>2
    <3>2. PICK l \in D, j \in Nat : z = <<l, j>>
      BY <1>2
    <3>3. k = l /\ f[k] + i = f[l] + j
      BY <2>2, <3>1, <3>2, Zenon
    <3>4. f[k] \in Nat
      OBVIOUS
    <3>5. i = j
      BY <3>3, <3>4
    <3>. QED BY <3>1, <3>2, <3>3, <3>5, Zenon
  <2>3. b \in Injection(Counted(g), B)
    <3>1. b \in [Counted(g) -> B]
      BY Zenon
    <3>2. \A y, z \in Counted(g) : b[y] = b[z] => y = z
      BY <2>2, Zenon
    <3> HIDE DEF b, B
    <3>. QED BY <3>1, <3>2, Zenon DEF Injection, IsInjective
  <2> HIDE DEF b, B
  <2>. QED BY <2>1, <2>3, CountedFinite, FS_Surjection DEF Total
<1>4. Counted(f) \cap B = {}
  <2>1. SUFFICES ASSUME NEW y \in Counted(g), Behind(y) \in Counted(f) PROVE FALSE
    BY Zenon
  <2>2. PICK k \in D, i \in Nat : y = <<k, i>> /\ i \in 1 .. g[k]
    BY <1>2
  <2>3. f[k] + i \in 1 .. f[k]
    BY <1>1, <2>1, <2>2
  <2>. QED BY <2>2, <2>3
<1>5. Counted(f) \cup B \subseteq R
  <2>1. ASSUME NEW k \in D, NEW i \in 1 .. f[k] PROVE i \in 1 .. N
    <3>1. PICK u \in Nat, v \in Nat : u = f[k] /\ v = g[k] /\ u + v <= N
      OBVIOUS
    <3>. QED BY <3>1
  <2>2. ASSUME NEW k \in D, NEW i \in 1 .. g[k] PROVE f[k] + i \in 1 .. N
    <3>1. PICK u \in Nat, v \in Nat : u = f[k] /\ v = g[k] /\ u + v <= N
      OBVIOUS
    <3>. QED BY <3>1
  <2>3. Counted(f) \subseteq R
    BY <1>1, <2>1
  <2>4. ASSUME NEW y \in Counted(g) PROVE Behind(y) \in R
    <3>1. y[1] \in D /\ y[2] \in 1 .. g[y[1]]
      BY <1>2
    <3>. QED BY <2>2, <3>1, Zenon
  <2>. QED BY <2>3, <2>4, Zenon
<1>6. IsFiniteSet(R) /\ Cardinality(R) = Cardinality(D) * N
  <2>1. IsFiniteSet(1 .. N) /\ Cardinality(1 .. N) = N
    BY FS_Interval
  <2>. QED BY <2>1, FS_Product, Zenon
<1> HIDE DEF B, R
<1>7. Cardinality(Counted(f) \cup B) = Total(f) + Total(g)
  <2>1. PICK A : A = Counted(f)
    OBVIOUS
  <2>2. IsFiniteSet(A) /\ Cardinality(A) = Total(f) /\ Total(f) \in Nat /\ Total(g) \in Nat
    BY <2>1, CountedFinite, Zenon DEF Total
  <2>3. Cardinality(A \cup B) = Cardinality(A) + Cardinality(B) - Cardinality(A \cap B)
    BY <1>3, <2>2, FS_Union, Zenon
  <2>4. Cardinality(A \cap B) = 0
    BY <1>4, <2>1, FS_EmptySet, Zenon
  <2>. QED BY <1>3, <2>1, <2>2, <2>3, <2>4
<1>. QED BY <1>5, <1>6, <1>7, FS_Subset, Zenon
-----------------------------------------------------------------------------
(***************************************************************************)
(* The buffers of a receive queue.                                         *)
(***************************************************************************)
InCall == pc \in {"clean", "reclaim"}

BTypes ==
  /\ pc \in {"setup", "poll", "refill", "clean", "reclaim"} /\ n_objs \in Nat
  /\ posted \in Nat /\ filled \in Nat /\ used_cons_idx \in Nat /\ hand \in Nat
  /\ sending \in [Ports -> Nat] /\ sent \in [Ports -> Nat]
  /\ call \in [port : {call.port}, trial : Nat, num : Nat]

\* No ring holds more than it has descriptors; a transmission has its packet in
\* hand and reclaims no more than was sent; only two lcores have used a cache.
BBounds ==
  /\ posted + filled <= RX_DESCS /\ hand <= MAX_BURST_SIZE
  /\ InCall => hand > 0 /\ call.port \in Ports /\ call.num <= sent[call.port]
  /\ \A p \in Ports : sending[p] + sent[p] <= TX_DESCS
  /\ \A l \in Lcores \ {master, worker} : len[l] = 0

BInv == IInv /\ BTypes /\ BBounds /\ BuffersConserved

\* A get of one buffer takes one from the caches and the ring together, and
\* touches no other lcore's cache; a put gives one to them.
LEMMA GetsOne ==
  ASSUME IInv, NEW l \in Lcores, Gets(l, 1), UNCHANGED user
  PROVE  /\ IInv'
         /\ common' + Total(len') = common + Total(len) - 1
         /\ \A k \in Lcores : k # l => len'[k] = len[k]
<1>0. 1 \in Bulks /\ IsFiniteSet(Lcores) /\ cache_size \in Nat
  BY BuffersAssumption, MempoolAssumption
<1>1. common \in Nat /\ len \in [Lcores -> Nat] /\ user \in [Lcores -> Nat] /\ len[l] \in Nat
  BY DEF IInv, TypeOK
<1>2. IInv'
  BY <1>0, <1>1, GetsInv
<1>3. Total(len) \in Nat
  BY <1>0, <1>1, TotalChanges, Zenon
<1>4. CASE Backfill(l, 1)
  <2>1. /\ common' = common - (1 + (cache_size - len[l]))
        /\ len' = [len EXCEPT ![l] = len[l] + (1 + (cache_size - len[l])) - 1]
    BY <1>4, Zenon DEF Backfill
  <2>2. len[l] + (1 + (cache_size - len[l])) - 1 = cache_size
    BY <1>0, <1>1
  <2>3. len' = [len EXCEPT ![l] = cache_size]
    BY <2>1, <2>2, Zenon
  <2>4. Total(len') = Total(len) - len[l] + cache_size
    BY <1>0, <1>1, <2>3, TotalChanges, ZenonT(40)
  <2>5. common' + Total(len') = common + Total(len) - 1
    BY <1>0, <1>1, <1>3, <2>1, <2>4
  <2>. QED BY <1>1, <1>2, <2>3, <2>5, Zenon
<1>5. CASE FromCache(l, 1)
  <2>1. common' = common /\ len' = [len EXCEPT ![l] = len[l] - 1] /\ len[l] >= 1
    BY <1>5 DEF FromCache
  <2>5. len[l] - 1 \in Nat
    BY <1>1, <2>1
  <2>2. PICK v \in Nat : v = len[l] - 1
    BY <2>5
  <2>6. len' = [len EXCEPT ![l] = v]
    BY <2>1, <2>2
  <2>3. Total(len') = Total(len) - len[l] + v
    BY <1>0, <1>1, <2>6, TotalChanges, ZenonT(40)
  <2>4. common' + Total(len') = common + Total(len) - 1
    BY <1>1, <1>3, <2>1, <2>2, <2>3
  <2>. QED BY <1>1, <1>2, <2>1, <2>4, Zenon
<1>6. CASE FromRing(l, 1)
  BY <1>1, <1>2, <1>3, <1>6 DEF FromRing
<1>. QED BY <1>4, <1>5, <1>6, Zenon DEF Gets

LEMMA PutsOne ==
  ASSUME IInv, NEW l \in Lcores, Puts(l, 1), UNCHANGED user
  PROVE  /\ IInv'
         /\ common' + Total(len') = common + Total(len) + 1
         /\ \A k \in Lcores : k # l => len'[k] = len[k]
<1>0. 1 \in Bulks /\ IsFiniteSet(Lcores) /\ cache_size \in Nat
  BY BuffersAssumption, MempoolAssumption
<1>1. common \in Nat /\ len \in [Lcores -> Nat] /\ user \in [Lcores -> Nat] /\ len[l] \in Nat
  BY DEF IInv, TypeOK
<1>2. IInv'
  BY <1>0, <1>1, PutsInv
<1>3. Total(len) \in Nat
  BY <1>0, <1>1, TotalChanges, Zenon
<1>4. CASE Bypasses(1)
  BY <1>1, <1>2, <1>3, <1>4 DEF Puts
<1>5. CASE ~Bypasses(1) /\ Flushes(l, 1)
  <2>1. common' = common + (len[l] + 1 - cache_size) /\ len' = [len EXCEPT ![l] = cache_size]
    BY <1>5, Zenon DEF Puts
  <2>2. Total(len') = Total(len) - len[l] + cache_size
    BY <1>0, <1>1, <2>1, TotalChanges, ZenonT(40)
  <2>3. common' + Total(len') = common + Total(len) + 1
    BY <1>0, <1>1, <1>3, <2>1, <2>2
  <2>. QED BY <1>1, <1>2, <2>1, <2>3, Zenon
<1>6. CASE ~Bypasses(1) /\ ~Flushes(l, 1)
  <2>1. common' = common /\ len' = [len EXCEPT ![l] = len[l] + 1]
    BY <1>6, Zenon DEF Puts
  <2>2. len[l] + 1 \in Nat
    BY <1>1
  <2>3. Total(len') = Total(len) - len[l] + (len[l] + 1)
    BY <1>0, <1>1, <2>1, <2>2, TotalChanges, ZenonT(40)
  <2>4. common' + Total(len') = common + Total(len) + 1
    BY <1>1, <1>3, <2>1, <2>3
  <2>. QED BY <1>1, <1>2, <2>1, <2>4, Zenon
<1>. QED BY <1>4, <1>5, <1>6, ZenonT(40)

LEMMA BInvFacts ==
  ASSUME BInv
  PROVE  /\ common \in Nat /\ Total(len) \in Nat /\ Total(sending) \in Nat /\ Total(sent) \in Nat
         /\ \A p \in Ports : sending[p] \in Nat /\ sent[p] \in Nat
         /\ call.num \in Nat /\ call.trial \in Nat
         /\ RX_DESCS \in Nat /\ TX_DESCS \in Nat /\ MAX_BURST_SIZE \in Nat
         /\ worker \in Lcores /\ master \in Lcores /\ IsFiniteSet(Ports) /\ IsFiniteSet(Lcores)
<1>1. IsFiniteSet(Ports) /\ IsFiniteSet(Lcores)
  BY BuffersAssumption
<1>2. Total(len) \in Nat /\ Total(sending) \in Nat /\ Total(sent) \in Nat
  BY <1>1, CountedFinite, Zenon DEF BInv, IInv, TypeOK, BTypes
<1>. QED BY <1>1, <1>2, BuffersAssumption, Zenon DEF BInv, IInv, TypeOK, BTypes

LEMMA RefillKeepsBInv ==
  ASSUME BInv, NEW l \in {master, worker}, RefillOne(l), UNCHANGED n_objs
  PROVE  BInv'
<1>1. /\ posted + filled < RX_DESCS /\ posted' = posted + 1
      /\ UNCHANGED <<user, pc, filled, used_cons_idx, hand, call, sending, sent>>
  BY DEF RefillOne
<1>2. l \in Lcores
  BY BuffersAssumption
<1>3. /\ IInv' /\ common' + Total(len') = common + Total(len) - 1
      /\ \A k \in Lcores : k # l => len'[k] = len[k]
  BY <1>1, <1>2, GetsOne, Zenon DEF RefillOne, BInv
<1>4. BTypes'
  BY <1>1 DEF BInv, BTypes
<1>5. BBounds'
  <2>1. posted' + filled' <= RX_DESCS
    BY <1>1, BInvFacts DEF BInv, BTypes
  <2>2. \A k \in Lcores \ {master, worker} : len'[k] = 0
    BY <1>3, Zenon DEF BInv, BBounds
  <2>. QED BY <1>1, <2>1, <2>2, Zenon DEF BInv, BBounds, InCall
<1>6. BuffersConserved'
  <2>1. PICK a, b \in Int : a = common + Total(len) /\ b = common' + Total(len') /\ b = a - 1
    BY <1>3, BInvFacts
  <2>2. a + posted + filled + hand + Total(sending) + Total(sent) = n_objs
    BY <2>1, Zenon DEF BInv, BuffersConserved
  <2>3. b + (posted + 1) + filled + hand + Total(sending) + Total(sent) = n_objs
    BY <2>1, <2>2, BInvFacts DEF BInv, BTypes
  <2>. QED BY <1>1, <2>1, <2>3, Zenon DEF BuffersConserved
<1>. QED BY <1>3, <1>4, <1>5, <1>6 DEF BInv

LEMMA FreedKeepsBInv ==
  ASSUME BInv, hand > 0, Freed, UNCHANGED n_objs
  PROVE  BInv'
<1>1. hand' = hand - 1 /\ pc' = "poll" /\ call' = NoCall /\ UNCHANGED <<user, queues>>
  BY DEF Freed
<1>2. worker \in Lcores
  BY BuffersAssumption
<1>3. /\ IInv' /\ common' + Total(len') = common + Total(len) + 1
      /\ \A k \in Lcores : k # worker => len'[k] = len[k]
  BY <1>1, <1>2, PutsOne, Zenon DEF Freed, BInv
<1>4. BTypes'
  <2>1. hand' \in Nat
    BY <1>1 DEF BInv, BTypes
  <2>. QED BY <1>1, <2>1, Zenon DEF BInv, BTypes, queues, NoCall
<1>5. BBounds'
  <2>1. hand' <= MAX_BURST_SIZE
    BY <1>1, BInvFacts DEF BInv, BTypes, BBounds
  <2>2. \A k \in Lcores \ {master, worker} : len'[k] = 0
    BY <1>3, Zenon DEF BInv, BBounds
  <2>. QED BY <1>1, <2>1, <2>2, Zenon DEF BInv, BBounds, InCall, queues
<1>6. BuffersConserved'
  <2>1. PICK a, b \in Int : a = common + Total(len) /\ b = common' + Total(len') /\ b = a + 1
    BY <1>3, BInvFacts
  <2>2. a + posted + filled + hand + Total(sending) + Total(sent) = n_objs
    BY <2>1, Zenon DEF BInv, BuffersConserved
  <2>3. b + posted + filled + (hand - 1) + Total(sending) + Total(sent) = n_objs
    BY <2>1, <2>2, BInvFacts DEF BInv, BTypes
  <2>. QED BY <1>1, <2>1, <2>3, Zenon DEF BuffersConserved, queues
<1>. QED BY <1>3, <1>4, <1>5, <1>6 DEF BInv

\* A step that leaves the pool alone.
LEMMA PoolRests ==
  ASSUME BInv, UNCHANGED <<pool, user>>
  PROVE  /\ IInv' /\ common' = common /\ Total(len') = Total(len)
         /\ \A l \in Lcores \ {master, worker} : len'[l] = 0
BY Zenon DEF BInv, BBounds, IInv, TypeOK, CacheBounded, CacheWithinArray, pool

\* Steps that only turn the worker's attention.
LEMMA TurnKeepsBInv ==
  ASSUME BInv, UNCHANGED <<pool, user, queues, hand, n_objs>>, BTypes',
         InCall' => hand > 0 /\ call'.port \in Ports /\ call'.num <= sent[call'.port]
  PROVE  BInv'
<1>1. IInv' /\ common' = common /\ Total(len') = Total(len) /\ \A l \in Lcores \ {master, worker} : len'[l] = 0
  BY PoolRests, Zenon
<1>2. BBounds'
  BY <1>1, Zenon DEF BInv, BBounds, queues
<1>3. BuffersConserved'
  BY <1>1, Zenon DEF BInv, BuffersConserved, queues
<1>. QED BY <1>1, <1>2, <1>3, Zenon DEF BInv

\* A burst is no more than the ring holds and the router asks for.
LEMMA TakenIs ==
  ASSUME BInv
  PROVE  /\ Taken \in Nat /\ Taken <= filled /\ Taken <= MAX_BURST_SIZE
         /\ (used_cons_idx + Taken) % DESC_PER_CACHELINE \in Nat
<1>1. filled \in Nat /\ used_cons_idx \in Nat /\ MAX_BURST_SIZE \in Nat /\ DESC_PER_CACHELINE \in Nat \ {0}
  BY BInvFacts, BuffersAssumption DEF BInv, BTypes
<1>2. PICK num \in Nat : /\ num = IF filled <= MAX_BURST_SIZE THEN filled ELSE MAX_BURST_SIZE
                         /\ num <= filled /\ num <= MAX_BURST_SIZE
  BY <1>1
<1>3. PICK m \in Nat : m = (used_cons_idx + num) % DESC_PER_CACHELINE /\ m < DESC_PER_CACHELINE
  BY <1>1
<1>4. Taken = IF num > DESC_PER_CACHELINE THEN num - m ELSE num
  BY <1>2, <1>3, Zenon DEF Taken
<1>5. Taken \in Nat /\ Taken <= num
  BY <1>1, <1>3, <1>4
<1>6. PICK t \in Nat : t = Taken
  BY <1>5
<1>7. (used_cons_idx + t) % DESC_PER_CACHELINE \in Nat
  BY <1>1
<1>. QED BY <1>1, <1>2, <1>5, <1>6, <1>7

LEMMA ReceiveKeepsBInv == ASSUME BInv, Receive, UNCHANGED n_objs PROVE BInv'
<1>0. PICK t \in Nat : t = Taken /\ t <= filled /\ t <= MAX_BURST_SIZE
  BY TakenIs, Zenon
<1>1. PICK n \in Nat, k \in Nat : /\ n + k = t /\ hand' = n /\ posted' = posted + k /\ filled' = filled - t
  BY <1>0 DEF Receive
<1>2. hand = 0 /\ pc' = "refill" /\ UNCHANGED <<pool, user, call, sending, sent>> /\ used_cons_idx' \in Nat
  BY TakenIs, Zenon DEF Receive
<1>3. IInv' /\ common' = common /\ Total(len') = Total(len) /\ \A l \in Lcores \ {master, worker} : len'[l] = 0
  BY <1>2, PoolRests, Zenon
<1>a. posted \in Nat /\ filled \in Nat /\ RX_DESCS \in Nat /\ MAX_BURST_SIZE \in Nat /\ posted + filled <= RX_DESCS
  BY BInvFacts, Zenon DEF BInv, BTypes, BBounds
<1>4. BTypes'
  <2>1. posted' \in Nat /\ filled' \in Nat /\ hand' \in Nat
    BY <1>0, <1>1, <1>a
  <2>. QED BY <1>2, <2>1, Zenon DEF BInv, BTypes
<1>5. BBounds'
  <2>1. posted' + filled' <= RX_DESCS /\ hand' <= MAX_BURST_SIZE
    BY <1>0, <1>1, <1>a
  <2>. QED BY <1>2, <1>3, <2>1, Zenon DEF BInv, BBounds, InCall
<1>6. BuffersConserved'
  <2>1. posted' + filled' + hand' = posted + filled + hand
    BY <1>0, <1>1, <1>2, <1>a
  <2>2. /\ common \in Nat /\ Total(len) \in Nat /\ Total(sending) \in Nat /\ Total(sent) \in Nat
        /\ posted' \in Nat /\ filled' \in Nat /\ hand' \in Nat /\ hand \in Nat
    BY <1>4, BInvFacts, Zenon DEF BInv, BTypes
  <2>3. common + Total(len) + posted + filled + hand + Total(sending) + Total(sent) = n_objs
    BY Zenon DEF BInv, BuffersConserved
  <2>4. common + Total(len) + posted' + filled' + hand' + Total(sending) + Total(sent) = n_objs
    <3>1. PICK a, b, c, e, f, g, h, u, v, w \in Nat :
            /\ a = common /\ b = Total(len) /\ c = Total(sending) /\ e = Total(sent)
            /\ f = posted /\ g = filled /\ h = hand /\ u = posted' /\ v = filled' /\ w = hand'
      BY <1>a, <2>2, Zenon
    <3>2. u + v + w = f + g + h /\ a + b + f + g + h + c + e = n_objs
      BY <2>1, <2>3, <3>1, Zenon
    <3>3. a + b + u + v + w + c + e = n_objs
      BY ONLY <3>2
    <3>. QED BY <3>1, <3>3, Zenon
  <2>. QED BY <1>2, <1>3, <2>4, Zenon DEF BuffersConserved
<1>. QED BY <1>3, <1>4, <1>5, <1>6 DEF BInv

LEMMA TryKeepsBInv ==
  ASSUME BInv, hand > 0, NEW p \in Ports, NEW n \in Nat, Try(p, n), UNCHANGED n_objs
  PROVE  BInv'
<1>1. PICK k \in Nat : call' = [port |-> p, trial |-> n, num |-> k] /\ k <= sent[p]
  <2>1. sent[p] \in Nat
    BY BInvFacts, Zenon
  <2>. QED BY <2>1 DEF Try
<1>2. pc' = "clean" /\ UNCHANGED <<pool, user, queues, hand>>
  BY Zenon DEF Try
<1>3. BTypes'
  BY <1>1, <1>2, Zenon DEF BInv, BTypes, queues
<1>. QED BY <1>1, <1>2, <1>3, TurnKeepsBInv, Zenon

LEMMA ReclaimKeepsBInv == ASSUME BInv, ReclaimOne, UNCHANGED n_objs PROVE BInv'
<1>1. PICK p \in Ports, k \in Nat, s \in Nat : p = call.port /\ k = call.num /\ s = sent[p] /\ k <= s /\ k > 0
  BY BInvFacts, Zenon DEF ReclaimOne, BInv, BBounds, InCall
<1>2. /\ call' = [call EXCEPT !.num = k - 1] /\ sent' = [sent EXCEPT ![p] = s - 1]
      /\ UNCHANGED <<user, pc, posted, filled, used_cons_idx, hand, sending>>
  BY <1>1, Zenon DEF ReclaimOne
<1>3. s - 1 \in Nat /\ k - 1 \in Nat /\ k - 1 <= s - 1
  BY <1>1
<1>4. /\ IInv' /\ common' + Total(len') = common + Total(len) + 1
      /\ \A l \in Lcores : l # worker => len'[l] = len[l]
  BY <1>2, PutsOne, BInvFacts, Zenon DEF ReclaimOne, BInv
<1>5. BTypes' /\ call'.port = p /\ call'.num = k - 1
  BY <1>1, <1>2, <1>3, Zenon DEF BInv, BTypes
<1>6. BBounds'
  <2>1. \A l \in Lcores \ {master, worker} : len'[l] = 0
    BY <1>4, Zenon DEF BInv, BBounds
  <2>2. ASSUME NEW q \in Ports PROVE sending'[q] + sent'[q] <= TX_DESCS
    <3>1. sending[q] \in Nat /\ sent[q] \in Nat /\ sending[q] + sent[q] <= TX_DESCS /\ TX_DESCS \in Nat
      BY BInvFacts, Zenon DEF BInv, BBounds
    <3>2. sent'[q] = IF q = p THEN s - 1 ELSE sent[q]
      BY <1>2 DEF BInv, BTypes
    <3>. QED BY <1>1, <1>2, <3>1, <3>2
  <2>3. call'.num <= sent'[call'.port]
    BY <1>2, <1>3, <1>5, Zenon DEF BInv, BTypes
  <2>. QED BY <1>1, <1>2, <1>5, <2>1, <2>2, <2>3, Zenon DEF BInv, BBounds, InCall
<1>7. BuffersConserved'
  <2>1. Total(sent') = Total(sent) - s + (s - 1)
    <3>1. PICK v \in Nat : v = s - 1
      BY <1>3
    <3>2. sent' = [sent EXCEPT ![p] = v]
      BY <1>2, <3>1
    <3>3. sent \in [Ports -> Nat] /\ IsFiniteSet(Ports)
      BY BInvFacts, Zenon DEF BInv, BTypes
    <3>4. Total(sent') = Total(sent) - sent[p] + v
      BY <3>2, <3>3, TotalChanges, ZenonT(40)
    <3>. QED BY <1>1, <3>1, <3>4, Zenon
  <2>2. PICK a, b \in Int : a = common + Total(len) /\ b = common' + Total(len') /\ b = a + 1
    BY <1>4, BInvFacts
  <2>3. a + posted + filled + hand + Total(sending) + Total(sent) = n_objs
    BY <2>2, Zenon DEF BInv, BuffersConserved
  <2>4. b + posted + filled + hand + Total(sending) + Total(sent') = n_objs
    BY <1>1, <2>1, <2>2, <2>3, BInvFacts DEF BInv, BTypes
  <2>. QED BY <1>2, <2>2, <2>4 DEF BuffersConserved
<1>. QED BY <1>4, <1>5, <1>6, <1>7, Zenon DEF BInv

LEMMA NeedKeepsBInv == ASSUME BInv, Need, UNCHANGED n_objs PROVE BInv'
<1>1. PICK k \in {0, 1} : call' = [call EXCEPT !.num = k] /\ (k = 1 => sent[call.port] > 0)
  BY DEF Need
<1>2. pc = "clean" /\ pc' = "reclaim" /\ UNCHANGED <<pool, user, queues, hand>>
  BY DEF Need
<1>3. hand > 0 /\ call.port \in Ports /\ sent[call.port] \in Nat
  BY <1>2, BInvFacts, Zenon DEF BInv, BBounds, InCall
<1>4. BTypes' /\ call'.port = call.port /\ call'.num = k
  BY <1>1, <1>2 DEF BInv, BTypes, queues
<1>5. k <= sent[call.port]
  BY <1>1, <1>3
<1>. QED BY <1>2, <1>3, <1>4, <1>5, TurnKeepsBInv, Zenon

LEMMA EnqueuedKeepsBInv == ASSUME BInv, Enqueued, UNCHANGED n_objs PROVE BInv'
<1>1. PICK p \in Ports, s \in Nat, u \in Nat :
        p = call.port /\ s = sending[p] /\ u = sent[p] /\ TX_DESCS - s - u > 0 /\ hand > 0
  BY BInvFacts, Zenon DEF Enqueued, FreeDescs, BInv, BBounds, InCall
<1>2. /\ sending' = [sending EXCEPT ![p] = s + 1] /\ hand' = hand - 1 /\ pc' = "poll" /\ call' = NoCall
      /\ UNCHANGED <<pool, user, posted, filled, used_cons_idx, sent>>
  BY <1>1, Zenon DEF Enqueued
<1>3. IInv' /\ common' = common /\ Total(len') = Total(len) /\ \A l \in Lcores \ {master, worker} : len'[l] = 0
  BY <1>2, PoolRests, Zenon
<1>4. BTypes'
  <2>1. hand' \in Nat /\ s + 1 \in Nat
    BY <1>1, <1>2 DEF BInv, BTypes
  <2>. QED BY <1>2, <2>1, Zenon DEF BInv, BTypes, NoCall
<1>5. BBounds'
  <2>1. ASSUME NEW q \in Ports PROVE sending'[q] + sent'[q] <= TX_DESCS
    <3>1. sending[q] \in Nat /\ sent[q] \in Nat /\ sending[q] + sent[q] <= TX_DESCS /\ TX_DESCS \in Nat
      BY BInvFacts, Zenon DEF BInv, BBounds
    <3>2. sending'[q] = IF q = p THEN s + 1 ELSE sending[q]
      BY <1>2, Zenon DEF BInv, BTypes
    <3>. QED BY <1>1, <1>2, <3>1, <3>2
  <2>2. hand' <= MAX_BURST_SIZE
    BY <1>2, BInvFacts DEF BInv, BTypes, BBounds
  <2>. QED BY <1>2, <1>3, <2>1, <2>2, Zenon DEF BInv, BBounds, InCall
<1>6. BuffersConserved'
  <2>1. PICK v \in Nat : v = s + 1
    OBVIOUS
  <2>2. sending' = [sending EXCEPT ![p] = v] /\ sending \in [Ports -> Nat] /\ IsFiniteSet(Ports)
    BY <1>2, <2>1, BInvFacts, Zenon DEF BInv, BTypes
  <2>6. Total(sending') = Total(sending) - sending[p] + v
    BY <2>2, TotalChanges, ZenonT(40)
  <2>3. Total(sending') = Total(sending) + 1
    BY <1>1, <2>1, <2>6, BInvFacts
  <2>4. common + Total(len) + posted + filled + hand + Total(sending) + Total(sent) = n_objs
    BY DEF BInv, BuffersConserved
  <2>5. common + Total(len) + posted + filled + (hand - 1) + (Total(sending) + 1) + Total(sent) = n_objs
    BY <2>4, BInvFacts DEF BInv, BTypes
  <2>. QED BY <1>2, <1>3, <2>3, <2>5, Zenon DEF BuffersConserved
<1>. QED BY <1>3, <1>4, <1>5, <1>6 DEF BInv

LEMMA CardsKeepBInv ==
  ASSUME BInv, \/ Fill \/ \E p \in Ports : Sent(p)
  PROVE  BInv'
<1>0. UNCHANGED <<pool, user>>
  BY Zenon DEF Fill, Sent
<1>1. IInv' /\ common' = common /\ Total(len') = Total(len) /\ \A l \in Lcores \ {master, worker} : len'[l] = 0
  BY <1>0, PoolRests
<1>2. CASE Fill
  <2>1. BTypes'
    BY <1>2 DEF Fill, BInv, BTypes
  <2>2. BBounds'
    BY <1>1, <1>2, BInvFacts DEF Fill, BInv, BTypes, BBounds, InCall
  <2>3. BuffersConserved'
    BY <1>1, <1>2, BInvFacts DEF Fill, BInv, BTypes, BuffersConserved
  <2>. QED BY <1>1, <2>1, <2>2, <2>3 DEF BInv
<1>3. ASSUME NEW p \in Ports, Sent(p) PROVE BInv'
  <2>1. PICK s \in Nat, u \in Nat : s + 1 = sending[p] /\ u = sent[p]
    <3>1. sending[p] \in Nat /\ sent[p] \in Nat /\ sending[p] > 0
      BY <1>3, BInvFacts, Zenon DEF Sent
    <3>2. sending[p] - 1 \in Nat /\ (sending[p] - 1) + 1 = sending[p]
      BY <3>1
    <3>. QED BY <3>1, <3>2, Zenon
  <2>2. /\ sending' = [sending EXCEPT ![p] = s] /\ sent' = [sent EXCEPT ![p] = u + 1]
        /\ UNCHANGED <<pc, posted, filled, used_cons_idx, hand, call, n_objs>>
    <3>1. sending[p] - 1 = s
      BY <2>1
    <3>. QED BY <1>3, <2>1, <3>1, Zenon DEF Sent
  <2>3. BTypes'
    BY <2>2 DEF BInv, BTypes
  <2>4. BBounds'
    <3>1. ASSUME NEW q \in Ports PROVE sending'[q] + sent'[q] <= TX_DESCS /\ sent[q] <= sent'[q]
      <4>1. sending[q] \in Nat /\ sent[q] \in Nat /\ sending[q] + sent[q] <= TX_DESCS /\ TX_DESCS \in Nat
        BY BInvFacts, Zenon DEF BInv, BBounds
      <4>2. /\ sending'[q] = IF q = p THEN s ELSE sending[q]
            /\ sent'[q] = IF q = p THEN u + 1 ELSE sent[q]
        BY <2>2, Zenon DEF BInv, BTypes
      <4>. QED BY <2>1, <4>1, <4>2
    <3>2. ASSUME InCall PROVE call.num <= sent'[call.port]
      <4>1. PICK q \in Ports : q = call.port /\ call.num <= sent[q] /\ sent[q] <= sent'[q]
        BY <3>1, <3>2, Zenon DEF BInv, BBounds
      <4>2. sent[q] \in Nat /\ sent'[q] \in Nat /\ call.num \in Nat
        BY <2>3, BInvFacts, Zenon DEF BTypes
      <4>. QED BY <4>1, <4>2
    <3>. QED BY <1>1, <2>2, <3>1, <3>2, Zenon DEF BInv, BBounds, InCall
  <2>5. BuffersConserved'
    <3>0. sending \in [Ports -> Nat] /\ sent \in [Ports -> Nat] /\ IsFiniteSet(Ports)
      BY BInvFacts, Zenon DEF BInv, BTypes
    <3>1. Total(sending') = Total(sending) - sending[p] + s
      BY <2>2, <3>0, TotalChanges, ZenonT(40)
    <3>2. PICK v \in Nat : v = u + 1
      OBVIOUS
    <3>7. sent' = [sent EXCEPT ![p] = v]
      BY <2>2, <3>2
    <3>3. Total(sent') = Total(sent) - sent[p] + v
      BY <3>0, <3>7, TotalChanges, ZenonT(40)
    <3>4. Total(sending') + Total(sent') = Total(sending) + Total(sent) /\ Total(sending') \in Int /\ Total(sent') \in Int
      BY <2>1, <3>1, <3>2, <3>3, BInvFacts
    <3>5. common + Total(len) + posted + filled + hand + Total(sending) + Total(sent) = n_objs
      BY DEF BInv, BuffersConserved
    <3>6. common + Total(len) + posted + filled + hand + Total(sending') + Total(sent') = n_objs
      BY <3>4, <3>5, BInvFacts DEF BInv, BTypes
    <3>. QED BY <1>1, <2>2, <3>6, Zenon DEF BuffersConserved
  <2>. QED BY <1>1, <2>3, <2>4, <2>5 DEF BInv
<1>. QED BY <1>2, <1>3

LEMMA InitBInv == BInit => BInv
<1> SUFFICES ASSUME BInit PROVE BInv
  OBVIOUS
<1>1. IInv /\ n_objs = common
  BY MempoolAssumption DEF BInit, Init, IInv, TypeOK, CacheBounded, CacheWithinArray
<1>2. /\ common \in Nat /\ len \in [Lcores -> Nat] /\ \A l \in Lcores : len[l] = 0
      /\ sending \in [Ports -> Nat] /\ sent \in [Ports -> Nat]
      /\ \A p \in Ports : sending[p] = 0 /\ sent[p] = 0
      /\ posted = 0 /\ filled = 0 /\ used_cons_idx = 0 /\ hand = 0 /\ pc = "setup" /\ call = NoCall
  BY <1>1, Zenon DEF BInit, Init, IInv, TypeOK
<1>3. Total(len) = 0 /\ Total(sending) = 0 /\ Total(sent) = 0
  BY <1>2, TotalOfZero, Zenon
<1>4. BTypes
  BY <1>1, <1>2, Zenon DEF BTypes, NoCall
<1>5. BBounds
  BY <1>2, BuffersAssumption DEF BBounds, InCall
<1>6. BuffersConserved
  BY <1>1, <1>2, <1>3 DEF BuffersConserved
<1>. QED BY <1>1, <1>4, <1>5, <1>6 DEF BInv

LEMMA BInductive == BSpec => []BInv
<1>1. BInv /\ [BNext]_allVars => BInv'
  <2> SUFFICES ASSUME BInv, [BNext]_allVars PROVE BInv'
    OBVIOUS
  <2>1. ASSUME UNCHANGED <<pool, user, queues, hand, call, n_objs>>,
               pc' \in {"setup", "poll", "refill"} \/ pc' = pc
        PROVE  BInv'
    <3>1. BTypes'
      BY <2>1, Zenon DEF BInv, BTypes, queues
    <3>2. InCall' => InCall
      BY <2>1 DEF InCall
    <3>3. InCall' => hand > 0 /\ call'.port \in Ports /\ call'.num <= sent[call'.port]
      BY <2>1, <3>2, Zenon DEF BInv, BBounds
    <3>. QED BY <2>1, <3>1, <3>3, TurnKeepsBInv, Zenon
  <2>2. ASSUME Worker PROVE BInv'
    <3>0. UNCHANGED n_objs
      BY <2>2 DEF Worker
    <3>1. CASE Setup \/ Refill
      BY <3>0, <3>1, RefillKeepsBInv DEF Setup, Refill
    <3>2. CASE SetupDone \/ RefillDone
      BY <2>1, <3>0, <3>2, Zenon DEF SetupDone, RefillDone
    <3>3. CASE Drop
      BY <3>0, <3>3, FreedKeepsBInv DEF Drop
    <3>4. ASSUME NEW p \in Ports, Transmit(p) PROVE BInv'
      <4>1. 1 \in Nat
        OBVIOUS
      <4>. QED BY <3>0, <3>4, <4>1, TryKeepsBInv DEF Transmit
    <3>5. CASE Refused
      <4>1. hand > 0 /\ call.port \in Ports /\ call.trial + 1 \in Nat
        BY <3>5, BInvFacts DEF Refused, BInv, BBounds, InCall
      <4>. QED BY <3>0, <3>5, <4>1, TryKeepsBInv, FreedKeepsBInv, ZenonT(40) DEF Refused
    <3>. QED BY ZenonT(40), <2>2, <3>0, <3>1, <3>2, <3>3, <3>4, <3>5, ReceiveKeepsBInv, ReclaimKeepsBInv, NeedKeepsBInv,
                EnqueuedKeepsBInv, Zenon DEF Worker
  <2>3. CASE UNCHANGED allVars
    BY <2>1, <2>3 DEF allVars
  <2>. QED BY <2>2, <2>3, CardsKeepBInv DEF BNext
<1>. QED BY <1>1, InitBInv, PTL DEF BSpec

\* Whatever the sizes of rings, bursts, caches and pool, and whenever the cards
\* take and give, no path through the worker loses or doubles a buffer.
THEOREM NoBufferIsLost == BSpec => []BuffersConserved
BY BInductive, PTL DEF BInv

\* Nor do the gets and puts of the drivers overrun a cache.
THEOREM DriversKeepCaches == BSpec => []CacheWithinArray
BY BInductive, PTL DEF BInv, IInv

\* What two caches hold, the others being empty.
LEMMA TwoCaches ==
  ASSUME BInv
  PROVE  Total(len) = len[worker] + Stranded /\ len[worker] \in Nat /\ Stranded \in Nat
<1>1. len \in [Lcores -> Nat] /\ worker \in Lcores /\ master \in Lcores /\ IsFiniteSet(Lcores)
  BY BInvFacts, Zenon DEF BInv, IInv, TypeOK
<1>2. len[worker] \in Nat /\ len[master] \in Nat /\ Total(len) \in Nat
  BY <1>1, BInvFacts, Zenon
<1>3. PICK f : f = [len EXCEPT ![worker] = 0]
  BY Zenon
<1>4. f \in [Lcores -> Nat] /\ \A l \in Lcores : f[l] = IF l = worker THEN 0 ELSE len[l]
  BY <1>1, <1>3
<1>5. Total(f) = Total(len) - len[worker] + 0
  <2>1. PICK z \in Nat : z = 0
    OBVIOUS
  <2>2. f = [len EXCEPT ![worker] = z]
    BY <1>3, <2>1
  <2>3. Total(f) = Total(len) - len[worker] + z
    BY <1>1, <2>2, TotalChanges, ZenonT(40)
  <2>. QED BY <2>1, <2>3
<1>6. CASE master = worker
  <2>1. \A l \in Lcores : f[l] = 0
    BY <1>4, <1>6, Zenon DEF BInv, BBounds
  <2>2. Total(f) = 0
    BY <1>4, <2>1, TotalOfZero
  <2>. QED BY <1>2, <1>5, <1>6, <2>2 DEF Stranded
<1>7. CASE master # worker
  <2>1. PICK g : g = [f EXCEPT ![master] = 0]
    BY Zenon
  <2>2. g \in [Lcores -> Nat] /\ \A l \in Lcores : g[l] = 0
    BY <1>4, <2>1, Zenon DEF BInv, BBounds
  <2>3. Total(g) = 0
    BY <2>2, TotalOfZero
  <2>4. Total(g) = Total(f) - f[master] + 0 /\ f[master] = len[master]
    <3>1. PICK z \in Nat : z = 0
      OBVIOUS
    <3>2. g = [f EXCEPT ![master] = z]
      BY <2>1, <3>1
    <3>3. Total(g) = Total(f) - f[master] + z
      BY <1>1, <1>4, <3>2, TotalChanges, ZenonT(40)
    <3>4. f[master] = len[master]
      BY <1>1, <1>4, <1>7
    <3>. QED BY <3>1, <3>3, <3>4
  <2>5. Stranded = len[master]
    BY <1>7 DEF Stranded
  <2>6. PICK a, b, c \in Nat : a = len[worker] /\ b = len[master] /\ c = Total(len)
    BY <1>2
  <2>7. c - a - b = 0
    BY <1>5, <2>3, <2>4, <2>6
  <2>8. c = a + b
    BY <2>7
  <2>. QED BY <1>2, <2>5, <2>6, <2>8, Zenon
<1>. QED BY <1>6, <1>7, Zenon

\* A pool larger than the receive ring, a burst, the transmit rings and the
\* buffers left in the master's cache never leaves a descriptor unfilled.
THEOREM RefillNeverFails == BSpec => []RefillSucceeds
<1>1. BInv => RefillSucceeds
  <2> SUFFICES ASSUME BInv, n_objs > RX_DESCS + MAX_BURST_SIZE + Cardinality(Ports) * TX_DESCS + Stranded,
                      posted + filled < RX_DESCS, Fails(worker, 1)
               PROVE  FALSE
    BY Zenon DEF RefillSucceeds, RefillFails
  <2>1. common = 0 /\ len[worker] <= 1
    <3>1. common = 0
      BY BInvFacts DEF Fails
    <3>2. len[worker] \in Nat /\ cache_size \in Nat \ {0} /\ (len[worker] <= cache_size \/ len[worker] < flushthresh)
      BY MempoolAssumption, BInvFacts DEF BInv, IInv, TypeOK, CacheBounded
    <3>3. CASE 1 >= cache_size
      <4>1. cache_size = 1 /\ 2 * flushthresh <= 3 * cache_size /\ flushthresh \in Nat
        BY <3>2, <3>3, FlushThreshold
      <4>. QED BY <3>1, <3>2, <4>1
    <3>4. CASE len[worker] < 1
      BY <3>1, <3>2, <3>4
    <3>. QED BY <3>3, <3>4, Zenon DEF Fails, Direct
  <2>2. Total(len) = len[worker] + Stranded /\ len[worker] \in Nat /\ Stranded \in Nat
    BY TwoCaches, Zenon
  <2>3. Total(sending) + Total(sent) <= Cardinality(Ports) * TX_DESCS /\ Cardinality(Ports) * TX_DESCS \in Nat
    <3>1. sending \in [Ports -> Nat] /\ sent \in [Ports -> Nat] /\ IsFiniteSet(Ports) /\ TX_DESCS \in Nat
      BY BInvFacts, Zenon DEF BInv, BTypes
    <3>2. Total(sending) + Total(sent) <= Cardinality(Ports) * TX_DESCS
      BY <3>1, TotalsBounded, Zenon DEF BInv, BBounds
    <3>3. Cardinality(Ports) \in Nat
      BY <3>1, FS_CardinalityType
    <3>. QED BY <3>1, <3>2, <3>3
  <2>4. common + Total(len) + posted + filled + hand + Total(sending) + Total(sent) = n_objs
    BY Zenon DEF BInv, BuffersConserved
  <2>5. hand <= MAX_BURST_SIZE /\ hand \in Nat /\ posted \in Nat /\ filled \in Nat /\ n_objs \in Nat
    BY Zenon DEF BInv, BBounds, BTypes
  <2>6. PICK x \in Nat : x = Cardinality(Ports) * TX_DESCS
    BY <2>3
  <2>7. /\ n_objs > RX_DESCS + MAX_BURST_SIZE + x + Stranded
        /\ Total(sending) + Total(sent) <= x
    BY <2>3, <2>6, Zenon
  <2>. QED BY <2>1, <2>2, <2>4, <2>5, <2>7, BInvFacts
<1>. QED BY <1>1, BInductive, PTL

(***************************************************************************)
(* The sizes of the router (dpdk_init.c, router.h).  What the master's     *)
(* cache keeps after virtio_dev_rx_queue_setup follows from the number of  *)
(* buffers the loop takes: the first fills the cache, the others come out  *)
(* of it, and of a cache as large as the ring one buffer is left.          *)
(***************************************************************************)
RouterSizes ==
  /\ PoolSizes = {2047} /\ cache_size = 256 /\ RX_DESCS = 256 /\ TX_DESCS = 256 /\ MAX_BURST_SIZE = 32
  /\ Cardinality(Ports) <= 6

\* What the setup depends on.
CacheIsRing == RX_DESCS = cache_size /\ cache_size > 1 /\ \A n \in PoolSizes : n > cache_size

\* k descriptors have a buffer.
SetUp(k) == \/ k = 0 /\ len[master] = 0 /\ common = n_objs
            \/ k >= 1 /\ len[master] = cache_size + 1 - k

SInv ==
  /\ BInv /\ n_objs \in PoolSizes
  /\ master # worker => IF pc = "setup" THEN SetUp(posted + filled) ELSE len[master] <= 1

LEMMA SetupStep ==
  ASSUME CacheIsRing, BInv, n_objs \in PoolSizes, NEW k \in Nat, k < cache_size, SetUp(k), Gets(master, 1)
  PROVE  len'[master] = cache_size + 1 - (k + 1)
<1>1. master \in Lcores /\ len \in [Lcores -> Nat] /\ common \in Nat /\ len[master] \in Nat /\ n_objs \in Nat
  BY BInvFacts, Zenon DEF BInv, IInv, TypeOK, BTypes
<1>0. cache_size \in Nat /\ cache_size > 1 /\ n_objs > cache_size
  BY MempoolAssumption DEF CacheIsRing
<1>2. CASE k = 0 /\ len[master] = 0 /\ common = n_objs
  <2>1. ~FromCache(master, 1) /\ ~FromRing(master, 1)
    BY <1>0, <1>1, <1>2 DEF FromCache, FromRing, Direct
  <2>2. len' = [len EXCEPT ![master] = len[master] + (1 + (cache_size - len[master])) - 1]
    BY <2>1, Zenon DEF Gets, Backfill
  <2>3. len'[master] = len[master] + (1 + (cache_size - len[master])) - 1
    BY <1>1, <2>2, Zenon
  <2>. QED BY <1>0, <1>1, <1>2, <2>3
<1>3. CASE k >= 1 /\ len[master] = cache_size + 1 - k
  <2>1. ~Backfill(master, 1) /\ ~FromRing(master, 1)
    BY <1>0, <1>1, <1>3 DEF Backfill, FromRing, Direct
  <2>2. len' = [len EXCEPT ![master] = len[master] - 1]
    BY <2>1, Zenon DEF Gets, FromCache
  <2>3. len'[master] = len[master] - 1
    BY <1>1, <2>2, Zenon
  <2>. QED BY <1>0, <1>1, <1>3, <2>3
<1>. QED BY <1>2, <1>3, Zenon DEF SetUp

\* The setup of the queue does not end before every descriptor has a buffer.
LEMMA SetupEnds ==
  ASSUME CacheIsRing, BInv, n_objs \in PoolSizes, SetUp(posted + filled), Refilled(master)
  PROVE  len[master] = 1
<1>1. /\ len[master] \in Nat /\ common \in Nat /\ n_objs \in Nat
      /\ posted \in Nat /\ filled \in Nat /\ posted + filled <= RX_DESCS
  BY BInvFacts, Zenon DEF BInv, IInv, TypeOK, BTypes, BBounds
<1>0. cache_size \in Nat /\ cache_size > 1 /\ n_objs > cache_size /\ RX_DESCS = cache_size
  BY MempoolAssumption DEF CacheIsRing
<1>2. ~Fails(master, 1)
  BY <1>0, <1>1 DEF SetUp, Fails, Direct
<1>. QED BY <1>0, <1>1, <1>2 DEF Refilled, SetUp

\* After the setup the worker leaves the master's cache alone.
LEMMA MasterRests ==
  ASSUME BInv, master # worker, [BNext]_allVars, pc # "setup"
  PROVE  len'[master] = len[master] /\ pc' # "setup"
<1>0. master \in Lcores /\ worker \in Lcores /\ pc \in {"setup", "poll", "refill", "clean", "reclaim"}
  BY BInvFacts, Zenon DEF BInv, BTypes
<1>1. ASSUME UNCHANGED pool PROVE len'[master] = len[master]
  BY <1>1, Zenon DEF pool
<1>2. ASSUME Gets(worker, 1) \/ Puts(worker, 1), UNCHANGED user PROVE len'[master] = len[master]
  BY <1>0, <1>2, GetsOne, PutsOne, Zenon DEF BInv
<1>3. CASE Setup \/ SetupDone
  BY <1>3, Zenon DEF Setup, SetupDone
<1>4. CASE Receive
  BY <1>1, <1>4, Zenon DEF Receive
<1>5. CASE Refill
  BY <1>2, <1>5, Zenon DEF Refill, RefillOne
<1>6. CASE RefillDone
  BY <1>1, <1>6, Zenon DEF RefillDone
<1>7. CASE Drop \/ (Refused /\ Freed)
  BY <1>2, <1>7, Zenon DEF Drop, Freed
<1>8. ASSUME NEW p, NEW t, Try(p, t) PROVE len'[master] = len[master] /\ pc' # "setup"
  BY <1>1, <1>8, Zenon DEF Try
<1>9. CASE ReclaimOne
  BY <1>2, <1>9, Zenon DEF ReclaimOne
<1>10. CASE Need \/ Enqueued
  BY <1>1, <1>10, Zenon DEF Need, Enqueued
<1>11. CASE Fill \/ \E p \in Ports : Sent(p)
  BY <1>1, <1>11, Zenon DEF Fill, Sent
<1>12. CASE UNCHANGED allVars
  BY <1>1, <1>12, Zenon DEF allVars
<1>. QED BY <1>3, <1>4, <1>5, <1>6, <1>7, <1>8, <1>9, <1>10, <1>11, <1>12, ZenonT(40) DEF BNext, Worker, Transmit, Refused

LEMMA SInductive == ASSUME CacheIsRing PROVE BSpec => []SInv
<1>1. BInit => SInv
  <2> SUFFICES ASSUME BInit PROVE SInv
    OBVIOUS
  <2>1. /\ BInv /\ n_objs \in PoolSizes /\ common = n_objs
        /\ pc = "setup" /\ posted = 0 /\ filled = 0 /\ len[master] = 0
    BY InitBInv, BuffersAssumption DEF BInit, Init
  <2>2. posted + filled = 0
    BY <2>1
  <2>. QED BY <2>1, <2>2, Zenon DEF SInv, SetUp
<1>2. SInv /\ BInv' /\ [BNext]_allVars => SInv'
  <2> SUFFICES ASSUME SInv, BInv', [BNext]_allVars PROVE SInv'
    OBVIOUS
  <2>1. BInv /\ n_objs \in PoolSizes /\ n_objs' = n_objs
    BY ZenonT(40) DEF SInv, BNext, Worker, Fill, Sent, allVars
  <2>2. SUFFICES ASSUME master # worker
                 PROVE  IF pc' = "setup" THEN SetUp(posted + filled)' ELSE len'[master] <= 1
    BY <2>1, Zenon DEF SInv
  <2>3. CASE pc # "setup"
    BY <2>1, <2>2, <2>3, MasterRests, Zenon DEF SInv
  <2>4. CASE pc = "setup"
    <3>1. SetUp(posted + filled) /\ posted \in Nat /\ filled \in Nat /\ RX_DESCS = cache_size
      BY <2>1, <2>2, <2>4, Zenon DEF SInv, BInv, BTypes, CacheIsRing
    <3>2. CASE Setup
      <4>1. pc' = pc /\ posted' = posted + 1 /\ filled' = filled /\ posted + filled < RX_DESCS /\ Gets(master, 1)
        BY <3>2, Zenon DEF Setup, RefillOne
      <4>2. PICK k \in Nat : k = posted + filled /\ k < cache_size /\ posted' + filled' = k + 1 /\ k + 1 >= 1
        BY <3>1, <4>1
      <4>3. len'[master] = cache_size + 1 - (k + 1)
        BY <2>1, <3>1, <4>1, <4>2, SetupStep, Zenon
      <4>. QED BY <2>4, <4>1, <4>2, <4>3, Zenon DEF SetUp
    <3>3. CASE SetupDone
      <4>1. pc' = "poll" /\ Refilled(master) /\ UNCHANGED pool
        BY <3>3, Zenon DEF SetupDone
      <4>2. len'[master] = 1
        BY <2>1, <3>1, <4>1, SetupEnds, Zenon DEF pool
      <4>3. len'[master] <= 1
        BY <4>2
      <4>. QED BY <4>1, <4>3, Zenon
    <3>4. CASE Fill
      <4>1. posted' + filled' = posted + filled /\ UNCHANGED <<pool, pc>>
        BY <3>1, <3>4 DEF Fill
      <4>2. len' = len /\ common' = common /\ pc' = "setup"
        BY <2>4, <4>1, Zenon DEF pool
      <4>. QED BY <2>1, <3>1, <4>1, <4>2, Zenon DEF SetUp
    <3>5. CASE (\E p \in Ports : Sent(p)) \/ UNCHANGED allVars
      <4>1. len' = len /\ common' = common /\ pc' = "setup" /\ posted' = posted /\ filled' = filled
        BY <2>4, <3>5, Zenon DEF Sent, allVars, queues, pool
      <4>. QED BY <2>1, <3>1, <4>1, Zenon DEF SetUp
    <3>6. ~(Receive \/ Refill \/ RefillDone \/ Drop \/ ReclaimOne \/ Need \/ Enqueued \/ Refused)
          /\ \A p \in Ports : ~Transmit(p)
      BY <2>4, Zenon DEF Receive, Refill, RefillDone, Drop, ReclaimOne, Need, Enqueued, Refused, Transmit
    <3>. QED BY <3>2, <3>3, <3>4, <3>5, <3>6, ZenonT(40) DEF BNext, Worker
  <2>. QED BY <2>3, <2>4, Zenon
<1>. QED BY <1>1, <1>2, BInductive, PTL DEF BSpec

\* The pool of 2047 buffers that create_mempool gives each receive queue is enough
\* for a router of up to six ports, with the rings, caches and bursts it has: no
\* refill of a receive ring ever finds the pool empty, wherever the packets go.
THEOREM RouterPoolSuffices == ASSUME RouterSizes PROVE BSpec => []~RefillFails
<1>0. CacheIsRing
  BY DEF RouterSizes, CacheIsRing
<1>1. SInv /\ RefillSucceeds => ~RefillFails
  <2> SUFFICES ASSUME SInv, RefillFails
               PROVE  n_objs > RX_DESCS + MAX_BURST_SIZE + Cardinality(Ports) * TX_DESCS + Stranded
    BY Zenon DEF RefillSucceeds
  <2>1. BInv /\ n_objs \in PoolSizes /\ pc = "refill"
    BY Zenon DEF SInv, RefillFails
  <2>2. master # worker => len[master] <= 1
    BY <2>1, Zenon DEF SInv
  <2>3. Stranded \in Nat /\ Stranded <= 1
    <3>1. Stranded \in Nat
      BY <2>1, TwoCaches, Zenon
    <3>. QED BY <2>2, <3>1 DEF Stranded
  <2>4. Cardinality(Ports) \in Nat
    BY BuffersAssumption, FS_CardinalityType
  <2>5. PICK c \in Nat : c = Cardinality(Ports) /\ c <= 6
    BY <2>4 DEF RouterSizes
  <2>6. n_objs = 2047 /\ RX_DESCS = 256 /\ TX_DESCS = 256 /\ MAX_BURST_SIZE = 32
    BY <2>1 DEF RouterSizes
  <2>7. PICK x \in Nat : x = c * TX_DESCS /\ x <= 1536
    BY <2>5, <2>6
  <2>8. n_objs > RX_DESCS + MAX_BURST_SIZE + x + Stranded
    BY <2>3, <2>6, <2>7
  <2>9. x = Cardinality(Ports) * TX_DESCS
    BY <2>5, <2>7
  <2>. QED BY ONLY <2>8, <2>9, Zenon
<1>. QED BY <1>0, <1>1, SInductive, RefillNeverFails, PTL
=============================================================================
