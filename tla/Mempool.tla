------------------------------ MODULE Mempool ------------------------------
(***************************************************************************)
(* A mempool of rte_mempool.h: a common ring of free objects and a cache   *)
(* of them per lcore.  Objects are counted, not told apart: that the ring  *)
(* neither loses nor doubles one, and that an enqueue is never refused, is *)
(* what module Ring is about, and here its calls are steps.                *)
(***************************************************************************)
EXTENDS Integers

CONSTANTS
  Lcores,
  PoolSizes,      \* numbers of objects a pool is created with
  cache_size,     \* objects a cache is refilled to
  MAX_SIZE,       \* RTE_MEMPOOL_CACHE_MAX_SIZE
  Bulks           \* numbers of objects of a call

\* CALC_CACHE_FLUSHTHRESH
flushthresh == (cache_size * 3) \div 2

\* The last two conjuncts are checked by rte_mempool_create_empty.
ASSUME MempoolAssumption ==
  /\ PoolSizes \subseteq Nat /\ MAX_SIZE \in Nat
  /\ Bulks \subseteq Nat \ {0}
  /\ cache_size \in 1 .. MAX_SIZE
  /\ \A n \in PoolSizes : flushthresh <= n

VARIABLES
  common,         \* objects in the ring
  len,            \* Lcores -> objects in the lcore's cache
  user,           \* Lcores -> objects the lcore's user has
  high            \* Lcores -> end of the part of cache->objs ever written

pool == <<common, len, high>>
vars == <<pool, user>>

Init ==
  /\ common \in PoolSizes
  /\ len = [l \in Lcores |-> 0]
  /\ user = [l \in Lcores |-> 0]
  /\ high = [l \in Lcores |-> 0]

Higher(l, i) == high' = [high EXCEPT ![l] = IF @ < i THEN i ELSE @]

\* The cache is refilled and serves the call.
Backfill(l, n) ==
  LET req == n + (cache_size - len[l])
  IN  /\ n < cache_size /\ len[l] < n /\ req <= common
      /\ common' = common - req
      /\ len' = [len EXCEPT ![l] = @ + req - n]
      /\ Higher(l, len[l] + req)

FromCache(l, n) ==
  /\ n < cache_size /\ len[l] >= n
  /\ len' = [len EXCEPT ![l] = @ - n]
  /\ UNCHANGED <<common, high>>

\* The call is too large for the cache, or the ring for a refill.
Direct(l, n) == n >= cache_size \/ (len[l] < n /\ n + (cache_size - len[l]) > common)

FromRing(l, n) ==
  /\ Direct(l, n) /\ n <= common
  /\ common' = common - n
  /\ UNCHANGED <<len, high>>

\* __mempool_generic_get returns objects, or -ENOENT.
Gets(l, n) == Backfill(l, n) \/ FromCache(l, n) \/ FromRing(l, n)
Fails(l, n) == Direct(l, n) /\ n > common

Bypasses(n) == n > MAX_SIZE

FlushesMutant(l, n) == FALSE
Flushes(l, n) == len[l] + n >= flushthresh

\* __mempool_generic_put
Puts(l, n) ==
  IF Bypasses(n)
    THEN common' = common + n /\ UNCHANGED <<len, high>>
    ELSE /\ IF Flushes(l, n)
              THEN /\ common' = common + (len[l] + n - cache_size)
                   /\ len' = [len EXCEPT ![l] = cache_size]
              ELSE len' = [len EXCEPT ![l] = @ + n] /\ UNCHANGED common
         /\ Higher(l, len[l] + n)

Get(l, n) == Gets(l, n) /\ user' = [user EXCEPT ![l] = @ + n]
Put(l, n) == n <= user[l] /\ Puts(l, n) /\ user' = [user EXCEPT ![l] = @ - n]

\* What the users of the mempool do between calls: one lcore hands an object to
\* another.
Pass(l, k) ==
  /\ l # k /\ user[l] > 0
  /\ user' = [user EXCEPT ![l] = @ - 1, ![k] = @ + 1]
  /\ UNCHANGED pool

Next ==
  \/ \E l \in Lcores, n \in Bulks : Get(l, n) \/ Put(l, n)
  \/ \E l, k \in Lcores : Pass(l, k)

Spec == Init /\ [][Next]_vars
-----------------------------------------------------------------------------
TypeOK ==
  /\ common \in Nat
  /\ len \in [Lcores -> Nat]
  /\ user \in [Lcores -> Nat]
  /\ high \in [Lcores -> Nat]

\* cache->objs has 3 * RTE_MEMPOOL_CACHE_MAX_SIZE entries: no order of gets and
\* puts, of any bulk, writes behind it, although a put stores the objects
\* before it looks at the threshold.
CacheWithinArray == \A l \in Lcores : high[l] <= 3 * MAX_SIZE

\* Outside a call a cache keeps less than its threshold, or the size it is
\* flushed to, so the objects the other lcores cannot reach are bounded.
CacheBounded == \A l \in Lcores : len[l] <= cache_size \/ len[l] < flushthresh
=============================================================================
