-------------------------- MODULE RoutingTableFib --------------------------
(***************************************************************************)
(* RoutingTable implements Fib, and gives a build up only for want of      *)
(* long tables.  Both arguments count blocks, so they stand apart from     *)
(* RoutingTableProofs: no other proof about the table needs cardinalities. *)
(***************************************************************************)
EXTENDS RoutingTableProofs, FiniteSetTheorems

(***************************************************************************)
(* When the long tables run out: the argument counts blocks.               *)
(***************************************************************************)
\* There are as many long blocks among the routes written as tables handed out.
LEMMA LongBlocksCount ==
  ASSUME IInv, Filled
  PROVE  /\ tbllong_table_idx \in Nat /\ tbllong_table_idx <= TBLLONG_TABLE_SIZE
         /\ IsFiniteSet(LongBlocks(nh_id)) /\ Cardinality(LongBlocks(nh_id)) = tbllong_table_idx
<1> DEFINE long == {y \in Indexes : tbl24_table[y].is_long}
           id(y) == tbl24_table[y].next_id
           t == tbllong_table_idx
           T == 0 .. t - 1
           g == [n \in T |-> CHOOSE y \in long : id(y) = n]
<1>1. t \in Nat /\ t <= TBLLONG_TABLE_SIZE
  BY SizeAssumption DEF IInv, TypeOK
<1>2. /\ long = LongBlocks(nh_id)
      /\ {id(y) : y \in long} = T
      /\ \A y, z \in long : id(y) = id(z) => y = z
  BY DEF IInv, OneLongTablePerBlock, Filled
<1>3. IsFiniteSet(T) /\ Cardinality(T) = t
  BY <1>1, FS_Interval
<1> HIDE DEF long, t, T, id
<1>4. \A n \in T : g[n] \in long /\ id(g[n]) = n
  BY <1>2, Zenon
<1>5. g \in [T -> long]
  BY <1>4, Zenon
<1>6. \A y \in long : id(y) \in T /\ g[id(y)] = y
  BY <1>2, <1>4, Zenon
<1> HIDE DEF g
<1>7. g \in Surjection(T, long) /\ g \in Injection(T, long)
  <2>1. \A m, n \in T : g[m] = g[n] => m = n
    BY <1>4, Zenon
  <2>2. \A y \in long : \E n \in T : g[n] = y
    BY <1>6, Zenon
  <2> QED BY <1>5, <2>1, <2>2 DEF Surjection, Injection, IsInjective
<1>8. IsFiniteSet(long) /\ Cardinality(long) = t
  BY <1>3, <1>7, FS_Surjection, ZenonT(40)
<1> QED BY <1>1, <1>2, <1>8, ZenonT(40) DEF t

\* The step that gives up a build for want of a long table.
LEMMA FullStep ==
  ASSUME IInv, pc = "building", nh_id < nh_id_to_info_idx, Prefix(nh_id) > P,
         build_route_gt_24_full, UNCHANGED nh_id_to_info
  PROVE  BuildExitIsExhaustion'
<1> DEFINE x == RouteIndex(nh_id)
           t == tbllong_table_idx
<1>1. ~tbl24_table[x].is_long /\ t >= TBLLONG_TABLE_SIZE /\ nh_id' = nh_id
  BY SizeAssumption DEF build_route_gt_24_full, LongTablesLeft, IInv, TypeOK
<1>2. t \in Nat /\ nh_id \in Nat /\ Filled
  BY Iteration, SizeAssumption DEF IInv, TypeOK, Filled
<1>3. IsFiniteSet(LongBlocks(nh_id)) /\ Cardinality(LongBlocks(nh_id)) = t
  BY <1>2, LongBlocksCount, ZenonT(40)
<1>4. x \notin LongBlocks(nh_id)
  <2>1. LongBlocks(nh_id) = {y \in Indexes : tbl24_table[y].is_long}
    BY <1>2 DEF IInv, OneLongTablePerBlock, Filled
  <2> QED BY <1>1, <2>1, ZenonT(40)
<1> HIDE DEF t, x
<1>5. LongBlocks(nh_id + 1) = LongBlocks(nh_id) \cup {x}
  BY <1>2, LongBlocksStep, ZenonT(40) DEF x
<1>6. Cardinality(LongBlocks(nh_id + 1)) = t + 1
  BY <1>3, <1>4, <1>5, FS_AddElement
<1>7. LongBlocks(nh_id + 1)' = LongBlocks(nh_id + 1)
  BY <1>1 DEF LongBlocks, RouteIndex, Prefix, IpAddr
<1>8. t + 1 > TBLLONG_TABLE_SIZE
  BY <1>1, <1>2, SizeAssumption
<1> QED BY <1>6, <1>7, <1>8 DEF BuildExitIsExhaustion

\* _build_route_gt_24_idx reports "tbllong table size is exceeded" only when
\* the routes up to this one spread over more blocks than there are tables.
THEOREM ExhaustionIsReal == Spec => []BuildExitIsExhaustion
<1>1. Init => BuildExitIsExhaustion
  BY DEF Init, BuildExitIsExhaustion
<1>2. IInv /\ BuildExitIsExhaustion /\ [Next]_vars => BuildExitIsExhaustion'
  <2> SUFFICES ASSUME IInv, BuildExitIsExhaustion, [Next]_vars, pc' = "build_exit"
               PROVE  BuildExitIsExhaustion'
    BY DEF BuildExitIsExhaustion
  <2>1. CASE UNCHANGED vars
    <3>1. pc' = pc /\ nh_id' = nh_id /\ nh_id_to_info' = nh_id_to_info
      BY <2>1, ZenonT(40) DEF vars
    <3> QED BY <3>1 DEF BuildExitIsExhaustion, LongBlocks, RouteIndex, Prefix, IpAddr
  <2>2. CASE BuildRoute
    <3>1. Prefix(nh_id) > P /\ build_route_gt_24_full
      BY <2>2 DEF BuildRoute, build_route_lte_24, build_route_lte_24_outside,
                  build_route_gt_24_alloc, build_route_gt_24_long
    <3> QED BY <2>2, <3>1, FullStep, ZenonT(40) DEF BuildRoute, RoutesLeft
  <2>3. CASE \/ \E a \in RouteAddrs, p \in RoutePrefixes, h \in NextHops : AddRoute(a, p, h)
             \/ AddRouteFull \/ BuildStart \/ BuildEnd
    BY <2>3 DEF AddRoute, AddRouteFull, BuildStart, BuildEnd
  <2> QED BY <2>1, <2>2, <2>3 DEF Next
<1> QED BY <1>1, <1>2, Invariance, PTL DEF Spec
-----------------------------------------------------------------------------
(***************************************************************************)
(* The table implements Fib.  Pending and Answers are what Fib sees of it. *)
(***************************************************************************)
Pending == [i \in 1 .. nh_id_to_info_idx |-> RouteOf(nh_id_to_info[i - 1])]

Answers == IF pc = "ready" THEN [a \in Addr |-> get_next_hop(a)] ELSE Unspecified

\* The routes written so far could be written.
Digested == pc = "building" => \A i \in 0 .. nh_id - 1 : Digestible(nh_id_to_info[i])

LEMMA PendingIs ==
  ASSUME TypeOK
  PROVE  /\ nh_id_to_info_idx \in Nat /\ INVALID_NH_ID \in Nat /\ nh_id_to_info_idx <= INVALID_NH_ID
         /\ DOMAIN Pending = 1 .. nh_id_to_info_idx /\ Len(Pending) = nh_id_to_info_idx
         /\ \A i \in 0 .. nh_id_to_info_idx - 1 :
              /\ i \in NhIds /\ i + 1 \in 1 .. nh_id_to_info_idx
              /\ Pending[i + 1].prefix = Prefix(i) /\ Pending[i + 1].ip_addr = IpAddr(i)
              /\ Pending[i + 1].next_hop = nh_id_to_info[i].next_hop
         /\ \A j \in 1 .. nh_id_to_info_idx : j - 1 \in 0 .. nh_id_to_info_idx - 1 /\ (j - 1) + 1 = j
<1>1. /\ nh_id_to_info_idx \in Nat /\ INVALID_NH_ID \in Nat /\ nh_id_to_info_idx <= INVALID_NH_ID
      /\ NhIds = 0 .. INVALID_NH_ID
  BY SizeAssumption DEF TypeOK, NhIds, INVALID_NH_ID
<1>2. PICK n \in Nat : n = nh_id_to_info_idx
  BY <1>1
<1>3. \A i \in 0 .. n - 1 : i \in 0 .. INVALID_NH_ID /\ i + 1 \in 1 .. n /\ (i + 1) - 1 = i
  BY <1>1, <1>2
<1>4. \A j \in 1 .. n : j - 1 \in 0 .. n - 1 /\ (j - 1) + 1 = j
  OBVIOUS
<1>5. DOMAIN Pending = 1 .. n /\ Len(Pending) = n
  BY <1>2 DEF Pending
<1>6. ASSUME NEW i \in 0 .. n - 1
      PROVE  Pending[i + 1] = RouteOf(nh_id_to_info[i])
  BY <1>2, <1>3, Zenon DEF Pending
<1>7. ASSUME NEW i \in 0 .. n - 1
      PROVE  /\ Pending[i + 1].prefix = Prefix(i) /\ Pending[i + 1].ip_addr = IpAddr(i)
             /\ Pending[i + 1].next_hop = nh_id_to_info[i].next_hop
  <2>1. \A x : RouteOf(x).prefix = x.prefix /\ RouteOf(x).ip_addr = x.ip_addr /\ RouteOf(x).next_hop = x.next_hop
    BY DEF RouteOf
  <2> QED BY <1>6, <2>1, Zenon DEF Prefix, IpAddr
<1> QED BY <1>1, <1>2, <1>3, <1>4, <1>5, <1>7, ZenonT(40)

\* The long match of Fib is the one the table resolves to.
LEMMA MatchIs ==
  ASSUME TypeOK, NEW a \in Addr, IsLongestMatch(LookupId(a), nh_id_to_info_idx, a)
  PROVE  F!LongestMatch(Pending, a) = get_next_hop(a)
<1> DEFINE id == LookupId(a)
           covering == {i \in DOMAIN Pending : F!Covers(Pending[i], a)}
           Beats(i, j) == Pending[j].prefix < Pending[i].prefix \/ (Pending[j].prefix = Pending[i].prefix /\ j <= i)
           Best(i) == \A j \in covering : Beats(i, j)
<1>1. PICK n \in Nat : n = nh_id_to_info_idx /\ n <= INVALID_NH_ID /\ INVALID_NH_ID \in Nat
  BY PendingIs, Zenon
<1>2. \A i \in 0 .. n - 1 : Prefix(i) \in Nat
  <2>1. \A i \in NhIds : Prefix(i) \in 0 .. W
    BY DEF TypeOK, NextHopInfo, Prefix
  <2>2. \A i \in 0 .. n - 1 : Prefix(i) \in 0 .. W
    BY <1>1, <2>1, PendingIs, Zenon
  <2> QED BY <2>2, SizeAssumption
<1>3. ASSUME NEW i \in 0 .. n - 1 PROVE i + 1 \in covering <=> Covers(i, a)
  BY <1>1, PendingIs, Zenon DEF Covers, F!Covers
<1>4. ASSUME NEW j \in covering PROVE j - 1 \in 0 .. n - 1 /\ (j - 1) + 1 = j /\ Covers(j - 1, a) /\ j \in 1 .. n
  <2>1. j \in 1 .. n
    BY <1>1, PendingIs, ZenonT(40)
  <2>2. j - 1 \in 0 .. n - 1 /\ (j - 1) + 1 = j
    BY <1>1, <2>1, PendingIs, ZenonT(40)
  <2> QED BY <1>3, <2>1, <2>2, ZenonT(40)
<1>5. F!LongestMatch(Pending, a) = IF covering = {} THEN NULL ELSE Pending[CHOOSE i \in covering : Best(i)].next_hop
  BY Zenon DEF F!LongestMatch
<1>6. CASE id = INVALID_NH_ID /\ \A i \in 0 .. n - 1 : ~Covers(i, a)
  <2>1. covering = {}
    BY <1>4, <1>6, Zenon
  <2> QED BY <1>5, <1>6, <2>1, ZenonT(40) DEF get_next_hop
<1>7. CASE id \in 0 .. n - 1 /\ Covers(id, a) /\ \A i \in 0 .. n - 1 : Covers(i, a) => Preferred(id, i)
  <2> HIDE DEF id
  <2>1. id # INVALID_NH_ID
    BY <1>1, <1>7
  <2>2. id + 1 \in covering /\ Pending[id + 1].prefix = Prefix(id)
        /\ Pending[id + 1].next_hop = nh_id_to_info[id].next_hop
    BY <1>1, <1>3, <1>7, PendingIs, ZenonT(40)
  <2>3. \A j \in covering : Pending[j].prefix = Prefix(j - 1)
    <3> SUFFICES ASSUME NEW j \in covering PROVE Pending[j].prefix = Prefix(j - 1)
      OBVIOUS
    <3>1. j - 1 \in 0 .. n - 1 /\ (j - 1) + 1 = j
      BY <1>4, Zenon
    <3>2. Pending[(j - 1) + 1].prefix = Prefix(j - 1)
      BY <1>1, <3>1, PendingIs, Zenon
    <3> QED BY <3>1, <3>2, Zenon
  <2>4. ASSUME NEW j \in covering PROVE Beats(id + 1, j) /\ (Beats(j, id + 1) => j = id + 1)
    <3>1. j - 1 \in 0 .. n - 1 /\ Covers(j - 1, a) /\ j \in 1 .. n
      BY <1>4, Zenon
    <3>2. Preferred(id, j - 1) /\ Pending[j].prefix = Prefix(j - 1)
      BY <1>7, <2>3, <3>1, ZenonT(40)
    <3>3. PICK p, q \in Nat : p = Prefix(id) /\ q = Prefix(j - 1)
      BY <1>2, <1>7, <3>1, ZenonT(40)
    <3>4. q < p \/ (q = p /\ j - 1 <= id)
      BY <3>2, <3>3, ZenonT(40) DEF Preferred
    <3>5. /\ q < p \/ (q = p /\ j <= id + 1)
          /\ p < q \/ (p = q /\ id + 1 <= j) => j = id + 1
      BY <1>7, <3>1, <3>4
    <3> QED BY <2>2, <3>2, <3>3, <3>5, ZenonT(40)
  <2> HIDE DEF covering, Beats
  <2>5. \A i \in covering : Best(i) <=> i = id + 1
    BY <2>2, <2>4, Zenon
  <2> HIDE DEF Best
  <2>6. (CHOOSE i \in covering : Best(i)) = id + 1
    BY <2>2, <2>5
  <2>7. covering # {}
    BY <2>2, Zenon
  <2>8. get_next_hop(a) = nh_id_to_info[id].next_hop
    BY <2>1, Zenon DEF get_next_hop, id
  <2> QED BY <1>5, <2>2, <2>6, <2>7, <2>8, ZenonT(40)
<1> QED BY <1>1, <1>6, <1>7, ZenonT(40) DEF IsLongestMatch

\* The blocks of the routes collected, as Fib counts them.
LEMMA BlocksAre ==
  ASSUME TypeOK
  PROVE  {Pending[i].ip_addr \div 2^(W - P) : i \in {j \in DOMAIN Pending : Pending[j].prefix > P}}
           = LongBlocks(nh_id_to_info_idx)
<1> DEFINE B == {Pending[i].ip_addr \div 2^(W - P) : i \in {j \in DOMAIN Pending : Pending[j].prefix > P}}
<1>1. ASSUME NEW x \in B PROVE x \in LongBlocks(nh_id_to_info_idx)
  <2>1. PICK i \in DOMAIN Pending : Pending[i].prefix > P /\ x = Pending[i].ip_addr \div 2^(W - P)
    BY <1>1, Zenon
  <2>2. i - 1 \in 0 .. nh_id_to_info_idx - 1 /\ (i - 1) + 1 = i
    BY PendingIs, Zenon
  <2>3. Pending[i].prefix = Prefix(i - 1) /\ Pending[i].ip_addr = IpAddr(i - 1)
    BY <2>2, PendingIs, Zenon
  <2>4. Prefix(i - 1) > P /\ x = RouteIndex(i - 1)
    BY <2>1, <2>3, Zenon DEF RouteIndex
  <2> QED BY <2>2, <2>4, Zenon DEF LongBlocks
<1>2. ASSUME NEW x \in LongBlocks(nh_id_to_info_idx) PROVE x \in B
  <2>1. PICK i \in 0 .. nh_id_to_info_idx - 1 : Prefix(i) > P /\ x = RouteIndex(i)
    BY <1>2, Zenon DEF LongBlocks
  <2>2. /\ i + 1 \in DOMAIN Pending /\ Pending[i + 1].prefix = Prefix(i) /\ Pending[i + 1].ip_addr = IpAddr(i)
    BY PendingIs, Zenon
  <2>3. Pending[i + 1].prefix > P /\ x = Pending[i + 1].ip_addr \div 2^(W - P)
    BY <2>1, <2>2, Zenon DEF RouteIndex
  <2> QED BY <2>2, <2>3, ZenonT(40)
<1> QED BY <1>1, <1>2, Zenon

\* What build_routing_table writes is digested, and nothing else can be written.
LEMMA DigestedStep ==
  ASSUME IInv, Digested, [Next]_vars
  PROVE  Digested'
<1> SUFFICES ASSUME pc' = "building" PROVE \A i \in 0 .. nh_id' - 1 : Digestible(nh_id_to_info'[i])
  BY Zenon DEF Digested
<1>1. CASE BuildRoute
  <2>1. /\ pc = "building" /\ nh_id < nh_id_to_info_idx /\ nh_id_to_info' = nh_id_to_info
    BY <1>1 DEF BuildRoute, RoutesLeft
  <2>2. /\ nh_id \in Nat /\ nh_id_to_info[nh_id].in_use /\ IpAddr(nh_id) \in Addr /\ Prefix(nh_id) \in 0 .. W
    BY <2>1, Iteration, Zenon
  <2>3. \/ Prefix(nh_id) <= P /\ build_route_lte_24
        \/ Prefix(nh_id) > P /\ (build_route_gt_24_alloc \/ build_route_gt_24_long)
    BY <1>1, <2>2 DEF BuildRoute, build_route_lte_24_outside, build_route_gt_24_full
  <2>4. nh_id' = nh_id + 1
    BY <2>3, Zenon DEF build_route_lte_24, build_route_gt_24_alloc, build_route_gt_24_long
  <2>5. Digestible(nh_id_to_info[nh_id])
    <3>1. CASE Prefix(nh_id) > P
      BY <3>1, SizeAssumption DEF Digestible, Prefix
    <3>2. CASE Prefix(nh_id) <= P /\ build_route_lte_24
      <4>1. MinIndex(nh_id) .. MaxIndex(nh_id) \subseteq Indexes
        BY <3>2, Zenon DEF build_route_lte_24
      <4>2. Prefix(nh_id) \in 0 .. P
        BY <2>2, <3>2, SizeAssumption
      <4>3. Prefix(nh_id) = 0 => Low(IpAddr(nh_id), W - P) = 0
        BY <2>2, <4>1, <4>2, RangeCovers, ZenonT(40) DEF MinIndex, MaxIndex
      <4> QED BY <4>3, Zenon DEF Digestible, Prefix, IpAddr
    <3> QED BY <2>3, <3>1, <3>2, Zenon
  <2>6. \A i \in 0 .. nh_id - 1 : Digestible(nh_id_to_info[i])
    BY <2>1, Zenon DEF Digested
  <2>7. \A i \in 0 .. (nh_id + 1) - 1 : i \in 0 .. nh_id - 1 \/ i = nh_id
    BY <2>2
  <2> QED BY <2>1, <2>4, <2>5, <2>6, <2>7, ZenonT(40)
<1>2. CASE BuildStart
  <2>1. nh_id' = 0 /\ \A i : i \notin 0 .. 0 - 1
    BY <1>2 DEF BuildStart
  <2> QED BY <2>1, Zenon
<1>3. CASE UNCHANGED vars
  BY <1>3, Zenon DEF vars, Digested
<1>4. CASE (\E a \in RouteAddrs, p \in RoutePrefixes, h \in NextHops : AddRoute(a, p, h)) \/ AddRouteFull \/ BuildEnd
  BY <1>4 DEF AddRoute, AddRouteFull, BuildEnd
<1> QED BY <1>1, <1>2, <1>3, <1>4, Zenon DEF Next

\* What a build that returns has done is what Fib calls a build.
LEMMA BuildIs ==
  ASSUME IInv, Digested, BuildEnd
  PROVE  /\ BuildableRoutes(Pending)
         /\ Answers' = [a \in 0 .. 2^W - 1 |-> F!LongestMatch(Pending, a)]
         /\ Pending' = <<>>
<1>1. /\ pc = "building" /\ pc' = "ready" /\ nh_id_to_info_idx' = 0
      /\ UNCHANGED <<nh_id_to_info, tbl24_table, tbllong_table, tbllong_table_idx, nh_id, builds>>
      /\ ~(nh_id < nh_id_to_info_idx)
  BY Zenon DEF BuildEnd, tables, RoutesLeft
<1>2. nh_id = nh_id_to_info_idx /\ TypeOK /\ Filled
  BY <1>1, SizeAssumption DEF IInv, TypeOK, CountersInStep, Filled
<1>3. BuildableRoutes(Pending)
  <2>1. ASSUME NEW j \in DOMAIN Pending PROVE Digestible(Pending[j])
    <3>1. j - 1 \in 0 .. nh_id_to_info_idx - 1 /\ (j - 1) + 1 = j
      BY <1>2, PendingIs, Zenon
    <3>2. Pending[j].prefix = Prefix(j - 1) /\ Pending[j].ip_addr = IpAddr(j - 1)
      BY <1>2, <3>1, PendingIs, ZenonT(40)
    <3>3. Digestible(nh_id_to_info[j - 1])
      BY <1>1, <1>2, <3>1, ZenonT(40) DEF Digested
    <3> QED BY <3>2, <3>3, ZenonT(40) DEF Digestible, Prefix, IpAddr
  <2>2. Cardinality(LongBlocks(nh_id_to_info_idx)) <= TBLLONG_TABLE_SIZE
    BY <1>2, LongBlocksCount, Zenon
  <2> QED BY <1>2, <2>1, <2>2, BlocksAre, ZenonT(40) DEF BuildableRoutes
<1>4. ASSUME NEW a \in Addr PROVE get_next_hop(a)' = F!LongestMatch(Pending, a)
  <2>1. LookupId(a)' = LookupId(a)
    BY <1>1, Zenon DEF LookupId
  <2>2. get_next_hop(a)' = get_next_hop(a)
    BY <1>1, <2>1, Zenon DEF get_next_hop
  <2>3. IsLongestMatch(LookupId(a), nh_id_to_info_idx, a)
    BY <1>1, <1>2, Zenon DEF IInv, LongestPrefixMatch
  <2> QED BY <1>2, <2>2, <2>3, MatchIs, ZenonT(40)
<1>5. Answers' = [a \in Addr |-> F!LongestMatch(Pending, a)]
  BY <1>1, <1>4, ZenonT(40) DEF Answers
<1>6. Pending' = <<>>
  BY <1>1 DEF Pending
<1> QED BY <1>3, <1>5, <1>6, ZenonT(40) DEF Addr

\* A build that does not return had to fail.
LEMMA FailIs ==
  ASSUME IInv, IInv', BuildExitIsExhaustion', BuildRoute, pc' # "building"
  PROVE  ~BuildableRoutes(Pending) /\ ~Running' /\ Pending' = Pending
<1>1. /\ pc = "building" /\ nh_id < nh_id_to_info_idx
      /\ nh_id_to_info' = nh_id_to_info /\ nh_id_to_info_idx' = nh_id_to_info_idx
  BY DEF BuildRoute, RoutesLeft
<1>2. nh_id \in Nat /\ nh_id_to_info[nh_id].in_use /\ TypeOK /\ nh_id_to_info_idx \in Nat
  BY <1>1, Iteration, PendingIs, ZenonT(40) DEF IInv
<1>3. \/ pc' = "undefined" /\ nh_id' = nh_id
      \/ pc' = "build_exit" /\ nh_id' = nh_id
  BY <1>1, <1>2, ZenonT(40) DEF BuildRoute, build_route_lte_24, build_route_lte_24_outside, build_route_gt_24_full,
                    build_route_gt_24_alloc, build_route_gt_24_long
<1>4. ~Running' /\ Pending' = Pending
  BY <1>1, <1>3, Zenon DEF Running, Pending
<1>5. ASSUME pc' = "undefined" PROVE ~BuildableRoutes(Pending)
  <2>1. Prefix(nh_id) = 0 /\ Low(IpAddr(nh_id), W - P) # 0
    BY <1>1, <1>3, <1>5, ZenonT(40) DEF IInv, UndefinedOnlyByDefaultRoute, Prefix, IpAddr
  <2>2. nh_id \in 0 .. nh_id_to_info_idx - 1
    BY <1>1, <1>2
  <2>3. nh_id + 1 \in DOMAIN Pending /\ ~Digestible(Pending[nh_id + 1])
    BY <1>2, <2>1, <2>2, PendingIs, ZenonT(40) DEF Digestible
  <2> QED BY <2>3, Zenon DEF BuildableRoutes
<1>6. ASSUME pc' = "build_exit" PROVE ~BuildableRoutes(Pending)
  <2>1. Cardinality(LongBlocks(nh_id + 1)) > TBLLONG_TABLE_SIZE
    <3>1. LongBlocks(nh_id + 1)' = LongBlocks(nh_id + 1)
      BY <1>1, <1>3, <1>6 DEF LongBlocks, RouteIndex, Prefix, IpAddr
    <3> QED BY <1>6, <3>1, ZenonT(40) DEF BuildExitIsExhaustion
  <2>2. LongBlocks(nh_id + 1) \subseteq LongBlocks(nh_id_to_info_idx)
    <3>1. \A i \in 0 .. (nh_id + 1) - 1 : i \in 0 .. nh_id_to_info_idx - 1
      BY <1>1, <1>2
    <3> QED BY <3>1, Zenon DEF LongBlocks
  <2>3. IsFiniteSet(LongBlocks(nh_id_to_info_idx))
    <3> DEFINE I == {j \in 0 .. nh_id_to_info_idx - 1 : Prefix(j) > P}
    <3>1. IsFiniteSet(0 .. nh_id_to_info_idx - 1)
      BY <1>2, FS_Interval
    <3>2. IsFiniteSet(I)
      BY <3>1, FS_Subset, ZenonT(40)
    <3> HIDE DEF I
    <3> DEFINE f == [i \in I |-> RouteIndex(i)]
               B == LongBlocks(nh_id_to_info_idx)
    <3>3. \A x : x \in B <=> \E i \in I : x = RouteIndex(i)
      BY Zenon DEF LongBlocks, I
    <3>4. f \in [I -> B] /\ \A x \in B : \E i \in I : f[i] = x
      BY <3>3, Zenon
    <3> HIDE DEF f, B
    <3>5. f \in Surjection(I, B)
      BY <3>4, Zenon DEF Surjection
    <3> QED BY <3>2, <3>5, FS_Surjection, ZenonT(40) DEF B
  <2>4. /\ IsFiniteSet(LongBlocks(nh_id + 1))
        /\ Cardinality(LongBlocks(nh_id + 1)) <= Cardinality(LongBlocks(nh_id_to_info_idx))
    BY <2>2, <2>3, FS_Subset, ZenonT(40)
  <2>5. Cardinality(LongBlocks(nh_id + 1)) \in Nat /\ Cardinality(LongBlocks(nh_id_to_info_idx)) \in Nat
    BY <2>3, <2>4, FS_CardinalityType, ZenonT(40)
  <2>6. ~(Cardinality(LongBlocks(nh_id_to_info_idx)) <= TBLLONG_TABLE_SIZE)
    BY ONLY <2>1, <2>4, <2>5, SizeAssumption
  <2> QED BY <1>2, <2>6, BlocksAre, Zenon DEF BuildableRoutes
<1> QED BY <1>3, <1>4, <1>5, <1>6, ZenonT(40)

LEMMA AppendIs ==
  ASSUME NEW n \in Nat, NEW s, s = [j \in 1 .. n |-> s[j]], NEW r
  PROVE  Append(s, r) = [j \in 1 .. n + 1 |-> IF j = n + 1 THEN r ELSE s[j]]
<1> DEFINE S == {s[j] : j \in 1 .. n} \cup {r}
<1>1. s \in [1 .. n -> S] /\ r \in S
  OBVIOUS
<1> HIDE DEF S
<1>2. s \in Seq(S) /\ Len(s) = n
  BY <1>1
<1> QED BY <1>1, <1>2

\* Every step of the table is a step of Fib, or nothing Fib sees.
LEMMA FibStep ==
  ASSUME IInv, IInv', Digested, BuildExitIsExhaustion', [Next]_vars
  PROVE  [F!Next]_(F!vars)
<1>1. /\ F!vars = <<Pending, Answers, Running>>
      /\ F!vars' = <<Pending', Answers', Running'>>
  BY Zenon DEF F!vars, Pending, Answers
<1>2. TypeOK
  BY Zenon DEF IInv
<1>3. ASSUME NEW a \in RouteAddrs, NEW p \in RoutePrefixes, NEW h \in NextHops, AddRoute(a, p, h)
      PROVE  F!Next
  <2> DEFINE i == nh_id_to_info_idx
             r == [ip_addr |-> a, prefix |-> ClampPrefix(p), next_hop |-> h]
  <2>1. /\ pc \in {"adding", "ready"} /\ pc' = "adding" /\ ~(i >= INVALID_NH_ID) /\ nh_id_to_info_idx' = i + 1
        /\ nh_id_to_info' = [nh_id_to_info EXCEPT ![i] =
              [ip_addr |-> a, prefix |-> ClampPrefix(p), next_hop |-> h, in_use |-> TRUE]]
    BY <1>3, Zenon DEF AddRoute, Idle, TableFull
  <2>2. i \in Nat /\ i < INVALID_NH_ID /\ i \in NhIds
    BY ONLY <1>2, <2>1, SizeAssumption DEF TypeOK, NhIds, INVALID_NH_ID
  <2>3. r \in [ip_addr : Addr, prefix : 0 .. W, next_hop : NextHops]
    BY InputAssumption, SizeAssumption DEF Addr, ClampPrefix
  <2>4. RouteOf(nh_id_to_info'[i]) = r
    BY <1>2, <2>1, <2>2, ZenonT(40) DEF TypeOK, RouteOf
  <2>5. \A j \in 0 .. i - 1 : nh_id_to_info'[j] = nh_id_to_info[j]
    BY ONLY <1>2, <2>1, <2>2, SizeAssumption, SMTT(30) DEF TypeOK, NhIds, INVALID_NH_ID
  <2> HIDE DEF r
  <2>6. Pending' = Append(Pending, r)
    <3>1. Pending' = [j \in 1 .. i + 1 |-> RouteOf(nh_id_to_info'[j - 1])]
      BY <2>1, Zenon DEF Pending
    <3>2. \A j \in 1 .. i + 1 : IF j = i + 1 THEN j - 1 = i ELSE j \in 1 .. i /\ j - 1 \in 0 .. i - 1
      BY <2>2
    <3>3. Append(Pending, r) = [j \in 1 .. i + 1 |-> IF j = i + 1 THEN r ELSE Pending[j]]
      <4>1. Pending = [j \in 1 .. i |-> Pending[j]]
        BY Zenon DEF Pending
      <4> QED BY <2>2, <4>1, AppendIs
    <3>4. ASSUME NEW j \in 1 .. i + 1
          PROVE  RouteOf(nh_id_to_info'[j - 1]) = IF j = i + 1 THEN r ELSE Pending[j]
      BY <2>4, <2>5, <3>2, ZenonT(40) DEF Pending
    <3> QED BY <3>1, <3>3, <3>4, ZenonT(40)
  <2>7. Running /\ Running' /\ Answers' = Unspecified /\ Len(Pending) < INVALID_NH_ID
    BY <1>2, <2>1, <2>2, PendingIs, ZenonT(40) DEF Running, Answers
  <2>8. F!Add(r)
    BY <2>6, <2>7, Zenon DEF F!Add, Pending, Answers
  <2> QED BY <2>3, <2>8, Zenon DEF F!Next
<1>4. CASE AddRouteFull
  <2>1. /\ pc \in {"adding", "ready"} /\ pc' = "add_exit" /\ nh_id_to_info_idx >= INVALID_NH_ID
        /\ nh_id_to_info_idx' = nh_id_to_info_idx /\ nh_id_to_info' = nh_id_to_info
    BY <1>4, ZenonT(40) DEF AddRouteFull, Idle, TableFull
  <2>2. Len(Pending) = INVALID_NH_ID
    BY <1>2, <2>1, PendingIs
  <2>3. Running /\ Running' = FALSE /\ Answers' = Unspecified /\ Pending' = Pending
    BY <2>1 DEF Running, Answers, Pending
  <2> QED BY <2>2, <2>3, Zenon DEF F!Next, F!Fail, Pending, Answers
<1>5. CASE BuildStart
  <2>1. /\ pc \in {"adding", "ready"} /\ pc' = "building"
        /\ nh_id_to_info_idx' = nh_id_to_info_idx /\ nh_id_to_info' = nh_id_to_info
    BY <1>5, Zenon DEF BuildStart, Idle
  <2>2. Running /\ Running' /\ Answers' = Unspecified /\ Pending' = Pending
    BY <2>1 DEF Running, Answers, Pending
  <2> QED BY <2>2, Zenon DEF F!Next, F!Retire, Pending, Answers
<1>6. CASE BuildRoute /\ pc' = "building"
  <2>1. pc = "building" /\ nh_id_to_info_idx' = nh_id_to_info_idx /\ nh_id_to_info' = nh_id_to_info
    BY <1>6, Zenon DEF BuildRoute
  <2>2. Running /\ Running' /\ Answers' = Unspecified /\ Pending' = Pending
    BY <1>6, <2>1 DEF Running, Answers, Pending
  <2> QED BY <2>2, Zenon DEF F!Next, F!Retire, Pending, Answers
<1>7. CASE BuildRoute /\ pc' # "building"
  <2>1. ~BuildableRoutes(Pending) /\ ~Running' /\ Pending' = Pending
    BY <1>7, FailIs, Zenon
  <2>2. Running /\ Running' = FALSE /\ Answers' = Unspecified
    BY <1>7, <2>1 DEF BuildRoute, Running, Answers
  <2> QED BY <2>1, <2>2, Zenon DEF F!Next, F!Fail, Pending, Answers
<1>8. CASE BuildEnd
  <2>1. /\ BuildableRoutes(Pending) /\ Answers' = [a \in 0 .. 2^W - 1 |-> F!LongestMatch(Pending, a)]
        /\ Pending' = <<>>
    BY <1>8, BuildIs, Zenon
  <2>2. Running /\ Running'
    BY <1>8 DEF BuildEnd, Running
  <2> QED BY <2>1, <2>2, Zenon DEF F!Next, F!Build, Pending, Answers
<1>9. CASE UNCHANGED vars
  <2>1. pc' = pc /\ nh_id_to_info_idx' = nh_id_to_info_idx /\ nh_id_to_info' = nh_id_to_info
        /\ tbl24_table' = tbl24_table /\ tbllong_table' = tbllong_table
    BY <1>9, Zenon DEF vars
  <2>2. \A a \in Addr : get_next_hop(a)' = get_next_hop(a)
    BY <2>1, Zenon DEF get_next_hop, LookupId
  <2>3. Answers' = Answers /\ Pending' = Pending /\ Running' = Running
    BY <2>1, <2>2, Zenon DEF Answers, Pending, Running
  <2> QED BY <1>1, <2>3, Zenon
<1> QED BY <1>3, <1>4, <1>5, <1>6, <1>7, <1>8, <1>9, ZenonT(40) DEF Next

\* routing_table.c implements Fib: over any calls of add_route and
\* build_routing_table, get_next_hop answers after a build for the routes of that
\* build alone, each address with its longest match, and a call fails only for one
\* route too many or routes no build can digest.
THEOREM TableIsFib == Spec => ImplementsFib
<1>1. Init => F!Init /\ Digested
  <2> SUFFICES ASSUME Init PROVE F!Init /\ Digested
    OBVIOUS
  <2>1. pc = "adding" /\ nh_id_to_info_idx = 0
    BY Zenon DEF Init
  <2>2. Pending = <<>> /\ Answers = Unspecified /\ Running = TRUE /\ Digested
    BY <2>1 DEF Pending, Answers, Running, Digested
  <2> QED BY <2>2, Zenon DEF F!Init, Pending, Answers
<1>2. IInv /\ Digested /\ [Next]_vars => Digested'
  BY DigestedStep
<1>3. IInv /\ IInv' /\ Digested /\ BuildExitIsExhaustion' /\ [Next]_vars => [F!Next]_(F!vars)
  BY FibStep
<1> QED BY <1>1, <1>2, <1>3, Invariance, ExhaustionIsReal, PTL DEF Spec, ImplementsFib, F!Spec
=============================================================================
