---------------------------- MODULE RoutingTable ----------------------------
(***************************************************************************)
(* routing_table.c: a DIR-24-8 forwarding table.  Routes are collected in  *)
(* nh_id_to_info by add_route; build_routing_table then writes them, one   *)
(* after the other, into tbl24 (one entry per block of 2^(W-P) addresses)  *)
(* and, for blocks that hold a route longer than P bits, into a table of   *)
(* tbllong (one slot per address of the block).  get_next_hop reads both.  *)
(*                                                                         *)
(* The code has W = 32 and P = 24.  Shifts and masks are written with      *)
(* 2^n, \div and %, on W-bit unsigned numbers.                             *)
(***************************************************************************)
EXTENDS Integers, FiniteSets, Sequences

CONSTANTS
  W,                  \* width of an address in bits (32)
  P,                  \* TBL_PREFIX_LEN (24)
  NH_ID_TO_INFO_SIZE, \* entries of nh_id_to_info (256)
  TBLLONG_TABLE_SIZE, \* tables in tbllong (255)
  ID_LIMIT,           \* 1 << 15: next_id is a 15-bit field, is_long the 16th bit
  NextHops,           \* the pairs (dst_mac, dst_port) routes may name
  ZeroHop,            \* the all-zero next hop of static storage
  NULL,               \* what get_next_hop returns for no route
  Unspecified,        \* the abstract forwarding function while nothing is promised
  RouteAddrs,         \* the ip_addr arguments of add_route
  RoutePrefixes,      \* the prefix arguments of add_route (a uint8_t)
  MaxBuilds           \* bound on the tables that are collected and built

ASSUME SizeAssumption ==
  /\ W \in Nat
  /\ P \in 1 .. W - 1
  /\ NH_ID_TO_INFO_SIZE \in Nat \ {0}
  /\ TBLLONG_TABLE_SIZE \in Nat
  /\ ID_LIMIT \in Nat
  /\ MaxBuilds \in Nat

\* The two "Must not be bigger than" comments at the top of the file.
ASSUME FieldAssumption ==
  /\ NH_ID_TO_INFO_SIZE <= ID_LIMIT
  /\ TBLLONG_TABLE_SIZE <= ID_LIMIT - 1

ASSUME InputAssumption ==
  /\ RouteAddrs \subseteq 0 .. 2^W - 1
  /\ RoutePrefixes \subseteq Nat
  /\ NULL \notin NextHops \cup {ZeroHop}
  /\ NextHops # {}

\* Laws of powers of two on the exponents in use.  They are arithmetic facts,
\* stated because the provers treat exponentiation as an unknown function.
ASSUME PowerAssumption ==
  /\ 2^0 = 1
  /\ \A m, n \in 0 .. W :
       /\ 2^m \in Nat \ {0}
       /\ m + n <= W => 2^(m + n) = 2^m * 2^n

Addr               == 0 .. 2^W - 1
TBL24_TABLE_SIZE   == 2^P
TBLLONG_ENTRY_SIZE == 2^(W - P)
INVALID_NH_ID      == NH_ID_TO_INFO_SIZE - 1

NhIds   == 0 .. NH_ID_TO_INFO_SIZE - 1
Indexes == 0 .. TBL24_TABLE_SIZE - 1
Slots   == 0 .. TBLLONG_ENTRY_SIZE - 1
LongIds == 0 .. TBLLONG_TABLE_SIZE - 1

VARIABLES
  nh_id_to_info,     \* NhIds -> [ip_addr, prefix, next_hop, in_use]
  nh_id_to_info_idx, \* routes added since the last build
  tbl24_table,       \* Indexes -> [next_id, is_long]
  tbllong_table,     \* LongIds -> (Slots -> id)
  tbllong_table_idx, \* tables of tbllong_table handed out
  nh_id,             \* loop counter of build_routing_table, kept after the loop
  builds,            \* calls of build_routing_table so far
  pc                 \* where the caller is, see Phases

vars == <<nh_id_to_info, nh_id_to_info_idx, tbl24_table, tbllong_table,
          tbllong_table_idx, nh_id, builds, pc>>

tables == <<tbl24_table, tbllong_table, tbllong_table_idx>>

(***************************************************************************)
(* "adding": routes are being collected (the initial phase too);           *)
(* "building": inside the loop of build_routing_table; "ready": it has     *)
(* returned and no route was added since.  The others are final:           *)
(* "add_exit" and "build_exit" are the two calls of exit(EXIT_FAILURE),    *)
(* "undefined" is a write outside tbl24_table, after which C promises      *)
(* nothing.                                                                *)
(***************************************************************************)
Phases == {"adding", "building", "ready", "add_exit", "build_exit", "undefined"}

NextHopInfo ==
  [ip_addr : Addr, prefix : 0 .. W, next_hop : NextHops \cup {ZeroHop}, in_use : BOOLEAN]
Tbl24Entry ==
  [next_id : 0 .. ID_LIMIT - 1, is_long : BOOLEAN]

(***************************************************************************)
(* Bit operations of the code.  The shift count of a 32-bit shift is taken *)
(* modulo 32 by the x86-64 instructions the build emits (shr/shrx), which  *)
(* decides what the shift by 32 - 0 of a /0 route does; a left shift drops *)
(* the bits above the width.                                               *)
(***************************************************************************)
Shr(x, n)    == x \div 2^(n % W)
Shl(x, n)    == (x * 2^n) % 2^W
Low(x, n)    == x % 2^n                    \* x & ((1 << n) - 1)
Clear(x, n)  == x - (x % 2^n)              \* x & ~((1 << n) - 1)
Fill(x, n)   == x - (x % 2^n) + 2^n - 1    \* x | ((1 << n) - 1)

\* The 16-bit value of a tbl24_entry, next_id and is_long together.
Val(e) == e.next_id + (IF e.is_long THEN ID_LIMIT ELSE 0)

Prefix(id) == nh_id_to_info[id].prefix
IpAddr(id) == nh_id_to_info[id].ip_addr
\* No call of this file is under way.
Idle == pc \in {"adding", "ready"} /\ builds < MaxBuilds
-----------------------------------------------------------------------------
(***************************************************************************)
(* add_route                                                               *)
(***************************************************************************)
ClampPrefix(prefix) == IF prefix <= W THEN prefix ELSE W

TableFull == nh_id_to_info_idx >= INVALID_NH_ID

AddRoute(ip_addr, prefix, next_hop) ==
  /\ Idle
  /\ ~TableFull
  /\ nh_id_to_info' = [nh_id_to_info EXCEPT ![nh_id_to_info_idx] =
                         [ip_addr  |-> ip_addr,
                          prefix   |-> ClampPrefix(prefix),
                          next_hop |-> next_hop,
                          in_use   |-> TRUE]]
  /\ nh_id_to_info_idx' = nh_id_to_info_idx + 1
  /\ pc' = "adding"
  /\ UNCHANGED <<tables, nh_id, builds>>

AddRouteFull ==
  /\ Idle
  /\ TableFull
  /\ pc' = "add_exit"
  /\ UNCHANGED <<nh_id_to_info, nh_id_to_info_idx, tables, nh_id, builds>>
-----------------------------------------------------------------------------
(***************************************************************************)
(* build_routing_table                                                     *)
(***************************************************************************)
\* Both "lesser or equal destination prefix, then replace it" tests.
Replaces(new, curr) == curr = INVALID_NH_ID \/ Prefix(curr) <= Prefix(new)

\* Route id written over the slots of a long table where it may replace.
Overlay(id, table, slots) ==
  [i \in Slots |-> IF i \in slots /\ Replaces(id, table[i]) THEN id ELSE table[i]]

MinIndex(id) == Shl(Shr(IpAddr(id), W - Prefix(id)), P - Prefix(id))
MaxIndex(id) == Fill(MinIndex(id), P - Prefix(id))

\* min_i .. max_i: the slots a route longer than P bits occupies in its block.
RouteSlots(id) ==
  LET n   == W - Prefix(id)
      min == Clear(Low(IpAddr(id), W - P), n)
  IN  min .. Fill(min, n)

RouteIndex(id) == IpAddr(id) \div 2^(W - P)

\* A tbl24 entry of the range of a route of at most P bits.
Lte24Entry(id, e) ==
  IF Val(e) = INVALID_NH_ID
    THEN [next_id |-> id, is_long |-> FALSE]
    ELSE IF ~e.is_long /\ Prefix(e.next_id) <= Prefix(id)
           THEN [e EXCEPT !.next_id = id]
           ELSE e

\* The long tables behind the entries of the range get the route as well.
LongTablesOf(range) == {tbl24_table[x].next_id : x \in {y \in range : tbl24_table[y].is_long}}

build_route_lte_24 ==
  LET range == MinIndex(nh_id) .. MaxIndex(nh_id)
  IN  /\ range \subseteq Indexes
      /\ tbl24_table' = [x \in Indexes |->
           IF x \in range THEN Lte24Entry(nh_id, tbl24_table[x]) ELSE tbl24_table[x]]
      /\ tbllong_table' = [t \in LongIds |->
           IF t \in LongTablesOf(range)
             THEN Overlay(nh_id, tbllong_table[t], Slots)
             ELSE tbllong_table[t]]
      /\ nh_id' = nh_id + 1
      /\ UNCHANGED <<tbllong_table_idx, pc>>

\* The loop leaves tbl24_table: undefined behaviour.
build_route_lte_24_outside ==
  /\ ~(MinIndex(nh_id) .. MaxIndex(nh_id) \subseteq Indexes)
  /\ pc' = "undefined"
  /\ UNCHANGED <<tables, nh_id>>

\* Slots a new long table inherits from the short entry it takes the place of.
InheritMutant(e, table) == table
Inherit(e, table) ==
  IF Val(e) = INVALID_NH_ID THEN table ELSE Overlay(e.next_id, table, Slots)

LongTablesLeftMutant == tbllong_table_idx + 1 < TBLLONG_TABLE_SIZE
LongTablesLeft == tbllong_table_idx < TBLLONG_TABLE_SIZE

\* tbllong_table_idx once table t is handed out.
AfterMutant(t) == t
After(t) == t + 1

\* The entry is unused or short: a table of tbllong is taken for the block.
build_route_gt_24_alloc ==
  LET x == RouteIndex(nh_id)
      t == tbllong_table_idx
      written == [i \in Slots |->
                    IF i \in RouteSlots(nh_id) THEN nh_id ELSE tbllong_table[t][i]]
  IN  /\ ~tbl24_table[x].is_long
      /\ LongTablesLeft
      /\ tbl24_table' = [tbl24_table EXCEPT ![x] = [next_id |-> t, is_long |-> TRUE]]
      /\ tbllong_table' = [tbllong_table EXCEPT ![t] = Inherit(tbl24_table[x], written)]
      /\ tbllong_table_idx' = After(t)
      /\ nh_id' = nh_id + 1
      /\ UNCHANGED pc

build_route_gt_24_full ==
  /\ ~tbl24_table[RouteIndex(nh_id)].is_long
  /\ ~LongTablesLeft
  /\ pc' = "build_exit"
  /\ UNCHANGED <<tables, nh_id>>

\* The block already has a long table.
build_route_gt_24_long ==
  LET e == tbl24_table[RouteIndex(nh_id)]
  IN  /\ e.is_long
      /\ tbllong_table' = [tbllong_table EXCEPT ![e.next_id] =
                             Overlay(nh_id, @, RouteSlots(nh_id))]
      /\ nh_id' = nh_id + 1
      /\ UNCHANGED <<tbl24_table, tbllong_table_idx, pc>>

BuildStart ==
  /\ Idle
  /\ tbllong_table_idx' = 0
  /\ tbl24_table' = [x \in Indexes |-> [next_id |-> INVALID_NH_ID, is_long |-> FALSE]]
  /\ tbllong_table' = [t \in LongIds |-> [i \in Slots |-> INVALID_NH_ID]]
  /\ nh_id' = 0
  /\ builds' = builds + 1
  /\ pc' = "building"
  /\ UNCHANGED <<nh_id_to_info, nh_id_to_info_idx>>

RoutesLeft == nh_id < nh_id_to_info_idx

\* One iteration of the loop over the routes.
BuildRoute ==
  /\ pc = "building"
  /\ RoutesLeft
  /\ IF ~nh_id_to_info[nh_id].in_use
       THEN nh_id' = nh_id + 1 /\ UNCHANGED <<tables, pc>>
       ELSE \/ /\ Prefix(nh_id) <= P
               /\ build_route_lte_24 \/ build_route_lte_24_outside
            \/ /\ Prefix(nh_id) > P
               /\ \/ build_route_gt_24_alloc
                  \/ build_route_gt_24_full
                  \/ build_route_gt_24_long
  /\ UNCHANGED <<nh_id_to_info, nh_id_to_info_idx, builds>>

BuildEndMutant ==
  /\ pc = "building"
  /\ ~RoutesLeft
  /\ pc' = "ready"
  /\ UNCHANGED <<nh_id_to_info, nh_id_to_info_idx, tables, nh_id, builds>>

BuildEnd ==
  /\ pc = "building"
  /\ ~RoutesLeft
  /\ nh_id_to_info_idx' = 0
  /\ pc' = "ready"
  /\ UNCHANGED <<nh_id_to_info, tables, nh_id, builds>>
-----------------------------------------------------------------------------
(***************************************************************************)
(* get_next_hop: LookupId is the id it resolves to.                        *)
(***************************************************************************)
LookupId(ip) ==
  LET e == tbl24_table[ip \div 2^(W - P)]
  IN  IF Val(e) = INVALID_NH_ID \/ ~e.is_long
        THEN e.next_id
        ELSE tbllong_table[e.next_id][Low(ip, W - P)]

get_next_hop(ip) ==
  IF LookupId(ip) = INVALID_NH_ID THEN NULL ELSE nh_id_to_info[LookupId(ip)].next_hop
-----------------------------------------------------------------------------
\* Static storage: every byte is zero before the first build.
Init ==
  /\ nh_id_to_info = [i \in NhIds |->
       [ip_addr |-> 0, prefix |-> 0, next_hop |-> ZeroHop, in_use |-> FALSE]]
  /\ nh_id_to_info_idx = 0
  /\ tbl24_table = [x \in Indexes |-> [next_id |-> 0, is_long |-> FALSE]]
  /\ tbllong_table = [t \in LongIds |-> [i \in Slots |-> 0]]
  /\ tbllong_table_idx = 0
  /\ nh_id = 0
  /\ builds = 0
  /\ pc = "adding"

Next ==
  \/ \E a \in RouteAddrs, p \in RoutePrefixes, h \in NextHops : AddRoute(a, p, h)
  \/ AddRouteFull
  \/ BuildStart
  \/ BuildRoute
  \/ BuildEnd

Spec == Init /\ [][Next]_vars
-----------------------------------------------------------------------------
TypeOK ==
  /\ nh_id_to_info \in [NhIds -> NextHopInfo]
  /\ nh_id_to_info_idx \in 0 .. INVALID_NH_ID
  /\ tbl24_table \in [Indexes -> Tbl24Entry]
  /\ tbllong_table \in [LongIds -> [Slots -> NhIds]]
  /\ tbllong_table_idx \in 0 .. TBLLONG_TABLE_SIZE
  /\ nh_id \in 0 .. INVALID_NH_ID
  /\ builds \in 0 .. MaxBuilds
  /\ pc \in Phases

(***************************************************************************)
(* The reference: what a routing table is for.                             *)
(***************************************************************************)
\* Route i covers address a: they agree on the route's first prefix bits.
Covers(i, a) == a \div 2^(W - Prefix(i)) = IpAddr(i) \div 2^(W - Prefix(i))

\* Route i is preferred to route j: longer, or as long and added later.
Preferred(i, j) == Prefix(j) < Prefix(i) \/ (Prefix(j) = Prefix(i) /\ j <= i)

\* id is the longest match of a among the first n routes, INVALID_NH_ID if none.
IsLongestMatch(id, n, a) ==
  \/ id = INVALID_NH_ID /\ \A i \in 0 .. n - 1 : ~Covers(i, a)
  \/ /\ id \in 0 .. n - 1
     /\ Covers(id, a)
     /\ \A i \in 0 .. n - 1 : Covers(i, a) => Preferred(id, i)

\* At every iteration of build_routing_table, and after it, get_next_hop
\* resolves every address to the longest match among the routes written so
\* far; of two routes for the same prefix the one added later wins.
LongestPrefixMatch ==
  pc \in {"building", "ready"} => \A a \in Addr : IsLongestMatch(LookupId(a), nh_id, a)

\* The blocks that hold a route longer than P bits among the first n routes.
LongBlocks(n) == {RouteIndex(i) : i \in {j \in 0 .. n - 1 : Prefix(j) > P}}

\* Long tables are handed out to exactly the blocks that need one, each block
\* has its own, and the tables in use are the first tbllong_table_idx.
OneLongTablePerBlock ==
  pc \in {"building", "ready"} =>
    LET long == {x \in Indexes : tbl24_table[x].is_long}
    IN  /\ long = LongBlocks(nh_id)
        /\ {tbl24_table[x].next_id : x \in long} = 0 .. tbllong_table_idx - 1
        /\ \A x, y \in long : tbl24_table[x].next_id = tbl24_table[y].next_id => x = y

\* "tbllong table size is exceeded" is only ever reported when the routes
\* really spread over more blocks than there are long tables.
BuildExitIsExhaustion ==
  pc = "build_exit" => Cardinality(LongBlocks(nh_id + 1)) > TBLLONG_TABLE_SIZE

\* With the sizes of the code (255 long tables, at most 255 routes) that exit
\* is unreachable: the limit on routes is hit first.
LongTablesSuffice ==
  TBLLONG_TABLE_SIZE >= INVALID_NH_ID => pc # "build_exit"

\* The loop over tbl24_table leaves the table only for a /0 route whose
\* address has bits set among the W - P lowest, by its shift by W bits.
UndefinedOnlyByDefaultRoute ==
  pc = "undefined" => Prefix(nh_id) = 0 /\ Low(IpAddr(nh_id), W - P) # 0

\* Any route the -r option accepts, a /0 included, can be built.
EveryRouteCanBeBuilt == pc # "undefined"
-----------------------------------------------------------------------------
(***************************************************************************)
(* The inductive invariant behind LongestPrefixMatch.                      *)
(***************************************************************************)
Filled == pc \in {"building", "ready"}

\* The routes being collected or built are all in use.
AddedInUse == \A i \in 0 .. nh_id_to_info_idx - 1 : nh_id_to_info[i].in_use

CountersInStep ==
  /\ pc = "building" => nh_id <= nh_id_to_info_idx
  /\ Filled => tbllong_table_idx <= nh_id

FreeTablesEmpty ==
  Filled => \A t \in LongIds, i \in Slots :
              t >= tbllong_table_idx => tbllong_table[t][i] = INVALID_NH_ID

ShortEntriesShort ==
  Filled => \A x \in Indexes :
              ~tbl24_table[x].is_long =>
                /\ tbl24_table[x].next_id \in NhIds
                /\ tbl24_table[x].next_id # INVALID_NH_ID => Prefix(tbl24_table[x].next_id) <= P

\* What every iteration of build_routing_table preserves: the table resolves
\* every address to its longest match, every block with a long route has a long
\* table of its own, tables not handed out are empty and short entries hold
\* short prefixes.
IInv ==
  /\ TypeOK
  /\ AddedInUse
  /\ CountersInStep
  /\ OneLongTablePerBlock
  /\ FreeTablesEmpty
  /\ ShortEntriesShort
  /\ LongestPrefixMatch
  /\ LongTablesSuffice
  /\ UndefinedOnlyByDefaultRoute
-----------------------------------------------------------------------------
(***************************************************************************)
(* The table implements Fib.  The abstract forwarding function is          *)
(* get_next_hop itself, at every address, once build_routing_table has     *)
(* returned and until the next call into this file that writes.            *)
(***************************************************************************)
RouteOf(info) ==
  [ip_addr |-> info.ip_addr, prefix |-> info.prefix, next_hop |-> info.next_hop]

Running == pc \notin {"add_exit", "build_exit", "undefined"}

\* A /0 route is digested when the shift by W leaves index 0.
Digestible(r) == r.prefix = 0 => Low(r.ip_addr, W - P) = 0

\* A build succeeds if that holds of every route and the blocks of the long ones
\* have a long table each.
BuildableRoutes(rs) ==
  /\ \A i \in DOMAIN rs : Digestible(rs[i])
  /\ Cardinality({rs[i].ip_addr \div 2^(W - P) : i \in {j \in DOMAIN rs : rs[j].prefix > P}})
       <= TBLLONG_TABLE_SIZE

F == INSTANCE Fib WITH
  Capacity  <- INVALID_NH_ID,
  Routes    <- [ip_addr : Addr, prefix : 0 .. W, next_hop : NextHops],
  Buildable <- BuildableRoutes,
  pending   <- [i \in 1 .. nh_id_to_info_idx |-> RouteOf(nh_id_to_info[i - 1])],
  fib       <- IF pc = "ready" THEN [a \in Addr |-> get_next_hop(a)] ELSE Unspecified,
  running   <- Running

\* Every behaviour of the two-level table is one of Fib: over any sequence of
\* add_route and build_routing_table calls, a lookup after a build answers for
\* the routes of that build alone.
ImplementsFib == F!Spec
=============================================================================
