# A verification of dpdk-router in TLA+

dpdk-router is an IPv4 router on top of DPDK. The command line attaches ports
(`-p`) and adds routes (`-r`). The routes are compiled into a DIR-24-8 lookup
table, the ports are dealt out to one worker thread per core, and each worker
polls its ports, forwards IPv4 packets, answers ARP requests and frees the rest.
The repository also has a two-port forwarding example and a copy of DPDK.

This directory holds TLA+ modules for its parts, the TLC instances that check
them and TLAPS proofs. Paths are relative to the repository; `dpdk/` is short for
`src/dpdk/`.

## The parts of the system

| Part | Code | State | Operations | Modules |
|---|---|---|---|---|
| Program entry | `src/main.c`, `src/router.c` 511-667 | `int_confs`, the routes, started ports | `main`, `router_init`, `parse_args`, `start_router` | `Program` |
| Option parsing | `src/router.c` 91-196, `src/utils/utils.c` | the argument string | `parse_option_p`, `parse_option_r`, string helpers | `Options` |
| Routing table | `src/routing_table.c` | `nh_id_to_info`, `tbl24_table`, `tbllong_table` and their counters | `add_route`, `build_routing_table`, `get_next_hop` | `RoutingTable`, `Fib` |
| Frame handlers | `src/router.c` 208-465 | the frame in a buffer | validation, IPv4 forwarding, ARP reply | `Frames` |
| Header checksum | `src/router.c` 212-268, `dpdk/lib/librte_net/rte_ip.h` | one header | verify, renew | `Checksum`, `Frames` |
| Threads | `src/router.c` 467-667, `src/dpdk_init.h` | `thr_confs`, `force_quit`, the position of each thread | `start_router`, `router_thread`, `recv_from_device`, `signal_handler`, `router_finalize` | `Router` |
| Launch of the threads | EAL: `eal_thread.c`, `eal_common_launch.c` | lcore states, command pipes | launch, slave loop, wait | `Launch` |
| Buffers | `src/dpdk_init.c`, `rte_mempool.h` | pool, caches, rings | get, put, receive, transmit, reclaim | `Mempool`, `Buffers` |
| Pool ring | `rte_ring.h` | two heads, two tails, slots | bulk enqueue and dequeue by many threads | `Ring`, `Fifo` |
| virtio driver | `virtqueue.h`, `virtio_rxtx.c` | descriptor table, available and used ring | receive, refill, transmit, reclaim | `Virtqueue`, `VirtioTx`; receiving in `Buffers` |
| Pointer list | `src/utils/pointer_list.c` | `_list`, `_len`, `_cap` | append, insert, remove, pop, get, set, clear, sort | `PointerList`, `SeqList` |
| Forwarder | `src/forwarder/fwd.c` | interfaces, shared counters | `main`, `run_thread`, `transmit_packet` | `Forwarder` |

How they interact: `parse_args` fills `int_confs` and calls `add_route`, then
`build_routing_table` once. `start_router` configures the ports and has the EAL
launch the workers. From then on the table and the configuration are only read.
The workers share the cards, but not their queues. The buffers of a receive queue
come from a mempool of its own; they return to it from whichever transmit ring
they were sent on, when that ring is used again.

What is hard about them: the order in which routes are written; shifts at the
width of an integer; a table id that doubles as "no route"; results nobody looks
at; buffers that pass from card to worker to card, with a bounded retry in
between and a lazy way back; queues used without locks; a lock-free ring whose
result is thrown away; a shutdown that frees what workers read; indexes that run
free and wrap. `PROJECT.json` lists these hazards with the line where each one
bites and the properties that would catch it.

## The modules

### The router

**`RoutingTable`** keeps the names of the C file. The address width `W` (32), the
index width `P` (24) and all table sizes are constants. A build is one action per
route (`BuildRoute`), between `BuildStart`, which clears both tables, and
`BuildEnd`, which resets the route counter. `BuildRoute` has one disjunct per
path of the code: a prefix of at most `P` bits (`build_route_lte_24`), a longer
one that takes a long table (`build_route_gt_24_alloc`), finds one
(`build_route_gt_24_long`) or finds none left (`build_route_gt_24_full`, an
exit). Loops over entries become functions over `Indexes` and `Slots`. The shift
of a /0 route by the full width is undefined in C; the model takes what the
x86-64 instructions do (the count modulo 32), and a range that leaves
`tbl24_table` ends in the phase `"undefined"`. `MaxBuilds` bounds the number of
builds.

**`Fib`** is the promise of `routing_table.h`: collect routes, then turn them into
a function from addresses to next hops. `RoutingTable` instantiates it with a
refinement mapping, as `ImplementsFib`, and `Program` uses it as the routing table.
A build may fail only for a collection of routes that is not `Buildable`.

**`Checksum`** has `rte_ipv4_cksum`: the accumulator and the folding of the carries,
with the word size `B` as a constant. A sum does not depend on the order of its
words, so a header is given by the sum of the words that are fixed (`rest`), its
TTL, its options and its checksum field.

**`Frames`** has one operator per handler. A frame is a record of the header
fields the handlers read or write, with the checksum as a number that is tested
on arrival and renewed on departure. A handler returns `Drop` or
`Send(frame, port)`.

**`Options`** parses the text itself, as the digits, separators and "other"
character its tests tell apart. The parsers end a field by writing a
terminator over its separator and put the separator back; nothing reads the
argument again, so the model only takes the field (`Fields`). Every failed test
ends in the same refusal, so their order is left out, too. `atoi` is external: digits up to the first other character, cut to 32
bits. A text is made from fields (`Text`), so that what it means (`Meant`) is
known independently of the parser. The IPv4 and MAC readers are the same code but
for five numbers, and are one operator here.

**`Program`** takes the options of a command line in order, one action per branch
of `parse_args`, each with the parser of `Options` on the text, then one per device
`start_router` configures. The routing table is `Fib`, on addresses reduced to
whether the first 24 bits and the last 8 are set. `last` and `accepted` are history
variables.

**`Router`** has the master (`ConfigureInterface` to `router_finalize`), the
workers (`RoundStart` to `Wake`), the signal and the cards (`Arrive`, `Depart`).
Steps are cut where another thread or a card can interfere: one call of
`rte_eth_rx_burst`, the handling of one frame up to its transmission, one call of
`rte_eth_tx_burst`. `origin` and `older` are history variables. Buffers are
recycled: one that is freed may arrive again. A `tx_burst` may take nothing even
when its ring has room. Transmitting on a port that was never configured ends in
`"undefined"`. The routing table no longer changes at this point, so lookups are
the constant operator `Hop`. The modelled build has `MASTER_LCORE_DOES_WORK`, with
the master as lcore 0 and the slaves numbered from 1 without gaps.

**`Launch`** looks closer at that last point: every read and write of an lcore's
state and of its two pipes is a step, from the dummy launch in `rte_eal_init` to
`router_finalize`. The set of lcores is any that the process's CPU affinity may
leave. A launch on an lcore that does not exist writes to file descriptor 0,
with any outcome.

**`PointerList`** has the cells of the array, `_len` and `_cap` as in the code,
unsigned arithmetic modulo `UINT` and a `realloc` that may refuse and that
returns NULL for zero bytes. **`SeqList`** is the sequence it implements, with one
operator per call. The history variable `called` of both names the last call and its
arguments, so that a call on the array has to be that call on the sequence, and not
any step that happens to have the same effect. Indexes reach beyond the end: `insert`,
`remove` and `set` then do nothing and `get` returns NULL. Only `append`, `insert`,
`remove` and `pop` may end the process, and only when they touch the array's size.
`MaxLen` bounds what a client stores.

### What it uses of DPDK

**`Ring`** is the multi-producer, multi-consumer ring behind every mempool. A call
reads the head, then the opposite tail, moves the head by compare-and-set, copies
object by object, and waits for its turn to move the tail; each is a step. Memory
is sequentially consistent, which for these accesses x86-64 provides: loads and
stores of one thread keep their order but for a store before a load of another
word, and between the head and the tail of a call stands a locked instruction.
Indexes are modulo `UINT`. **`Fifo`** is the bounded queue it implements.
`MaxMoved` bounds the objects moved.

**`Mempool`** has get and put with one cache per lcore, counting objects; the ring
is a number here, as `Ring` shows it to be atomic. `high` records how far into
the cache's array anything was written. Its own next-state relation, with bulks of
any size, is what the proofs are about; TLC runs its operators as part of
`Buffers`.

**`Virtqueue`** is a split virtqueue as driver and device share it, with indexes
modulo `U16`. **`VirtioTx`** has the transmit function in steps between which the
device may act. The device fetches chains in order and returns them in any order.
A packet needs one descriptor or two (`slots`).

**`Buffers`** composes the mempool with one receive ring, the worker that polls it
and the transmit rings it sends on, all as counters, with the retry of
`router.c`: every place a buffer of one pool can be. The virtqueue is reduced to
the number of its entries that are sent and not reclaimed. A burst is cut at the end
of a cache line of descriptors (`Taken`), and any number of its packets may be too
short and have their buffers posted again, as `virtio_recv_pkts` does. The size of the
pool is chosen at the start (`PoolSizes`).

### The other program

**`Forwarder`** has `main` up to the launch of both threads, and the threads. An
increment of a counter is a read and a write, modulo `UINT32`, and is made after an
idle poll as well (`recv_pkts += rx` with `rx` 0): it may write back a value that is
no longer current. `received` and `sent` are history variables, `MaxArrivals` bounds
the traffic.

Operators named `...Mutant` are faulty variants of the definition that follows
them, kept to show that the checked properties are sensitive to such faults. No
specification uses them.

## The runs

`tlc -config <cfg> <module>`; a cfg is named after its module and what it is an
instance of. The name of the run in `PROJECT.json` comes first.

| Run | Cfg | Shows | Bounds |
|---|---|---|---|
| `build` | `MCRoutingTable_build` | `IInv`, `LongestPrefixMatch` at every step of a build, `BuildExitIsExhaustion`, `ImplementsFib` over two builds | 4-bit addresses, 2-bit index, up to 3 routes per build, 2 addresses in two blocks, four prefix lengths from 0 to one above the width, one long table |
| `threads` | `MCRouter_threads` | `TypeOK` (arrays and loop counters stay within bounds), `MbufOwnedOnce`, `ReceiveOrderKept`, `TxQueueExclusive`, `EvenlyDistributed`, and under fairness `QuitEnds`, `FirstQueueServed` | 2 workers, 2 ports with 2 queues, none to two interfaces, 2 buffers, bursts of 2, 1 retry |
| `frames` | `MCRouter_frames` | `ForwardedAlongRoute`, `ChecksumDecides`, `ArpAnswered`, `OnlyStrayRouteUndefined` | 1 worker, 1 buffer, 3 ports, five lists of interfaces, each header field at the values its checks tell apart, 16-bit words with sums around every carry |
| `list` | `MCPointerList_list` | `TypeOK` (capacity and cells agree), `ExitsExplained`, `ImplementsSeqList` | 3-bit unsigned, two values, indexes up to one beyond the longest list, so that capacities 0, 1, 2, 4, 7 and the overflow all occur |
| `main` | `MCProgram_main` | `ServesBuiltTable`, `ServesEachPortOnce`, `UsualFormAccepted`, `AcceptedIsMeant` | single options with fields that are shortest, longest, one too long, out of range, empty, negative or no number; all command lines of up to 4 of eleven options; 2 devices, room for 3 routes |
| `lcores` | `Launch_lcores` | `FreedAfterLast`, `LaunchNeverRefused`, `EndsAfterQuit` | up to 5 lcores, five sets with and without gaps |
| `ring` | `MCRing_pool` | `SlotExclusive`, `PutNeverRefused`, `ImplementsFifo`, `ReservedIsReleased` | 3 threads, 4 slots, 3 objects, bulks of 1 and 2, 2 moved per side, 3-bit indexes that wrap |
| `buffers` | `Buffers_sized` | `BuffersConserved`, `RefillSucceeds`, `CacheWithinArray`, `KeepsReceiving` | 2 transmit rings of 3, receive ring of 4, bursts of 3, cache lines of 2 descriptors, pools of 9 and 16 buffers |
| `tx` | `VirtioTx_descs` | `DescriptorsConserved`, `SentOnce`, `InFlightStable`, `RetrySucceeds` | 2 descriptors, packets of 1 and 2, 3 buffers, 2-bit indexes starting before the wrap, any order of completion |
| `fwd` | `Forwarder_threads` | `QueuesExclusive`, `OnlyInterleavingLoses`, `BackToPolling` | 2 interfaces, 5 numbers typed, 3 packets in all, bursts of 2, transmit rings of 1, counters that wrap at 3 |
| `default_route` | `MCRoutingTable_default_route` | a counterexample to `EveryRouteCanBeBuilt` | as `build`, with six addresses, every length and one build |
| `checksum_zero` | `MCRouter_checksum` | a counterexample to `CorrectIsForwarded` | as `frames` |

Deadlock is checked on the buffers and the virtqueue, where the program may not
stop. The other specifications end: a process exits or is told to quit, all
command-line options are read, or a bound on builds, traffic or moved objects is
reached.

The bounds are small but not accidental. Two levels of table need one bit of index
and one of slot at least; two of each make ranges with interior points. Three
routes are enough for any pair to disagree about a third. Two buffers are a pair
for each property of a pair of frames, and fill a burst of two from one queue or
from two; a third frame, which does not fit into that burst, makes the run of
`threads` with its liveness properties too large, and the bound on the burst rests
on the proof of `TypesAreKept` there. Two workers on two ports with crossing
routes meet at every transmit ring. In the ring, a third thread is what it takes
for one call to be overtaken by both a put and a get. Index widths are a multiple
of the ring size larger than it, as in the code, so that a wrap of the index and a
wrap of the slot are different events. On two descriptors a packet of two waits
for both of two packets of one, in either order; with four the run is too large.
Pool sizes are the least for which the conditions of `KeepsReceiving` (9) and of
`RefillSucceeds` (16) hold.

With the numbers of `dpdk_init.c` (2047 buffers, rings and caches of 256, bursts
of 32) the condition of `RefillSucceeds` holds for up to six ports to send on
(`RouterPoolSuffices`), and that of `KeepsReceiving` too. From eight on a port can stop receiving for good:
all its buffers are on transmit rings that nothing is sent on any more.

Two runs end in a counterexample to what the repository says of itself:

* `default_route`: `-r` accepts prefix lengths "between 0 and 32"
  (`src/router.c:162`), but the build of a /0 route with low address bits set writes
  outside `tbl24_table` (`src/routing_table.c:112`).
* `checksum_zero`: "Check if the checksum is correct." (`src/router.c:214`). The field
  is compared with what `rte_ipv4_cksum` computes (`src/router.c:218`), which is
  0xffff and never 0. A header whose other words add up to 0xffff has the correct
  checksum 0 and is dropped.

`ChecksumDecides` states what does hold: without options no incorrect header passes
and every correct one does whose checksum is not 0.

Other things the code does, which a reader of its comments may not expect, are in
the models, and the properties are stated so as to allow for them:

* A route may name a port that no `-p` attached (`src/router.c:194`); a packet for
  it is transmitted on queues that were never set up. `OnlyStrayRouteUndefined`
  says that this is the only way there.
* Removing the only element of a list of capacity one ends the process with
  "Unable to allocate memory!" (`src/utils/pointer_list.c:18`), as `realloc` to
  zero bytes returns NULL: the second case of `ExitsExplained`.
* A number of ten digits is cut to 32 bits before its range is tested
  (`src/router.c:109`), and text that is no number passes as a prefix length of 0
  (`src/router.c:160`). `AcceptedIsMeant` is about the other options.
* With CPUs 0 and 2 only, the second worker is launched on lcore 1
  (`src/router.c:508`), which does not exist. `EndsAfterQuit` is about contiguous
  ids.
* The checksum covers 20 bytes (`src/router.c:217`), so that a header with options
  passes if it is right without them, and fails if it is right with them.
  `TestDecides` says which headers pass, for every header length.
* An ARP request for the address of another interface is answered with the hardware
  address of the receiving one (`src/router.c:351`), where the comment speaks of "the
  hardware address of the protocol address" (`src/router.c:332`). `ArpAnswered` says
  that a reply carries the hardware address of the port it leaves by.
* Increments of the forwarder's counters are lost when its two threads interleave
  (`src/forwarder/fwd.c:42`, 77). `OnlyInterleavingLoses` says that nothing
  else loses any, and that the counters never run ahead.
  And 257 is accepted as interface 1 (`src/forwarder/fwd.c:125`).

**Fairness.** `Router`, `Launch` and `Forwarder` assume that every lcore keeps
running (weak fairness of the master and of each worker): each has a CPU of its
own. `Ring` assumes the same of a thread within a call; without it the others may
wait for ever. `Buffers` assumes it of the worker. Nothing is assumed of arriving
traffic or of the user. Nothing is assumed of the cards in `Router` and `Buffers`:
a transmit ring may stay full for ever, `QuitEnds` rests on the bounded retry, and
`KeepsReceiving` on the size of the pool. The endless retry of the forwarder needs
more: `VirtioTx` and `Forwarder` assume that the card goes on sending.
`FirstQueueServed` speaks of queue 0 only, as `recv_from_device` starts there each
time; a later queue may starve under load.

## The proofs

`tlapm <module>.tla` checks them. They hold for every value of the constants that
satisfies the named assumptions of the modules (`RouterAssumption`, ...): any
number of lcores, ports, buffers and routes, any size of table, ring, cache and
word, any traffic. TLC evaluates every assumption on the runs of the modules.

| Property of a run | Theorem | Module |
|---|---|---|
| `IInv`, `LongestPrefixMatch` | `Invariance`, `LookupIsLongestMatch` | `RoutingTableProofs` |
| `BuildExitIsExhaustion`, `ImplementsFib` | `ExhaustionIsReal`, `TableIsFib` | `RoutingTableFib` |
| `EvenlyDistributed`, `TxQueueExclusive`, `MbufOwnedOnce` | `SharesAreEven`, `QueuesAreOwn`, `BuffersAreOwnedOnce` | `RouterProofs` |
| `TypeOK` (of `Router`), `ReceiveOrderKept` | `TypesAreKept`, `FramesKeepOrder` | `RouterFrames` |
| `ForwardedAlongRoute`, `ArpAnswered`, `ChecksumDecides`, `OnlyStrayRouteUndefined` | `PacketsFollowRoutes`, `RequestsAreAnswered`, `ChecksumsDecide`, `OnlyRoutesStray` | `RouterFrames` |
| `CacheWithinArray`, `BuffersConserved`, `RefillSucceeds` | `CacheNeverOverruns`, `DriversKeepCaches`, `NoBufferIsLost`, `RefillNeverFails` (and `RouterPoolSuffices`) | `BuffersProofs` |
| `SlotExclusive`, `ImplementsFifo` | `SlotsAreExclusive`, `RingIsFifo` | `RingProofs` |
| `PutNeverRefused` | `PutsAreNeverRefused` | `RingPuts` |
| `FreedAfterLast`, `LaunchNeverRefused` | `FinalizeIsSafe`, `EveryLaunchIsTaken` | `ComponentProofs` |
| `QueuesExclusive`, `OnlyInterleavingLoses` | `QueuesNeverShared`, `CountersLoseOnly` | `ComponentProofs` |
| `TypeOK` (of `PointerList`), `ExitsExplained`, `ImplementsSeqList` | `ListIsTyped`, `EveryExitHasItsCause`, `ListIsSequence` | `ComponentProofs` |

**Routing table.** `RoutingTableProofs` takes every `W`, `P` with `1 <= P < W`, every
table size within the two limits the comments in `routing_table.c` state, every
set of routes and any number of builds. `LookupIsLongestMatch` is its main result;
besides, `TypeCorrect` (every field stays in its range), `LongTablesAreOwned` (each
block with a long route has one long table), `LongTablesNeverRunOut` (with the
sizes of the code the build never runs out of them) and
`OnlyDefaultRouteIsUndefined` (only a /0 route with low bits set leaves
`tbl24_table`). All follow from `Invariance`, `Spec => []IInv`.

`LongestPrefixMatch` is not inductive by itself. `IInv` adds that each block with a
long route owns a long table nobody else writes (`OneLongTablePerBlock`), that
tables not handed out hold no ids (`FreeTablesEmpty`), so a new one starts empty,
that entries of `tbl24_table` without a long table hold routes of at most `P` bits
(`ShortEntriesShort`), so what a long table inherits never beats the new route,
and that the counters and `in_use` flags agree. The argument for a step: the
lookup of an address changes only if the new route covers it (`SlotsCover`,
`RangeCovers`), it then changes to the new route exactly if that is preferred
(`LteLookup`, `AllocLookup`, `LongLookup`), and the longest match of the first
`n + 1` routes is that of the first `n`, or route `n` (`MatchStep`).

`RoutingTableFib` counts: the long blocks are in bijection with the tables handed
out (`LongBlocksCount`), so a build that finds none left has met more blocks than
there are tables (`ExhaustionIsReal`). The refinement of `Fib` (`TableIsFib`) needs
one more invariant, `Digested`: the routes written so far could be written. With
it, the last step of a build maps to `Fib`'s one step (`BuildIs`: the table then
answers for all routes of the build), an exit to its failure, which `Fib` allows
only if the routes are not `Buildable` (`FailIs`), `add_route` to an append, and
the steps in between to stuttering (`FibStep`).

The assumptions are `SizeAssumption` and `FieldAssumption` (the sizes fit their
fields), `InputAssumption` (what callers pass) and `PowerAssumption`, which states
laws of powers of two because the provers treat exponentiation as an unknown
function.

**Router.** `RouterProofs` and `RouterFrames` have six invariants in layers, each
inductive with the help of those before it:

* `RInv`: the phase of the master, the states of the lcores and the configuration
  each worker reads. A worker is RUNNING from its launch to its end, which is what
  the master waits for: `ConfsAreFreedLast` (`ConfsOutliveWorkers`, which
  `FreedAfterLast` is the finer form of). `QueuesAreOwn` rests on the queue id being
  fixed to the thread index.
* `DInv`: which interfaces have been dealt, and that the share of thread `t` is
  every `LcoreCount`-th interface from `t` on. `SharesAreEven` is then arithmetic.
* `TInv`: the lengths of rings and bursts. A burst has room for what one more
  `rte_eth_rx_burst` may return, as the call asks for no more.
* `OInv`: every buffer is in the pool, or at one position of one "store" (a ring, a
  burst or a hand). `StepKinds` shows that every step of the system moves buffers
  from the front of one store to the back of another, frees one, fills a free one,
  or moves none; `OInv` and the next two are proved for these four kinds of step
  instead of for each action. The main result is `BuffersAreOwnedOnce`.
* `CInv`: what the frame in a buffer is, given the store it is in: as it arrived, in
  a receive ring or a burst; what its handler made of it, in a hand or a transmit
  ring. The theorems on what leaves the router follow.
* `QInv`: of two buffers from one receive ring, the one that arrived later is
  behind the other, wherever they are: `FramesKeepOrder`.

For the checksum, `TestDecides` shows for every word size and every header, with
options or without, that the comparison on arrival holds exactly if the header would
be correct with its options left out and its checksum field is not 0, and
`RenewedPasses` that a header that is sent on passes the test of the
next router of this kind. They rest on two facts: folding preserves the sum modulo
`B - 1`, and two folds of a sum of nine words leave less than `B`, the result being
0 only for 0. `TrafficAssumption` says that interfaces and next hops name ports
that exist, that an interface has the hardware address of its card and that frames have the fields of their type.

**Mempool and buffers.** `BuffersProofs`: `CacheNeverOverruns` and
`CacheStaysBounded` (`CacheBounded`) for every pool and cache size that
`rte_mempool_create_empty` accepts and bulks of any size. The bound on the length
between calls is what makes the bound on writes inductive. `DriversKeepCaches` is
the same for the driver's use of the mempool. `NoBufferIsLost`: the invariant
`BInv` adds to the sum what keeps its summands natural numbers; a transmission has
its packet in hand and reclaims no more than was sent, and no ring is overfull. A sum over
lcores or ports is the cardinality of a set of pairs, so that changing one summand
needs no induction. `RefillNeverFails` follows: what can be elsewhere is bounded by
the rings and caches; if the pool is larger, no refill fails. `RouterPoolSuffices`
shows that it is, with the sizes of the router and up to six ports to send on. It needs
how much the setup leaves in the master's cache (`SInv`): the first buffer of the ring
fills the cache, the others come out of it, and as ring and cache have the same size
one is left.

**Ring.** `RingProofs` argues about indexes that do not wrap. The invariant says
that there are numbers `h`, `l` and `b` of which the heads, the tails and the
`old_head`s of the calls are the remainders, and a sequence `v` of all objects ever
put, such that `Placed`: the tails are behind the heads, which are at most a ring
apart; the calls that are copying own disjoint ranges that tile the positions
between tail and head; and `Valued`: position `x` of the ring holds `v[x]` from
when it is published until it is taken, and no object is in two places.
Remainders are met only where the code subtracts, compares or masks an index
(`IndexRoom`, `SameIndex`, `SlotsDiffer`), where the numbers are too near each other
to be confused. `RingIsOrdered` is the invariant; `SlotsAreExclusive` follows from
the disjoint ranges. For `RingIsFifo` the queue is what is between the head of the
consumers and the tail of the producers: the compare-and-set of a get is the
`Dequeue`, the move of the tail of a put the `Enqueue`, and all other steps leave
queue and owners as they are. `RingPuts` adds that a thread with `n` objects to put
finds that many slots free if at most `size - 1` objects exist, since its own and
those in the ring are all different (`Crowded` in `RingProofs`, `NeverShort`).

These proofs assume what the code does: that no thread, between reading a head and
the compare-and-set, sleeps until the others have moved the head by almost the
whole range of the index (`NoLap`); the compare-and-set could not tell.

**Launch, forwarder, pointer list.** `ComponentProofs`. The invariant of the launch
(`LaunchIInv`) ties each slave's place in its loop to its state and to the bytes in
its pipes (a slave past its acknowledgement is RUNNING; one that is waited for and
WAIT has nothing in its pipe), and says which slaves the master's loop has already
set back to WAIT. That of the forwarder (`ForwarderIInv`): a value held in a
register is at most the number of packets counted by then less the thread's own
outstanding ones, which is what the write adds back. For a thread alone (`AloneInv`)
the register and the counter are exact, modulo `UINT32`, at each point of the loop.
That of the list (`ListInv`):
`_cap` is the number of cells there are, and the first `_len` hold values.
`ListIsSequence` then shows, call by call, that the cells up to `_len` and the result
become what `SeqList` says of the call of that name and arguments. `qsort` is any arrangement in ascending order in which
every value occurs as often as before.

**Only model-checked.** All liveness (`QuitEnds`, `FirstQueueServed`,
`EndsAfterQuit`, `ReservedIsReleased`, `RetrySucceeds`, `KeepsReceiving`,
`BackToPolling`), which is out of the prover's reach. What is about `Program` and
`Options` (`ServesBuiltTable`, `ServesEachPortOnce`, `UsualFormAccepted`,
`AcceptedIsMeant`) and about `Virtqueue` and `VirtioTx` (`DescriptorsConserved`,
`SentOnce`, `InFlightStable`): they read texts and follow descriptor chains with
recursive operators, which the prover cannot unfold.

## Not modelled

Most of DPDK. The repository contains the whole of it, some 920000 lines, against
about 1700 of its own; the part of it that runs after start-up in this program,
and has state worth a model, is the ring, the mempool, the receive and transmit
functions of the driver, and the launch protocol. Other drivers, libraries,
examples and tests are never executed by the router. The share of all lines that
the modules cover is therefore tiny, and the share of the repository's own code
is most of it.

Of the virtio driver: the descriptors of the receive ring, which `Buffers`
counts; offloads, and with them the packets discarded for wrong offload data, as
the driver asks the device for none of the offloads of received packets;
mergeable receive buffers, the vector functions, the control queue and the
negotiation with the device. Of the ring: the single producer and burst variants.
Weak memory models other than that of x86-64.

`src/dummy_routing_table.c` is a list-based table no build target compiles.

Of the router: why a DPDK call in `configure_device` may fail, except for a
device that is already started; `init_dpdk` apart from the launch protocol;
messages and formatting, `print_routes` among them; what the bytes after the headers hold; `malloc` failing,
whose result the code does not test. Of the forwarder: the time stamp, and what a
launch on a missing lcore does, for which see `Launch`. The unit tests were read
for what they expect and are not modelled.
