------------------------------ MODULE Buffers ------------------------------
(***************************************************************************)
(* Where the buffers of one receive queue go: create_mempool and           *)
(* configure_device (dpdk_init.c) give every receive queue a mempool of    *)
(* its own, the worker that serves the port takes the packets, forwards or *)
(* frees them, and a buffer on a transmit ring comes back only when the    *)
(* same worker sends again on that port (virtio_xmit_pkts reclaims         *)
(* lazily).  Counted with the mempool of module Mempool; descriptors are   *)
(* counted too, and how a transmit ring keeps them is in VirtioTx.         *)
(***************************************************************************)
EXTENDS Mempool, FiniteSets

CONSTANTS
  master,         \* the lcore that sets the ports up
  worker,         \* the lcore that serves the port
  Ports,          \* the ports the worker sends on
  RX_DESCS, TX_DESCS, free_thresh, MAX_BURST_SIZE, MAX_TRANSMIT_TRIAL,
  DESC_PER_CACHELINE

ASSUME BuffersAssumption ==
  /\ {master, worker} \subseteq Lcores /\ IsFiniteSet(Lcores) /\ IsFiniteSet(Ports)
  /\ RX_DESCS \in Nat \ {0} /\ TX_DESCS \in Nat \ {0}
  /\ free_thresh \in 0 .. TX_DESCS - 1 /\ MAX_BURST_SIZE \in Nat \ {0}
  /\ MAX_TRANSMIT_TRIAL \in Nat \ {0} /\ DESC_PER_CACHELINE \in Nat \ {0}
  /\ 1 \in Bulks

VARIABLES
  pc,             \* "setup", "poll" (between calls), "refill", "clean" or "reclaim"
  posted,         \* buffers the receive ring holds: empty ones
  filled,         \*   and packets
  used_cons_idx,  \* packets taken from it, modulo DESC_PER_CACHELINE
  hand,           \* packets of the burst not yet handled
  call,           \* of a transmission: port, trials so far, used entries to reclaim
  sending,        \* Ports -> packets the transmit ring has to send
  sent,           \* Ports -> packets sent, not reclaimed
  n_objs          \* objects the pool was created with

queues == <<posted, filled, used_cons_idx, sending, sent>>
allVars == <<pool, user, pc, queues, hand, call, n_objs>>

NoCall == [port |-> CHOOSE p \in Ports : TRUE, trial |-> 0, num |-> 0]

BInit ==
  /\ Init /\ n_objs = common
  /\ pc = "setup" /\ posted = 0 /\ filled = 0 /\ used_cons_idx = 0 /\ hand = 0 /\ call = NoCall
  /\ sending = [p \in Ports |-> 0]
  /\ sent = [p \in Ports |-> 0]

\* One round of the loop in virtio_dev_rx_queue_setup, on the master lcore, and
\* of the loop in virtio_recv_pkts, on the worker's.
RefillOne(l) ==
  /\ posted + filled < RX_DESCS
  /\ Gets(l, 1)
  /\ posted' = posted + 1
  /\ UNCHANGED <<user, pc, filled, used_cons_idx, hand, call, sending, sent>>

Refilled(l) == posted + filled = RX_DESCS \/ Fails(l, 1)

Setup == pc = "setup" /\ RefillOne(master)
SetupDone == pc = "setup" /\ Refilled(master) /\ pc' = "poll" /\ UNCHANGED <<pool, user, queues, hand, call>>

\* How many packets virtio_recv_pkts takes: at most a burst (MAX_BURST_SIZE is below
\* its own limit of 64), and of many only those up to the end of a cache line of
\* descriptors.
Taken ==
  LET num == IF filled <= MAX_BURST_SIZE THEN filled ELSE MAX_BURST_SIZE
  IN  IF num > DESC_PER_CACHELINE THEN num - ((used_cons_idx + num) % DESC_PER_CACHELINE) ELSE num

\* The worker receives a burst, of which k packets are too short: their buffers go
\* back to the ring (virtio_discard_rxbuf).  No packet has offload data that could be
\* wrong: the driver does not ask for offloads of received packets.
Receive ==
  /\ pc = "poll" /\ hand = 0
  /\ \E k \in 0 .. Taken : hand' = Taken - k /\ posted' = posted + k
  /\ filled' = filled - Taken
  /\ used_cons_idx' = (used_cons_idx + Taken) % DESC_PER_CACHELINE
  /\ pc' = "refill"
  /\ UNCHANGED <<pool, user, call, sending, sent>>

Refill == pc = "refill" /\ RefillOne(worker)
RefillDone == pc = "refill" /\ Refilled(worker) /\ pc' = "poll" /\ UNCHANGED <<pool, user, queues, hand, call>>

FreedMutant ==
  /\ hand' = hand - 1
  /\ pc' = "poll"
  /\ call' = NoCall
  /\ UNCHANGED <<pool, user, queues>>
Freed ==
  /\ Puts(worker, 1)
  /\ hand' = hand - 1
  /\ pc' = "poll"
  /\ call' = NoCall
  /\ UNCHANGED <<user, queues>>

\* A packet is not forwarded.
Drop == pc = "poll" /\ hand > 0 /\ Freed

\* rte_eth_tx_burst of a packet on port p: a call begins by reclaiming all that
\* was sent if that is nearly the whole ring.
Try(p, trial) ==
  /\ call' = [port |-> p, trial |-> trial, num |-> IF sent[p] > TX_DESCS - free_thresh THEN sent[p] ELSE 0]
  /\ pc' = "clean"
  /\ UNCHANGED <<pool, user, queues, hand>>

Transmit(p) == pc = "poll" /\ hand > 0 /\ Try(p, 1)

\* virtio_xmit_cleanup, one entry.
ReclaimOne ==
  /\ pc \in {"clean", "reclaim"} /\ call.num > 0
  /\ Puts(worker, 1)
  /\ sent' = [sent EXCEPT ![call.port] = @ - 1]
  /\ call' = [call EXCEPT !.num = @ - 1]
  /\ UNCHANGED <<user, pc, posted, filled, used_cons_idx, hand, sending>>

FreeDescs == TX_DESCS - sending[call.port] - sent[call.port]

\* With no descriptor left, one used entry is reclaimed.
Need ==
  /\ pc = "clean" /\ call.num = 0
  /\ call' = [call EXCEPT !.num = IF FreeDescs = 0 /\ sent[call.port] > 0 THEN 1 ELSE 0]
  /\ pc' = "reclaim"
  /\ UNCHANGED <<pool, user, queues, hand>>

EnqueuedMutant ==
  /\ pc = "reclaim" /\ call.num = 0 /\ FreeDescs > 0
  /\ sending' = [sending EXCEPT ![call.port] = @ + 1]
  /\ Puts(worker, 1)
  /\ hand' = hand - 1
  /\ pc' = "poll"
  /\ call' = NoCall
  /\ UNCHANGED <<user, posted, filled, used_cons_idx, sent>>
Enqueued ==
  /\ pc = "reclaim" /\ call.num = 0 /\ FreeDescs > 0
  /\ sending' = [sending EXCEPT ![call.port] = @ + 1]
  /\ hand' = hand - 1
  /\ pc' = "poll"
  /\ call' = NoCall
  /\ UNCHANGED <<pool, user, posted, filled, used_cons_idx, sent>>

\* The ring is full: the packet is tried again, and freed after the last trial.
Refused ==
  /\ pc = "reclaim" /\ call.num = 0 /\ FreeDescs = 0
  /\ IF call.trial < MAX_TRANSMIT_TRIAL THEN Try(call.port, call.trial + 1) ELSE Freed

Worker ==
  /\ \/ Setup \/ SetupDone \/ Receive \/ Refill \/ RefillDone \/ Drop
     \/ \E p \in Ports : Transmit(p)
     \/ ReclaimOne \/ Need \/ Enqueued \/ Refused
  /\ UNCHANGED n_objs

\* The cards.
Fill ==
  /\ posted > 0
  /\ posted' = posted - 1 /\ filled' = filled + 1
  /\ UNCHANGED <<pool, user, pc, used_cons_idx, hand, call, sending, sent, n_objs>>

Sent(p) ==
  /\ sending[p] > 0
  /\ sending' = [sending EXCEPT ![p] = @ - 1]
  /\ sent' = [sent EXCEPT ![p] = @ + 1]
  /\ UNCHANGED <<pool, user, pc, posted, filled, used_cons_idx, hand, call, n_objs>>

BNext == Worker \/ Fill \/ \E p \in Ports : Sent(p)

BSpec == BInit /\ [][BNext]_allVars
BFairSpec == BSpec /\ WF_allVars(Worker)
-----------------------------------------------------------------------------
\* What f counts, one element each, and how many they are.
Counted(f) == UNION {{x} \X (1 .. f[x]) : x \in DOMAIN f}
Total(f) == Cardinality(Counted(f))

\* No buffer of the pool is lost or counted twice on its way from the receive
\* ring over the worker and the transmit rings back into a cache or the ring.
BuffersConserved ==
  common + Total(len) + posted + filled + hand + Total(sending) + Total(sent) = n_objs

\* Buffers in the cache of the master, which the worker cannot get at.
Stranded == IF master = worker THEN 0 ELSE len[master]

\* rte_mbuf_raw_alloc finds no buffer for a descriptor of the receive ring.
RefillFails == pc = "refill" /\ posted + filled < RX_DESCS /\ Fails(worker, 1)

\* The receive ring stays full as long as the pool can fill both kinds of ring:
\* unless the transmit rings of the worker can hold all other buffers, a refill
\* ends with no descriptor without a buffer.
RefillSucceeds ==
  n_objs > RX_DESCS + MAX_BURST_SIZE + Cardinality(Ports) * TX_DESCS + Stranded => ~RefillFails

\* A transmit ring gives its last packets back only when something is sent on it
\* again.  A pool larger than all of them and the master's cache together is
\* enough for the port never to stop receiving, whatever the cards do.
KeepsReceiving ==
  n_objs > Cardinality(Ports) * TX_DESCS + cache_size => []<>(posted + filled > 0)
=============================================================================
