------------------------------- MODULE Router -------------------------------
(***************************************************************************)
(* start_router and the threads it runs (router.c), on top of the DPDK     *)
(* calls they make.  The master configures the interfaces parse_args left  *)
(* in int_confs, deals them out to the worker threads, launches one worker *)
(* per slave lcore, works as worker 0 itself, waits for the slaves and     *)
(* frees the configuration.  A worker polls its interfaces in bursts and   *)
(* forwards, answers or frees every frame it gets.                         *)
(*                                                                         *)
(* Routes do not change once the threads run: get_next_hop is Hop.         *)
(***************************************************************************)
EXTENDS Frames, Functions

CONSTANTS
  Ports,              \* the port numbers
  LcoreCount,         \* rte_lcore_count()
  MAX_BURST_SIZE,     \* 32
  MAX_TRANSMIT_TRIAL, \* 10
  RX_DESCS,           \* slots of a receive ring (256)
  TX_DESCS,           \* slots of a transmit ring (256)
  Mbufs,              \* the packet buffers
  FrameSet,           \* the frames that arrive
  IntConfLists        \* the values of int_confs when start_router is called

ASSUME RouterAssumption ==
  /\ LcoreCount \in Nat \ {0}
  /\ MAX_BURST_SIZE \in Nat \ {0}
  /\ MAX_TRANSMIT_TRIAL \in Nat \ {0}
  /\ RX_DESCS \in Nat \ {0}
  /\ TX_DESCS \in Nat \ {0}

\* parse_args lists interfaces that exist, with the addresses of their cards; a next
\* hop's port is a dpdk_interface.
ASSUME TrafficAssumption ==
  /\ \A l \in IntConfLists :
       l \in Seq(Range(l)) /\ \A i \in DOMAIN l : l[i].int_id \in Ports /\ l[i].mac = MacOf(l[i].int_id)
  /\ \A f \in FrameSet :
       /\ f.ether_type = "ipv4" => IsIpv4Frame(f) /\ (Hop(f.ip.dst_addr) = NoHop \/ Hop(f.ip.dst_addr).dst_port \in Ports)
       /\ f.ether_type = "arp" => IsArpFrame(f)

\* MASTER_LCORE_DOES_WORK: worker i runs on lcore i, the master is lcore 0.
Workers == 0 .. LcoreCount - 1
Slaves  == 1 .. LcoreCount - 1
Queues  == 0 .. LcoreCount - 1
Rings   == Ports \X Queues

VARIABLES
  int_confs,   \* the list of [int_id, addr, mac]
  thr_confs,   \* Workers -> [int_confs, q_id]
  mpc,         \* where the master is in start_router, see MasterPhases
  mi,          \* its loop counter
  lcore,       \* Slaves -> state of the lcore ("WAIT", "RUNNING", "FINISHED")
  force_quit,
  tpc,         \* Workers -> where the worker is in router_thread
  ti,          \* Workers -> loop counter over the worker's interfaces, from 1
  tq,          \* Workers -> next queue of recv_from_device
  received,    \* Workers -> received_frames
  bufs,        \* Workers -> mbufs received and not yet handled
  sending,     \* Workers -> <<mbuf, port, i>> in the transmit loop, <<>> outside it
  configured,  \* ports configure_device has started
  pool,        \* Mbufs -> number of times the buffer is in its mempool
  data,        \* Mbufs -> the frame in the buffer
  origin,      \* Mbufs -> the frame, port and queue it was received with
  older,       \* the <<m, n>> in use of which m arrived before n (a history variable)
  rxq,         \* Rings -> receive ring
  txq          \* Rings -> transmit ring

master  == <<int_confs, thr_confs, mpc, mi, lcore, configured>>
workers == <<tpc, ti, tq, received, bufs, sending>>
buffers == <<pool, data, origin, older>>
rings   == <<rxq, txq>>
vars    == <<master, force_quit, workers, buffers, rings>>

MasterPhases == {"configure", "launch", "work", "wait", "end", "exit", "undefined"}
WorkerPhases == {"idle", "top", "recv", "frames", "send", "sleep", "done"}

\* The process has not ended, and has not run into undefined behaviour.
Alive == mpc \notin {"end", "exit", "undefined"}

\* What a buffer in its mempool holds is never looked at.
NoFrame == CHOOSE f \in FrameSet : TRUE
NoOrigin == [frame |-> NoFrame, ring |-> <<CHOOSE p \in Ports : TRUE, 0>>]

\* rte_pktmbuf_free: the buffer goes back to its mempool.
Free(m) ==
  /\ pool' = [pool EXCEPT ![m] = @ + 1]
  /\ data' = [data EXCEPT ![m] = NoFrame]
  /\ origin' = [origin EXCEPT ![m] = NoOrigin]
  /\ older' = {x \in older : m \notin {x[1], x[2]}}
-----------------------------------------------------------------------------
(***************************************************************************)
(* The master: start_router.                                               *)
(***************************************************************************)
QIdMutant(i) == IF i = 0 THEN 0 ELSE i - 1
QId(i) == i         \* pointer_list_len(&thr_confs) before the append

ThreadOfMutant(i) == i % (LcoreCount - 1)
ThreadOf(i) == i % LcoreCount

\* One iteration of the loop that configures and deals out the interfaces.
ConfigureInterface ==
  LET int_conf == int_confs[mi + 1]
      t == ThreadOf(mi)
  IN  /\ mpc = "configure"
      /\ mi < Len(int_confs)
      /\ int_conf.int_id \notin configured
      /\ configured' = configured \cup {int_conf.int_id}
      /\ thr_confs' = [thr_confs EXCEPT ![t].int_confs = Append(@, int_conf)]
      /\ mi' = mi + 1
      /\ UNCHANGED <<int_confs, mpc, lcore, force_quit, workers, buffers, rings>>

\* A DPDK call of configure_device fails, always so for a port that was
\* started before, and check_dpdk_error ends the process.
ConfigureError ==
  /\ mpc = "configure"
  /\ mi < Len(int_confs)
  /\ mpc' = "exit"
  /\ UNCHANGED <<int_confs, thr_confs, mi, lcore, configured, force_quit, workers, buffers, rings>>

ConfigureEndMutant ==
  /\ mpc = "configure"
  /\ mi \in {Len(int_confs) - 1, Len(int_confs)}
  /\ mpc' = "launch"
  /\ mi' = 1
  /\ UNCHANGED <<int_confs, thr_confs, lcore, configured, force_quit, workers, buffers, rings>>
ConfigureEnd ==
  /\ mpc = "configure"
  /\ mi = Len(int_confs)
  /\ mpc' = "launch"
  /\ mi' = 1
  /\ UNCHANGED <<int_confs, thr_confs, lcore, configured, force_quit, workers, buffers, rings>>

\* start_thread: rte_eal_remote_launch returns once the slave has acknowledged,
\* and the slave is RUNNING before it does.
start_thread ==
  /\ mpc = "launch"
  /\ mi \in Slaves
  /\ lcore[mi] = "WAIT"
  /\ lcore' = [lcore EXCEPT ![mi] = "RUNNING"]
  /\ tpc' = [tpc EXCEPT ![mi] = "top"]
  /\ mi' = mi + 1
  /\ UNCHANGED <<int_confs, thr_confs, mpc, configured, force_quit, ti, tq, received,
                 bufs, sending, buffers, rings>>

\* The master calls router_thread itself.
MasterWorks ==
  /\ mpc = "launch"
  /\ mi \notin Slaves
  /\ mpc' = "work"
  /\ tpc' = [tpc EXCEPT ![0] = "top"]
  /\ UNCHANGED <<int_confs, thr_confs, mi, lcore, configured, force_quit, ti, tq, received,
                 bufs, sending, buffers, rings>>

MasterWorked ==
  /\ mpc = "work"
  /\ tpc[0] = "done"
  /\ mpc' = "wait"
  /\ mi' = 1
  /\ UNCHANGED <<int_confs, thr_confs, lcore, configured, force_quit, workers, buffers, rings>>

Waitable(s) == lcore[s] # "RUNNING"

\* One slave of rte_eal_mp_wait_lcore: rte_eal_wait_lcore spins while it runs.
rte_eal_wait_lcore ==
  /\ mpc = "wait"
  /\ mi \in Slaves
  /\ Waitable(mi)
  /\ lcore' = [lcore EXCEPT ![mi] = "WAIT"]
  /\ mi' = mi + 1
  /\ UNCHANGED <<int_confs, thr_confs, mpc, configured, force_quit, workers, buffers, rings>>

\* router_finalize frees both lists; main returns.
router_finalize ==
  /\ mpc = "wait"
  /\ mi \notin Slaves
  /\ int_confs' = <<>>
  /\ thr_confs' = [t \in {} |-> {}]
  /\ mpc' = "end"
  /\ UNCHANGED <<mi, lcore, configured, force_quit, workers, buffers, rings>>

Master == \/ ConfigureInterface \/ ConfigureError \/ ConfigureEnd \/ start_thread
          \/ MasterWorks \/ MasterWorked \/ rte_eal_wait_lcore \/ router_finalize

\* SIGINT or SIGTERM, at any time.
signal_handler ==
  /\ Alive
  /\ ~force_quit
  /\ force_quit' = TRUE
  /\ UNCHANGED <<master, workers, buffers, rings>>
-----------------------------------------------------------------------------
(***************************************************************************)
(* A worker: router_thread.                                                *)
(***************************************************************************)
QuitSeenMutant == FALSE
QuitSeen == force_quit

MyInterfaces(t) == thr_confs[t].int_confs
Interface(t)    == MyInterfaces(t)[ti[t]]
OnInterface(t)  == ti[t] <= Len(MyInterfaces(t))

\* The queue recv_from_device starts with.
FirstQueueMutant == 1
FirstQueue == 0

\* while (!force_quit)
RoundStart(t) ==
  /\ tpc[t] = "top"
  /\ IF QuitSeen
       THEN /\ tpc' = [tpc EXCEPT ![t] = "done"]
            /\ lcore' = IF t \in Slaves THEN [lcore EXCEPT ![t] = "FINISHED"] ELSE lcore
            /\ UNCHANGED <<ti, tq, received>>
       ELSE /\ tpc' = [tpc EXCEPT ![t] = "recv"]
            /\ ti' = [ti EXCEPT ![t] = 1]
            /\ tq' = [tq EXCEPT ![t] = FirstQueue]
            /\ received' = [received EXCEPT ![t] = FALSE]
            /\ UNCHANGED lcore
  /\ UNCHANGED <<int_confs, thr_confs, mpc, mi, configured, force_quit, bufs, sending,
                 buffers, rings>>

\* num_bufs - rx
Room(t) == MAX_BURST_SIZE - Len(bufs[t])

ReceivedMutant(old, new) == old \o [i \in 1 .. Len(new) |-> new[Len(new) + 1 - i]]
Received(old, new) == old \o new

\* recv_from_device, one call of rte_eth_rx_burst.
recv_from_device(t) ==
  LET ring == <<Interface(t).int_id, tq[t]>>
      n == IF Len(rxq[ring]) < Room(t) THEN Len(rxq[ring]) ELSE Room(t)
  IN  /\ tpc[t] = "recv"
      /\ OnInterface(t)
      /\ tq[t] < LcoreCount /\ Len(bufs[t]) < MAX_BURST_SIZE
      /\ bufs' = [bufs EXCEPT ![t] = Received(@, SubSeq(rxq[ring], 1, n))]
      /\ rxq' = [rxq EXCEPT ![ring] = SubSeq(@, n + 1, Len(@))]
      /\ tq' = [tq EXCEPT ![t] = @ + 1]
      /\ UNCHANGED <<master, force_quit, tpc, ti, received, sending, buffers, txq>>

\* It returns rx, the number of frames in bufs.
RecvEnd(t) ==
  /\ tpc[t] = "recv"
  /\ OnInterface(t)
  /\ ~(tq[t] < LcoreCount /\ Len(bufs[t]) < MAX_BURST_SIZE)
  /\ IF bufs[t] = <<>>
       THEN /\ ti' = [ti EXCEPT ![t] = @ + 1]
            /\ tq' = [tq EXCEPT ![t] = FirstQueue]
            /\ UNCHANGED <<tpc, received>>
       ELSE /\ tpc' = [tpc EXCEPT ![t] = "frames"]
            /\ received' = [received EXCEPT ![t] = TRUE]
            /\ UNCHANGED <<ti, tq>>
  /\ UNCHANGED <<master, force_quit, bufs, sending, buffers, rings>>

\* thread_handle_frames, the next frame of the burst, up to its transmission.
thread_handle_frames(t) ==
  LET m == Head(bufs[t])
      verdict == thread_handle_frame(data[m], Interface(t), int_confs)
  IN  /\ tpc[t] = "frames"
      /\ bufs[t] # <<>>
      /\ bufs' = [bufs EXCEPT ![t] = Tail(@)]
      /\ IF verdict.drop
           THEN Free(m) /\ UNCHANGED <<tpc, sending>>
           ELSE /\ data' = [data EXCEPT ![m] = verdict.frame]
                /\ sending' = [sending EXCEPT ![t] = <<m, verdict.port, 0>>]
                /\ tpc' = [tpc EXCEPT ![t] = "send"]
                /\ UNCHANGED <<pool, origin, older>>
      /\ UNCHANGED <<master, force_quit, ti, tq, received, rings>>

FramesEnd(t) ==
  /\ tpc[t] = "frames"
  /\ bufs[t] = <<>>
  /\ tpc' = [tpc EXCEPT ![t] = "recv"]
  /\ ti' = [ti EXCEPT ![t] = @ + 1]
  /\ tq' = [tq EXCEPT ![t] = FirstQueue]
  /\ UNCHANGED <<master, force_quit, received, bufs, sending, buffers, rings>>

rte_eth_tx_burstMutant(t) ==
  LET m    == sending[t][1]
      ring == <<sending[t][2], thr_confs[t].q_id>>
  IN  /\ tpc[t] = "send"
      /\ sending[t][3] <= MAX_TRANSMIT_TRIAL
      /\ sending[t][2] \in configured
      /\ \/ /\ Len(txq[ring]) < TX_DESCS
            /\ txq' = [txq EXCEPT ![ring] = Append(@, m)]
            /\ sending' = [sending EXCEPT ![t] = <<>>]
            /\ tpc' = [tpc EXCEPT ![t] = "frames"]
         \/ /\ sending' = [sending EXCEPT ![t][3] = @ + 1]
            /\ UNCHANGED <<txq, tpc>>
      /\ UNCHANGED <<master, force_quit, ti, tq, received, bufs, buffers, rxq>>

\* rte_eth_tx_burst of one frame takes it, or takes none and is tried again.
rte_eth_tx_burst(t) ==
  LET m    == sending[t][1]
      ring == <<sending[t][2], thr_confs[t].q_id>>
  IN  /\ tpc[t] = "send"
      /\ sending[t][3] < MAX_TRANSMIT_TRIAL
      /\ sending[t][2] \in configured
      /\ \/ /\ Len(txq[ring]) < TX_DESCS
            /\ txq' = [txq EXCEPT ![ring] = Append(@, m)]
            /\ sending' = [sending EXCEPT ![t] = <<>>]
            /\ tpc' = [tpc EXCEPT ![t] = "frames"]
         \/ /\ sending' = [sending EXCEPT ![t][3] = @ + 1]
            /\ UNCHANGED <<txq, tpc>>
      /\ UNCHANGED <<master, force_quit, ti, tq, received, bufs, buffers, rxq>>

\* Transmitting on a port whose queues were never set up.
TransmitUnattached(t) ==
  /\ tpc[t] = "send"
  /\ sending[t][2] \notin configured
  /\ mpc' = "undefined"
  /\ UNCHANGED <<int_confs, thr_confs, mi, lcore, configured, force_quit, workers, buffers, rings>>

TransmitGivenUpMutant(t) ==
  /\ tpc[t] = "send"
  /\ sending[t][3] >= MAX_TRANSMIT_TRIAL
  /\ sending' = [sending EXCEPT ![t] = <<>>]
  /\ tpc' = [tpc EXCEPT ![t] = "frames"]
  /\ UNCHANGED <<master, force_quit, ti, tq, received, bufs, buffers, rings>>

TransmitGivenUp(t) ==
  /\ tpc[t] = "send"
  /\ sending[t][3] >= MAX_TRANSMIT_TRIAL
  /\ Free(sending[t][1])
  /\ sending' = [sending EXCEPT ![t] = <<>>]
  /\ tpc' = [tpc EXCEPT ![t] = "frames"]
  /\ UNCHANGED <<master, force_quit, ti, tq, received, bufs, rings>>

\* All interfaces polled once: usleep(100) after a round without a frame.
RoundEnd(t) ==
  /\ tpc[t] = "recv"
  /\ ~OnInterface(t)
  /\ tpc' = [tpc EXCEPT ![t] = IF received[t] THEN "top" ELSE "sleep"]
  /\ UNCHANGED <<master, force_quit, ti, tq, received, bufs, sending, buffers, rings>>

Wake(t) ==
  /\ tpc[t] = "sleep"
  /\ tpc' = [tpc EXCEPT ![t] = "top"]
  /\ UNCHANGED <<master, force_quit, ti, tq, received, bufs, sending, buffers, rings>>

Worker(t) ==
  /\ Alive
  /\ \/ RoundStart(t) \/ recv_from_device(t) \/ RecvEnd(t)
     \/ thread_handle_frames(t) \/ FramesEnd(t)
     \/ rte_eth_tx_burst(t) \/ TransmitUnattached(t) \/ TransmitGivenUp(t)
     \/ RoundEnd(t) \/ Wake(t)
-----------------------------------------------------------------------------
(***************************************************************************)
(* The network cards.                                                      *)
(***************************************************************************)
\* A frame arrives and is put into any receive ring of a started port; with no
\* buffer or no room the card drops it, and nothing here changes.
Arrive(m, ring, f) ==
  /\ Alive
  /\ ring[1] \in configured
  /\ pool[m] > 0
  /\ Len(rxq[ring]) < RX_DESCS
  /\ pool' = [pool EXCEPT ![m] = @ - 1]
  /\ data' = [data EXCEPT ![m] = f]
  /\ origin' = [origin EXCEPT ![m] = [frame |-> f, ring |-> ring]]
  /\ older' = older \cup {<<n, m>> : n \in {k \in Mbufs : pool[k] = 0}}
  /\ rxq' = [rxq EXCEPT ![ring] = Append(@, m)]
  /\ UNCHANGED <<master, force_quit, workers, txq>>

\* The oldest frame of a transmit ring is on the wire and its buffer is freed.
Depart(ring) ==
  /\ Alive
  /\ txq[ring] # <<>>
  /\ Free(Head(txq[ring]))
  /\ txq' = [txq EXCEPT ![ring] = Tail(@)]
  /\ UNCHANGED <<master, force_quit, workers, rxq>>
-----------------------------------------------------------------------------
\* start_router has created the thread configurations.
Init ==
  /\ int_confs \in IntConfLists
  /\ thr_confs = [t \in Workers |-> [int_confs |-> <<>>, q_id |-> QId(t)]]
  /\ mpc = "configure"
  /\ mi = 0
  /\ lcore = [s \in Slaves |-> "WAIT"]
  /\ force_quit = FALSE
  /\ tpc = [t \in Workers |-> "idle"]
  /\ ti = [t \in Workers |-> 1]
  /\ tq = [t \in Workers |-> FirstQueue]
  /\ received = [t \in Workers |-> FALSE]
  /\ bufs = [t \in Workers |-> <<>>]
  /\ sending = [t \in Workers |-> <<>>]
  /\ configured = {}
  /\ pool = [m \in Mbufs |-> 1]
  /\ data = [m \in Mbufs |-> NoFrame]
  /\ origin = [m \in Mbufs |-> NoOrigin]
  /\ older = {}
  /\ rxq = [ring \in Rings |-> <<>>]
  /\ txq = [ring \in Rings |-> <<>>]

Next ==
  \/ Master
  \/ signal_handler
  \/ \E t \in Workers : Worker(t)
  \/ \E m \in Mbufs, ring \in Rings, f \in FrameSet : Arrive(m, ring, f)
  \/ \E ring \in Rings : Depart(ring)

\* Every lcore keeps running; the cards and the user owe nothing.
Fairness == WF_vars(Master) /\ \A t \in Workers : WF_vars(Worker(t))

Spec == Init /\ [][Next]_vars
FairSpec == Spec /\ Fairness
-----------------------------------------------------------------------------
\* The rings of the ports, a burst and the two loop counters stay within the
\* arrays of the code.
TypeOK ==
  /\ mpc \in MasterPhases
  /\ mi \in 0 .. LcoreCount + Len(int_confs)
  /\ lcore \in [Slaves -> {"WAIT", "RUNNING", "FINISHED"}]
  /\ force_quit \in BOOLEAN
  /\ tpc \in [Workers -> WorkerPhases]
  /\ tq \in [Workers -> 0 .. LcoreCount]
  /\ received \in [Workers -> BOOLEAN]
  /\ configured \subseteq Ports
  /\ \A t \in Workers :
       /\ bufs[t] \in Seq(Mbufs) /\ Len(bufs[t]) <= MAX_BURST_SIZE
       /\ ti[t] \in Nat
       /\ sending[t] = <<>> \/ sending[t] \in Mbufs \X Ports \X (0 .. MAX_TRANSMIT_TRIAL)
       /\ sending[t] # <<>> <=> tpc[t] = "send"
  /\ \A ring \in Rings :
       /\ rxq[ring] \in Seq(Mbufs) /\ Len(rxq[ring]) <= RX_DESCS
       /\ txq[ring] \in Seq(Mbufs) /\ Len(txq[ring]) <= TX_DESCS

\* The buffer worker t is transmitting.
InHand(t) == IF sending[t] = <<>> THEN <<>> ELSE <<sending[t][1]>>

\* Where buffers are outside their mempool: the rings of the cards, and the burst
\* and the hand of each worker.
Stores == ({"rx", "tx"} \X Rings) \cup ({"burst", "hand"} \X Workers)
Held(s) == CASE s[1] = "rx" -> rxq[s[2]]
             [] s[1] = "tx" -> txq[s[2]]
             [] s[1] = "burst" -> bufs[s[2]]
             [] s[1] = "hand" -> InHand(s[2])

\* The places at which buffer m is stored.
Places(m) == UNION {{s} \X {i \in DOMAIN Held(s) : Held(s)[i] = m} : s \in Stores}

\* Every buffer is, at any time, in its mempool, in one ring or in the hands of
\* one worker, once: none is leaked, freed twice or freed after it was handed
\* to a card, over any interleaving of workers, cards and shutdown.
MbufOwnedOnce ==
  \A m \in Mbufs : \/ pool[m] = 1 /\ Places(m) = {}
                   \/ pool[m] = 0 /\ \E x \in Places(m) : Places(m) = {x}

\* new is the IPv4 packet old, one hop older and still alive, to the station of its
\* next hop on port, with a header the next router of this kind takes.
Forwarded(old, new, port) ==
  LET hop == Hop(old.ip.dst_addr)
  IN  /\ hop # NoHop /\ hop.dst_port = port
      /\ new.d_addr = hop.dst_mac /\ new.s_addr = MacOf(port)
      /\ new.ip = [old.ip EXCEPT !.time_to_live = @ - 1, !.checksum = new.ip.checksum]
      /\ is_ipv4_hdr_valid(new.ip, new.pkt_len - ETHER_HDR_LEN)

\* new is the reply of the station mac to the ARP request old, back to its sender.
Answers(old, new, mac) ==
  /\ new.d_addr = old.s_addr
  /\ new.s_addr = mac /\ new.arp.sha = mac
  /\ old.arp.op = "request" /\ new.arp.op = "reply"
  /\ new.arp.sip = old.arp.tip
  /\ new.arp.tha = old.arp.sha /\ new.arp.tip = old.arp.sip

\* An IPv4 packet in a transmit ring is the packet received, forwarded to its next
\* hop (is_ipv4_hdr_valid on what thread_send_ipv4_packet sends).
ForwardedAlongRoute ==
  \A ring \in Rings : \A m \in Range(txq[ring]) :
    data[m].ether_type = "ipv4" => Forwarded(origin[m].frame, data[m], ring[1])

\* Frame f stops at the interface int_conf.
Dropped(f, int_conf) == thread_handle_frame(f, int_conf, int_confs).drop

\* Worker t is about to handle f, an IPv4 packet that only its checksum can stop.
AtChecksum(t, f) ==
  /\ tpc[t] = "frames" /\ bufs[t] # <<>> /\ f = data[Head(bufs[t])]
  /\ f.ether_type = "ipv4"
  /\ ~Dropped([f EXCEPT !.ip.checksum = rte_ipv4_cksum(f.ip)], Interface(t))

\* "Check if the checksum is correct" (is_ipv4_hdr_valid), for packets without
\* options: no incorrect one is forwarded, and every correct one with a checksum
\* field other than zero is, for every length of the carry chain.
ChecksumDecides ==
  \A t \in Workers, f \in Range(data) :
    AtChecksum(t, f) /\ f.ip.ihl = 5 =>
      /\ ~Correct(f.ip) => Dropped(f, Interface(t))
      /\ Correct(f.ip) /\ f.ip.checksum # 0 => ~Dropped(f, Interface(t))

\* "Check if the checksum is correct": no packet without options is dropped for
\* its checksum when that is correct.  The code drops one with the checksum zero,
\* which rte_ipv4_cksum never returns.
CorrectIsForwarded ==
  \A t \in Workers, f \in Range(data) :
    AtChecksum(t, f) /\ f.ip.ihl = 5 /\ Correct(f.ip) => ~Dropped(f, Interface(t))

\* An ARP message in a transmit ring is a reply, on the port the request came
\* in by and back to its sender, for an address that is one of the router's, with
\* the hardware address of that port in both headers.
ArpAnswered ==
  Alive =>
  \A ring \in Rings : \A m \in Range(txq[ring]) :
    data[m].ether_type = "arp" =>
      /\ ring[1] = origin[m].ring[1]
      /\ Answers(origin[m].frame, data[m], MacOf(ring[1]))
      /\ \E i \in DOMAIN int_confs : int_confs[i].addr = data[m].arp.sip

\* Frames that came in by one receive ring stay in the order they arrived in,
\* through the burst, the transmit loop and every transmit ring of the worker:
\* no retry lets a later frame overtake.
ReceiveOrderKept ==
  Alive =>
  \A t \in Workers, in, out \in Rings :
    out[2] = thr_confs[t].q_id =>
      LET path == txq[out] \o InHand(t) \o bufs[t] \o rxq[in]
      IN  \A i, j \in DOMAIN path :
            i < j /\ origin[path[i]].ring = in /\ origin[path[j]].ring = in => <<path[i], path[j]>> \in older

\* No two workers transmit on the same queue of a port, whatever routes lead
\* them there: rte_eth_tx_burst takes no lock.
TxQueueExclusive ==
  Alive =>
  \A t, u \in Workers :
    /\ sending[t] # <<>> /\ sending[u] # <<>>
    /\ sending[t][2] = sending[u][2]
    /\ thr_confs[t].q_id = thr_confs[u].q_id
    => t = u

\* No worker runs once router_finalize has freed the configurations they read.
ConfsOutliveWorkers ==
  mpc = "end" => \A t \in Workers : tpc[t] = "done"

\* "evenly distribute DPDK interfaces to all available lcores": each interface
\* has exactly one worker, and no worker has two more than another.
EvenlyDistributed ==
  mpc \in {"launch", "work", "wait"} =>
    /\ \A i \in DOMAIN int_confs :
         \E t \in Workers : {u \in Workers : int_confs[i] \in Range(MyInterfaces(u))} = {t}
    /\ \A t, u \in Workers : Len(MyInterfaces(t)) <= Len(MyInterfaces(u)) + 1

\* Every interface is set up before a worker uses it: a transmission on queues that
\* were never set up is that of a route to a port no -p option attached, which
\* parse_option_r lets pass.
OnlyStrayRouteUndefined ==
  mpc = "undefined" =>
    \E t \in Workers :
      sending[t] # <<>> /\ \A i \in DOMAIN int_confs : int_confs[i].int_id # sending[t][2]

\* After SIGINT or SIGTERM the process comes to its end.
QuitEnds == force_quit ~> ~Alive

\* A frame at queue 0 of an attached interface is taken by its worker sooner or
\* later, under any load, as long as the router is not asked to quit.
FirstQueueServed ==
  \A p \in Ports, m \in Mbufs :
    m \in Range(rxq[<<p, 0>>]) ~> m \notin Range(rxq[<<p, 0>>]) \/ force_quit \/ ~Alive
=============================================================================
