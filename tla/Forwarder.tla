----------------------------- MODULE Forwarder -----------------------------
(***************************************************************************)
(* The forwarding example (forwarder/fwd.c): main reads the two            *)
(* interfaces, opens their queues and launches one thread per direction;   *)
(* the threads share the packet counters and nothing protects them.        *)
(*                                                                         *)
(* Packets are told apart by number only.  An increment of a counter is a  *)
(* read and a write: the build's add instruction is not locked.  The       *)
(* counters have 32 bits.                                                  *)
(***************************************************************************)
EXTENDS Integers, FiniteSets

CONSTANTS
  Interfaces,   \* the interfaces DPDK has
  Typed,        \* the values of the numbers after -s and -d
  BURST,        \* 64
  TX_DESCS,     \* slots of a transmit ring
  UINT32,       \* 2^32: a counter counts modulo UINT32
  MaxArrivals   \* bound: packets that arrive

ASSUME ForwarderAssumption ==
  /\ Interfaces \subseteq Nat
  /\ Typed \subseteq Nat
  /\ BURST \in Nat \ {0} /\ TX_DESCS \in Nat \ {0} /\ UINT32 \in Nat \ {0} /\ MaxArrivals \in Nat

Threads == {1, 2}
NoConfig == [src |-> -1, dst |-> -1]

VARIABLES
  mpc,            \* "s", "d", "open", "first", "second", "wait" or "exit"
  src_interface, dst_interface,
  configured,     \* interfaces configure_device has started
  config,         \* Threads -> its thread_config; queues are all 0
  pc,             \* Threads -> "off", "poll", "send", "sent", "counting", "burst", "adding"
  rx,             \* Threads -> packets of the burst
  i,              \* Threads -> how many of them are sent and counted
  reg,            \* Threads -> the counter value read
  sent_pkts, recv_pkts,
  waiting,        \* Interfaces -> packets in the receive ring
  ring,           \* Interfaces -> packets in the transmit ring
  arrived,        \* packets that have arrived (bounds the instance)
  received, sent  \* packets the threads got and passed on (history variables)

globals == <<src_interface, dst_interface>>
main == <<mpc, globals, configured, config>>
counters == <<sent_pkts, recv_pkts>>
nic == <<waiting, ring, arrived>>
totals == <<received, sent>>
fvars == <<main, pc, rx, i, reg, counters, nic, totals>>

FInit ==
  /\ mpc = "s"
  /\ src_interface = 0 /\ dst_interface = 0
  /\ configured = {}
  /\ config = [t \in Threads |-> NoConfig]
  /\ pc = [t \in Threads |-> "off"]
  /\ rx = [t \in Threads |-> 0]
  /\ i = [t \in Threads |-> 0]
  /\ reg = [t \in Threads |-> 0]
  /\ sent_pkts = 0 /\ recv_pkts = 0
  /\ waiting = [p \in Interfaces |-> 0]
  /\ ring = [p \in Interfaces |-> 0]
  /\ arrived = 0
  /\ received = 0 /\ sent = 0

threads == <<pc, rx, i, reg, counters, totals>>

----------------------------------------------------------------------------
\* The number is cut to the eight bits of the variable before it is tested.
Accepted(n) == IF n % 256 < 3 THEN n % 256 ELSE 0

\* -s, or none and the default.
OptionS ==
  /\ mpc = "s"
  /\ mpc' = "d"
  /\ \/ \E n \in Typed : src_interface' = Accepted(n)
     \/ UNCHANGED src_interface
  /\ UNCHANGED <<dst_interface, configured, config, threads, nic>>

OptionD ==
  /\ mpc = "d"
  /\ mpc' = "open"
  /\ \/ \E n \in Typed : dst_interface' = Accepted(n)
     \/ UNCHANGED dst_interface
  /\ UNCHANGED <<src_interface, configured, config, threads, nic>>

\* configure_device, once for each interface; the process ends if there is none.
OpenQueues ==
  /\ mpc = "open"
  /\ IF {src_interface, dst_interface} \subseteq Interfaces
       THEN configured' = {src_interface, dst_interface} /\ mpc' = "first"
       ELSE mpc' = "exit" /\ UNCHANGED configured
  /\ UNCHANGED <<globals, config, threads, nic>>

\* The thread has a copy of the interfaces: main exchanges them while it runs.
start_thread(t, src, dst) ==
  /\ config' = [config EXCEPT ![t] = [src |-> src, dst |-> dst]]
  /\ pc' = [pc EXCEPT ![t] = "poll"]

StartFirst ==
  /\ mpc = "first"
  /\ start_thread(1, src_interface, dst_interface)
  /\ mpc' = IF src_interface = dst_interface THEN "wait" ELSE "second"
  /\ UNCHANGED <<globals, configured, rx, i, reg, counters, totals, nic>>

StartSecondMutant ==
  /\ mpc = "second"
  /\ start_thread(2, src_interface, dst_interface)
  /\ mpc' = "wait"
  /\ UNCHANGED <<globals, configured, rx, i, reg, counters, totals, nic>>
StartSecond ==
  /\ mpc = "second"
  /\ src_interface' = dst_interface /\ dst_interface' = src_interface
  /\ start_thread(2, src_interface', dst_interface')
  /\ mpc' = "wait"
  /\ UNCHANGED <<configured, rx, i, reg, counters, totals, nic>>

----------------------------------------------------------------------------
Least(a, b) == IF a <= b THEN a ELSE b

\* rte_eth_rx_burst; without packets the thread sleeps, has none to handle and
\* goes on to the counter all the same.
Receive(t) ==
  LET p == config[t].src
      n == Least(waiting[p], BURST)
  IN /\ pc[t] = "poll"
     /\ waiting' = [waiting EXCEPT ![p] = @ - n]
     /\ rx' = [rx EXCEPT ![t] = n]
     /\ i' = [i EXCEPT ![t] = 0]
     /\ received' = received + n
     /\ pc' = [pc EXCEPT ![t] = IF n > 0 THEN "send" ELSE "burst"]
     /\ UNCHANGED <<main, reg, counters, sent, ring, arrived>>

RoomMutant(p) == ring[p] + 1 < TX_DESCS
Room(p) == ring[p] < TX_DESCS

\* transmit_packet tries rte_eth_tx_burst until it takes the packet.
Transmit(t) ==
  LET p == config[t].dst
  IN /\ pc[t] = "send"
     /\ Room(p)
     /\ ring' = [ring EXCEPT ![p] = @ + 1]
     /\ sent' = sent + 1
     /\ pc' = [pc EXCEPT ![t] = "sent"]
     /\ UNCHANGED <<main, rx, i, reg, counters, received, waiting, arrived>>

\* ++sent_pkts
ReadSent(t) ==
  /\ pc[t] = "sent"
  /\ reg' = [reg EXCEPT ![t] = sent_pkts]
  /\ pc' = [pc EXCEPT ![t] = "counting"]
  /\ UNCHANGED <<main, rx, i, counters, totals, nic>>

WriteSent(t) ==
  /\ pc[t] = "counting"
  /\ sent_pkts' = (reg[t] + 1) % UINT32
  /\ i' = [i EXCEPT ![t] = @ + 1]
  /\ pc' = [pc EXCEPT ![t] = IF i[t] + 1 < rx[t] THEN "send" ELSE "burst"]
  /\ UNCHANGED <<main, rx, reg, recv_pkts, totals, nic>>

\* recv_pkts += rx, which writes the counter back even if rx is 0.
ReadRecv(t) ==
  /\ pc[t] = "burst"
  /\ reg' = [reg EXCEPT ![t] = recv_pkts]
  /\ pc' = [pc EXCEPT ![t] = "adding"]
  /\ UNCHANGED <<main, rx, i, counters, totals, nic>>

GainMutant(t) == Least(rx[t], 1)
Gain(t) == rx[t]

WriteRecv(t) ==
  /\ pc[t] = "adding"
  /\ recv_pkts' = (reg[t] + Gain(t)) % UINT32
  /\ pc' = [pc EXCEPT ![t] = "poll"]
  /\ UNCHANGED <<main, rx, i, reg, sent_pkts, totals, nic>>

\* The network.
Arrive(p) ==
  /\ arrived < MaxArrivals
  /\ p \in configured
  /\ arrived' = arrived + 1
  /\ waiting' = [waiting EXCEPT ![p] = @ + 1]
  /\ UNCHANGED <<main, threads, ring>>

Depart(p) ==
  /\ ring[p] > 0
  /\ ring' = [ring EXCEPT ![p] = @ - 1]
  /\ UNCHANGED <<main, threads, waiting, arrived>>

run_thread(t) ==
  Receive(t) \/ Transmit(t) \/ ReadSent(t) \/ WriteSent(t) \/ ReadRecv(t) \/ WriteRecv(t)

Main == OptionS \/ OptionD \/ OpenQueues \/ StartFirst \/ StartSecond

FNext ==
  \/ Main
  \/ \E t \in Threads : run_thread(t)
  \/ \E p \in Interfaces : Arrive(p) \/ Depart(p)

FSpec == FInit /\ [][FNext]_fvars

\* The threads have an lcore each, and the card sends what is in its rings.
Fairness ==
  /\ \A t \in Threads : WF_fvars(run_thread(t))
  /\ \A p \in Interfaces : WF_fvars(Depart(p))

FFairSpec == FSpec /\ Fairness

----------------------------------------------------------------------------
\* No receive queue and no transmit queue is used by two threads, which neither
\* rte_eth_rx_burst nor rte_eth_tx_burst allows, and every one used is open: the
\* exchange of the two variables in main does not reach the thread that runs.
QueuesExclusive ==
  /\ \A t \in Threads : pc[t] # "off" => {config[t].src, config[t].dst} \subseteq configured
  /\ (\A t \in Threads : pc[t] # "off") => config[1].src # config[2].src /\ config[1].dst # config[2].dst

\* The statistics never show more packets than were received or sent.
NeverOvercounts == recv_pkts <= received /\ sent_pkts <= sent

\* The counters are exact, up to their 32 bits, whenever a thread polls that has the
\* forwarder to itself: before the second thread is launched, and for ever if source
\* and destination are the same interface.
ExactAlone ==
  pc[1] = "poll" /\ pc[2] = "off" => recv_pkts = received % UINT32 /\ sent_pkts = sent % UINT32

\* Losing updates to the other thread is all that goes wrong with the unprotected
\* counters: however the increments interleave they are never ahead, and without a
\* second thread they are exact.
OnlyInterleavingLoses == NeverOvercounts /\ ExactAlone

\* A thread that has packets passes all of them on and polls again: the endless
\* retry of transmit_packet ends as long as the card sends.
BackToPolling == \A t \in Threads : pc[t] = "send" ~> pc[t] = "poll"
=============================================================================
