------------------------------- MODULE Frames -------------------------------
(***************************************************************************)
(* The frame handlers of router.c as functions of one frame: which frames  *)
(* are accepted, and what becomes of an accepted one.  A frame is a record *)
(* of the header fields the handlers read or write:                        *)
(*                                                                         *)
(*   d_addr, s_addr, ether_type, pkt_len        the mbuf and its Ethernet  *)
(*   ip  : version, ihl, total_length, time_to_live, checksum, dst_addr,   *)
(*         rest and options, the sums of words Checksum explains           *)
(*   arp : hrd, hln, pro, pln, op, sha, sip, tha, tip                      *)
(*                                                                         *)
(* Bytes beyond the headers never matter.                                  *)
(***************************************************************************)
EXTENDS Checksum, Sequences

CONSTANTS
  MacOf(_),   \* rte_eth_macaddr_get: the address of a port
  Hop(_),     \* get_next_hop after build_routing_table: [dst_mac, dst_port] or NoHop
  NoHop,      \* its NULL
  Broadcast   \* ff:ff:ff:ff:ff:ff

ETHER_HDR_LEN == 14
ETHER_MAX_LEN == 1518
ETHER_CRC_LEN == 4
\* sizeof of the header behind each recognised ether_type.
HeaderLen == [ipv4 |-> 20, ipv6 |-> 40, arp |-> 28]

\* The headers of ten words and options, with a byte for the TTL.
Headers(Addrs) ==
  {hdr \in [version : Nat, ihl : Nat, total_length : Nat, time_to_live : 0 .. 255, dst_addr : Addrs,
            rest : Nat, options : Nat, checksum : 0 .. B - 1] :
     hdr.rest + hdr.time_to_live <= MaxSum}

\* The frames of the two types whose headers are read: their fields, with an ipv4_hdr
IsIpv4Frame(f) ==
  /\ {"d_addr", "s_addr", "ether_type", "pkt_len", "ip"} \subseteq DOMAIN f
  /\ f.pkt_len \in Nat
  /\ f.ip \in Headers({f.ip.dst_addr})
  /\ f.ip.ihl = 5 => f.ip.options = 0

\* or with an arp_hdr.
IsArpFrame(f) ==
  /\ {"d_addr", "s_addr", "ether_type", "pkt_len", "arp"} \subseteq DOMAIN f
  /\ {"op", "sha", "sip", "tha", "tip"} \subseteq DOMAIN f.arp

\* is_frame_valid, for a frame received by the interface int_conf.
is_frame_valid(f, int_conf) ==
  /\ f.pkt_len >= ETHER_HDR_LEN
  /\ f.d_addr \in {Broadcast, int_conf.mac}
  /\ f.ether_type \in DOMAIN HeaderLen
  /\ f.pkt_len >= ETHER_HDR_LEN + HeaderLen[f.ether_type]
  /\ f.pkt_len <= ETHER_MAX_LEN - ETHER_CRC_LEN

is_ipv4_hdr_valid(hdr, payload_size) ==
  /\ hdr.checksum = rte_ipv4_cksum(hdr)
  /\ hdr.version = 4
  /\ hdr.ihl >= 5
  /\ hdr.total_length >= 4 * hdr.ihl
  /\ hdr.total_length <= payload_size
  /\ hdr.time_to_live # 0

is_arp_msg_valid(hdr, int_confs) ==
  /\ hdr.hrd = "ether" /\ hdr.hln = 6
  /\ hdr.pro = "ipv4" /\ hdr.pln = 4
  /\ \E i \in DOMAIN int_confs : int_confs[i].addr = hdr.tip

(***************************************************************************)
(* What a handler decides: free the mbuf, or transmit the rewritten frame  *)
(* on a port.                                                              *)
(***************************************************************************)
Drop == [drop |-> TRUE]
Send(f, port) == [drop |-> FALSE, frame |-> f, port |-> port]

\* time_to_live is a uint8_t.
Decrement(ttl) == (ttl - 1) % 256

TtlExpired(ttl) == Decrement(ttl) = 0

\* One hop older, and checksummed anew.
RenewedMutant(hdr) ==
  [hdr EXCEPT !.time_to_live = Decrement(@), !.checksum = rte_ipv4_cksum(hdr)]
Renewed(hdr) ==
  LET older == [hdr EXCEPT !.time_to_live = Decrement(@)]
  IN  [older EXCEPT !.checksum = rte_ipv4_cksum(older)]

thread_send_ipv4_packet(f, next_hop) ==
  IF next_hop = NoHop \/ TtlExpired(f.ip.time_to_live)
    THEN Drop
    ELSE Send([f EXCEPT !.ip = Renewed(@),
                        !.s_addr = MacOf(next_hop.dst_port),
                        !.d_addr = next_hop.dst_mac],
              next_hop.dst_port)

thread_handle_ether_ipv4(f) ==
  IF is_ipv4_hdr_valid(f.ip, f.pkt_len - ETHER_HDR_LEN)
    THEN thread_send_ipv4_packet(f, Hop(f.ip.dst_addr))
    ELSE Drop

thread_handle_ether_arp_requestMutant(f, int_conf) ==
  Send([f EXCEPT !.s_addr = int_conf.mac,
                 !.d_addr = f.s_addr,
                 !.arp.op = "reply",
                 !.arp.sha = int_conf.mac,
                 !.arp.sip = int_conf.addr,
                 !.arp.tha = f.arp.sha,
                 !.arp.tip = f.arp.sip],
       int_conf.int_id)
thread_handle_ether_arp_request(f, int_conf) ==
  Send([f EXCEPT !.s_addr = int_conf.mac,
                 !.d_addr = f.s_addr,
                 !.arp.op = "reply",
                 !.arp.sha = int_conf.mac,
                 !.arp.sip = f.arp.tip,
                 !.arp.tha = f.arp.sha,
                 !.arp.tip = f.arp.sip],
       int_conf.int_id)

thread_handle_ether_arp(f, int_conf, int_confs) ==
  IF is_arp_msg_valid(f.arp, int_confs) /\ f.arp.op = "request"
    THEN thread_handle_ether_arp_request(f, int_conf)
    ELSE Drop

\* The body of the loop of thread_handle_frames.
thread_handle_frame(f, int_conf, int_confs) ==
  CASE ~is_frame_valid(f, int_conf) -> Drop
    [] is_frame_valid(f, int_conf) /\ f.ether_type = "ipv4" -> thread_handle_ether_ipv4(f)
    [] is_frame_valid(f, int_conf) /\ f.ether_type = "arp" ->
         thread_handle_ether_arp(f, int_conf, int_confs)
    [] OTHER -> Drop
=============================================================================
