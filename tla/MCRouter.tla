------------------------------ MODULE MCRouter ------------------------------
(***************************************************************************)
(* Instances of Router: three ports, of which 0 and 1 are attached, one    *)
(* network behind each port and one without a route.                       *)
(***************************************************************************)
EXTENDS Router

CONSTANTS b1, b2

MCMacOf(p) == CASE p = 0 -> "mac0" [] p = 1 -> "mac1" [] p = 2 -> "mac2"
MCHop(a) == CASE a = "net0" -> [dst_mac |-> "gw0", dst_port |-> 0]
              [] a = "net1" -> [dst_mac |-> "gw1", dst_port |-> 1]
              [] a = "net2" -> [dst_mac |-> "gw2", dst_port |-> 2]
              [] OTHER -> NoHop

IntConf(p, a) == [int_id |-> p, addr |-> a, mac |-> MCMacOf(p)]
if0 == IntConf(0, "addr0")
if1 == IntConf(1, "addr1")
if2 == IntConf(2, "addr2")
MCTwoInterfaces == {<<if0, if1>>}
MCUpToTwoInterfaces == {<<if0, if1>>, <<if1>>, <<>>}
MCSomeInterfaces == {<<if0, if1>>, <<if1>>, <<if0, if1, if0>>, <<>>, <<if2, if0, if1>>}

\* A header of 20 bytes as its sender makes it; the words other than checksum and
\* TTL add up to rest.
IpOf(net, ttl, rest) ==
  LET hdr == [version |-> 4, ihl |-> 5, total_length |-> 40, time_to_live |-> ttl, dst_addr |-> net,
              rest |-> rest, options |-> 0, checksum |-> 0]
  IN  [hdr EXCEPT !.checksum = rte_ipv4_cksum(hdr)]
Ip(net, ttl) == IpOf(net, ttl, 150000)
Ipv4(d, len, ip) ==
  [d_addr |-> d, s_addr |-> "host", ether_type |-> "ipv4", pkt_len |-> len, ip |-> ip]

ArpHdr(op, tip) == [hrd |-> "ether", hln |-> 6, pro |-> "ipv4", pln |-> 4, op |-> op,
                    sha |-> "host", sip |-> "hostaddr", tha |-> "zero", tip |-> tip]
Arp(d, len, arp) ==
  [d_addr |-> d, s_addr |-> "host", ether_type |-> "arp", pkt_len |-> len, arp |-> arp]

MCOnePacket == {Ipv4(Broadcast, 60, Ip("net1", 64))}

\* Sums at which one more carry is folded back, with the right checksum and others.
MCSums == {0, B - 65, B - 64, 2 * B - 66, 2 * B - 65, 3 * B - 67, MaxSum - 64}
MCChecksums ==
  LET ip(sum) == IpOf("net1", 64, sum)
  IN  {ip(sum) : sum \in MCSums}
        \cup {[ip(sum) EXCEPT !.checksum = c] : sum \in MCSums, c \in {0, 1, B - 2, B - 1}}
        \cup {[ip(150000) EXCEPT !.ihl = 6, !.options = n] : n \in {0, 1, B - 1}}

\* One field of a good frame at a time, at the values its checks tell apart.
MCEveryShape ==
  LET ip == Ip("net1", 64)
      arp == ArpHdr("request", "addr1")
  IN  {Ipv4(d, 60, ip) : d \in {"mac0", "mac1", Broadcast}}
      \cup {Ipv4("mac0", n, [ip EXCEPT !.total_length = 20]) : n \in {13, 14, 33, 34, 1514, 1515}}
      \cup {Ipv4("mac0", 60, Ip(net, ttl)) : net \in {"net0", "net1", "net2", "none"}, ttl \in {0, 1, 2, 255}}
      \cup {Ipv4("mac0", 60, [ip EXCEPT !.total_length = n]) : n \in {19, 20, 46, 47}}
      \cup {Ipv4("mac0", 60, [ip EXCEPT !.ihl = n]) : n \in {4, 5, 10, 11}}
      \cup {Ipv4("mac0", 60, [ip EXCEPT !.version = 6]), Ipv4("mac0", 60, [ip EXCEPT !.checksum = @ - 1])}
      \cup {Ipv4("mac0", 60, hdr) : hdr \in MCChecksums}
      \cup {Arp(d, n, arp) : d \in {"mac0", Broadcast}, n \in {41, 42}}
      \cup {Arp("mac0", 60, ArpHdr(op, a)) : op \in {"request", "reply"}, a \in {"addr0", "addr1", "other"}}
      \cup {Arp("mac0", 60, [arp EXCEPT !.hrd = "other"]), Arp("mac0", 60, [arp EXCEPT !.hln = 8]),
            Arp("mac0", 60, [arp EXCEPT !.pro = "other"]), Arp("mac0", 60, [arp EXCEPT !.pln = 16])}
      \cup {[Ipv4("mac0", 60, ip) EXCEPT !.ether_type = type] : type \in {"ipv6", "other"}}
=============================================================================
