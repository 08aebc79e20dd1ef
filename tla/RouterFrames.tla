---------------------------- MODULE RouterFrames ----------------------------
(***************************************************************************)
(* Proofs about the frames that Router carries: what the router does to a  *)
(* frame, where it sends it, and in which order. Two layers on top of the  *)
(* invariants of RouterProofs:                                             *)
(*   CInv  what the frame in a buffer is, given the place it is in,        *)
(*   QInv  frames of one receive ring are in the order they arrived in.    *)
(* They rest on two facts about the IPv4 checksum: the test accepts what   *)
(* it should, and the checksum computed anew after the TTL is taken down   *)
(* passes it.                                                              *)
(***************************************************************************)
EXTENDS RouterProofs

D == B - 1

LEMMA BFacts == B \in Nat \ {0} /\ D \in Nat \ {0} /\ B = D + 1
BY ChecksumAssumption DEF D

LEMMA FoldFacts ==
  ASSUME NEW s \in Nat
  PROVE  /\ Fold(s) \in Nat /\ s \div B \in Nat
         /\ s = Fold(s) + D * (s \div B)
         /\ Fold(s) = 0 => s = 0
<1> DEFINE q == s \div B
           r == s % B
<1>1. s = B * q + r /\ q \in Nat /\ r \in 0 .. B - 1
  BY BFacts, DivMod, Zenon
<1>2. Fold(s) = q + r
  BY Zenon DEF Fold
<1> HIDE DEF q, r
<1>3. B * q = D * q + q
  BY <1>1, BFacts
<1>4. q = 0 => B * q = 0
  BY <1>1, BFacts
<1>. QED BY ONLY <1>1, <1>2, <1>3, <1>4, BFacts DEF q

\* One fold of a sum of two words leaves a word.
LEMMA SecondFold ==
  ASSUME NEW f \in 0 .. 2 * B - 2
  PROVE  Fold(f) \in 0 .. B - 1
<1>1. CASE f < B
  <2>1. f = B * 0 + f /\ f \in 0 .. B - 1 /\ f \in Nat
    BY <1>1, BFacts
  <2>2. f \div B = 0 /\ f % B = f
    BY <2>1, BFacts, DivUnique
  <2>. QED BY <2>1, <2>2 DEF Fold
<1>2. CASE f >= B
  <2>1. f = B * 1 + (f - B) /\ f - B \in 0 .. B - 1 /\ f \in Nat
    BY <1>2, BFacts
  <2>2. f \div B = 1 /\ f % B = f - B
    BY <2>1, BFacts, DivUnique
  <2>. QED BY <2>1, <2>2, BFacts DEF Fold
<1>. QED BY <1>1, <1>2, BFacts

LEMMA ReduceFacts ==
  ASSUME NEW s \in 0 .. B * B - 1
  PROVE  /\ Reduce(s) \in 0 .. B - 1
         /\ \E k \in Nat : s = Reduce(s) + D * k
<1>0. s \in Nat
  BY BFacts
<1>1. s \div B \in 0 .. B - 1 /\ s % B \in 0 .. B - 1
  BY <1>0, BFacts, QuotientBound, DivMod, Zenon
<1>2. Fold(s) \in 0 .. 2 * B - 2 /\ Fold(s) \in Nat
  BY <1>1, BFacts DEF Fold
<1>3. Fold(Fold(s)) \in 0 .. B - 1
  BY <1>2, SecondFold, Zenon
<1>4. Reduce(s) = Fold(Fold(s))
  <2> DEFINE g == Fold(Fold(s))
  <2>1. g \in 0 .. B - 1 /\ g = B * 0 + g /\ g \in Nat
    BY <1>3, BFacts
  <2> HIDE DEF g
  <2>2. g % B = g
    BY <2>1, BFacts, DivUnique
  <2>. QED BY <2>2, Zenon DEF g, Reduce
<1>5. PICK k1 \in Nat : s = Fold(s) + D * k1
  BY <1>0, FoldFacts, Zenon
<1>6. PICK k2 \in Nat : Fold(s) = Fold(Fold(s)) + D * k2
  BY <1>2, FoldFacts, ZenonT(40)
<1>7. D * k1 + D * k2 = D * (k1 + k2) /\ k1 + k2 \in Nat /\ D * k1 \in Int /\ D * k2 \in Int
  BY BFacts
<1>8. Reduce(s) \in Int
  BY <1>3, <1>4, BFacts
<1>9. s = Reduce(s) + D * (k1 + k2)
  BY <1>4, <1>5, <1>6, <1>7, <1>8
<1>. QED BY <1>3, <1>4, <1>7, <1>9, ZenonT(40)

\* rte_ipv4_cksum as a function of the sum of the words.
Complement(s) == IF Reduce(s) = B - 1 THEN Reduce(s) ELSE B - 1 - Reduce(s)

\* The checksum is not zero and completes the sum to a multiple of B - 1.
LEMMA CksumCompletes ==
  ASSUME NEW s \in 0 .. B * B - 1
  PROVE  /\ Complement(s) \in 1 .. B - 1
         /\ \E m \in Nat : s + Complement(s) = D * m
<1> DEFINE r == Reduce(s)
           c == Complement(s)
<1>1. r \in 0 .. D /\ s \in Nat
  BY ReduceFacts, BFacts
<1>2. PICK k \in Nat : s = r + D * k
  BY ReduceFacts, Zenon
<1>3. c = IF r = D THEN D ELSE D - r
  BY Zenon DEF Complement, D
<1> HIDE DEF r, c
<1>4. CASE r = D
  <2>1. s + c = D * (k + 2) /\ k + 2 \in Nat
    BY <1>2, <1>3, <1>4, BFacts
  <2>2. c \in 1 .. B - 1
    BY <1>3, <1>4, BFacts
  <2>. QED BY <2>1, <2>2, Zenon DEF c
<1>5. CASE r # D
  <2>1. s + c = D * (k + 1) /\ k + 1 \in Nat
    BY <1>1, <1>2, <1>3, <1>5, BFacts
  <2>2. c \in 1 .. B - 1
    BY <1>1, <1>3, <1>5, BFacts
  <2>. QED BY <2>1, <2>2, Zenon DEF c
<1>. QED BY <1>4, <1>5, ZenonT(40)

\* No two words other than zero complete the same sum.
LEMMA CompletionUnique ==
  ASSUME NEW s \in Nat, NEW c \in 1 .. D, NEW e \in 1 .. D, NEW m \in Nat, NEW n \in Nat,
         s + c = D * m, s + e = D * n
  PROVE  c = e
<1>1. D \in Nat /\ D * (m + 1) = D * m + D /\ D * (n + 1) = D * n + D /\ D * m \in Int /\ D * n \in Int
  BY BFacts
<1>2. CASE m = n
  BY <1>1, <1>2
<1>3. CASE m + 1 <= n
  <2>1. D * (m + 1) <= D * n
    BY <1>1, <1>3, MulMonotone
  <2>. QED BY <1>1, <2>1
<1>4. CASE n + 1 <= m
  <2>1. D * (n + 1) <= D * m
    BY <1>1, <1>4, MulMonotone
  <2>. QED BY <1>1, <2>1
<1>. QED BY <1>2, <1>3, <1>4

\* A word is the checksum of a sum exactly if it is not zero and completes it.
LEMMA Decides ==
  ASSUME NEW s \in 0 .. B * B - 1, NEW e \in 0 .. B - 1
  PROVE  e = Complement(s) <=> s + e # 0 /\ (s + e) % D = 0 /\ e # 0
<1> DEFINE c == Complement(s)
<1>0. s \in Nat
  BY BFacts
<1>1. PICK m \in Nat : s + c = D * m
  BY CksumCompletes, Zenon
<1>2. c \in 1 .. D
  BY CksumCompletes, ZenonT(40) DEF D
<1> HIDE DEF c
<1>3. ASSUME e = c PROVE s + e # 0 /\ (s + e) % D = 0 /\ e # 0
  <2>1. (D * m) % D = 0
    BY BFacts, MultipleMod, ZenonT(40)
  <2>. QED BY <1>0, <1>1, <1>2, <1>3, <2>1, BFacts
<1>4. ASSUME (s + e) % D = 0, e # 0 PROVE e = c
  <2>1. s + e \in Nat /\ e \in 1 .. D
    BY <1>0, <1>4, BFacts
  <2>2. s + e = D * ((s + e) \div D) + 0 /\ (s + e) \div D \in Nat
    BY <1>4, <2>1, BFacts, DivMod, ZenonT(40)
  <2>3. PICK n \in Nat : s + e = D * n
    BY <2>1, <2>2, BFacts
  <2>. QED BY <1>0, <1>1, <1>2, <2>1, <2>3, CompletionUnique, ZenonT(40)
<1>. QED BY <1>3, <1>4, Zenon DEF c

LEMMA SumFits ==
  ASSUME NEW s \in Nat, s <= MaxSum
  PROVE  s \in 0 .. B * B - 1
<1>1. 9 * (B - 1) < B * B
  <2>1. CASE B = 8
    BY <2>1
  <2>2. CASE B >= 9
    <3>1. B * 9 <= B * B
      BY <2>2, BFacts, MulMonotone
    <3>. QED BY <3>1, BFacts
  <2>. QED BY <2>1, <2>2, ChecksumAssumption
<1>2. B * B \in Int
  BY BFacts
<1>. QED BY <1>1, <1>2, BFacts DEF MaxSum

LEMMA CksumIsComplement ==
  \A hdr : rte_ipv4_cksum(hdr) = Complement(hdr.rest + hdr.time_to_live)
BY Zenon DEF rte_ipv4_cksum, Complement

\* Without options the test tells the correct headers, but for the checksum zero.
LEMMA BareTest ==
  ASSUME NEW Addrs, NEW hdr \in Headers(Addrs), hdr.options = 0
  PROVE  hdr.checksum = rte_ipv4_cksum(hdr) <=> Correct(hdr) /\ hdr.checksum # 0
<1> DEFINE s == hdr.rest + hdr.time_to_live
           e == hdr.checksum
<1>1. s \in Nat /\ s <= MaxSum /\ e \in 0 .. B - 1
  BY BFacts DEF Headers
<1>2. s \in 0 .. B * B - 1
  BY <1>1, SumFits, ZenonT(40)
<1>3. rte_ipv4_cksum(hdr) = Complement(s)
  BY CksumIsComplement, ZenonT(40)
<1>4. s + hdr.options + e = s + e
  BY <1>1, BFacts
<1>5. Correct(hdr) <=> s + e # 0 /\ (s + e) % D = 0
  BY <1>4, Zenon DEF Correct, D
<1> HIDE DEF s, e
<1>6. e = Complement(s) <=> s + e # 0 /\ (s + e) % D = 0 /\ e # 0
  BY <1>1, <1>2, Decides, ZenonT(40)
<1>. QED BY <1>3, <1>5, <1>6, ZenonT(40) DEF e

\* What the router's test of the checksum (is_ipv4_hdr_valid) tells of any header:
\* whether it would be correct if it had no options, and has a checksum other than
\* zero.  So a correct header with the checksum zero fails, and with options the
\* test says nothing of them.
THEOREM TestDecides ==
  ASSUME NEW Addrs, NEW hdr \in Headers(Addrs)
  PROVE  hdr.checksum = rte_ipv4_cksum(hdr) <=> Correct([hdr EXCEPT !.options = 0]) /\ hdr.checksum # 0
<1> DEFINE bare == [hdr EXCEPT !.options = 0]
<1>1. hdr \in [version : Nat, ihl : Nat, total_length : Nat, time_to_live : 0 .. 255, dst_addr : Addrs,
               rest : Nat, options : Nat, checksum : 0 .. B - 1]
      /\ hdr.rest + hdr.time_to_live <= MaxSum
  BY ZenonT(40) DEF Headers
<1>2. PICK z \in Nat : z = 0
  OBVIOUS
<1>3. bare \in [version : Nat, ihl : Nat, total_length : Nat, time_to_live : 0 .. 255, dst_addr : Addrs,
                rest : Nat, options : Nat, checksum : 0 .. B - 1]
  BY ONLY <1>1, <1>2
<1>4. bare.rest = hdr.rest /\ bare.time_to_live = hdr.time_to_live /\ bare.checksum = hdr.checksum /\ bare.options = 0
  BY <1>1, Zenon
<1> HIDE DEF bare
<1>5. bare \in Headers(Addrs) /\ rte_ipv4_cksum(bare) = rte_ipv4_cksum(hdr)
  BY <1>1, <1>3, <1>4, CksumIsComplement, ZenonT(40) DEF Headers
<1>6. bare.checksum = rte_ipv4_cksum(bare) <=> Correct(bare) /\ bare.checksum # 0
  BY <1>4, <1>5, BareTest, ZenonT(40)
<1>. QED BY <1>4, <1>5, <1>6, ZenonT(40) DEF bare

\* A time to live that is not zero is taken down by one.
LEMMA Ticks ==
  ASSUME NEW x \in 0 .. 255, x # 0
  PROVE  x \in 1 .. 255 /\ Decrement(x) = x - 1 /\ (~TtlExpired(x) => x \in 2 .. 255)
<1>1. x \in 1 .. 255 /\ x - 1 \in 0 .. 255 /\ (x - 1 # 0 => x \in 2 .. 255)
  OBVIOUS
<1>2. (x - 1) % 256 = x - 1
  BY <1>1
<1>. QED BY <1>1, <1>2, ZenonT(40) DEF Decrement, TtlExpired

\* The header of a packet thread_send_ipv4_packet sends on passes every test of
\* is_ipv4_hdr_valid at the next router, and is correct if it has no options.
THEOREM RenewedPasses ==
  ASSUME NEW Addrs, NEW hdr \in Headers(Addrs), NEW size \in Nat,
         is_ipv4_hdr_valid(hdr, size), ~TtlExpired(hdr.time_to_live)
  PROVE  /\ is_ipv4_hdr_valid(Renewed(hdr), size)
         /\ hdr.options = 0 => Correct(Renewed(hdr))
<1> DEFINE aged == [hdr EXCEPT !.time_to_live = Decrement(@)]
           new == Renewed(hdr)
<1>1. /\ hdr.time_to_live \in 2 .. 255
      /\ Decrement(hdr.time_to_live) = hdr.time_to_live - 1
  <2>1. hdr.time_to_live \in 0 .. 255 /\ hdr.time_to_live # 0
    BY ZenonT(40) DEF Headers, is_ipv4_hdr_valid
  <2>. QED BY <2>1, Ticks, ZenonT(40)
<1>2. /\ aged.rest = hdr.rest /\ aged.time_to_live = hdr.time_to_live - 1
      /\ aged \in Headers(Addrs)
  BY <1>1, ChecksumAssumption DEF Headers, MaxSum
<1>3. rte_ipv4_cksum(aged) \in 1 .. B - 1
  <2>1. aged.rest + aged.time_to_live \in Nat /\ aged.rest + aged.time_to_live <= MaxSum
    BY <1>2 DEF Headers
  <2>. QED BY <2>1, SumFits, CksumIsComplement, CksumCompletes, ZenonT(40)
<1>4. new = [aged EXCEPT !.checksum = rte_ipv4_cksum(aged)]
  BY ZenonT(40) DEF Renewed
<1> HIDE DEF aged, new
<1>5. /\ new \in Headers(Addrs)
      /\ new.checksum = rte_ipv4_cksum(aged) /\ new.rest = aged.rest
      /\ new.time_to_live = aged.time_to_live /\ new.options = aged.options
      /\ new.version = aged.version /\ new.ihl = aged.ihl /\ new.total_length = aged.total_length
  <2>1. aged \in [version : Nat, ihl : Nat, total_length : Nat, time_to_live : 0 .. 255, dst_addr : Addrs,
                  rest : Nat, options : Nat, checksum : 0 .. B - 1]
        /\ aged.rest + aged.time_to_live <= MaxSum
    BY <1>2, ZenonT(40) DEF Headers
  <2>2. /\ new.checksum = rte_ipv4_cksum(aged) /\ new.rest = aged.rest
        /\ new.time_to_live = aged.time_to_live /\ new.options = aged.options
        /\ new.version = aged.version /\ new.ihl = aged.ihl /\ new.total_length = aged.total_length
    BY <1>4, <2>1, ZenonT(40)
  <2>3. PICK c \in 0 .. B - 1 : c = rte_ipv4_cksum(aged)
    BY <1>3, BFacts
  <2>4. new \in [version : Nat, ihl : Nat, total_length : Nat, time_to_live : 0 .. 255, dst_addr : Addrs,
                 rest : Nat, options : Nat, checksum : 0 .. B - 1]
    BY ONLY <1>4, <2>1, <2>3
  <2>. QED BY <2>1, <2>2, <2>4, ZenonT(40) DEF Headers
<1>6. new.checksum = rte_ipv4_cksum(new)
  BY <1>5, CksumIsComplement, ZenonT(40)
<1>7. /\ aged.version = hdr.version /\ aged.ihl = hdr.ihl /\ aged.total_length = hdr.total_length
      /\ aged.options = hdr.options
  BY ZenonT(40) DEF aged, Headers
<1>8. is_ipv4_hdr_valid(new, size)
  <2>1. hdr.time_to_live - 1 # 0
    BY <1>1
  <2>. QED BY <1>2, <1>5, <1>6, <1>7, <2>1, ZenonT(40) DEF is_ipv4_hdr_valid
<1>9. ASSUME hdr.options = 0 PROVE Correct(new)
  BY <1>5, <1>6, <1>7, <1>9, BareTest, ZenonT(40)
<1>. QED BY <1>8, <1>9, ZenonT(40) DEF new
-----------------------------------------------------------------------------
(***************************************************************************)
(* What the buffers hold: the frame that arrived until a worker takes it   *)
(* in hand, and then what thread_handle_frame made of it.                  *)
(***************************************************************************)
LEMMA Ipv4Verdict ==
  ASSUME NEW f \in FrameSet, NEW conf, f.ether_type = "ipv4", is_frame_valid(f, conf),
         NEW verdict, verdict = thread_handle_ether_ipv4(f), ~verdict.drop
  PROVE  verdict.port \in Ports /\ Forwarded(f, verdict.frame, verdict.port) /\ verdict.frame.ether_type = "ipv4"
<1>1. IsIpv4Frame(f) /\ (Hop(f.ip.dst_addr) = NoHop \/ Hop(f.ip.dst_addr).dst_port \in Ports)
  BY TrafficAssumption, ZenonT(40)
<1> DEFINE hdr == f.ip
           hop == Hop(f.ip.dst_addr)
           size == f.pkt_len - ETHER_HDR_LEN
           new == [f EXCEPT !.ip = Renewed(@), !.s_addr = MacOf(hop.dst_port), !.d_addr = hop.dst_mac]
<1>2. /\ is_ipv4_hdr_valid(hdr, size) /\ hop # NoHop /\ ~TtlExpired(hdr.time_to_live)
      /\ verdict = Send(new, hop.dst_port)
  BY Zenon DEF thread_handle_ether_ipv4, thread_send_ipv4_packet, Drop, Send
<1>3. verdict.port = hop.dst_port /\ verdict.frame = new
  BY <1>2 DEF Send
<1>4. /\ new.ip = Renewed(hdr) /\ new.s_addr = MacOf(hop.dst_port) /\ new.d_addr = hop.dst_mac
      /\ new.pkt_len = f.pkt_len /\ new.ether_type = f.ether_type
  BY <1>1, ZenonT(40) DEF IsIpv4Frame
<1>5. hdr \in Headers({hdr.dst_addr}) /\ size \in Nat
  BY <1>1 DEF IsIpv4Frame, is_frame_valid, ETHER_HDR_LEN
<1>6. is_ipv4_hdr_valid(Renewed(hdr), size)
  BY <1>2, <1>5, RenewedPasses, ZenonT(40)
<1>7. hdr.time_to_live \in 1 .. 255 /\ Decrement(hdr.time_to_live) = hdr.time_to_live - 1
  <2>1. hdr.time_to_live \in 0 .. 255 /\ hdr.time_to_live # 0
    BY <1>2, <1>5, ZenonT(40) DEF Headers, is_ipv4_hdr_valid
  <2>. QED BY <2>1, Ticks, ZenonT(40)
<1>8. Renewed(hdr) = [hdr EXCEPT !.time_to_live = @ - 1, !.checksum = Renewed(hdr).checksum]
  <2> DEFINE old == [hdr EXCEPT !.time_to_live = Decrement(@)]
  <2>1. Renewed(hdr) = [old EXCEPT !.checksum = rte_ipv4_cksum(old)]
    BY Zenon DEF Renewed
  <2>2. hdr \in [version : Nat, ihl : Nat, total_length : Nat, time_to_live : 0 .. 255, dst_addr : {hdr.dst_addr},
                 rest : Nat, options : Nat, checksum : 0 .. B - 1]
    BY <1>5, ZenonT(40) DEF Headers
  <2> HIDE DEF hdr
  <2>3. old = [hdr EXCEPT !.time_to_live = @ - 1]
    BY <1>7, <2>2, ZenonT(40)
  <2> HIDE DEF old
  <2>. QED BY <2>1, <2>2, <2>3, Zenon
<1> HIDE DEF new
<1>. QED BY <1>1, <1>2, <1>3, <1>4, <1>6, <1>8, ZenonT(40) DEF Forwarded

LEMMA ArpVerdict ==
  ASSUME NEW f \in FrameSet, NEW conf, f.ether_type = "arp", NEW confs,
         NEW verdict, verdict = thread_handle_ether_arp(f, conf, confs), ~verdict.drop
  PROVE  /\ verdict.port = conf.int_id /\ Answers(f, verdict.frame, conf.mac) /\ verdict.frame.ether_type = "arp"
         /\ \E i \in DOMAIN confs : confs[i].addr = verdict.frame.arp.sip
<1>1. IsArpFrame(f)
  BY TrafficAssumption, Zenon
<1>2. /\ is_arp_msg_valid(f.arp, confs) /\ f.arp.op = "request"
      /\ verdict = thread_handle_ether_arp_request(f, conf)
  BY Zenon DEF thread_handle_ether_arp, Drop
<1> DEFINE new == verdict.frame
<1>3. /\ verdict.port = conf.int_id
      /\ new = [f EXCEPT !.s_addr = conf.mac, !.d_addr = f.s_addr, !.arp.op = "reply", !.arp.sha = conf.mac,
                         !.arp.sip = f.arp.tip, !.arp.tha = f.arp.sha, !.arp.tip = f.arp.sip]
  BY <1>2 DEF thread_handle_ether_arp_request, Send
<1> HIDE DEF new
<1>4. /\ new.d_addr = f.s_addr /\ new.ether_type = f.ether_type /\ new.arp.op = "reply" /\ new.arp.sip = f.arp.tip
      /\ new.arp.tha = f.arp.sha /\ new.arp.tip = f.arp.sip /\ new.s_addr = conf.mac /\ new.arp.sha = conf.mac
  BY <1>1, <1>3, ZenonT(40) DEF IsArpFrame
<1>. QED BY <1>2, <1>3, <1>4, ZenonT(40) DEF Answers, is_arp_msg_valid, new

LEMMA VerdictIs ==
  ASSUME NEW f, NEW conf, NEW confs, ~thread_handle_frame(f, conf, confs).drop
  PROVE  /\ is_frame_valid(f, conf)
         /\ \/ f.ether_type = "ipv4" /\ thread_handle_frame(f, conf, confs) = thread_handle_ether_ipv4(f)
            \/ f.ether_type = "arp" /\ thread_handle_frame(f, conf, confs) = thread_handle_ether_arp(f, conf, confs)
<1>1. Drop.drop
  BY ZenonT(40) DEF Drop
<1>2. CASE ~is_frame_valid(f, conf)
  BY <1>1, <1>2, ZenonT(40) DEF thread_handle_frame
<1>3. CASE is_frame_valid(f, conf) /\ f.ether_type = "ipv4"
  BY <1>3, ZenonT(40) DEF thread_handle_frame
<1>4. CASE is_frame_valid(f, conf) /\ f.ether_type = "arp"
  BY <1>4, ZenonT(40) DEF thread_handle_frame
<1>5. CASE is_frame_valid(f, conf) /\ f.ether_type \notin {"ipv4", "arp"}
  BY <1>1, <1>5, ZenonT(40) DEF thread_handle_frame
<1>. QED BY <1>2, <1>3, <1>4, <1>5, Zenon

\* As it arrived.
Clean(m) == origin[m].frame \in FrameSet /\ data[m] = origin[m].frame

\* As thread_handle_frame wants it sent on port.
Treated(m, port) ==
  /\ data[m].ether_type = "ipv4" => Forwarded(origin[m].frame, data[m], port)
  /\ data[m].ether_type = "arp" =>
       /\ port = origin[m].ring[1] /\ Answers(origin[m].frame, data[m], MacOf(port))
       /\ mpc # "end" => \E i \in DOMAIN int_confs : int_confs[i].addr = data[m].arp.sip

\* What buffer m holds while it is in store s.
Fit(s, m) ==
  /\ s[1] = "rx" => Clean(m) /\ origin[m].ring = s[2]
  /\ s[1] = "burst" => Clean(m) /\ origin[m].ring[1] = Interface(s[2]).int_id
  /\ s[1] = "hand" => sending[s[2]][2] \in Ports /\ Treated(m, sending[s[2]][2])
  /\ s[1] = "tx" => Treated(m, s[2][1])

In(s) == {Held(s)[i] : i \in 1 .. Len(Held(s))}

CInv == \A s \in Stores : \A m \in In(s) : Fit(s, m)

LEMMA InMoved ==
  ASSUME TInv, TInv', NEW a, NEW b, NEW k, Moves(a, b, k)
  PROVE  /\ In(a)' \subseteq In(a)
         /\ In(b)' \subseteq In(b) \cup {Held(a)[j] : j \in 1 .. k}
         /\ \A j \in 1 .. k : Held(a)[j] \in In(a) /\ Held(a)[j] \in In(b)'
         /\ \A s \in Stores \ {a, b} : In(s)' = In(s)
<1>1. /\ a \in Stores /\ b \in Stores /\ k \in 0 .. Len(Held(a))
      /\ \A s \in Stores \ {a, b} : Held(s)' = Held(s)
      /\ Len(Held(a)) \in Nat /\ Len(Held(b)) \in Nat
  BY ViewTypes, ZenonT(40) DEF Moves
<1>2. /\ Len(Held(a)') = Len(Held(a)) - k
      /\ \A i \in 1 .. Len(Held(a)) - k : Held(a)'[i] = Held(a)[i + k]
      /\ Len(Held(b)') = Len(Held(b)) + k
      /\ \A i \in 1 .. Len(Held(b)) : Held(b)'[i] = Held(b)[i]
      /\ \A i \in 1 .. k : Held(b)'[Len(Held(b)) + i] = Held(a)[i]
  BY Zenon DEF Moves, Shifted, Extended
<1>3. PICK n \in Nat, l \in Nat : n = Len(Held(a)) /\ l = Len(Held(b))
  BY <1>1, ZenonT(40)
<1>3a. k \in Nat /\ k <= n
  BY ONLY <1>1, <1>3
<1>4. ASSUME NEW i \in 1 .. n - k PROVE i + k \in 1 .. n
  BY ONLY <1>3a
<1>5. ASSUME NEW i \in 1 .. l + k PROVE i \in 1 .. l \/ (i - l \in 1 .. k /\ l + (i - l) = i)
  BY ONLY <1>3a
<1>6. ASSUME NEW j \in 1 .. k PROVE j \in 1 .. n /\ l + j \in 1 .. l + k
  BY ONLY <1>3a
<1>7. In(a)' \subseteq In(a)
  BY <1>2, <1>3, <1>4, ZenonT(40) DEF In
<1>8. In(b)' \subseteq In(b) \cup {Held(a)[j] : j \in 1 .. k}
  <2>1. ASSUME NEW i \in 1 .. l + k PROVE Held(b)'[i] \in In(b) \cup {Held(a)[j] : j \in 1 .. k}
    <3>1. CASE i \in 1 .. l
      BY <1>2, <1>3, <3>1, ZenonT(40) DEF In
    <3>2. CASE i - l \in 1 .. k /\ l + (i - l) = i
      <4>1. Held(b)'[i] = Held(a)[i - l]
        BY <1>2, <1>3, <3>2, ZenonT(40)
      <4>. QED BY <3>2, <4>1, ZenonT(40)
    <3>. QED BY <1>5, <3>1, <3>2, ZenonT(40)
  <2>. QED BY <1>2, <1>3, <2>1, ZenonT(40) DEF In
<1>9. ASSUME NEW j \in 1 .. k PROVE Held(a)[j] \in In(a) /\ Held(a)[j] \in In(b)'
  BY <1>2, <1>3, <1>6, ZenonT(40) DEF In
<1>. QED BY <1>1, <1>7, <1>8, <1>9, ZenonT(40) DEF In

LEMMA InFreed ==
  ASSUME TInv, TInv', NEW a, Frees(a)
  PROVE  In(a)' \subseteq In(a) /\ \A s \in Stores \ {a} : In(s)' = In(s)
<1>1. a \in Stores /\ \A s \in Stores \ {a} : Held(s)' = Held(s)
  BY ZenonT(40) DEF Frees
<1>2. Len(Held(a)') = Len(Held(a)) - 1 /\ \A i \in 1 .. Len(Held(a)) - 1 : Held(a)'[i] = Held(a)[i + 1]
  BY Zenon DEF Frees, Shifted
<1>3. PICK n \in Nat : n = Len(Held(a))
  BY <1>1, ViewTypes, Zenon
<1>4. ASSUME NEW i \in 1 .. n - 1 PROVE i + 1 \in 1 .. n
  OBVIOUS
<1>. QED BY <1>1, <1>2, <1>3, <1>4, ZenonT(40) DEF In

LEMMA InTaken ==
  ASSUME TInv, TInv', NEW m, NEW r \in Rings, NEW f, Takes(m, r, f)
  PROVE  In(Rx(r))' \subseteq In(Rx(r)) \cup {m} /\ \A s \in Stores \ {Rx(r)} : In(s)' = In(s)
<1>1. Rx(r) \in Stores /\ Held(Rx(r)) = rxq[r] /\ Held(Rx(r))' = rxq'[r] /\ Rx(r) = <<"rx", r>>
  BY StoreCases, HeldAre, ZenonT(40) DEF Rx
<1>2. \A s \in Stores \ {Rx(r)} : Held(s)' = Held(s)
  BY <1>1, ZenonT(40) DEF Takes
<1>3. /\ Len(Held(Rx(r))') = Len(Held(Rx(r))) + 1 /\ \A i \in 1 .. Len(Held(Rx(r))) : Held(Rx(r))'[i] = Held(Rx(r))[i]
      /\ Held(Rx(r))'[Len(Held(Rx(r))) + 1] = m
  BY <1>1 DEF Takes, Extended
<1>4. PICK n \in Nat : n = Len(Held(Rx(r)))
  BY <1>1, ViewTypes, Zenon
<1>5. ASSUME NEW i \in 1 .. n + 1 PROVE i \in 1 .. n \/ i = n + 1
  OBVIOUS
<1>. QED BY <1>2, <1>3, <1>4, <1>5, ZenonT(40) DEF In

\* No buffer is in two stores, and none that is in one is in its mempool.
InOne == \A s, u \in Stores : \A m : m \in In(s) /\ m \in In(u) => s = u
NotFree == \A s \in Stores : \A m \in In(s) : pool[m] = 0

LEMMA InOwned == OInv => InOne /\ NotFree
<1> SUFFICES ASSUME OInv PROVE InOne /\ NotFree
  BY Zenon
<1>1. ASSUME NEW s \in Stores, NEW m \in In(s)
      PROVE  \E i \in 1 .. Len(Held(s)) : <<s, i>> \in Positions(Stores, View) /\ At(View, <<s, i>>) = m
  <2>1. PICK i \in 1 .. Len(Held(s)) : m = Held(s)[i]
    BY Zenon DEF In
  <2>2. View[s] = Held(s)
    BY Zenon DEF View
  <2>. QED BY <2>1, <2>2, SlotIs, Zenon DEF At
<1>2. ASSUME NEW s \in Stores, NEW u \in Stores, NEW m, m \in In(s), m \in In(u) PROVE s = u
  <2>1. PICK i \in 1 .. Len(Held(s)) : <<s, i>> \in Positions(Stores, View) /\ At(View, <<s, i>>) = m
    BY <1>1, <1>2, Zenon
  <2>2. PICK j \in 1 .. Len(Held(u)) : <<u, j>> \in Positions(Stores, View) /\ At(View, <<u, j>>) = m
    BY <1>1, <1>2, Zenon
  <2>3. <<s, i>> = <<u, j>>
    BY <2>1, <2>2, Zenon DEF OInv, Own
  <2>. QED BY <2>3, ZenonT(40)
<1>3. ASSUME NEW s \in Stores, NEW m \in In(s) PROVE pool[m] = 0
  BY <1>1, ZenonT(40) DEF OInv, Own
<1>. QED BY <1>2, <1>3, Zenon DEF InOne, NotFree

\* int_confs stays until router_finalize frees it, and a worker stays on its
\* interface while it has frames of it.
LEMMA ConfsStay ==
  ASSUME RInv, DInv, TInv, [Next]_vars
  PROVE  /\ mpc' = "end" \/ (mpc # "end" /\ int_confs' = int_confs)
         /\ \A t \in Workers : bufs[t] # <<>> \/ bufs'[t] # <<>> => Interface(t)' = Interface(t)
<1>1. CASE Master \/ signal_handler \/ UNCHANGED vars
  <2>1. mpc' = "end" \/ (mpc # "end" /\ int_confs' = int_confs)
    BY <1>1, ZenonT(40) DEF Master, ConfigureInterface, ConfigureError, ConfigureEnd, start_thread, MasterWorks, MasterWorked,
         rte_eal_wait_lcore, router_finalize, signal_handler, Alive, master, vars
  <2>2. UNCHANGED <<bufs, ti>> /\ \A t \in Workers : tpc[t] \in Active => thr_confs' = thr_confs
    BY <1>1, MasterRests, ZenonT(40)
  <2>3. \A t \in Workers : bufs[t] # <<>> => tpc[t] \in Active
    BY Zenon DEF TInv, BurstShape, Active
  <2>. QED BY <2>1, <2>2, <2>3, ZenonT(40) DEF Interface, MyInterfaces
<1>2. ASSUME NEW t \in Workers, Worker(t)
      PROVE  /\ mpc # "end" /\ int_confs' = int_confs /\ thr_confs' = thr_confs
             /\ \A u \in Workers : bufs[u] # <<>> \/ bufs'[u] # <<>> => ti'[u] = ti[u]
  <2>1. mpc # "end" /\ int_confs' = int_confs /\ thr_confs' = thr_confs
    BY <1>2, ZenonT(40) DEF Worker, Alive, RoundStart, recv_from_device, RecvEnd, thread_handle_frames, FramesEnd,
         rte_eth_tx_burst, TransmitUnattached, TransmitGivenUp, RoundEnd, Wake, master
  <2>2. CASE RoundStart(t) \/ RecvEnd(t) \/ FramesEnd(t) \/ RoundEnd(t) \/ Wake(t)
    BY <2>1, <2>2, ControlKeepsTInv, ZenonT(40)
  <2>3. CASE recv_from_device(t) \/ thread_handle_frames(t) \/ rte_eth_tx_burst(t) \/ TransmitUnattached(t) \/ TransmitGivenUp(t)
    BY <2>1, <2>3, Zenon DEF recv_from_device, thread_handle_frames, rte_eth_tx_burst, TransmitUnattached, TransmitGivenUp, workers
  <2>. QED BY <1>2, <2>2, <2>3, ZenonT(40) DEF Worker
<1>3. ASSUME NEW r \in Rings, Depart(r) \/ \E m \in Mbufs, f \in FrameSet : Arrive(m, r, f)
      PROVE  mpc # "end" /\ UNCHANGED <<int_confs, thr_confs, ti>>
  BY <1>3, Zenon DEF Depart, Arrive, Alive, master, workers
<1>. QED BY <1>1, <1>2, <1>3, Zenon DEF Next, Interface, MyInterfaces

\* A buffer that is left alone where it is stays fit for its store.
LEMMA FitStays ==
  ASSUME NEW s, NEW m, Fit(s, m), data'[m] = data[m], origin'[m] = origin[m],
         s[1] = "burst" => Interface(s[2])' = Interface(s[2]),
         s[1] = "hand" => sending'[s[2]][2] = sending[s[2]][2],
         mpc' = "end" \/ (mpc # "end" /\ int_confs' = int_confs)
  PROVE  Fit(s, m)'
<1>1. Clean(m) => Clean(m)'
  BY Zenon DEF Clean
<1>2. ASSUME NEW port, Treated(m, port) PROVE Treated(m, port)'
  BY <1>2, Zenon DEF Treated
<1>3. CASE s[1] = "rx"
  BY <1>1, <1>3, Zenon DEF Fit
<1>4. CASE s[1] = "burst"
  BY <1>1, <1>4, ZenonT(40) DEF Fit
<1>5. CASE s[1] = "hand"
  <2>1. PICK port : port = sending[s[2]][2]
    BY Zenon
  <2>2. sending'[s[2]][2] = port /\ port \in Ports /\ Treated(m, port)
    BY <1>5, <2>1, Zenon DEF Fit
  <2>3. Treated(m, port)'
    BY <1>2, <2>2, Zenon
  <2>4. sending'[s[2]][2] \in Ports /\ Treated(m, sending[s[2]][2])'
    BY <2>2, <2>3, Zenon DEF Treated
  <2>. QED BY <1>5, <2>4, Zenon DEF Fit
<1>6. CASE s[1] = "tx"
  BY <1>2, <1>6, ZenonT(40) DEF Fit
<1>. QED BY <1>3, <1>4, <1>5, <1>6, ZenonT(40) DEF Fit

\* The port of the frame in hand stays, while it is in hand.
LEMMA FitKept ==
  ASSUME RInv, DInv, TInv, TInv', CInv, [Next]_vars,
         NEW s \in Stores, NEW m, m \in In(s), m \in In(s)', data'[m] = data[m], origin'[m] = origin[m],
         \A t \in Workers : s = Hand(t) => sending'[t][2] = sending[t][2]
  PROVE  Fit(s, m)'
<1>1. Fit(s, m)
  BY ZenonT(40) DEF CInv
<1>2. ASSUME NEW t \in Workers, s = Burst(t) PROVE Interface(t)' = Interface(t)
  <2>1. Held(s) = bufs[t] /\ Len(bufs[t]) # 0
    <3>1. Held(s) = bufs[t] /\ bufs[t] \in Seq(Mbufs)
      BY <1>2, HeldAre, ZenonT(40) DEF TInv
    <3>2. 1 .. Len(bufs[t]) # {}
      BY <3>1, Zenon DEF In
    <3>. QED BY <3>1, <3>2, LenProperties
  <2>2. bufs[t] # <<>>
    BY <2>1, EmptySeq, Zenon
  <2>. QED BY <2>2, ConfsStay, ZenonT(40)
<1>3. s[1] = "burst" => Interface(s[2])' = Interface(s[2])
  <2> SUFFICES ASSUME s[1] = "burst" PROVE Interface(s[2])' = Interface(s[2])
    BY Zenon
  <2>1. PICK t \in Workers : s = Burst(t)
    BY DEF Stores, Burst
  <2>2. s[2] = t
    BY <2>1, Zenon DEF Burst
  <2>3. Interface(t)' = Interface(t)
    BY <1>2, <2>1, ZenonT(40)
  <2>. QED BY <2>2, <2>3, ZenonT(40)
<1>4. s[1] = "hand" => sending'[s[2]][2] = sending[s[2]][2]
  BY DEF Stores, Hand
<1>5. mpc' = "end" \/ (mpc # "end" /\ int_confs' = int_confs)
  BY ConfsStay, Zenon
<1>. QED BY <1>1, <1>3, <1>4, <1>5, FitStays, ZenonT(40)

\* The port of what stays in hand stays.
PortsStay == \A t \in Workers : Held(Hand(t))' = <<>> \/ sending'[t][2] = sending[t][2]

LEMMA EmptyHand ==
  ASSUME NEW t \in Workers, Held(Hand(t))' = <<>>
  PROVE  In(Hand(t))' = {}
<1>1. Len(Held(Hand(t))') = 0
  BY EmptySeq, Zenon
<1>. QED BY <1>1 DEF In

LEMMA RestKeepsCInv ==
  ASSUME RInv, DInv, TInv, TInv', CInv, [Next]_vars, Rests, PortsStay
  PROVE  CInv'
<1> SUFFICES ASSUME NEW s \in Stores, NEW m, m \in In(s)' PROVE Fit(s, m)'
  BY ZenonT(40) DEF CInv
<1>1. m \in In(s) /\ data'[m] = data[m] /\ origin'[m] = origin[m]
  BY Zenon DEF Rests, In, buffers
<1>2. \A t \in Workers : s = Hand(t) => sending'[t][2] = sending[t][2]
  BY EmptyHand, ZenonT(40) DEF PortsStay
<1>. QED BY <1>1, <1>2, FitKept, Zenon

LEMMA FreeKeepsCInv ==
  ASSUME RInv, DInv, TInv, TInv', OInv, OInv', CInv, [Next]_vars, NEW a, Frees(a), PortsStay
  PROVE  CInv'
<1> SUFFICES ASSUME NEW s \in Stores, NEW m, m \in In(s)' PROVE Fit(s, m)'
  BY ZenonT(40) DEF CInv
<1>0. a \in Stores /\ m \in In(s)
  BY InFreed, Zenon DEF Frees
<1>1. PICK z : z = Held(a)[1]
  BY Zenon
<1>2. pool' = [pool EXCEPT ![z] = @ + 1] /\ data' = [data EXCEPT ![z] = NoFrame] /\ origin' = [origin EXCEPT ![z] = NoOrigin]
  BY <1>1, Zenon DEF Frees, Free
<1>3. z \in Mbufs /\ pool[z] = 0
  <2>1. Held(a) \in Seq(Mbufs) /\ Held(a) # <<>> /\ Len(Held(a)) \in Nat /\ Len(Held(a)) >= 1
    BY <1>0, HeldTypes, LenProperties, ZenonT(40) DEF Frees
  <2>2. 1 \in 1 .. Len(Held(a))
    BY ONLY <2>1
  <2>3. z \in Mbufs /\ z \in In(a)
    BY <1>1, <2>1, <2>2 DEF In
  <2>. QED BY <1>0, <2>3, InOwned, Zenon DEF NotFree
<1>4. m # z
  <2>1. pool'[z] = 1
    BY <1>2, <1>3 DEF TInv
  <2>2. OInv' => NotFree'
    BY InOwned, PTL
  <2>3. pool'[m] = 0
    BY <2>2, Zenon DEF NotFree
  <2>4. 1 # 0
    BY ONLY SMT
  <2>. QED BY <2>1, <2>3, <2>4, ZenonT(40)
<1>5. data'[m] = data[m] /\ origin'[m] = origin[m]
  <2>1. m \in Mbufs
    <3>1. Held(s) \in Seq(Mbufs)
      BY HeldTypes, Zenon
    <3>. QED BY <1>0, <3>1, LenProperties DEF In
  <2>. QED BY <1>2, <1>4, <2>1, ZenonT(40) DEF TInv
<1>6. \A t \in Workers : s = Hand(t) => sending'[t][2] = sending[t][2]
  BY EmptyHand, Zenon DEF PortsStay
<1>. QED BY <1>0, <1>5, <1>6, FitKept, ZenonT(40)

LEMMA ArriveKeepsCInv ==
  ASSUME RInv, DInv, TInv, TInv', OInv, CInv, [Next]_vars,
         NEW z \in Mbufs, NEW r \in Rings, NEW f \in FrameSet, Takes(z, r, f), PortsStay
  PROVE  CInv'
<1> SUFFICES ASSUME NEW s \in Stores, NEW m, m \in In(s)' PROVE Fit(s, m)'
  BY ZenonT(40) DEF CInv
<1>1. pool[z] > 0 /\ data' = [data EXCEPT ![z] = f] /\ origin' = [origin EXCEPT ![z] = [frame |-> f, ring |-> r]]
  BY Zenon DEF Takes
<1>2. m \in In(s) \/ (s = Rx(r) /\ m = z)
  BY InTaken, Zenon
<1>3. CASE m \in In(s)
  <2>1. m # z
    BY <1>1, <1>3, InOwned DEF NotFree
  <2>2. data'[m] = data[m] /\ origin'[m] = origin[m]
    <3>1. Held(s) \in Seq(Mbufs)
      BY HeldTypes, Zenon
    <3>2. m \in Mbufs
      BY <1>3, <3>1, LenProperties DEF In
    <3>. QED BY <1>1, <2>1, <3>2, ZenonT(40) DEF TInv
  <2>3. \A t \in Workers : s = Hand(t) => sending'[t][2] = sending[t][2]
    BY EmptyHand, Zenon DEF PortsStay
  <2>. QED BY <1>3, <2>2, <2>3, FitKept, ZenonT(40)
<1>4. CASE s = Rx(r) /\ m = z
  <2>1. data'[m] = f /\ origin'[m] = [frame |-> f, ring |-> r]
    BY <1>1, <1>4, ZenonT(40) DEF TInv
  <2>2. Clean(m)' /\ origin'[m].ring = r
    BY <2>1 DEF Clean
  <2>3. s[1] = "rx" /\ s[2] = r
    BY <1>4, Zenon DEF Rx
  <2>. QED BY <2>2, <2>3, Zenon DEF Fit
<1>. QED BY <1>2, <1>3, <1>4, Zenon

LEMMA RecvKeepsCInv ==
  ASSUME RInv, DInv, TInv, TInv', CInv, [Next]_vars, NEW t \in Workers, Alive, recv_from_device(t)
  PROVE  CInv'
<1>1. PICK r \in Rings, k \in Nat :
        /\ r = <<Interface(t).int_id, tq[t]>> /\ Moves(Rx(r), Burst(t), k)
        /\ UNCHANGED <<master, ti, sending, buffers>>
  BY RecvMoves, Zenon
<1>2. PICK a \in Stores, b \in Stores : a = Rx(r) /\ b = Burst(t) /\ Moves(a, b, k) /\ b[1] = "burst" /\ b[2] = t
                                        /\ a[1] = "rx" /\ a[2] = r
  BY <1>1, StoreCases, Zenon DEF Rx, Burst
<1> SUFFICES ASSUME NEW s \in Stores, NEW m, m \in In(s)' PROVE Fit(s, m)'
  BY ZenonT(40) DEF CInv
<1>3. data'[m] = data[m] /\ origin'[m] = origin[m] /\ Interface(t)' = Interface(t) /\ r[1] = Interface(t).int_id
  BY <1>1, Zenon DEF buffers, Interface, MyInterfaces, master
<1>4. m \in In(s) \/ (s = b /\ m \in In(a))
  <2>1. /\ In(a)' \subseteq In(a) /\ In(b)' \subseteq In(b) \cup {Held(a)[j] : j \in 1 .. k}
        /\ \A j \in 1 .. k : Held(a)[j] \in In(a)
        /\ \A x \in Stores \ {a, b} : In(x)' = In(x)
    BY <1>2, InMoved
  <2>2. In(b)' \subseteq In(b) \cup In(a)
    BY <2>1, Zenon
  <2>. QED BY <2>1, <2>2, ZenonT(40)
<1>5. CASE m \in In(s)
  BY <1>1, <1>3, <1>5, FitKept, ZenonT(40)
<1>6. CASE s = b /\ m \in In(a)
  <2>1. Clean(m) /\ origin[m].ring = r
    BY <1>2, <1>6, Zenon DEF CInv, Fit
  <2>2. Clean(m)' /\ origin'[m].ring[1] = Interface(t)'.int_id
    BY <1>3, <2>1, Zenon DEF Clean
  <2>3. s[1] = "burst" /\ s[2] = t
    BY <1>2, <1>6, ZenonT(40)
  <2>. QED BY <2>2, <2>3, ZenonT(40) DEF Fit
<1>. QED BY <1>4, <1>5, <1>6, ZenonT(40)

\* parse_option_p took the hardware address of an interface from its card.
LEMMA InterfaceMac ==
  ASSUME DInv, TInv, mpc # "end", NEW t \in Workers, OnInterface(t)
  PROVE  Interface(t).mac = MacOf(Interface(t).int_id)
<1>1. PICK i \in 1 .. Dealt : Interface(t) = int_confs[i]
  BY InterfaceIsAttached, Zenon
<1>2. int_confs \in IntConfLists /\ Dealt \in 0 .. Len(int_confs)
  BY Zenon DEF DInv
<1>3. i \in DOMAIN int_confs
  BY <1>2, ListFacts
<1>. QED BY <1>1, <1>2, <1>3, TrafficAssumption, ZenonT(40)

LEMMA HandleKeepsCInv ==
  ASSUME RInv, DInv, TInv, TInv', OInv, OInv', CInv, [Next]_vars, NEW t \in Workers, Alive, thread_handle_frames(t)
  PROVE  CInv'
<1>1. PICK z \in Mbufs :
        LET verdict == thread_handle_frame(data[z], Interface(t), int_confs)
        IN  /\ bufs[t] # <<>> /\ z = bufs[t][1]
            /\ \/ verdict.drop /\ Frees(Burst(t)) /\ UNCHANGED sending
               \/ /\ ~verdict.drop /\ Moves(Burst(t), Hand(t), 1) /\ Held(Hand(t)) = <<>>
                  /\ data' = [data EXCEPT ![z] = verdict.frame]
                  /\ sending' = [sending EXCEPT ![t] = <<z, verdict.port, 0>>]
            /\ UNCHANGED <<master, ti>>
  BY HandleMoves, ZenonT(40)
<1>2. PICK verdict : verdict = thread_handle_frame(data[z], Interface(t), int_confs)
  BY Zenon
<1>3. CASE verdict.drop
  <2>1. Frees(Burst(t)) /\ PortsStay
    BY <1>1, <1>2, <1>3, ZenonT(40) DEF PortsStay
  <2>. QED BY <2>1, FreeKeepsCInv, Zenon
<1>4. CASE ~verdict.drop
  <2>1. /\ Moves(Burst(t), Hand(t), 1) /\ Held(Hand(t)) = <<>> /\ data' = [data EXCEPT ![z] = verdict.frame]
        /\ sending' = [sending EXCEPT ![t] = <<z, verdict.port, 0>>] /\ UNCHANGED <<master, ti>>
        /\ origin' = origin
    BY <1>1, <1>2, <1>4, ZenonT(40) DEF Moves
  <2>2. PICK a \in Stores, b \in Stores : a = Burst(t) /\ b = Hand(t) /\ a[1] = "burst" /\ a[2] = t
                                          /\ b[1] = "hand" /\ b[2] = t /\ Moves(a, b, 1) /\ Held(a) = bufs[t]
    BY <2>1, StoreCases, HeldAre, ZenonT(40) DEF Burst, Hand
  <2>3. 1 \in 1 .. 1 /\ Held(a)[1] = z /\ \A j \in 1 .. 1 : Held(a)[j] = z
    BY ONLY <1>1, <2>2
  <2>4. /\ In(a)' \subseteq In(a) /\ In(b)' \subseteq In(b) \cup {z} /\ z \in In(a) /\ z \in In(b)'
        /\ \A x \in Stores \ {a, b} : In(x)' = In(x)
    BY <2>2, <2>3, InMoved, SMTT(30)
  <2>5. In(b) = {}
    <3>1. Len(Held(b)) = 0
      BY <2>1, <2>2, EmptySeq, ZenonT(40)
    <3>. QED BY <3>1 DEF In
  <2>6. Clean(z) /\ origin[z].ring[1] = Interface(t).int_id
    BY <2>2, <2>4, ZenonT(40) DEF CInv, Fit
  <2>7. Fit(b, z)'
    <3>1. /\ data'[z] = verdict.frame /\ origin'[z] = origin[z] /\ sending'[t][2] = verdict.port
          /\ mpc' = mpc /\ int_confs' = int_confs
      BY <2>1, Zenon DEF TInv, master
    <3>2. PICK f \in FrameSet : f = data[z] /\ f = origin[z].frame
      BY <2>6, ZenonT(40) DEF Clean
    <3>3. verdict = thread_handle_frame(f, Interface(t), int_confs) /\ ~thread_handle_frame(f, Interface(t), int_confs).drop
      BY <1>2, <1>4, <3>2, ZenonT(40)
    <3>4. is_frame_valid(f, Interface(t))
      BY <3>3, VerdictIs, Zenon
    <3>5. CASE f.ether_type = "ipv4" /\ verdict = thread_handle_ether_ipv4(f)
      <4>1. verdict.port \in Ports /\ Forwarded(f, verdict.frame, verdict.port) /\ verdict.frame.ether_type = "ipv4"
        BY <1>4, <3>4, <3>5, Ipv4Verdict, ZenonT(40)
      <4>2. sending'[t][2] \in Ports /\ Treated(z, sending[t][2])'
        BY <3>1, <3>2, <4>1, ZenonT(40) DEF Treated
      <4>. QED BY <2>2, <4>2, ZenonT(40) DEF Fit
    <3>6. CASE f.ether_type = "arp" /\ verdict = thread_handle_ether_arp(f, Interface(t), int_confs)
      <4>1. /\ verdict.port = Interface(t).int_id /\ Answers(f, verdict.frame, Interface(t).mac)
            /\ verdict.frame.ether_type = "arp"
            /\ \E i \in DOMAIN int_confs : int_confs[i].addr = verdict.frame.arp.sip
        BY <1>4, <3>6, ArpVerdict, SMTT(30)
      <4>2. verdict.port \in Ports /\ Interface(t).mac = MacOf(verdict.port)
        <5>1. OnInterface(t)
          BY <1>1, Zenon DEF TInv, BurstShape
        <5>. QED BY <4>1, <5>1, InterfaceIsAttached, InterfaceMac, ZenonT(40) DEF Alive
      <4>3. sending'[t][2] \in Ports /\ Treated(z, sending[t][2])'
        BY <2>6, <3>1, <3>2, <4>1, <4>2, ZenonT(40) DEF Treated
      <4>. QED BY <2>2, <4>3, Zenon DEF Fit
    <3>. QED BY <3>3, <3>5, <3>6, VerdictIs, ZenonT(40)
  <2>8. ASSUME NEW s \in Stores, NEW m, m \in In(s)' PROVE Fit(s, m)'
    <3>1. CASE s = b
      BY <2>4, <2>5, <2>7, <2>8, <3>1, ZenonT(40)
    <3>2. CASE s # b
      <4>1. m \in In(s)
        BY <2>4, <2>8, <3>2, ZenonT(40)
      <4>2. m # z
        <5>1. OInv' => InOne'
          BY InOwned, PTL
        <5>. QED BY <2>2, <2>4, <2>8, <3>2, <5>1, ZenonT(40) DEF InOne
      <4>3. data'[m] = data[m] /\ origin'[m] = origin[m]
        <5>1. Held(s) \in Seq(Mbufs)
          BY HeldTypes, ZenonT(40)
        <5>2. m \in Mbufs
          BY <4>1, <5>1, LenProperties DEF In
        <5>. QED BY <2>1, <4>2, <5>2, ZenonT(40) DEF TInv
      <4>4. \A u \in Workers : s = Hand(u) => sending'[u][2] = sending[u][2]
        BY <2>1, <2>2, <3>2, ZenonT(40) DEF TInv
      <4>. QED BY <2>8, <4>1, <4>3, <4>4, FitKept, ZenonT(40)
    <3>. QED BY <3>1, <3>2, Zenon
  <2>. QED BY <2>8, Zenon DEF CInv
<1>. QED BY <1>3, <1>4, Zenon

LEMMA SendKeepsCInv ==
  ASSUME RInv, DInv, TInv, TInv', CInv, [Next]_vars, NEW t \in Workers, Alive, rte_eth_tx_burst(t)
  PROVE  CInv'
<1>1. CASE Rests /\ sending' = [sending EXCEPT ![t] = <<sending[t][1], sending[t][2], sending[t][3] + 1>>]
  <2>1. PortsStay
    BY <1>1, Zenon DEF PortsStay, TInv
  <2>. QED BY <1>1, <2>1, RestKeepsCInv, ZenonT(40)
<1>2. ASSUME NEW r \in Rings, r = <<sending[t][2], t>>, Moves(Hand(t), Tx(r), 1),
             sending' = [sending EXCEPT ![t] = <<>>], Held(Hand(t))' = <<>>
      PROVE  CInv'
  <2>1. UNCHANGED buffers /\ (mpc' = "end" \/ (mpc # "end" /\ int_confs' = int_confs))
    BY TransmitMoves, ConfsStay, Zenon
  <2>2. PICK a \in Stores, b \in Stores : a = Hand(t) /\ b = Tx(r) /\ a[1] = "hand" /\ a[2] = t
                                          /\ b[1] = "tx" /\ b[2] = r /\ Moves(a, b, 1) /\ a # b
    BY <1>2, StoreCases, StoresDiffer, ZenonT(40) DEF Tx, Hand
  <2>3. /\ In(a)' \subseteq In(a) /\ In(b)' \subseteq In(b) \cup In(a)
        /\ \A x \in Stores \ {a, b} : In(x)' = In(x)
    <3>1. /\ In(a)' \subseteq In(a) /\ In(b)' \subseteq In(b) \cup {Held(a)[j] : j \in 1 .. 1}
          /\ \A j \in 1 .. 1 : Held(a)[j] \in In(a)
          /\ \A x \in Stores \ {a, b} : In(x)' = In(x)
      BY <2>2, InMoved
    <3>. QED BY <3>1, ZenonT(40)
  <2>4. In(a)' = {}
    BY <1>2, <2>2, EmptyHand, ZenonT(40)
  <2>5. ASSUME NEW s \in Stores, NEW m, m \in In(s)' PROVE Fit(s, m)'
    <3>1. s # a /\ data'[m] = data[m] /\ origin'[m] = origin[m]
      BY <2>1, <2>4, <2>5, ZenonT(40) DEF buffers
    <3>2. m \in In(s) \/ (s = b /\ m \in In(a))
      BY <2>3, <2>5, Zenon
    <3>3. CASE m \in In(s)
      <4>1. \A u \in Workers : s = Hand(u) => sending'[u][2] = sending[u][2]
        BY <1>2, <2>2, <3>1, ZenonT(40) DEF TInv
      <4>. QED BY <2>5, <3>1, <3>3, <4>1, FitKept, ZenonT(40)
    <3>4. CASE s = b /\ m \in In(a)
      <4>1. Treated(m, r[1])
        BY <1>2, <2>2, <3>4, ZenonT(40) DEF CInv, Fit
      <4>2. Treated(m, r[1])'
        BY <2>1, <3>1, <4>1, ZenonT(40) DEF Treated
      <4>. QED BY <2>2, <3>4, <4>2, ZenonT(40) DEF Fit
    <3>. QED BY <3>2, <3>3, <3>4, ZenonT(40)
  <2>. QED BY <2>5, Zenon DEF CInv
<1>. QED BY <1>1, <1>2, TransmitMoves, ZenonT(40)

LEMMA InitCInv == Init => CInv
<1> SUFFICES ASSUME Init, NEW s \in Stores PROVE In(s) = {}
  BY ZenonT(40) DEF CInv
<1>1. \A t \in Workers : bufs[t] = <<>> /\ InHand(t) = <<>>
  BY Zenon DEF Init, InHand
<1>2. \A r \in Rings : rxq[r] = <<>> /\ txq[r] = <<>>
  BY Zenon DEF Init
<1>3. Held(s) = <<>>
  BY <1>1, <1>2, StoreCases, HeldAre, ZenonT(40)
<1>4. Len(Held(s)) = 0
  BY <1>3, EmptySeq, Zenon
<1>. QED BY <1>4 DEF In

LEMMA ContentInductive == Spec => []CInv
<1>1. RInv /\ DInv /\ TInv /\ OInv /\ CInv /\ [Next]_vars /\ TInv' /\ OInv' => CInv'
  <2> SUFFICES ASSUME RInv, DInv, TInv, OInv, CInv, [Next]_vars, TInv', OInv' PROVE CInv'
    BY Zenon
  <2>1. UNCHANGED sending => PortsStay
    BY Zenon DEF PortsStay
  <2>2. CASE Master \/ signal_handler \/ UNCHANGED vars
    BY <2>1, <2>2, MasterRests, RestKeepsCInv, ZenonT(40)
  <2>3. ASSUME NEW t \in Workers, Worker(t) PROVE CInv'
    <3>1. Alive
      BY <2>3, Zenon DEF Worker
    <3>2. CASE TransmitUnattached(t)
      BY <2>1, <3>2, MasterRests, RestKeepsCInv, ZenonT(40)
    <3>3. CASE RoundStart(t) \/ RecvEnd(t) \/ FramesEnd(t) \/ RoundEnd(t) \/ Wake(t)
      BY <2>1, <3>3, ControlKeepsTInv, RestKeepsCInv, ZenonT(40)
    <3>4. CASE TransmitGivenUp(t)
      <4>1. Frees(Hand(t)) /\ Held(Hand(t))' = <<>> /\ sending' = [sending EXCEPT ![t] = <<>>]
        BY <3>4, GiveUpFrees, Zenon
      <4>2. PortsStay
        BY <4>1, Zenon DEF PortsStay, TInv
      <4>. QED BY <4>1, <4>2, FreeKeepsCInv, Zenon
    <3>. QED BY <2>3, <3>1, <3>2, <3>3, <3>4, RecvKeepsCInv, HandleKeepsCInv, SendKeepsCInv, ZenonT(40) DEF Worker
  <2>4. ASSUME NEW m \in Mbufs, NEW r \in Rings, NEW f \in FrameSet, Arrive(m, r, f) PROVE CInv'
    <3>1. Takes(m, r, f) /\ UNCHANGED sending
      BY <2>4, ArriveTakes, Zenon DEF workers
    <3>. QED BY <2>1, <3>1, ArriveKeepsCInv, ZenonT(40)
  <2>5. ASSUME NEW r \in Rings, Depart(r) PROVE CInv'
    <3>1. Frees(Tx(r)) /\ UNCHANGED sending
      BY <2>5, DepartFrees, ZenonT(40) DEF workers
    <3>. QED BY <2>1, <3>1, FreeKeepsCInv, ZenonT(40)
  <2>. QED BY <2>2, <2>3, <2>4, <2>5, ZenonT(40) DEF Next
<1>. QED BY <1>1, InitCInv, Inductive, DealInductive, TypesInductive, OwnInductive, PTL DEF Spec

LEMMA HandIs ==
  ASSUME TInv, NEW t \in Workers, sending[t] # <<>>
  PROVE  /\ tpc[t] = "send" /\ sending[t] = <<sending[t][1], sending[t][2], sending[t][3]>>
         /\ sending[t][1] \in Mbufs /\ sending[t][3] \in 0 .. MAX_TRANSMIT_TRIAL
         /\ Hand(t) \in Stores /\ sending[t][1] \in In(Hand(t))
<1>1. HandShape(t)
  BY Zenon DEF TInv
<1>2. Held(Hand(t)) = <<sending[t][1]>> /\ Hand(t) \in Stores
  BY HeldAre, StoreCases, ZenonT(40) DEF InHand
<1>3. 1 \in 1 .. Len(Held(Hand(t))) /\ Held(Hand(t))[1] = sending[t][1]
  BY <1>2
<1>. QED BY <1>1, <1>2, <1>3, ZenonT(40) DEF HandShape, In

\* Every IPv4 packet a worker hands to a card is the one received, forwarded along
\* its route (thread_send_ipv4_packet), for all traffic and all interleavings.
THEOREM PacketsFollowRoutes == Spec => []ForwardedAlongRoute
<1>1. TInv /\ CInv => ForwardedAlongRoute
  <2> SUFFICES ASSUME TInv, CInv, NEW r \in Rings, NEW m \in Range(txq[r]), data[m].ether_type = "ipv4"
               PROVE  Forwarded(origin[m].frame, data[m], r[1])
    BY Zenon DEF ForwardedAlongRoute
  <2>1. Tx(r) \in Stores /\ Held(Tx(r)) = txq[r] /\ txq[r] \in Seq(Mbufs) /\ Tx(r)[1] = "tx" /\ Tx(r)[2] = r
    BY StoreCases, HeldAre, ZenonT(40) DEF Tx, TInv
  <2>2. m \in In(Tx(r))
    BY <2>1, LenProperties, ZenonT(40) DEF In, Range
  <2>. QED BY <2>1, <2>2, Zenon DEF CInv, Fit, Treated
<1>. QED BY <1>1, TypesInductive, ContentInductive, PTL

\* Every ARP message a worker sends answers a request for an address of the router,
\* back through the port it came in by (thread_handle_ether_arp_request).
THEOREM RequestsAreAnswered == Spec => []ArpAnswered
<1>1. TInv /\ CInv => ArpAnswered
  <2> SUFFICES ASSUME TInv, CInv, Alive, NEW r \in Rings, NEW m \in Range(txq[r]), data[m].ether_type = "arp"
               PROVE  /\ r[1] = origin[m].ring[1]
                      /\ Answers(origin[m].frame, data[m], MacOf(r[1]))
                      /\ \E i \in DOMAIN int_confs : int_confs[i].addr = data[m].arp.sip
    BY Zenon DEF ArpAnswered
  <2>1. Tx(r) \in Stores /\ Held(Tx(r)) = txq[r] /\ txq[r] \in Seq(Mbufs) /\ Tx(r)[1] = "tx" /\ Tx(r)[2] = r
    BY StoreCases, HeldAre, ZenonT(40) DEF Tx, TInv
  <2>2. m \in In(Tx(r))
    BY <2>1, LenProperties, ZenonT(40) DEF In, Range
  <2>. QED BY <2>1, <2>2, ZenonT(40) DEF CInv, Fit, Treated, Alive
<1>. QED BY <1>1, TypesInductive, ContentInductive, PTL

\* When an IPv4 frame is dropped.
LEMMA Ipv4Dropped ==
  ASSUME NEW f, NEW conf, NEW confs, f.ether_type = "ipv4"
  PROVE  thread_handle_frame(f, conf, confs).drop <=>
           ~(/\ is_frame_valid(f, conf) /\ is_ipv4_hdr_valid(f.ip, f.pkt_len - ETHER_HDR_LEN)
             /\ Hop(f.ip.dst_addr) # NoHop /\ ~TtlExpired(f.ip.time_to_live))
<1>1. Drop.drop = TRUE /\ \A g, p : Send(g, p).drop = FALSE
  BY Zenon DEF Drop, Send
<1>2. CASE ~is_frame_valid(f, conf)
  <2>1. thread_handle_frame(f, conf, confs) = Drop
    BY <1>2, Zenon DEF thread_handle_frame
  <2>. QED BY <1>1, <1>2, <2>1, ZenonT(40)
<1>3. CASE is_frame_valid(f, conf)
  <2>1. thread_handle_frame(f, conf, confs) = thread_handle_ether_ipv4(f)
    BY <1>3, Zenon DEF thread_handle_frame
  <2>2. CASE /\ is_ipv4_hdr_valid(f.ip, f.pkt_len - ETHER_HDR_LEN)
             /\ Hop(f.ip.dst_addr) # NoHop /\ ~TtlExpired(f.ip.time_to_live)
    BY <1>1, <1>3, <2>1, <2>2, ZenonT(40) DEF thread_handle_ether_ipv4, thread_send_ipv4_packet
  <2>3. CASE ~(/\ is_ipv4_hdr_valid(f.ip, f.pkt_len - ETHER_HDR_LEN)
               /\ Hop(f.ip.dst_addr) # NoHop /\ ~TtlExpired(f.ip.time_to_live))
    <3>1. thread_handle_ether_ipv4(f) = Drop
      BY <2>3, Zenon DEF thread_handle_ether_ipv4, thread_send_ipv4_packet
    <3>. QED BY <1>1, <2>1, <2>3, <3>1, ZenonT(40)
  <2>. QED BY <2>2, <2>3, Zenon
<1>. QED BY <1>2, <1>3, Zenon

LEMMA OtherFields ==
  ASSUME NEW Addrs, NEW hdr \in Headers(Addrs), NEW c, NEW new, new = [hdr EXCEPT !.checksum = c]
  PROVE  /\ new.rest = hdr.rest /\ new.time_to_live = hdr.time_to_live /\ new.version = hdr.version
         /\ new.ihl = hdr.ihl /\ new.total_length = hdr.total_length /\ new.dst_addr = hdr.dst_addr
         /\ new.checksum = c
BY ZenonT(40) DEF Headers

\* Of the packets without options that nothing else stops, a worker forwards no
\* incorrect one, and every correct one whose checksum is not zero (is_ipv4_hdr_valid).
THEOREM ChecksumsDecide == Spec => []ChecksumDecides
<1>1. TInv /\ CInv => ChecksumDecides
  <2>0. SUFFICES ASSUME TInv, CInv, NEW t \in Workers, tpc[t] = "frames", bufs[t] # <<>>,
                      NEW f \in Range(data), f = data[Head(bufs[t])], f.ether_type = "ipv4", f.ip.ihl = 5,
                      NEW g, g = [f EXCEPT !.ip.checksum = rte_ipv4_cksum(f.ip)],
                      ~thread_handle_frame(g, Interface(t), int_confs).drop
               PROVE  thread_handle_frame(f, Interface(t), int_confs).drop <=> ~(Correct(f.ip) /\ f.ip.checksum # 0)
    BY Zenon DEF ChecksumDecides, AtChecksum, Dropped
  <2>1. f \in FrameSet
    <3>1. /\ Burst(t) \in Stores /\ Held(Burst(t)) = bufs[t] /\ bufs[t] \in Seq(Mbufs)
          /\ Burst(t)[1] = "burst" /\ Burst(t)[2] = t
      BY <2>0, StoreCases, HeldAre, ZenonT(40) DEF Burst, TInv
    <3>2. Head(bufs[t]) = bufs[t][1] /\ Len(bufs[t]) \in Nat /\ Len(bufs[t]) >= 1
      BY <2>0, <3>1, TailShifts, ZenonT(40)
    <3>3. 1 \in 1 .. Len(bufs[t])
      BY <3>2
    <3>4. Head(bufs[t]) \in In(Burst(t))
      BY <3>1, <3>2, <3>3, ZenonT(40) DEF In
    <3>. QED BY <2>0, <3>1, <3>4, ZenonT(40) DEF CInv, Fit, Clean
  <2>2. IsIpv4Frame(f)
    BY <2>0, <2>1, TrafficAssumption, ZenonT(40)
  <2>3. f.ip \in Headers({f.ip.dst_addr}) /\ f.ip.options = 0
    BY <2>0, <2>2, Zenon DEF IsIpv4Frame
  <2>4. f.ip.checksum = rte_ipv4_cksum(f.ip) <=> Correct(f.ip) /\ f.ip.checksum # 0
    BY <2>3, BareTest, Zenon
  <2>5. /\ g.ether_type = f.ether_type /\ g.d_addr = f.d_addr /\ g.pkt_len = f.pkt_len
        /\ g.ip = [f.ip EXCEPT !.checksum = rte_ipv4_cksum(f.ip)]
    BY <2>0, <2>2, Zenon DEF IsIpv4Frame
  <2>6. /\ g.ip.rest = f.ip.rest /\ g.ip.time_to_live = f.ip.time_to_live /\ g.ip.version = f.ip.version
        /\ g.ip.ihl = f.ip.ihl /\ g.ip.total_length = f.ip.total_length /\ g.ip.dst_addr = f.ip.dst_addr
        /\ g.ip.checksum = rte_ipv4_cksum(f.ip)
    BY <2>3, <2>5, OtherFields
  <2>7. is_frame_valid(g, Interface(t)) <=> is_frame_valid(f, Interface(t))
    BY <2>5, Zenon DEF is_frame_valid
  <2>8. /\ is_frame_valid(f, Interface(t)) /\ is_ipv4_hdr_valid(g.ip, f.pkt_len - ETHER_HDR_LEN)
        /\ Hop(f.ip.dst_addr) # NoHop /\ ~TtlExpired(f.ip.time_to_live)
    <3>1. g.ether_type = "ipv4"
      BY <2>0, <2>5, Zenon
    <3>2. /\ is_frame_valid(g, Interface(t)) /\ is_ipv4_hdr_valid(g.ip, g.pkt_len - ETHER_HDR_LEN)
          /\ Hop(g.ip.dst_addr) # NoHop /\ ~TtlExpired(g.ip.time_to_live)
      BY <2>0, <3>1, Ipv4Dropped, ZenonT(40)
    <3>. QED BY <2>5, <2>6, <2>7, <3>2, ZenonT(40)
  <2>9. is_ipv4_hdr_valid(f.ip, f.pkt_len - ETHER_HDR_LEN) <=> f.ip.checksum = rte_ipv4_cksum(f.ip)
    BY <2>6, <2>8, Zenon DEF is_ipv4_hdr_valid
  <2>. QED BY <2>0, <2>4, <2>8, <2>9, Ipv4Dropped, ZenonT(40)
<1>. QED BY <1>1, TypesInductive, ContentInductive, PTL

\* What an undefined transmission was: no step follows it.
Strayed == mpc = "undefined" => \E t \in Workers : tpc[t] = "send" /\ sending[t][2] \notin configured

\* A worker transmits on queues that were never set up only when a route leads to a
\* port that no -p option attached, never because it runs too early.
THEOREM OnlyRoutesStray == Spec => []OnlyStrayRouteUndefined
<1>1. Init => Strayed
  BY Zenon DEF Init, Strayed
<1>2. Strayed /\ [Next]_vars => Strayed'
  <2> SUFFICES ASSUME Strayed, [Next]_vars, mpc' = "undefined"
               PROVE  \E t \in Workers : tpc'[t] = "send" /\ sending'[t][2] \notin configured'
    BY Zenon DEF Strayed
  <2>1. CASE Master \/ signal_handler \/ UNCHANGED vars
    BY <2>1, ZenonT(40) DEF Strayed, Master, ConfigureInterface, ConfigureError, ConfigureEnd, start_thread, MasterWorks, MasterWorked,
         rte_eal_wait_lcore, router_finalize, signal_handler, Alive, vars, workers, master
  <2>2. ASSUME NEW t \in Workers, Worker(t) PROVE tpc'[t] = "send" /\ sending'[t][2] \notin configured'
    BY <2>2, ZenonT(40) DEF Worker, Alive, RoundStart, recv_from_device, RecvEnd, thread_handle_frames, FramesEnd,
         rte_eth_tx_burst, TransmitUnattached, TransmitGivenUp, RoundEnd, Wake, master, workers
  <2>3. ASSUME NEW r \in Rings, Depart(r) \/ \E m \in Mbufs, f \in FrameSet : Arrive(m, r, f) PROVE FALSE
    BY <2>3, Zenon DEF Depart, Arrive, Alive, master
  <2>. QED BY <2>1, <2>2, <2>3, ZenonT(40) DEF Next
<1>3. DInv /\ TInv /\ Strayed => OnlyStrayRouteUndefined
  <2> SUFFICES ASSUME DInv, TInv, Strayed, mpc = "undefined"
               PROVE  \E t \in Workers : sending[t] # <<>> /\ \A i \in DOMAIN int_confs : int_confs[i].int_id # sending[t][2]
    BY Zenon DEF OnlyStrayRouteUndefined
  <2>1. PICK t \in Workers : tpc[t] = "send" /\ sending[t][2] \notin configured
    BY Zenon DEF Strayed
  <2>2. sending[t] # <<>>
    BY <2>1, InTransmit
  <2>3. int_confs \in IntConfLists /\ configured = {int_confs[i].int_id : i \in 1 .. Len(int_confs)}
    BY Zenon DEF DInv, Dealt
  <2>4. DOMAIN int_confs = 1 .. Len(int_confs)
    BY <2>3, ListFacts, ZenonT(40)
  <2>. QED BY <2>1, <2>2, <2>3, <2>4, ZenonT(40)
<1>. QED BY <1>1, <1>2, <1>3, DealInductive, TypesInductive, PTL DEF Spec

Freed == mpc = "end" => int_confs = <<>>

\* The loop counters, a burst, the transmit loop and the rings stay within the
\* arrays they index, for every number of lcores, interfaces and descriptors.
THEOREM TypesAreKept == Spec => []TypeOK
<1>1. Init => Freed
  BY Zenon DEF Init, Freed
<1>2. Freed /\ [Next]_vars => Freed'
  <2> SUFFICES ASSUME Freed, [Next]_vars PROVE Freed'
    BY Zenon
  <2>1. CASE Master \/ signal_handler \/ UNCHANGED vars
    BY <2>1, ZenonT(40) DEF Freed, Master, ConfigureInterface, ConfigureError, ConfigureEnd, start_thread, MasterWorks, MasterWorked,
         rte_eal_wait_lcore, router_finalize, signal_handler, Alive, vars, master
  <2>2. ASSUME NEW t \in Workers, Worker(t) PROVE Freed'
    BY <2>2, ZenonT(40) DEF Freed, Worker, Alive, RoundStart, recv_from_device, RecvEnd, thread_handle_frames, FramesEnd,
         rte_eth_tx_burst, TransmitUnattached, TransmitGivenUp, RoundEnd, Wake, master
  <2>3. ASSUME NEW r \in Rings, Depart(r) \/ \E m \in Mbufs, f \in FrameSet : Arrive(m, r, f) PROVE Freed'
    BY <2>3, Zenon DEF Freed, Depart, Arrive, Alive, master
  <2>. QED BY <2>1, <2>2, <2>3, ZenonT(40) DEF Next
<1>3. RInv /\ DInv /\ TInv /\ CInv /\ Freed => TypeOK
  <2> SUFFICES ASSUME RInv, DInv, TInv, CInv, Freed PROVE TypeOK
    BY Zenon
  <2>1. mi \in 0 .. LcoreCount + Len(int_confs)
    <3>1. PICK n \in Nat : n = Len(int_confs)
      <4>1. CASE mpc = "end"
        BY <4>1, EmptySeq, ZenonT(40) DEF Freed
      <4>2. CASE mpc # "end"
        BY <4>2, ListFacts, Zenon DEF DInv
      <4>. QED BY <4>1, <4>2, ZenonT(40)
    <3>2. mi \in 0 .. n \/ mi \in 1 .. LcoreCount
      BY <3>1, Zenon DEF DInv, Dealt
    <3>. QED BY <3>1, <3>2, Numbers
  <2>2. ASSUME NEW t \in Workers
        PROVE  /\ sending[t] = <<>> \/ sending[t] \in Mbufs \X Ports \X (0 .. MAX_TRANSMIT_TRIAL)
               /\ sending[t] # <<>> <=> tpc[t] = "send"
    <3>1. CASE sending[t] = <<>>
      <4>1. \A m, p, i : <<m, p, i>> # <<>>
        BY ONLY SMT
      <4>. QED BY <3>1, <4>1, InTransmit, ZenonT(40)
    <3>2. CASE sending[t] # <<>>
      <4>1. Hand(t)[1] = "hand" /\ Hand(t)[2] = t
        BY Zenon DEF Hand
      <4>2. sending[t][2] \in Ports
        BY <3>2, <4>1, HandIs, ZenonT(40) DEF CInv, Fit
      <4>3. /\ tpc[t] = "send" /\ sending[t] = <<sending[t][1], sending[t][2], sending[t][3]>>
            /\ sending[t][1] \in Mbufs /\ sending[t][3] \in 0 .. MAX_TRANSMIT_TRIAL
        BY <3>2, HandIs, Zenon
      <4>4. <<sending[t][1], sending[t][2], sending[t][3]>> \in Mbufs \X Ports \X (0 .. MAX_TRANSMIT_TRIAL)
        BY <4>2, <4>3, Zenon
      <4>. QED BY <3>2, <4>3, <4>4, Zenon
    <3>. QED BY <3>1, <3>2, Zenon
  <2>3. /\ mpc \in MasterPhases /\ configured \subseteq Ports
        /\ lcore \in [Slaves -> {"WAIT", "RUNNING", "FINISHED"}] /\ tpc \in [Workers -> WorkerPhases]
    BY Zenon DEF RInv, DInv
  <2>4. /\ force_quit \in BOOLEAN /\ tq \in [Workers -> 0 .. LcoreCount] /\ received \in [Workers -> BOOLEAN]
        /\ \A t \in Workers : bufs[t] \in Seq(Mbufs) /\ Len(bufs[t]) <= MAX_BURST_SIZE /\ ti[t] \in Nat
        /\ \A r \in Rings : /\ rxq[r] \in Seq(Mbufs) /\ Len(rxq[r]) <= RX_DESCS
                            /\ txq[r] \in Seq(Mbufs) /\ Len(txq[r]) <= TX_DESCS
    BY Zenon DEF TInv, BurstShape
  <2>. QED BY <2>1, <2>2, <2>3, <2>4, ZenonT(40) DEF TypeOK
<1>. QED BY <1>1, <1>2, <1>3, Inductive, DealInductive, TypesInductive, ContentInductive, PTL DEF Spec
-----------------------------------------------------------------------------
(***************************************************************************)
(* The order of frames.                                                    *)
(***************************************************************************)
\* What is in store s is further on its way than what is in store u: a worker's
\* frames go from the receive rings through its burst and hand to its transmit rings.
Before(s, u) ==
  \/ s = u
  \/ s[1] # "rx" /\ u[1] = "rx"
  \/ s[1] = "tx" /\ u[1] \in {"hand", "burst"} /\ s[2][2] = u[2]
  \/ s[1] = "hand" /\ u[1] = "burst" /\ s[2] = u[2]

\* The pairs of stores of which the first is further on.
Further == {p \in Stores \X Stores : Before(p[1], p[2])}

LEMMA FurtherIs == \A s, u \in Stores : <<s, u>> \in Further <=> Before(s, u)
BY Zenon DEF Further

\* The three moves of a frame clear the ones behind it.
LEMMA MovesClear ==
  ASSUME CInv, NEW t \in Workers
  PROVE  /\ \A r \in Rings : Clears(Further, Stores, View, origin, Rx(r), Burst(t))
         /\ Clears(Further, Stores, View, origin, Burst(t), Hand(t))
         /\ \A r \in Rings : r[2] = t => Clears(Further, Stores, View, origin, Hand(t), Tx(r))
<1>0. \A s \in Stores : View[s] = Held(s)
  BY Zenon DEF View
<1>1. ASSUME NEW r \in Rings PROVE Clears(Further, Stores, View, origin, Rx(r), Burst(t))
  <2>1. ~Before(Rx(r), Burst(t)) /\ \A s \in Stores : Before(s, Burst(t)) => Before(s, Rx(r))
    BY StoreCases DEF Before, Rx, Burst, Hand, Tx
  <2>2. ASSUME NEW u \in Stores \ {Rx(r), Burst(t)}, Before(Burst(t), u),
               NEW i \in 1 .. Len(View[Rx(r)]), NEW j \in 1 .. Len(View[u])
        PROVE  origin[View[Rx(r)][i]].ring # origin[View[u][j]].ring
    <3>1. PICK v \in Rings : u = Rx(v) /\ v # r
      BY <2>2, StoreCases DEF Before, Rx, Burst, Hand, Tx
    <3>2. ASSUME NEW x \in Rings, NEW n, n \in In(Rx(x)) PROVE origin[n].ring = x
      <4>1. Fit(Rx(x), n)
        BY <3>2, StoreCases, ZenonT(40) DEF CInv
      <4>. QED BY <4>1, Zenon DEF Fit, Rx
    <3>3. View[Rx(r)][i] \in In(Rx(r)) /\ View[Rx(v)][j] \in In(Rx(v))
      BY <1>0, <2>2, <3>1, StoreCases, ZenonT(40) DEF In
    <3>. QED BY <3>1, <3>2, <3>3, ZenonT(40)
  <2>3. Rx(r) \in Stores /\ Burst(t) \in Stores /\ \A s \in Stores : Before(s, s)
    BY StoreCases, ZenonT(40) DEF Before
  <2>. QED BY <2>1, <2>2, <2>3, FurtherIs, ZenonT(40) DEF Clears
<1>2. \A s \in Stores : Before(s, s)
  BY Zenon DEF Before
<1>2a. Clears(Further, Stores, View, origin, Burst(t), Hand(t))
  <2>1. /\ ~Before(Burst(t), Hand(t))
        /\ \A s \in Stores : Before(s, Hand(t)) => Before(s, Burst(t))
        /\ \A u \in Stores \ {Burst(t), Hand(t)} : Before(Hand(t), u) => Before(Burst(t), u)
    BY StoreCases DEF Before, Rx, Burst, Hand, Tx
  <2>2. Hand(t) \in Stores /\ Burst(t) \in Stores
    BY StoreCases, Zenon
  <2>. QED BY <1>2, <2>1, <2>2, FurtherIs, ZenonT(40) DEF Clears
<1>3. ASSUME NEW r \in Rings, r[2] = t PROVE Clears(Further, Stores, View, origin, Hand(t), Tx(r))
  <2>1. /\ ~Before(Hand(t), Tx(r))
        /\ \A s \in Stores : Before(s, Tx(r)) => Before(s, Hand(t))
        /\ \A u \in Stores \ {Hand(t), Tx(r)} : Before(Tx(r), u) => Before(Hand(t), u)
    BY <1>3, StoreCases DEF Before, Rx, Burst, Hand, Tx
  <2>2. Hand(t) \in Stores /\ Tx(r) \in Stores
    BY StoreCases, ZenonT(40)
  <2>. QED BY <1>2, <2>1, <2>2, FurtherIs, ZenonT(40) DEF Clears
<1>. QED BY <1>1, <1>2a, <1>3, ZenonT(40)

QInv == InOrder(Further, Stores, View, origin, older)

LEMMA InitQInv == Init => QInv
<1> SUFFICES ASSUME Init, NEW s \in Stores, NEW i \in 1 .. Len(View[s]) PROVE FALSE
  BY Zenon DEF QInv, InOrder
<1>1. \A t \in Workers : bufs[t] = <<>> /\ InHand(t) = <<>>
  BY Zenon DEF Init, InHand
<1>2. \A r \in Rings : rxq[r] = <<>> /\ txq[r] = <<>>
  BY Zenon DEF Init
<1>3. View[s] = <<>>
  BY <1>1, <1>2, StoreCases, HeldAre, ZenonT(40) DEF View
<1>. QED BY <1>3, EmptySeq

LEMMA OrderInductive == Spec => []QInv
<1>1. RInv /\ DInv /\ TInv /\ OInv /\ CInv /\ QInv /\ [Next]_vars /\ TInv' => QInv'
  <2> SUFFICES ASSUME RInv, DInv, TInv, OInv, CInv, QInv, [Next]_vars, TInv'
               PROVE  InOrder(Further, Stores, View', origin', older')
    BY Zenon DEF QInv
  <2>0. /\ View \in [Stores -> Seq(Mbufs)] /\ View' \in [Stores -> Seq(Mbufs)]
        /\ \A s \in Stores : View[s] = Held(s) /\ View'[s] = Held(s)'
    BY ViewTypes, Zenon
  <2>1. /\ Own(Mbufs, Stores, View, pool) /\ DOMAIN pool = Mbufs /\ DOMAIN origin = Mbufs
        /\ InOrder(Further, Stores, View, origin, older)
    BY Zenon DEF OInv, TInv, QInv
  <2>2. CASE Rests
    <3>1. View' = View /\ origin' = origin /\ older' = older
      BY <2>2, Zenon DEF Rests, View, buffers
    <3>. QED BY <2>1, <3>1, Zenon
  <2>3. ASSUME NEW a, NEW b, NEW k, Moves(a, b, k), Clears(Further, Stores, View, origin, a, b)
        PROVE  InOrder(Further, Stores, View', origin', older')
    <3>1. MoveOf(Mbufs, Stores, View, View', a, b, k)
      BY <2>0, <2>3, ZenonT(40) DEF Moves, MoveOf
    <3>2. origin' = origin /\ older' = older
      BY <2>3, Zenon DEF Moves
    <3>3. InOrder(Further, Stores, View', origin, older)
      BY <2>1, <2>3, <3>1, MoveKeepsOrder, ZenonT(40)
    <3>. QED BY <3>2, <3>3, Zenon
  <2>4. ASSUME NEW a \in Stores, Frees(a) PROVE InOrder(Further, Stores, View', origin', older')
    <3>1. FreeOf(Mbufs, Stores, View, View', pool, pool', a)
      BY <2>0, <2>1, <2>4, ZenonT(40) DEF Frees, Free, FreeOf
    <3>2. View[a][1] = Held(a)[1]
      BY <2>0, Zenon
    <3>3. \A m \in Mbufs : m # View[a][1] => origin'[m] = origin[m]
      BY <2>1, <2>4, <3>2, ZenonT(40) DEF Frees, Free
    <3>4. \A m, n \in Mbufs : <<m, n>> \in older /\ m # View[a][1] /\ n # View[a][1] => <<m, n>> \in older'
      BY <2>4, <3>2, ZenonT(40) DEF Frees, Free
    <3>5. OrderWithout(Mbufs, View[a][1], origin, origin', older, older')
      BY <3>3, <3>4, ZenonT(40) DEF OrderWithout
    <3>. QED BY <2>1, <3>1, <3>5, FreeKeepsOrder, ZenonT(40)
  <2>5. ASSUME NEW m \in Mbufs, NEW r \in Rings, NEW f \in FrameSet, Takes(m, r, f)
        PROVE  InOrder(Further, Stores, View', origin', older')
    <3>1. Rx(r) \in Stores /\ Held(Rx(r)) = rxq[r] /\ Held(Rx(r))' = rxq'[r] /\ Rx(r) = <<"rx", r>>
      BY StoreCases, HeldAre, ZenonT(40) DEF Rx
    <3>2. TakeOf(Mbufs, Stores, View, View', pool, pool', Rx(r), m)
      BY <2>0, <2>1, <2>5, <3>1, ZenonT(40) DEF Takes, TakeOf
    <3>3. \A u \in Stores : <<Rx(r), u>> \in Further => u = Rx(r)
      BY <3>1, FurtherIs, ZenonT(40) DEF Before, Rx
    <3>4. \A n \in Mbufs : n # m => origin'[n] = origin[n]
      BY <2>1, <2>5, ZenonT(40) DEF Takes
    <3>5. older \subseteq older' /\ \A n \in Mbufs : pool[n] = 0 => <<n, m>> \in older'
      BY <2>5, ZenonT(40) DEF Takes
    <3>6. OrderWith(Mbufs, m, pool, origin, origin', older, older')
      BY <3>4, <3>5, Zenon DEF OrderWith
    <3>7. Own(Mbufs, Stores, View, pool) /\ InOrder(Further, Stores, View, origin, older)
      BY <2>1, Zenon
    <3>. QED BY ONLY <3>2, <3>3, <3>6, <3>7, TakeKeepsOrder
  <2>6. ASSUME NEW t \in Workers, Moves(Burst(t), Hand(t), 1) PROVE InOrder(Further, Stores, View', origin', older')
    BY <2>3, <2>6, MovesClear, ZenonT(40)
  <2>7. ASSUME NEW t \in Workers, NEW r \in Rings, NEW k \in Nat,
               Moves(Rx(r), Burst(t), k) \/ (Moves(Hand(t), Tx(r), 1) /\ r[2] = t)
        PROVE  InOrder(Further, Stores, View', origin', older')
    BY <2>3, <2>7, MovesClear, ZenonT(40)
  <2>8. 0 \in Nat
    BY Zenon
  <2>. QED BY <2>2, <2>4, <2>5, <2>6, <2>7, <2>8, StepKinds, ZenonT(40)
<1>. QED BY <1>1, InitQInv, Inductive, DealInductive, TypesInductive, OwnInductive, ContentInductive, PTL DEF Spec

\* No frame overtakes one that came in by the same ring, whatever retries the
\* transmit loop makes and whichever ports the frames leave by.
THEOREM FramesKeepOrder == Spec => []ReceiveOrderKept
<1>1. RInv /\ TInv /\ QInv => ReceiveOrderKept
  <2> SUFFICES ASSUME RInv, TInv, QInv, Alive, NEW t \in Workers, NEW in \in Rings, NEW out \in Rings,
                      out[2] = thr_confs[t].q_id
               PROVE  LET path == txq[out] \o InHand(t) \o bufs[t] \o rxq[in]
                      IN  \A i, j \in DOMAIN path :
                            i < j /\ origin[path[i]].ring = in /\ origin[path[j]].ring = in
                              => <<path[i], path[j]>> \in older
    BY Zenon DEF ReceiveOrderKept
  <2>1. out[2] = t
    BY DEF RInv, OwnQueues
  <2>2. PICK R : R = {p \in Mbufs \X Mbufs : origin[p[1]].ring = in /\ origin[p[2]].ring = in => p \in older}
    BY Zenon
  <2>3. PICK a, b, c, d : a = txq[out] /\ b = InHand(t) /\ c = bufs[t] /\ d = rxq[in]
    BY Zenon
  <2>4. /\ View[Tx(out)] = a /\ View[Hand(t)] = b /\ View[Burst(t)] = c /\ View[Rx(in)] = d
        /\ Tx(out) \in Stores /\ Hand(t) \in Stores /\ Burst(t) \in Stores /\ Rx(in) \in Stores
    BY <2>3, StoreCases, HeldAre, ZenonT(40) DEF View
  <2>5. a \in Seq(Mbufs) /\ b \in Seq(Mbufs) /\ c \in Seq(Mbufs) /\ d \in Seq(Mbufs)
    BY <2>3, StoreCases, HeldTypes, HeldAre, ZenonT(40)
  <2>6. ASSUME NEW s \in Stores, NEW u \in Stores, Before(s, u), s # u,
               View[s] \in Seq(Mbufs), View[u] \in Seq(Mbufs)
        PROVE  Over(View[s], View[u], R)
    <3> SUFFICES ASSUME NEW i \in 1 .. Len(View[s]), NEW j \in 1 .. Len(View[u])
                 PROVE  <<View[s][i], View[u][j]>> \in R
      BY Zenon DEF Over
    <3>1. View[s][i] \in Mbufs /\ View[u][j] \in Mbufs
      BY <2>6, LenProperties, ZenonT(40)
    <3>2. origin[View[s][i]].ring = origin[View[u][j]].ring => <<View[s][i], View[u][j]>> \in older
      BY <2>6, FurtherIs, ZenonT(40) DEF QInv, InOrder
    <3>. QED BY <2>2, <3>1, <3>2, ZenonT(40)
  <2>7. ASSUME NEW s \in Stores, View[s] \in Seq(Mbufs) PROVE Ranked(View[s], R)
    <3> SUFFICES ASSUME NEW i \in 1 .. Len(View[s]), NEW j \in 1 .. Len(View[s]), i < j
                 PROVE  <<View[s][i], View[s][j]>> \in R
      BY Zenon DEF Ranked
    <3>1. View[s][i] \in Mbufs /\ View[s][j] \in Mbufs
      BY <2>7, LenProperties, ZenonT(40)
    <3>2. origin[View[s][i]].ring = origin[View[s][j]].ring => <<View[s][i], View[s][j]>> \in older
      BY FurtherIs, Zenon DEF QInv, InOrder, Before
    <3>. QED BY <2>2, <3>1, <3>2, ZenonT(40)
  <2>8. /\ Before(Tx(out), Hand(t)) /\ Before(Tx(out), Burst(t)) /\ Before(Tx(out), Rx(in))
        /\ Before(Hand(t), Burst(t)) /\ Before(Hand(t), Rx(in)) /\ Before(Burst(t), Rx(in))
    BY <2>1, Zenon DEF Before, Tx, Hand, Burst, Rx
  <2>9. /\ Over(a, b, R) /\ Over(a, c, R) /\ Over(a, d, R) /\ Over(b, c, R) /\ Over(b, d, R) /\ Over(c, d, R)
        /\ Ranked(a, R) /\ Ranked(b, R) /\ Ranked(c, R) /\ Ranked(d, R)
    BY <2>4, <2>5, <2>6, <2>7, <2>8, StoresDiffer, ZenonT(40)
  <2>10. PICK e, f, g : e = a \o b /\ f = e \o c /\ g = f \o d
    BY Zenon
  <2>11. e \in Seq(Mbufs) /\ f \in Seq(Mbufs) /\ g \in Seq(Mbufs)
    BY <2>5, <2>10, ConcatIndex, ZenonT(40)
  <2>12. Ranked(e, R) /\ Over(e, c, R) /\ Over(e, d, R)
    BY <2>5, <2>9, <2>10, ConcatRanked, ZenonT(40)
  <2>13. Ranked(f, R) /\ Over(f, d, R)
    BY <2>5, <2>9, <2>10, <2>11, <2>12, ConcatRanked, ZenonT(40)
  <2>14. Ranked(g, R)
    BY <2>5, <2>9, <2>10, <2>11, <2>13, ConcatRanked, ZenonT(40)
  <2>15. DOMAIN g = 1 .. Len(g)
    BY <2>11, LenProperties, ZenonT(40)
  <2>16. \A i, j \in DOMAIN g : i < j /\ origin[g[i]].ring = in /\ origin[g[j]].ring = in => <<g[i], g[j]>> \in older
    BY <2>2, <2>14, <2>15, ZenonT(40) DEF Ranked
  <2>17. g = txq[out] \o InHand(t) \o bufs[t] \o rxq[in]
    BY <2>3, <2>10, ZenonT(40)
  <2>. QED BY <2>16, <2>17, ZenonT(40)
<1>. QED BY <1>1, Inductive, TypesInductive, OrderInductive, PTL
=============================================================================
