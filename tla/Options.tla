------------------------------ MODULE Options ------------------------------
(***************************************************************************)
(* The option texts "-p interface,address" and                             *)
(* "-r address/cidr,mac,interface", and the parsers that read them         *)
(* (router.c, utils.c).  The parsers end a field by writing a NUL over its *)
(* separator; nothing reads the argument again, so that the writes and the *)
(* order of the tests, each of which ends in the same refusal, are left    *)
(* out.                                                                    *)
(*                                                                         *)
(* A character is the value of the digit it is, or one of the negative     *)
(* codes below.  An address is kept as the tuple of its groups: each is a  *)
(* byte, so the sum of the shifted groups determines them.                 *)
(***************************************************************************)
EXTENDS Integers, Sequences, SequencesExt

Dot == -1
Colon == -2
Comma == -3
Slash == -4
Minus == -5
Other == -6

MAX_DEC_DIGIT_LEN == 10
IPV4_MAX_ADDR_LEN == 15
MAC_ADDR_LEN == 17
Byte == 0 .. 255

\* The two address formats: separator, number of separators, longest group, lengths
\* of the last group, base of the digits.
Ipv4 == [sep |-> Dot, seps |-> 3, len |-> 3, last |-> 0 .. 3, base |-> 10]
Mac == [sep |-> Colon, seps |-> 5, len |-> 2, last |-> {2}, base |-> 16]

----------------------------------------------------------------------------
Drop(str, n) == SubSeq(str, n + 1, Len(str))

index_of_first_charMutant(str, ch, max) ==
  LET hits == {i \in 0 .. max - 1 : i < Len(str) /\ str[i + 1] = ch}
  IN IF hits = {} THEN -1 ELSE Min(hits)
index_of_first_char(str, ch, max) ==
  LET hits == {i \in 0 .. max : i < Len(str) /\ str[i + 1] = ch}
  IN IF hits = {} THEN -1 ELSE Min(hits)

\* are_all_char_decimal and are_all_char_hexadecimal.
AllDigitsMutant(str, base) == \A i \in DOMAIN str : str[i] \in 0 .. 15
AllDigits(str, base) == \A i \in DOMAIN str : str[i] \in 0 .. base - 1

\* The C library's atoi: an optional sign and the digits up to the first other
\* character, as a long cut to 32 bits, which are computed here in two halves.
atoi(str) ==
  LET neg == str # <<>> /\ Head(str) = Minus
      body == IF neg THEN Tail(str) ELSE str
      stop == {i \in DOMAIN body : body[i] \notin 0 .. 9}
      digits == IF stop = {} THEN body ELSE SubSeq(body, 1, Min(stop) - 1)
      Shift(n, d) == <<(n[1] * 10 + (n[2] * 10 + d) \div 65536) % 65536, (n[2] * 10 + d) % 65536>>
      n == FoldLeft(Shift, <<0, 0>>, digits)
      val == (IF n[1] < 32768 THEN n[1] ELSE n[1] - 65536) * 65536 + n[2]
  IN IF neg THEN -val ELSE val

\* The C library's strtol for the two hexadecimal digits of a group.
strtol16(str) == FoldLeft(LAMBDA n, d : 16 * n + d, 0, str)

\* The value of a group, whatever its range.
GroupVal(str, fmt) == IF fmt.base = 10 THEN atoi(str) ELSE strtol16(str)

----------------------------------------------------------------------------
Refused == [ok |-> FALSE, val |-> <<>>]

\* The fields of a text, one up to each separator [ch, max] in turn, which is looked
\* for no further than max characters on, and the rest; fewer if one is not found.
RECURSIVE Fields(_, _)
Fields(str, seps) ==
  IF seps = <<>> THEN <<str>>
  ELSE LET i == index_of_first_char(str, Head(seps).ch, Head(seps).max)
       IN IF i = -1 THEN <<>> ELSE <<SubSeq(str, 1, i)>> \o Fields(Drop(str, i + 1), Tail(seps))

\* An address from its groups: each must be digits of a byte.
FromGroups(groups, fmt) ==
  IF /\ Len(groups) = fmt.seps + 1
     /\ Len(Last(groups)) \in fmt.last
     /\ \A k \in DOMAIN groups : AllDigits(groups[k], fmt.base) /\ GroupVal(groups[k], fmt) \in Byte
  THEN [ok |-> TRUE, val |-> [k \in DOMAIN groups |-> GroupVal(groups[k], fmt)]]
  ELSE Refused

addr_from_str(str, fmt) ==
  FromGroups(Fields(str, [k \in 1 .. fmt.seps |-> [ch |-> fmt.sep, max |-> fmt.len]]), fmt)

ipv4_addr_from_str(str) == addr_from_str(str, Ipv4)
mac_addr_from_str(str) == addr_from_str(str, Mac)

IsInterface(id) == AllDigits(id, 10) /\ atoi(id) \in Byte

InterfaceFrom(id, addr) ==
  IF IsInterface(id) /\ addr.ok THEN [ok |-> TRUE, val |-> <<atoi(id), addr.val>>] ELSE Refused
FromFieldsP(fields) ==
  IF Len(fields) < 2 THEN Refused ELSE InterfaceFrom(fields[1], ipv4_addr_from_str(fields[2]))
parse_option_p(str) == FromFieldsP(Fields(str, <<[ch |-> Comma, max |-> MAX_DEC_DIGIT_LEN]>>))

\* The digits of the CIDR are not looked at: it is what atoi makes of it.
RouteFrom(addr, cidr, mac, id) ==
  IF /\ addr.ok /\ mac.ok
     /\ atoi(cidr) \in 0 .. 32
     /\ Len(id) < MAX_DEC_DIGIT_LEN /\ IsInterface(id)
  THEN [ok |-> TRUE, val |-> <<addr.val, atoi(cidr), mac.val, atoi(id)>>]
  ELSE Refused
FromFieldsR(fields) ==
  IF Len(fields) < 4 THEN Refused
  ELSE RouteFrom(ipv4_addr_from_str(fields[1]), fields[2], mac_addr_from_str(fields[3]), fields[4])
parse_option_r(str) ==
  FromFieldsR(Fields(str, <<[ch |-> Slash, max |-> IPV4_MAX_ADDR_LEN], [ch |-> Comma, max |-> MAX_DEC_DIGIT_LEN],
                            [ch |-> Comma, max |-> MAC_ADDR_LEN]>>))

----------------------------------------------------------------------------
(***************************************************************************)
(* An option on the command line: -p with the texts [id, addr], -r with    *)
(* the texts [addr, cidr, mac, id], an address being the sequence of the   *)
(* texts of its groups; or one that getopt does not know.                  *)
(***************************************************************************)
Join(texts, sep) == Tail(FlattenSeq([i \in DOMAIN texts |-> <<sep>> \o texts[i]]))

\* What is typed: the fields with their separators.
Text(o) ==
  IF o.opt = "p" THEN o.id \o <<Comma>> \o Join(o.addr, Dot)
  ELSE Join(o.addr, Dot) \o <<Slash>> \o o.cidr \o <<Comma>> \o Join(o.mac, Colon) \o <<Comma>> \o o.id

----------------------------------------------------------------------------
\* Reference: the number a text of digits stands for, 1000 standing for all from there on.
Number(text, base) ==
  LET significant == {i \in DOMAIN text : text[i] # 0}
      digits == IF significant = {} THEN <<>> ELSE SubSeq(text, Min(significant), Len(text))
  IN IF Len(digits) > 3 THEN 1000 ELSE FoldLeft(LAMBDA n, d : base * n + d, 0, digits)

OnlyOf(text, chars) == \A i \in DOMAIN text : text[i] \in chars
IsNumber(text, max) == OnlyOf(text, 0 .. 9) /\ Number(text, 10) <= max
IsAddress(groups, n, digits, lens, lastLens, base) ==
  /\ Len(groups) = n
  /\ \A i \in DOMAIN groups : /\ OnlyOf(groups[i], digits)
                               /\ Len(groups[i]) \in (IF i = n THEN lastLens ELSE lens)
                               /\ Number(groups[i], base) <= 255

\* The form of an option the parsers are to take: lo is the fewest digits of a
\* number or of a group, hi the most of a number.
WellFormed(o, lo, hi) ==
  /\ IsAddress(o.addr, 4, 0 .. 9, lo .. 3, lo .. 3, 10)
  /\ Len(o.id) \in lo .. hi /\ IsNumber(o.id, 255)
  /\ o.opt = "r" => /\ IsAddress(o.mac, 6, 0 .. 15, lo .. 2, {2}, 16)
                    /\ Len(o.cidr) \in lo .. hi /\ IsNumber(o.cidr, 32)

\* The values an option of that form says.
Meant(o) ==
  LET Numbers(groups, base) == [i \in DOMAIN groups |-> Number(groups[i], base)]
      addr == Numbers(o.addr, 10)
      id == Number(o.id, 10)
  IN IF o.opt = "p" THEN <<id, addr>> ELSE <<addr, Number(o.cidr, 10), Numbers(o.mac, 16), id>>

\* A text of digits whose number an int holds.
Plain(text) == Len(text) <= 9 /\ OnlyOf(text, 0 .. 9)
=============================================================================
