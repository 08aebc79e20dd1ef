------------------------------ MODULE Checksum ------------------------------
(***************************************************************************)
(* The IPv4 header checksum as rte_ipv4_cksum computes it (rte_ip.h): the  *)
(* words of a header without options are added into a wider accumulator    *)
(* and the carries are folded back.                                        *)
(*                                                                         *)
(* The sum does not depend on the order of the words, so a header has the  *)
(* sum `rest` of its first ten words less the checksum and the TTL, the    *)
(* sum `options` of the words after the tenth, and the two singled out.    *)
(* The TTL is the low byte of its word, little-endian.                     *)
(***************************************************************************)
EXTENDS Integers

CONSTANT B        \* values of a word (2^16); the accumulator has B * B (2^32)

ASSUME ChecksumAssumption == B \in Nat /\ B >= 8

\* Nine words, and a tenth that is zero: less than B * B.
MaxSum == 9 * (B - 1)

\* __rte_raw_cksum_reduce
Fold(sum) == (sum \div B) + (sum % B)
ReduceMutant(sum) == Fold(sum) % B
Reduce(sum) == Fold(Fold(sum)) % B

\* Called with the checksum field set to 0, as it always is.
rte_ipv4_cksum(hdr) ==
  LET cksum == Reduce(hdr.rest + hdr.time_to_live)
  IN  IF cksum = B - 1 THEN cksum ELSE B - 1 - cksum

\* Reference: what RFC 1071 asks of a header as it arrives.  The one's complement
\* sum of all its words, the checksum and the options included, is minus zero.
Correct(hdr) ==
  LET sum == hdr.rest + hdr.time_to_live + hdr.options + hdr.checksum
  IN  sum # 0 /\ sum % (B - 1) = 0
=============================================================================
