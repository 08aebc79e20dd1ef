----------------------------- MODULE MCProgram -----------------------------
(***************************************************************************)
(* Command lines with one option, whose text is around every limit of the  *)
(* parsers: empty, shortest, longest and one too long, in and just out of  *)
(* range, with a character that is no digit, with a group too few and one  *)
(* too many.  And command lines of up to four options out of eleven.       *)
(***************************************************************************)
EXTENDS Program

\* 4294967297 is 1 and 4294967304 is 8 in the 32 bits of an int.
Wrapped(d) == <<4, 2, 9, 4, 9, 6, 7>> \o d

SomeGroups == {<<>>, <<7>>, <<0, 2>>, <<2, 5, 5>>, <<2, 5, 6>>, <<1, 2, 3, 4>>, <<1, Other>>, <<11>>}
FewAddrs == {[k \in 1 .. 4 |-> g] : g \in SomeGroups}
               \cup {[k \in 1 .. n |-> <<2, 5, 5>>] : n \in {3, 5}}
SomeAddrs == FewAddrs \cup {[k \in 1 .. 4 |-> IF k = n THEN g ELSE <<2, 5, 5>>] : n \in 1 .. 4, g \in SomeGroups}
SomeIds == {<<>>, <<1>>, <<2, 5, 5>>, <<2, 5, 6>>, <<0, 0, 0, 0, 0, 0, 0, 0, 7>>, <<1, 11>>,
            <<0, 0, 0, 0, 0, 0, 0, 0, 0, 7>>, Wrapped(<<2, 9, 7>>), <<0, 0, 0, 0, 0, 0, 0, 0, 0, 0, 7>>}
SomeMacs == {[k \in 1 .. 6 |-> IF k = n THEN g ELSE <<0, 11>>] :
                        n \in 1 .. 6, g \in {<<>>, <<10>>, <<15, 15>>, <<1, Other>>, <<1, 2, 3>>}}
FewMacs == {[k \in 1 .. 6 |-> <<10, k>>], [k \in 1 .. 6 |-> <<10>>], [k \in 1 .. 5 |-> <<10, k>>]}
SomeCidrs == {<<>>, <<8>>, <<3, 2>>, <<3, 3>>, <<Minus, 1>>, <<8, Other>>, <<Other, 8>>,
              <<0, 0, 0, 0, 0, 0, 0, 0, 8>>, Wrapped(<<3, 0, 4>>), <<0, 0, 0, 0, 0, 0, 0, 0, 0, 0, 8>>}

Ten == [k \in 1 .. 4 |-> <<1, 0>>]
SomeOptions ==
  [opt : {"p"}, id : SomeIds, addr : SomeAddrs]
    \cup [opt : {"r"}, addr : FewAddrs, cidr : SomeCidrs, mac : FewMacs, id : SomeIds]
    \cup [opt : {"r"}, addr : {Ten}, cidr : {<<8>>}, mac : SomeMacs, id : SomeIds]

\* Three interfaces, of which two exist; nested routes, equal prefixes with
\* different next hops, a default route with and one without low bits; options that
\* do not parse and one that is unknown.
Interface(id, addr) == [opt |-> "p", id |-> id, addr |-> addr]
Route(first, rest, cidr, id) ==
  [opt |-> "r", addr |-> <<first, <<0>>, <<0>>, rest>>, cidr |-> cidr, mac |-> [k \in 1 .. 6 |-> <<10, k>>],
   id |-> id]
FewOptions ==
  {Interface(<<id>>, Ten) : id \in 0 .. 2}
    \cup {Route(<<1, 2, 8>>, <<0>>, <<2, 4>>, <<0>>), Route(<<1, 2, 8>>, <<1>>, <<3, 2>>, <<1>>),
          Route(<<1, 2, 8>>, <<0>>, <<2, 4>>, <<1>>), Route(<<0>>, <<0>>, <<0>>, <<0>>),
          Route(<<0>>, <<1>>, <<0>>, <<1>>)}
    \cup {Interface(<<0>>, <<<<2, 5, 6>>, <<0>>, <<0>>, <<1>>>>), Route(<<0>>, <<1>>, <<3, 3>>, <<1>>),
          [opt |-> "?"]}

MCCommandLines ==
  {<<o>> : o \in SomeOptions} \cup UNION {[1 .. n -> FewOptions] : n \in 0 .. 4}
=============================================================================
