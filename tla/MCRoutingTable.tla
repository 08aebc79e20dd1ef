--------------------------- MODULE MCRoutingTable ---------------------------
(***************************************************************************)
(* Instances of RoutingTable for TLC: 4-bit addresses, 2 bits of index.    *)
(***************************************************************************)
EXTENDS RoutingTable

CONSTANT hopA

\* Addresses of three of the four blocks, some with host bits.
MCAddrs == {0, 4, 6, 7, 9, 12}

\* Every length, and one above W that add_route clamps.
MCPrefixes == 0 .. W + 1

MCHops == {hopA}
=============================================================================
