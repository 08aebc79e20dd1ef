------------------------------- MODULE MCRing -------------------------------
(***************************************************************************)
(* An instance of Ring: four slots, indexes of eight values that overflow  *)
(* early in every behaviour.                                               *)
(***************************************************************************)
EXTENDS Ring, TLC

CONSTANTS t1, t2, t3, o1, o2, o3
MCThree == {t1, t2, t3}
MCPool == {o1, o2, o3}
MCOne == <<o1>>
=============================================================================
