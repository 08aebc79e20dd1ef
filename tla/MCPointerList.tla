--------------------------- MODULE MCPointerList ---------------------------
(***************************************************************************)
(* Instances of PointerList with two values and a narrow unsigned int.     *)
(***************************************************************************)
EXTENDS PointerList

MCValues == {1, 2}
=============================================================================
