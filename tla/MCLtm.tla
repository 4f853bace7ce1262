-------------------------------- MODULE MCLtm --------------------------------
(* An instance of Ltm: a package of one piece, then one of two pieces.      *)
EXTENDS Ltm

MCSize == <<2, 3>>
=============================================================================
