------------------------------ MODULE MCTarget -----------------------------
(***************************************************************************)
(* Instances of AfsTarget for TLC.                                         *)
(***************************************************************************)
EXTENDS AfsTarget

CONSTANTS c1, c2, b1, b2
=============================================================================
