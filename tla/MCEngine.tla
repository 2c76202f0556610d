------------------------------ MODULE MCEngine -----------------------------
(***************************************************************************)
(* Instances of AfsEngine for TLC.                                         *)
(***************************************************************************)
EXTENDS AfsEngine, TLC

CONSTANTS r1, r2, r3

\* All free blocks lie beyond the length of the list.
HighList == [k \in Indices |-> ListLen + k]

ReqSymmetry == Permutations(Reqs)
=============================================================================
