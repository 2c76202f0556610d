--------------------------- MODULE MCAllocation ----------------------------
(***************************************************************************)
(* Instances of AfsAllocation for TLC.                                     *)
(***************************************************************************)
EXTENDS AfsAllocation

CONSTANTS w1, w2, n1

OneHome == [w \in Workers |-> n1]

\* The first blocks of the passive file system are in use, so that the numbers
\* of all free blocks lie beyond the length of the list.
HighList == [n \in Instances |-> [k \in Indices |-> ListLen + k]]
=============================================================================
