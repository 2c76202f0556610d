---------------------------- MODULE ExclusiveOr ----------------------------
(***************************************************************************)
(* Exclusive or on bytes and on the nine-bit numbers that appear while a    *)
(* product is reduced, the way tables are written for TLC, and loops over   *)
(* numbers.                                                                 *)
(***************************************************************************)
EXTENDS Integers, Sequences, Folds

Byte == 0..255

(* f itself, written so that TLC computes all of it at once.                *)
Table(f) == CHOOSE table \in {f} : table = f

(* op over the numbers of a set in ascending order: a loop of the code.     *)
InOrder(op(_, _), base, S) ==
    MapThenFoldSet(LAMBDA k, before : op(before, k), base, LAMBDA k : k,
                   LAMBDA T : CHOOSE k \in T : \A m \in T : m <= k, S)

XorOfBit(x, y, power) == power * (((x \div power) + (y \div power)) % 2)
XorOfNibbles ==
    Table([x \in 0..15 |-> Table([y \in 0..15 |->
        (XorOfBit(x, y, 1) + XorOfBit(x, y, 2)) + (XorOfBit(x, y, 4) + XorOfBit(x, y, 8))])])

XorBy(nibbles, x, y) ==
    (nibbles[x % 16][y % 16] + (16 * nibbles[(x \div 16) % 16][(y \div 16) % 16]))
        + XorOfBit(x, y, 256)
x ^^ y == XorBy(XorOfNibbles, x, y)
=============================================================================
