---------------------------- MODULE GaloisField ----------------------------
(***************************************************************************)
(* The field GF(256) of cauchy_rs.c: the tables gf_init fills once when     *)
(* the module is loaded, and the operations on single bytes.  Addition is   *)
(* exclusive or; products go through logarithms to the base 2.              *)
(***************************************************************************)
EXTENDS ExclusiveOr

(* gf_poly_init: the generator 0xa6 with its top and bottom bits put back.  *)
Polynomial == (166 * 2) + 1

(* x times y as polynomials over GF(2) reduced by poly, one bit of y after  *)
(* the other from the highest.                                              *)
TwiceModulo(poly, x) == IF 2 * x >= 256 THEN (2 * x) ^^ poly ELSE 2 * x
ProductModulo(poly, x, y) ==
    LET sum[bit \in 0..8] ==
            IF bit = 8 THEN 0
            ELSE TwiceModulo(poly, sum[bit + 1]) ^^ (x * ((y \div 2^bit) % 2))
    IN sum[0]
Products == Table([x \in Byte |-> Table([y \in Byte |-> ProductModulo(Polynomial, x, y)])])
Product(x, y) == Products[x][y]

(* The powers of 2.  The loop of gf_explog_init doubles one to get the      *)
(* next; the exponent is halved here to keep the recursion short.           *)
PowerTable(twice, square) ==
    LET power[jj \in 0..254] ==
            CASE jj = 0 -> 1
              [] jj > 0 /\ jj % 2 = 0 -> square[power[jj \div 2]]
              [] OTHER -> twice[square[power[jj \div 2]]]
    IN Table([jj \in 0..254 |-> power[jj]])
PowersOf2(poly) ==
    PowerTable(Table([x \in Byte |-> TwiceModulo(poly, x)]),
               Table([x \in Byte |-> ProductModulo(poly, x, x)]))
Powers == PowersOf2(Polynomial)

(* gf_explog_init.  The powers of 2 repeat after 255, so that a sum of two  *)
(* logarithms needs no reduction; the entries from 511 on are zeros that    *)
(* only a logarithm of 0 reaches, and no operation looks that one up.       *)
ExpTable(power) == Table([jj \in 0..510 |-> power[jj % 255]])
LogTable(exptab) ==
    Table([x \in Byte |-> IF x = 0 THEN 512 ELSE CHOOSE jj \in 1..255 : exptab[jj] = x])
GF_EXP_TABLE == ExpTable(Powers)
GF_LOG_TABLE == LogTable(GF_EXP_TABLE)

(* gf_muldiv_init: row y of each table, with the row and column of 0.       *)
MulTable(exptab, logtab) ==
    Table([y \in Byte |-> Table([x \in Byte |->
        IF x = 0 \/ y = 0 THEN 0 ELSE exptab[logtab[x] + logtab[y]]])])
DivTable(exptab, logtab) ==
    Table([y \in Byte |-> Table([x \in Byte |->
        IF x = 0 \/ y = 0 THEN 0 ELSE exptab[logtab[x] + (255 - logtab[y])]])])
GF_MUL_TABLE == MulTable(GF_EXP_TABLE, GF_LOG_TABLE)
GF_DIV_TABLE == DivTable(GF_EXP_TABLE, GF_LOG_TABLE)

gf_add(x, y) == x ^^ y
gf_mul(x, y) == GF_MUL_TABLE[y][x]
gf_div(x, y) == GF_DIV_TABLE[y][x]

(* gf_inv_init and gf_sqr_init.                                             *)
InvTable(div) == Table([x \in Byte |-> div[x][1]])
SqrTable(mul) == Table([x \in Byte |-> mul[x][x]])
GF_INV_TABLE == InvTable(GF_DIV_TABLE)
GF_SQR_TABLE == SqrTable(GF_MUL_TABLE)
gf_inv(x) == GF_INV_TABLE[x]
gf_sqr(x) == GF_SQR_TABLE[x]

(* gf_mul_mem_init: the products of y with the low and with the high four   *)
(* bits of a byte, and the product a vector shuffle puts together.          *)
Halves(mul, shift) == Table([y \in Byte |-> Table([x \in 0..15 |-> mul[y][shift * x]])])
TABLE_LO_Y == Halves(GF_MUL_TABLE, 1)
HighUnshifted == Halves(GF_MUL_TABLE, 1)   \* mutant: x for x << 4
TABLE_HI_Y == Halves(GF_MUL_TABLE, 16)
VectorMul(x, y) == TABLE_LO_Y[y][x % 16] ^^ TABLE_HI_Y[y][x \div 16]

-----------------------------------------------------------------------------
(* What the tables say of x agrees with the field: every product is the     *)
(* product of the polynomials, by the table and by the vector halves, and   *)
(* division undoes it.                                                      *)
FieldAt(x) ==
    /\ \A y \in Byte :
          /\ gf_mul(x, y) = Product(x, y)
          /\ VectorMul(x, y) = gf_mul(x, y)
          /\ y # 0 => gf_mul(gf_div(x, y), y) = x
    /\ x # 0 => gf_mul(gf_inv(x), x) = 1
    /\ gf_sqr(x) = Product(x, x)
=============================================================================
