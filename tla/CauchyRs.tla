------------------------------ MODULE CauchyRs ------------------------------
(***************************************************************************)
(* The Cauchy Reed-Solomon code of cauchy_rs.c: encoding data blocks into   *)
(* parity blocks, and decoding after some of the data blocks were lost.     *)
(* A block is a function from byte positions to bytes; blocks, rows and     *)
(* columns count from 0 as in the code.  One action is one recovery block   *)
(* of the encoder or one pass of the decoder over the recovery blocks.      *)
(***************************************************************************)
EXTENDS GaloisField, GfMemory, FiniteSets

CONSTANT Garbage    \* bytes a lost block may read as
ASSUME GarbageAssumption == Garbage \subseteq Byte

VARIABLES
    rspc,           \* where encoder and decoder are
    params,         \* cauchy_encoder_params, and the processor's abilities
    dataBlocks,     \* the caller's data blocks
    parityBlocks,   \* the caller's parity blocks
    erasures,       \* the caller's list of erased blocks
    decoder,        \* CauchyDecoder
    factors,        \* matrix_L, diag_D and matrix_U
    j,              \* the loop counter of the pass
    at,             \* the pass's position in matrix_L or matrix_U
    original        \* what the data blocks held when they were encoded
rsVars == <<rspc, params, dataBlocks, parityBlocks, erasures, decoder, factors, j, at, original>>

-----------------------------------------------------------------------------
(* The bulk operations: a byte the walk does not touch keeps its value, and *)
(* the vector part of a product comes from the halved tables.               *)
Size(block) == Cardinality(DOMAIN block)
cpu == params.cpu

Merge(z, w, new(_)) ==
    LET touched == Touched(w) IN Table([p \in DOMAIN z |-> IF p \in touched THEN new(p) ELSE z[p]])
ProductAt(w, x, y, p) == IF p \in ByVector(w) THEN VectorMul(x[p], y) ELSE gf_mul(x[p], y)

gf_add_mem(x, y) == Merge(x, AddMemWalk(Size(x), cpu), LAMBDA p : x[p] ^^ y[p])
gf_add2_mem(z, x, y) ==
    Merge(z, Add2MemWalk(Size(z), cpu), LAMBDA p : (z[p] ^^ x[p]) ^^ y[p])
gf_addset_mem(z, x, y) == Merge(z, AddsetMemWalk(Size(z), cpu), LAMBDA p : x[p] ^^ y[p])
gf_mul_mem(z, x, y) ==
    LET w == MulMemWalk(Size(z), cpu)
    IN CASE y = 0 -> [p \in DOMAIN z |-> 0]
         [] y = 1 -> x
         [] OTHER -> Merge(z, w, LAMBDA p : ProductAt(w, x, y, p))
gf_muladd_mem(z, y, x) ==
    LET w == MulAddMemWalk(Size(z), cpu)
    IN CASE y = 0 -> z
         [] y = 1 -> gf_add_mem(z, x)
         [] OTHER -> Merge(z, w, LAMBDA p : z[p] ^^ ProductAt(w, x, y, p))
gf_div_mem(z, x, y) == gf_mul_mem(z, x, IF y = 1 THEN 1 ELSE gf_inv(y))

-----------------------------------------------------------------------------
(* Encoding.                                                                *)
GetMatrixElement(x_i, x_0, y_j) == gf_div(gf_add(y_j, x_0), gf_add(x_i, y_j))

cauchy_get_recovery_block_index(block) == params.OriginalCount + block

(* cauchy_rs_encode_block: the first row is the sum of the data blocks, the *)
(* others a product with a row of the matrix.                               *)
ParitySum(old) ==
    InOrder(LAMBDA sum, jj : gf_add_mem(sum, dataBlocks[jj]),
            gf_addset_mem(old, dataBlocks[0], dataBlocks[1]), 2..(params.OriginalCount - 1))
ParityRowShort(old, x_i) ==     \* mutant: the last data block left out
    LET element(y_j) == GetMatrixElement(x_i, params.OriginalCount, y_j)
    IN InOrder(LAMBDA sum, jj : gf_muladd_mem(sum, element(jj), dataBlocks[jj]),
               gf_mul_mem(old, dataBlocks[0], element(0)), 1..(params.OriginalCount - 2))
ParityRow(old, x_i) ==
    LET element(y_j) == GetMatrixElement(x_i, params.OriginalCount, y_j)
    IN InOrder(LAMBDA sum, jj : gf_muladd_mem(sum, element(jj), dataBlocks[jj]),
               gf_mul_mem(old, dataBlocks[0], element(0)), 1..(params.OriginalCount - 1))
cauchy_rs_encode_block(recoveryBlockIndex, old) ==
    CASE params.OriginalCount = 1 -> dataBlocks[0]
      [] params.OriginalCount > 1 /\ recoveryBlockIndex = params.OriginalCount -> ParitySum(old)
      [] OTHER -> ParityRow(old, recoveryBlockIndex)

(* cauchy_rs_encode: one parity block after the other, j counting them.     *)
EncodeBlock ==
    /\ rspc = "encode"
    /\ j < params.RecoveryCount
    /\ parityBlocks' = [parityBlocks EXCEPT
                          ![j] = cauchy_rs_encode_block(cauchy_get_recovery_block_index(j), @)]
    /\ j' = j + 1
    /\ UNCHANGED <<rspc, params, dataBlocks, erasures, decoder, factors, at, original>>

Encoded ==
    /\ rspc = "encode"
    /\ j = params.RecoveryCount
    /\ rspc' = "stored"
    /\ UNCHANGED <<params, dataBlocks, parityBlocks, erasures, decoder, factors, j, at, original>>

-----------------------------------------------------------------------------
(* Storage: any list of different data blocks with a parity block for each *)
(* entry, in any order.  The blocks named, and the parity blocks that stand *)
(* in for none, hold anything afterwards.                                   *)
Rows == 0..(params.OriginalCount - 1)
LossLists ==
    { list \in UNION { [1..count -> Rows] : count \in 0..params.RecoveryCount } :
        \A a, b \in DOMAIN list : list[a] = list[b] => a = b }
Lose ==
    /\ rspc = "stored"
    /\ \E list \in LossLists, garbage \in Garbage :
          LET junk == [p \in 0..(params.BlockBytes - 1) |-> garbage]
          IN /\ erasures' = list
             /\ dataBlocks' = [b \in DOMAIN dataBlocks |->
                   IF \E i \in DOMAIN list : list[i] = b THEN junk ELSE dataBlocks[b]]
             /\ parityBlocks' = [b \in DOMAIN parityBlocks |->
                   IF b < Len(list) THEN parityBlocks[b] ELSE junk]
    /\ rspc' = "lost"
    /\ UNCHANGED <<params, decoder, factors, j, at, original>>

-----------------------------------------------------------------------------
(* Decoding.  Recovery block r is parity block Recovery[r], standing in for *)
(* the data block of row ErasuresIndices[r].                                *)
N == decoder.RecoveryCount
RecoveryBlock(r) == parityBlocks[decoder.Recovery[r]]
RecoveryIndex(r) == cauchy_get_recovery_block_index(decoder.Recovery[r])

(* The parity block that cauchy_rs_decode puts into the place of a row.     *)
StandInRotated(row) ==      \* mutant: numbered by row instead of by place in the list
    row % params.RecoveryCount
StandIn(row) == (CHOOSE i \in DOMAIN erasures : erasures[i] = row) - 1

(* Initialize: the rows in ascending order, the original ones apart from    *)
(* those a parity block stands in for.                                      *)
Ascend(S) ==
    [i \in 0..(Cardinality(S) - 1) |-> CHOOSE x \in S : Cardinality({ y \in S : y < x }) = i]
Initialize ==
    LET erased == Ascend({ row \in Rows : \E i \in DOMAIN erasures : erasures[i] = row })
    IN [RecoveryCount |-> Size(erased),
        Recovery |-> [r \in DOMAIN erased |-> StandIn(erased[r])],
        ErasuresIndices |-> erased,
        Original |-> Ascend({ row \in Rows : \A i \in DOMAIN erasures : erasures[i] # row })]

(* cauchy_rs_decode: nothing to do, the parity of a single parity block, or *)
(* the general case.                                                        *)
StartDecode ==
    /\ rspc = "lost"
    /\ decoder' = Initialize
    /\ rspc' = CASE Initialize.RecoveryCount <= 0 -> "done"
                 [] Initialize.RecoveryCount > 0 /\ params.RecoveryCount = 1 -> "m1"
                 [] OTHER -> "originals"
    /\ j' = 0
    /\ UNCHANGED <<params, dataBlocks, parityBlocks, erasures, factors, at, original>>

(* DecodeM1: the originals go two by two into the recovery block, and a     *)
(* last odd one by itself.  Nothing is copied to the data blocks.           *)
OriginalBlock(ii) == dataBlocks[decoder.Original[ii]]
DecodeM1 ==
    /\ rspc = "m1"
    /\ LET count == Size(decoder.Original)
           pairs == InOrder(LAMBDA out, ii : gf_add2_mem(out, OriginalBlock(2 * ii),
                                                             OriginalBlock((2 * ii) + 1)),
                            RecoveryBlock(0), 0..((count \div 2) - 1))
       IN parityBlocks' = [parityBlocks EXCEPT ![decoder.Recovery[0]] =
                             IF count % 2 = 1 THEN gf_add_mem(pairs, OriginalBlock(count - 1))
                                              ELSE pairs]
    /\ rspc' = "done"
    /\ UNCHANGED <<params, dataBlocks, erasures, decoder, factors, j, at, original>>

(* A pass changes recovery blocks only: new(r) is what block r becomes.     *)
Recovering(new(_)) ==
    parityBlocks' = [b \in DOMAIN parityBlocks |->
        IF \E r \in 0..(N - 1) : decoder.Recovery[r] = b
        THEN new(CHOOSE r \in 0..(N - 1) : decoder.Recovery[r] = b)
        ELSE parityBlocks[b]]

(* Decode, first pass: one original block out of every recovery block.      *)
EliminateOriginal ==
    /\ rspc = "originals"
    /\ j < Size(decoder.Original)
    /\ LET y_j == decoder.Original[j]
           element(r) == GetMatrixElement(RecoveryIndex(r), params.OriginalCount, y_j)
       IN Recovering(LAMBDA r : gf_muladd_mem(RecoveryBlock(r), element(r), OriginalBlock(j)))
    /\ j' = j + 1
    /\ UNCHANGED <<rspc, params, dataBlocks, erasures, decoder, factors, at, original>>

(* GenerateLDUDecomposition, column k: the k-th column of L, divided by its *)
(* diagonal and appended to matrix_L; the k-th row of U, divided likewise   *)
(* and put at its places in matrix_U; and the generators of the others.     *)
LastU == (((N - 1) * N) \div 2) - 1
FirstOffsetU(k) == -((k * (k + 3)) \div 2)
OutputUAscending(k, jj) == (LastU + FirstOffsetU(k)) - (jj - (k + 1))  \* mutant: one place per row
OutputU(k, jj) == (LastU + FirstOffsetU(k)) - ((((jj - 1) * jj) - (k * (k + 1))) \div 2)
LduColumn(s, k) ==
    LET X(i) == RecoveryIndex(i)
        Y(i) == decoder.ErasuresIndices[i]
        D_kk == gf_add(X(k), Y(k))
        L_kk == gf_div(s.g[k], D_kk)
        U_kk == gf_mul(gf_div(s.b[k], D_kk), gf_add(params.OriginalCount, Y(k)))
        count == N - (k + 1)
        row_L == [i \in 0..(count - 1) |-> gf_div(s.g[k + 1 + i], gf_add(X(k + 1 + i), Y(k)))]
        row_U == [i \in 0..(count - 1) |-> gf_div(s.b[k + 1 + i], gf_add(X(k), Y(k + 1 + i)))]
        new_L == gf_div_mem(row_L, row_L, L_kk)
        new_U == gf_div_mem(row_U, row_U, U_kk)
    IN [g |-> [i \in 0..(N - 1) |-> IF i <= k THEN s.g[i]
                 ELSE gf_mul(s.g[i], gf_div(gf_add(X(i), X(k)), gf_add(X(i), Y(k))))],
        b |-> [i \in 0..(N - 1) |-> IF i <= k THEN s.b[i]
                 ELSE gf_mul(s.b[i], gf_div(gf_add(Y(i), Y(k)), gf_add(Y(i), X(k))))],
        diag_D |-> Append(s.diag_D, gf_mul(D_kk, gf_mul(L_kk, U_kk))),
        matrix_L |-> s.matrix_L \o [i \in 1..count |-> new_L[i - 1]],
        matrix_U |-> [p \in DOMAIN s.matrix_U |->
            IF \E i \in 0..(count - 1) : OutputU(k, k + 1 + i) = p
            THEN new_U[CHOOSE i \in 0..(count - 1) : OutputU(k, k + 1 + i) = p]
            ELSE s.matrix_U[p]]]

(* Row jj of matrix_U as it lies in memory, last row first, multiplied by   *)
(* the diagonal in one go.                                                  *)
RowOfU(jj) == (LastU + 1) - ((jj * (jj + 1)) \div 2)
ScaleU(U, jj) ==
    LET row == [i \in 0..(jj - 1) |-> U[RowOfU(jj) + i]]
        scaled == gf_mul_mem(row, row, gf_add(params.OriginalCount, decoder.ErasuresIndices[jj]))
    IN [p \in DOMAIN U |-> IF p \in Span(RowOfU(jj), jj) THEN scaled[p - RowOfU(jj)] ELSE U[p]]

Unwritten == 0

(* The last column, which has only a diagonal, and all of the columns.      *)
LduLast(columns) ==
    LET x_n == RecoveryIndex(N - 1)
        y_n == decoder.ErasuresIndices[N - 1]
        U_nn == gf_mul(columns.b[N - 1], gf_add(params.OriginalCount, y_n))
    IN [matrix_L |-> columns.matrix_L,
        diag_D |-> Append(columns.diag_D,
                     gf_div(gf_mul(columns.g[N - 1], U_nn), gf_add(x_n, y_n))),
        matrix_U |-> InOrder(LAMBDA U, ii : ScaleU(U, N - ii), columns.matrix_U, 1..(N - 1))]
GenerateLDUDecomposition ==
    LET ones == [i \in 0..(N - 1) |-> 1]
    IN LduLast(InOrder(LduColumn,
                 [g |-> ones, b |-> ones, diag_D |-> <<>>, matrix_L |-> <<>>,
                  matrix_U |-> [p \in 0..LastU |-> Unwritten]],
                 0..(N - 2)))

Factor ==
    /\ rspc = "originals"
    /\ j = Size(decoder.Original)
    /\ factors' = GenerateLDUDecomposition
    /\ rspc' = "lower"
    /\ j' = 0
    /\ at' = 0
    /\ UNCHANGED <<params, dataBlocks, parityBlocks, erasures, decoder, original>>

(* Column j of the lower left triangle, read from matrix_L in the order it  *)
(* was written.                                                             *)
EliminateLower ==
    /\ rspc = "lower"
    /\ j < N - 1
    /\ Recovering(LAMBDA r :
          IF r <= j THEN RecoveryBlock(r)
          ELSE gf_muladd_mem(RecoveryBlock(r), factors.matrix_L[at + (r - j)], RecoveryBlock(j)))
    /\ at' = at + (N - 1 - j)
    /\ j' = j + 1
    /\ UNCHANGED <<rspc, params, dataBlocks, erasures, decoder, factors, original>>

EliminateDiagonal ==
    /\ rspc = "lower"
    /\ j = N - 1
    /\ Recovering(LAMBDA r :
          gf_div_mem(RecoveryBlock(r), RecoveryBlock(r), factors.diag_D[r + 1]))
    /\ rspc' = "upper"
    /\ j' = N - 1
    /\ at' = 0
    /\ UNCHANGED <<params, dataBlocks, erasures, decoder, factors, original>>

(* Column j of the upper right triangle, bottom-up.                         *)
EliminateUpper ==
    /\ rspc = "upper"
    /\ j >= 1
    /\ Recovering(LAMBDA r :
          IF r >= j THEN RecoveryBlock(r)
          ELSE gf_muladd_mem(RecoveryBlock(r), factors.matrix_U[at + (j - 1 - r)], RecoveryBlock(j)))
    /\ at' = at + j
    /\ j' = j - 1
    /\ UNCHANGED <<rspc, params, dataBlocks, erasures, decoder, factors, original>>

(* The copy at the end of cauchy_rs_decode.                                 *)
CopyBack ==
    /\ rspc = "upper"
    /\ j = 0
    /\ dataBlocks' = [row \in Rows |->
          IF \E r \in 0..(N - 1) : decoder.ErasuresIndices[r] = row
          THEN RecoveryBlock(CHOOSE r \in 0..(N - 1) : decoder.ErasuresIndices[r] = row)
          ELSE dataBlocks[row]]
    /\ rspc' = "done"
    /\ UNCHANGED <<params, parityBlocks, erasures, decoder, factors, j, at, original>>

CauchyDecode ==
    \/ StartDecode \/ DecodeM1 \/ EliminateOriginal \/ Factor
    \/ EliminateLower \/ EliminateDiagonal \/ EliminateUpper \/ CopyBack
CauchyNext == EncodeBlock \/ Encoded \/ Lose \/ CauchyDecode

-----------------------------------------------------------------------------
(* Properties.                                                              *)

(* The matrix the comment above GetMatrixElement describes, in terms of the *)
(* field alone: the element of row x_i and column y_j.                      *)
Reciprocal == Table([x \in 1..255 |-> CHOOSE e \in Byte : Product(e, x) = 1])
Element(x_i, y_j) == Product(y_j ^^ params.OriginalCount, Reciprocal[x_i ^^ y_j])
SumOver(S, f(_)) == InOrder(LAMBDA sum, e : sum ^^ f(e), 0, S)

(* Every walk of the bulk operations meets each byte of a block once.       *)
WalksExact == \A w \in Walks(params.BlockBytes, cpu) : WalkExact(w, params.BlockBytes)

(* Once encoded, a parity block is its row of the matrix times the data:    *)
(* what the bulk operations, their shortcuts for the first row and for 0    *)
(* and 1, and the halved tables compute together.                           *)
ParityRight ==
    (rspc = "stored" /\ params.OriginalCount > 1) =>
        \A b \in 0..(params.RecoveryCount - 1) :
            LET element == [row \in Rows |-> Element(params.OriginalCount + b, row)]
            IN \A p \in 0..(params.BlockBytes - 1) :
                  parityBlocks[b][p] =
                      SumOver(Rows, LAMBDA row : Product(element[row], original[row][p]))

(* "G = L * D * U": the three factors, read from memory the way the passes  *)
(* of Decode read them, multiply to the rows of the recovery blocks and the *)
(* columns of the lost ones.                                                *)
Lower(r, t) ==
    IF r = t THEN 1
    ELSE factors.matrix_L[((t * (N - 1)) - ((t * (t - 1)) \div 2)) + (r - t)]
Upper(t, c) == IF t = c THEN 1 ELSE factors.matrix_U[RowOfU(c) + (c - 1 - t)]
FactorsRight ==
    (rspc = "lower" /\ j = 0) =>
        \A r, c \in 0..(N - 1) :
            SumOver({ t \in 0..(N - 1) : t <= r /\ t <= c },
                    LAMBDA t : Product(Product(Lower(r, t), factors.diag_D[t + 1]), Upper(t, c)))
                = Element(RecoveryIndex(r), decoder.ErasuresIndices[c])

(* After cauchy_rs_decode the data blocks are what was encoded, whichever   *)
(* blocks were lost.  With a single parity block the lost one is in the     *)
(* parity block instead, where DecodeM1 leaves it.                          *)
Recovered ==
    rspc = "done" =>
        IF params.RecoveryCount > 1 \/ N = 0
        THEN dataBlocks = original
        ELSE RecoveryBlock(0) = original[decoder.ErasuresIndices[0]]
=============================================================================
