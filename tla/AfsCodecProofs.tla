--------------------------- MODULE AfsCodecProofs ---------------------------
(***************************************************************************)
(* The bulk operations meet every byte of a buffer once, whatever its       *)
(* length and whatever the processor can do; the rounds and the counter     *)
(* mode of the cipher undo themselves for every word width of up to nine    *)
(* bits and every number of rounds; and decode_aont_package undoes          *)
(* encode_aont_package whenever the code gives the data blocks back.        *)
(***************************************************************************)
EXTENDS AfsCodec, SequenceTheorems, FiniteSetTheorems, NaturalsInduction,
        WellFoundedInduction, TLAPS

(* What is left to do and what is done add up to the buffer.                *)
Partial(w, bytes) ==
    /\ w \in [done : Nat, bytes : Nat, vector : Nat]
    /\ w.done + w.bytes = bytes
    /\ w.vector <= w.done

Widths == {8, 16, 32, 64, 128}

(* Quotient and remainder of the widths the loops use.                      *)
LEMMA WidthDivision ==
    ASSUME NEW b \in Nat, NEW width \in Widths
    PROVE  /\ b \div width \in Nat
           /\ b % width \in 0..(width - 1)
           /\ width * (b \div width) \in Nat
           /\ width * (b \div width) + (b % width) = b
<1>1. CASE width = 8
  BY <1>1
<1>2. CASE width = 16
  BY <1>2
<1>3. CASE width = 32
  BY <1>3
<1>4. CASE width = 64
  BY <1>4
<1>5. CASE width = 128
  BY <1>5
<1>6. QED
  BY Zenon, <1>1, <1>2, <1>3, <1>4, <1>5 DEF Widths

(* The pieces of a tail add up, checked number by number.                   *)
LEMMA TailPieces ==
    ASSUME NEW b \in 0..15
    PROVE  /\ 8 * ((b \div 8) % 2) \in Nat /\ 4 * ((b \div 4) % 2) \in Nat /\ b % 4 \in Nat
           /\ 8 * ((b \div 8) % 2) + 4 * ((b \div 4) % 2) + (b % 4) = b
           /\ b < 8 => 4 * ((b \div 4) % 2) + (b % 4) = b
<1>1. b \in 0..3 \/ b \in 4..7 \/ b \in 8..11 \/ b \in 12..15
  OBVIOUS
<1>2. b \div 8 \in {0, 1} /\ b \div 4 \in {0, 1, 2, 3} /\ b % 4 \in 0..3 /\ 4 * (b \div 4) + (b % 4) = b
  OBVIOUS
<1>3. CASE b \in 0..3
  BY <1>3
<1>4. CASE b \in 4..7
  BY <1>4
<1>5. CASE b \in 8..11
  BY <1>5
<1>6. CASE b \in 12..15
  BY <1>6
<1>7. QED
  BY Zenon, <1>1, <1>3, <1>4, <1>5, <1>6

LEMMA StartPartial == ASSUME NEW bytes \in Nat PROVE Partial(Start(bytes), bytes)
BY DEF Partial, Start

(* A loop keeps the sum and leaves less than its width.                     *)
LEMMA LoopPartial ==
    ASSUME NEW bytes \in Nat, NEW w, Partial(w, bytes), NEW width \in Widths
    PROVE  /\ Partial(Loop(w, width), bytes)
           /\ Loop(w, width).bytes < width
<1>1. w \in [done : Nat, bytes : Nat, vector : Nat] /\ w.done + w.bytes = bytes
      /\ w.vector <= w.done
  BY Zenon DEF Partial
<1>2. width \in Nat
  BY DEF Widths
<1> DEFINE q == width * (w.bytes \div width)
           r == w.bytes % width
<1>3. q \in Nat /\ r \in 0..(width - 1) /\ q + r = w.bytes
  BY Zenon, <1>1, WidthDivision
<1>4. Loop(w, width) = [done |-> w.done + q, bytes |-> r, vector |-> w.vector]
  <2>1. w = [done |-> w.done, bytes |-> w.bytes, vector |-> w.vector]
    BY Zenon, <1>1
  <2>2. Loop(w, width) = [w EXCEPT !.done = w.done + q, !.bytes = r]
    BY Zenon DEF Loop
  <2> HIDE DEF q, r
  <2>3. QED
    BY Zenon, <2>1, <2>2
<1> HIDE DEF q, r
<1>5. /\ Loop(w, width) \in [done : Nat, bytes : Nat, vector : Nat]
      /\ Loop(w, width).done = w.done + q
      /\ Loop(w, width).bytes = r
      /\ Loop(w, width).vector = w.vector
  BY <1>1, <1>2, <1>3, <1>4
<1>6. QED
  BY <1>1, <1>2, <1>3, <1>5 DEF Partial

LEMMA VectorLoopPartial ==
    ASSUME NEW bytes \in Nat, NEW w, Partial(w, bytes), NEW width \in Widths
    PROVE  /\ Partial(VectorLoop(w, width), bytes)
           /\ VectorLoop(w, width).bytes < width
BY LoopPartial DEF Partial, VectorLoop

LEMMA VectorOncePartial ==
    ASSUME NEW bytes \in Nat, NEW w, Partial(w, bytes), NEW width \in Widths
    PROVE  Partial(VectorOnce(w, width), bytes)
BY DEF Partial, VectorOnce, Widths

(* The two tails finish what the loops leave.                               *)
LEMMA Tail8Exact ==
    ASSUME NEW bytes \in Nat, NEW w, Partial(w, bytes), w.bytes < 16
    PROVE  WalkExact(Tail8(w), bytes)
<1> DEFINE eight == 8 * ((w.bytes \div 8) % 2)
           four == 4 * ((w.bytes \div 4) % 2)
           rest == w.bytes % 4
<1>1. w.done \in Nat /\ w.vector \in Nat /\ w.bytes \in 0..15 /\ w.done + w.bytes = bytes
      /\ w.vector <= w.done
  BY DEF Partial
<1>2. eight \in Nat /\ four \in Nat /\ rest \in Nat /\ eight + four + rest = w.bytes
  BY Zenon, <1>1, TailPieces
<1>3. /\ Tail8(w).done = w.done /\ Tail8(w).vector = w.vector
      /\ Tail8(w).eight = eight /\ Tail8(w).four = four /\ Tail8(w).rest = rest
      /\ Tail8(w).fourAt = eight /\ Tail8(w).restAt = eight + four
  BY Zenon DEF Tail8
<1> HIDE DEF eight, four, rest
<1>4. Touched(Tail8(w)) = 0..(bytes - 1)
  BY <1>1, <1>2, <1>3 DEF Touched, Span
<1>5. QED
  BY <1>1, <1>2, <1>3, <1>4 DEF WalkExact

LEMMA Tail4Exact ==
    ASSUME NEW bytes \in Nat, NEW w, Partial(w, bytes), w.bytes < 8
    PROVE  WalkExact(Tail4(w), bytes)
<1> DEFINE four == 4 * ((w.bytes \div 4) % 2)
           rest == w.bytes % 4
<1>1. w.done \in Nat /\ w.vector \in Nat /\ w.bytes \in 0..7 /\ w.done + w.bytes = bytes
      /\ w.vector <= w.done
  BY DEF Partial
<1>2. four \in Nat /\ rest \in Nat /\ four + rest = w.bytes
  <2>1. w.bytes \in 0..15 /\ w.bytes < 8
    BY <1>1
  <2>2. QED
    BY Zenon, <2>1, TailPieces
<1>3. /\ Tail4(w).done = w.done /\ Tail4(w).vector = w.vector
      /\ Tail4(w).eight = 0 /\ Tail4(w).four = four /\ Tail4(w).rest = rest
      /\ Tail4(w).fourAt = 0 /\ Tail4(w).restAt = four
  BY Zenon DEF Tail4
<1> HIDE DEF four, rest
<1>4. Touched(Tail4(w)) = 0..(bytes - 1)
  BY <1>1, <1>2, <1>3 DEF Touched, Span
<1>5. QED
  BY <1>1, <1>2, <1>3, <1>4 DEF WalkExact
(* Each of the six operations, for each kind of processor.                  *)
LEMMA AddMemExact ==
    ASSUME NEW bytes \in Nat, NEW c \in Cpus
    PROVE  WalkExact(AddMemWalk(bytes, c), bytes)
<1> DEFINE wide == IF CpuHasAVX2(c) THEN Loop(Loop(Start(bytes), 128), 32)
                                    ELSE Loop(Start(bytes), 64)
<1>1. Partial(wide, bytes)
  BY StartPartial, LoopPartial DEF Widths
<1> HIDE DEF wide
<1>2. Partial(Loop(wide, 16), bytes) /\ Loop(wide, 16).bytes < 16
  BY Zenon, <1>1, LoopPartial DEF Widths
<1>3. WalkExact(Tail8(Loop(wide, 16)), bytes)
  BY Zenon, <1>2, Tail8Exact
<1>4. QED
  BY Zenon, <1>3 DEF AddMemWalk, wide

LEMMA Add2MemExact ==
    ASSUME NEW bytes \in Nat, NEW c \in Cpus
    PROVE  WalkExact(Add2MemWalk(bytes, c), bytes)
<1> DEFINE wide == IF CpuHasAVX2(c) THEN Loop(Start(bytes), 32) ELSE Start(bytes)
<1>1. Partial(wide, bytes)
  BY Zenon, StartPartial, LoopPartial DEF Widths
<1> HIDE DEF wide
<1>2. Partial(Loop(wide, 16), bytes) /\ Loop(wide, 16).bytes < 16
  BY Zenon, <1>1, LoopPartial DEF Widths
<1>3. WalkExact(Tail8(Loop(wide, 16)), bytes)
  BY Zenon, <1>2, Tail8Exact
<1>4. QED
  BY Zenon, <1>3 DEF Add2MemWalk, wide

LEMMA AddsetMemExact ==
    ASSUME NEW bytes \in Nat, NEW c \in Cpus
    PROVE  WalkExact(AddsetMemWalk(bytes, c), bytes)
<1> DEFINE wide == Loop(Start(bytes), IF CpuHasAVX2(c) THEN 32 ELSE 64)
<1>1. Partial(wide, bytes)
  BY Zenon, StartPartial, LoopPartial DEF Widths
<1> HIDE DEF wide
<1>2. Partial(Loop(wide, 16), bytes) /\ Loop(wide, 16).bytes < 16
  BY Zenon, <1>1, LoopPartial DEF Widths
<1>3. WalkExact(Tail8(Loop(wide, 16)), bytes)
  BY Zenon, <1>2, Tail8Exact
<1>4. QED
  BY Zenon, <1>3 DEF AddsetMemWalk, wide

LEMMA MulMemExact ==
    ASSUME NEW bytes \in Nat, NEW c \in Cpus
    PROVE  WalkExact(MulMemWalk(bytes, c), bytes)
<1> DEFINE avx2 == IF CpuHasAVX2(c) THEN VectorLoop(Start(bytes), 32) ELSE Start(bytes)
           ssse3 == IF CpuHasSSSE3(c) THEN VectorLoop(avx2, 16) ELSE avx2
<1>1. Partial(avx2, bytes)
  BY Zenon, StartPartial, VectorLoopPartial DEF Widths
<1> HIDE DEF avx2
<1>2. Partial(ssse3, bytes)
  BY Zenon, <1>1, VectorLoopPartial DEF Widths
<1> HIDE DEF ssse3
<1>3. Partial(Loop(ssse3, 8), bytes) /\ Loop(ssse3, 8).bytes < 8
  BY Zenon, <1>2, LoopPartial DEF Widths
<1>4. WalkExact(Tail4(Loop(ssse3, 8)), bytes)
  BY Zenon, <1>3, Tail4Exact
<1>5. QED
  BY Zenon, <1>4 DEF MulMemWalk, ssse3, avx2

LEMMA MulAddMemExact ==
    ASSUME NEW bytes \in Nat, NEW c \in Cpus
    PROVE  WalkExact(MulAddMemWalk(bytes, c), bytes)
<1> DEFINE avx2 == IF CpuHasAVX2(c)
                   THEN VectorOnce(VectorLoop(Start(bytes), 64), 32) ELSE Start(bytes)
           ssse3 == IF CpuHasSSSE3(c)
                    THEN VectorLoop(VectorLoop(avx2, 32), 16) ELSE avx2
<1>1. Partial(avx2, bytes)
  BY Zenon, StartPartial, VectorLoopPartial, VectorOncePartial DEF Widths
<1> HIDE DEF avx2
<1>2. Partial(ssse3, bytes)
  BY <1>1, VectorLoopPartial DEF Widths
<1> HIDE DEF ssse3
<1>3. Partial(Loop(ssse3, 8), bytes) /\ Loop(ssse3, 8).bytes < 8
  BY Zenon, <1>2, LoopPartial DEF Widths
<1>4. WalkExact(Tail4(Loop(ssse3, 8)), bytes)
  BY Zenon, <1>3, Tail4Exact
<1>5. QED
  BY Zenon, <1>4 DEF MulAddMemWalk, ssse3, avx2

LEMMA MemswapExact ==
    ASSUME NEW bytes \in Nat
    PROVE  WalkExact(MemswapWalk(bytes), bytes)
<1>1. Partial(Loop(Start(bytes), 16), bytes) /\ Loop(Start(bytes), 16).bytes < 16
  BY StartPartial, LoopPartial DEF Widths
<1>2. QED
  BY Zenon, <1>1, Tail8Exact DEF MemswapWalk

(* Every walk of gf_add_mem, gf_add2_mem, gf_addset_mem, gf_mul_mem,        *)
(* gf_muladd_mem and gf_memswap meets each byte of the buffer exactly once, *)
(* for every length and every processor.                                    *)
THEOREM EveryWalkExact ==
    ASSUME NEW bytes \in Nat, NEW c \in Cpus
    PROVE  \A w \in Walks(bytes, c) : WalkExact(w, bytes)
BY Zenon, AddMemExact, Add2MemExact, AddsetMemExact, MulMemExact, MulAddMemExact, MemswapExact
   DEF Walks

-----------------------------------------------------------------------------
(* The parameters of an encoder are those of some geometry.                 *)
ParamsTyped == params.BlockBytes \in Nat /\ params.cpu \in Cpus

LEMMA ParamsInit == Init => ParamsTyped
BY DEF Init, AontInit, NoParams, ParamsTyped, Cpus

LEMMA EncodePackageTyped == ASSUME EncodePackage PROVE ParamsTyped'
<1>1. PICK g \in Geometries :
         params' = [OriginalCount |-> g.OriginalCount, RecoveryCount |-> g.RecoveryCount,
                    BlockBytes |-> (g.Length + KEY_SIZE) \div g.OriginalCount, cpu |-> g.cpu]
  BY Zenon DEF EncodePackage
<1>2. g.OriginalCount \in Nat \ {0} /\ g.Length \in Nat /\ g.cpu \in Cpus
  BY Zenon, GeometryAssumption
<1>3. (g.Length + KEY_SIZE) \div g.OriginalCount \in Nat
  BY <1>2 DEF KEY_SIZE
<1>4. QED
  BY Zenon, <1>1, <1>2, <1>3 DEF ParamsTyped

LEMMA CauchyKeepsParams == ASSUME CauchyNext PROVE params' = params
<1>1. CASE EncodeBlock
  BY Zenon, <1>1 DEF EncodeBlock
<1>2. CASE Encoded
  BY Zenon, <1>2 DEF Encoded
<1>3. CASE Lose
  BY Zenon, <1>3 DEF Lose
<1>4. CASE CauchyDecode
  <2>1. CASE StartDecode
    BY Zenon, <2>1, Zenon DEF StartDecode
  <2>2. CASE DecodeM1
    BY Zenon, <2>2, Zenon DEF DecodeM1
  <2>3. CASE EliminateOriginal
    BY Zenon, <2>3, Zenon DEF EliminateOriginal
  <2>4. CASE Factor
    BY Zenon, <2>4, Zenon DEF Factor
  <2>5. CASE EliminateLower
    BY Zenon, <2>5, Zenon DEF EliminateLower
  <2>6. CASE EliminateDiagonal
    BY Zenon, <2>6, Zenon DEF EliminateDiagonal
  <2>7. CASE EliminateUpper
    BY Zenon, <2>7, Zenon DEF EliminateUpper
  <2>8. CASE CopyBack
    BY Zenon, <2>8, Zenon DEF CopyBack
  <2>9. QED
    BY Zenon, <1>4, <2>1, <2>2, <2>3, <2>4, <2>5, <2>6, <2>7, <2>8 DEF CauchyDecode
<1>5. QED
  BY Zenon, <1>1, <1>2, <1>3, <1>4 DEF CauchyNext

LEMMA ParamsStep == ASSUME ParamsTyped, [Next]_vars PROVE ParamsTyped'
<1>1. CASE StepShamir
  BY Zenon, <1>1 DEF StepShamir, aontVars, rsVars, ParamsTyped
<1>2. CASE StepAont
  <2>1. CASE TableRow
    BY Zenon, <2>1 DEF TableRow, rsVars, ParamsTyped
  <2>2. CASE TablesReady
    BY Zenon, <2>2 DEF TablesReady, rsVars, ParamsTyped
  <2>3. CASE EncodePackage
    BY Zenon, <2>3, EncodePackageTyped
  <2>4. CASE Code
    BY Zenon, <2>4, CauchyKeepsParams DEF Code, ParamsTyped
  <2>5. CASE DecodePackage
    BY Zenon, <2>5 DEF DecodePackage, rsVars, ParamsTyped
  <2>6. QED
    BY Zenon, <1>2, <2>1, <2>2, <2>3, <2>4, <2>5 DEF StepAont, AontNext
<1>3. CASE UNCHANGED vars
  BY Zenon, <1>3 DEF vars, aontVars, rsVars, ParamsTyped
<1>4. QED
  BY Zenon, <1>1, <1>2, <1>3 DEF Next

(* In every behaviour the bulk operations of the encoder and the decoder    *)
(* meet each byte of their blocks exactly once.                             *)
THEOREM WalksStayExact == Spec => []WalksExact
<1>1. ParamsTyped => WalksExact
  BY Zenon, EveryWalkExact DEF ParamsTyped, WalksExact, cpu
<1>2. Init => ParamsTyped
  BY Zenon, ParamsInit
<1>3. ParamsTyped /\ [Next]_vars => ParamsTyped'
  BY Zenon, ParamsStep
<1>4. QED
  BY <1>1, <1>2, <1>3, PTL DEF Spec

-----------------------------------------------------------------------------
(* Exclusive or on nine bits, digit by digit.                               *)

(* A table is the function it was made from.                                *)
LEMMA TableIs == ASSUME NEW f PROVE Table(f) = f
BY Zenon DEF Table

(* Four bits make a number below 16, and its binary digits are these bits.  *)
LEMMA FourBits ==
    ASSUME NEW b0 \in {0, 1}, NEW b1 \in {0, 1}, NEW b2 \in {0, 1}, NEW b3 \in {0, 1},
           NEW z, z = (1 * b0 + 2 * b1) + (4 * b2 + 8 * b3)
    PROVE  /\ z \in 0..15
           /\ (z \div 1) % 2 = b0 /\ (z \div 2) % 2 = b1
           /\ (z \div 4) % 2 = b2 /\ (z \div 8) % 2 = b3
OBVIOUS

(* The bits of a number below sixteen.                                      *)
LEMMA DigitsOf ==
    ASSUME NEW x \in 0..15
    PROVE  x = (1 * ((x \div 1) % 2) + 2 * ((x \div 2) % 2))
                 + (4 * ((x \div 4) % 2) + 8 * ((x \div 8) % 2))
OBVIOUS

(* The sum of two binary digits, and adding the second one again.           *)
LEMMA DigitSum ==
    ASSUME NEW a \in Nat, NEW b \in Nat, NEW c \in Nat, c % 2 = (a + b) % 2
    PROVE  (a + b) % 2 \in {0, 1} /\ (c + b) % 2 = a % 2
OBVIOUS

(* The entries of XorOfNibbles.                                             *)
LEMMA NibblesEntry ==
    ASSUME NEW x \in 0..15, NEW y \in 0..15
    PROVE  XorOfNibbles[x][y] =
             (1 * (((x \div 1) + (y \div 1)) % 2) + 2 * (((x \div 2) + (y \div 2)) % 2))
             + (4 * (((x \div 4) + (y \div 4)) % 2) + 8 * (((x \div 8) + (y \div 8)) % 2))
<1> DEFINE sum(u, v) == (XorOfBit(u, v, 1) + XorOfBit(u, v, 2)) + (XorOfBit(u, v, 4) + XorOfBit(u, v, 8))
<1>1. XorOfNibbles = [u \in 0..15 |-> Table([v \in 0..15 |-> sum(u, v)])]
  BY Zenon, TableIs DEF XorOfNibbles
<1>2. Table([v \in 0..15 |-> sum(x, v)]) = [v \in 0..15 |-> sum(x, v)]
  BY Zenon, TableIs
<1>3. XorOfNibbles[x][y] = sum(x, y)
  <2> HIDE DEF sum
  <2>1. QED
    BY Zenon, <1>1, <1>2
<1>4. QED
  BY Zenon, <1>3 DEF XorOfBit

(* Exclusive or with the same nibble twice.                                 *)
LEMMA NibblesUndone ==
    ASSUME NEW x \in 0..15, NEW y \in 0..15
    PROVE  /\ XorOfNibbles[x][y] \in 0..15
           /\ XorOfNibbles[XorOfNibbles[x][y]][y] = x
           /\ XorOfNibbles[x][y] = XorOfNibbles[y][x]
           /\ \A m \in {1, 2, 4, 8} : x < m /\ y < m => XorOfNibbles[x][y] < m
<1> DEFINE b0 == ((x \div 1) + (y \div 1)) % 2
           b1 == ((x \div 2) + (y \div 2)) % 2
           b2 == ((x \div 4) + (y \div 4)) % 2
           b3 == ((x \div 8) + (y \div 8)) % 2
           z == XorOfNibbles[x][y]
<1>1. /\ x \div 1 \in Nat /\ x \div 2 \in Nat /\ x \div 4 \in Nat /\ x \div 8 \in Nat
      /\ y \div 1 \in Nat /\ y \div 2 \in Nat /\ y \div 4 \in Nat /\ y \div 8 \in Nat
  OBVIOUS
<1>2. b0 \in {0, 1} /\ b1 \in {0, 1} /\ b2 \in {0, 1} /\ b3 \in {0, 1}
  BY <1>1
<1>3. z = (1 * b0 + 2 * b1) + (4 * b2 + 8 * b3)
  BY Zenon, NibblesEntry
<1>4. \A m \in {1, 2, 4, 8} : x < m /\ y < m =>
        /\ m <= 8 => b3 = 0
        /\ m <= 4 => b2 = 0
        /\ m <= 2 => b1 = 0
        /\ m <= 1 => b0 = 0
  OBVIOUS
<1>5. XorOfNibbles[y][x] = z
  <2>1. /\ ((y \div 1) + (x \div 1)) % 2 = b0 /\ ((y \div 2) + (x \div 2)) % 2 = b1
        /\ ((y \div 4) + (x \div 4)) % 2 = b2 /\ ((y \div 8) + (x \div 8)) % 2 = b3
    BY <1>1
  <2>2. XorOfNibbles[y][x] =
          (1 * (((y \div 1) + (x \div 1)) % 2) + 2 * (((y \div 2) + (x \div 2)) % 2))
          + (4 * (((y \div 4) + (x \div 4)) % 2) + 8 * (((y \div 8) + (x \div 8)) % 2))
    BY Zenon, NibblesEntry
  <2> HIDE DEF b0, b1, b2, b3
  <2>3. QED
    BY Zenon, <2>1, <2>2, <1>3
<1>6. /\ z \in 0..15
      /\ (z \div 1) % 2 = b0 /\ (z \div 2) % 2 = b1 /\ (z \div 4) % 2 = b2 /\ (z \div 8) % 2 = b3
  <2> HIDE DEF b0, b1, b2, b3, z
  <2>1. QED
    BY <1>2, <1>3
<1>7. /\ ((z \div 1) + (y \div 1)) % 2 = (x \div 1) % 2
      /\ ((z \div 2) + (y \div 2)) % 2 = (x \div 2) % 2
      /\ ((z \div 4) + (y \div 4)) % 2 = (x \div 4) % 2
      /\ ((z \div 8) + (y \div 8)) % 2 = (x \div 8) % 2
  <2> HIDE DEF z
  <2>1. z \div 1 \in Nat /\ z \div 2 \in Nat /\ z \div 4 \in Nat /\ z \div 8 \in Nat
    BY <1>6
  <2>2. ((z \div 1) + (y \div 1)) % 2 = (x \div 1) % 2
    <3>1. (z \div 1) % 2 = ((x \div 1) + (y \div 1)) % 2
      BY Zenon, <1>6
    <3>2. QED
      BY Zenon, <1>1, <2>1, <3>1, DigitSum
  <2>3. ((z \div 2) + (y \div 2)) % 2 = (x \div 2) % 2
    <3>1. (z \div 2) % 2 = ((x \div 2) + (y \div 2)) % 2
      BY Zenon, <1>6
    <3>2. QED
      BY Zenon, <1>1, <2>1, <3>1, DigitSum
  <2>4. ((z \div 4) + (y \div 4)) % 2 = (x \div 4) % 2
    <3>1. (z \div 4) % 2 = ((x \div 4) + (y \div 4)) % 2
      BY Zenon, <1>6
    <3>2. QED
      BY Zenon, <1>1, <2>1, <3>1, DigitSum
  <2>5. ((z \div 8) + (y \div 8)) % 2 = (x \div 8) % 2
    <3>1. (z \div 8) % 2 = ((x \div 8) + (y \div 8)) % 2
      BY Zenon, <1>6
    <3>2. QED
      BY Zenon, <1>1, <2>1, <3>1, DigitSum
  <2>6. QED
    BY Zenon, <2>2, <2>3, <2>4, <2>5
<1>8. XorOfNibbles[z][y] = x
  <2> HIDE DEF z
  <2>1. XorOfNibbles[z][y] =
          (1 * (((z \div 1) + (y \div 1)) % 2) + 2 * (((z \div 2) + (y \div 2)) % 2))
          + (4 * (((z \div 4) + (y \div 4)) % 2) + 8 * (((z \div 8) + (y \div 8)) % 2))
    BY Zenon, <1>6, NibblesEntry
  <2>2. XorOfNibbles[z][y] = (1 * ((x \div 1) % 2) + 2 * ((x \div 2) % 2))
                                + (4 * ((x \div 4) % 2) + 8 * ((x \div 8) % 2))
    BY Zenon, <1>7, <2>1
  <2>3. QED
    BY Zenon, <2>2, DigitsOf
<1>9. \A m \in {1, 2, 4, 8} : x < m /\ y < m => z < m
  <2> HIDE DEF b0, b1, b2, b3, z
  <2>1. QED
    BY <1>2, <1>3, <1>4
<1>10. QED
  BY Zenon, <1>5, <1>6, <1>8, <1>9

(* Nine bits, four bits and one.                                            *)
Nine == 0..511
Nibble == 0..15
Bit == {0, 1}

(* They are numbers.                                                        *)
LEMMA NineNat == Nine \subseteq Nat
BY DEF Nine

(* NibblesUndone with its sets named.                                       *)
LEMMA NibbleXor ==
    ASSUME NEW x \in Nibble, NEW y \in Nibble
    PROVE  /\ XorOfNibbles[x][y] \in Nibble
           /\ XorOfNibbles[XorOfNibbles[x][y]][y] = x
           /\ XorOfNibbles[x][y] = XorOfNibbles[y][x]
           /\ \A m \in {1, 2, 4, 8} : x < m /\ y < m => XorOfNibbles[x][y] < m
BY Zenon, NibblesUndone DEF Nibble

(* A number of nine bits in three pieces, and the pieces of such a number.  *)
Low(x) == x % 16
High(x) == (x \div 16) % 16
Top(x) == x \div 256
Whole(lo, hi, top) == (lo + (16 * hi)) + (256 * top)

(* A number of nine bits in its three pieces.                               *)
LEMMA Pieces ==
    ASSUME NEW x \in Nine
    PROVE  /\ Low(x) \in Nibble /\ High(x) \in Nibble /\ Top(x) \in Bit
           /\ Whole(Low(x), High(x), Top(x)) = x
<1>1. x \div 16 \in 0..31 /\ x % 16 \in 0..15 /\ x = 16 * (x \div 16) + (x % 16)
  BY DEF Nine
<1>2. x \div 256 \in {0, 1}
  BY DEF Nine
<1>3. (x \div 16) % 16 = IF x \div 256 = 0 THEN x \div 16 ELSE (x \div 16) - 16
  BY DEF Nine
<1>4. QED
  BY <1>1, <1>2, <1>3 DEF Low, High, Top, Whole, Nibble, Bit

(* Three pieces make a number of nine bits with those pieces.               *)
LEMMA Assembled ==
    ASSUME NEW lo \in Nibble, NEW hi \in Nibble, NEW top \in Bit
    PROVE  /\ Whole(lo, hi, top) \in Nine
           /\ Low(Whole(lo, hi, top)) = lo
           /\ High(Whole(lo, hi, top)) = hi
           /\ Top(Whole(lo, hi, top)) = top
<1> DEFINE z == (lo + (16 * hi)) + (256 * top)
<1>1. z \in Nine /\ z % 16 = lo /\ z \div 16 = hi + 16 * top
  BY DEF Nibble, Bit, Nine
<1>2. (z \div 16) % 16 = hi
  BY <1>1 DEF Nibble, Bit
<1>3. z \div 256 = top
  BY DEF Nibble, Bit
<1>4. z = Whole(lo, hi, top)
  BY Zenon DEF Whole
<1> HIDE DEF z
<1>5. QED
  BY Zenon, <1>1, <1>2, <1>3, <1>4 DEF Low, High, Top

(* The exclusive or piece by piece.                                         *)
TopSum(a, b) == (a + b) % 2

(* Exclusive or of two bits.                                                *)
LEMMA TopSumFacts ==
    ASSUME NEW a \in Bit, NEW b \in Bit
    PROVE  TopSum(a, b) \in Bit /\ TopSum(TopSum(a, b), b) = a /\ TopSum(a, b) = TopSum(b, a)
BY DEF TopSum, Bit

(* The exclusive or piece by piece.                                         *)
LEMMA XorPieces ==
    ASSUME NEW x, NEW y
    PROVE  x ^^ y = Whole(XorOfNibbles[Low(x)][Low(y)], XorOfNibbles[High(x)][High(y)],
                          TopSum(Top(x), Top(y)))
BY Zenon DEF ^^, XorBy, XorOfBit, Low, High, Top, Whole, TopSum

(* The exclusive or on numbers of nine bits stays among them, is symmetric, *)
(* and undoes itself.                                                       *)
LEMMA XorFacts ==
    ASSUME NEW x \in Nine, NEW y \in Nine
    PROVE  x ^^ y \in Nine /\ (x ^^ y) ^^ y = x /\ x ^^ y = y ^^ x
<1> DEFINE lo == XorOfNibbles[Low(x)][Low(y)]
           hi == XorOfNibbles[High(x)][High(y)]
           top == TopSum(Top(x), Top(y))
<1>1. /\ Low(x) \in Nibble /\ High(x) \in Nibble /\ Top(x) \in Bit
      /\ Low(y) \in Nibble /\ High(y) \in Nibble /\ Top(y) \in Bit
  BY Zenon, Pieces
<1>2. lo \in Nibble /\ XorOfNibbles[lo][Low(y)] = Low(x) /\ lo = XorOfNibbles[Low(y)][Low(x)]
  BY Zenon, <1>1, NibbleXor
<1>3. /\ hi \in Nibble /\ XorOfNibbles[hi][High(y)] = High(x)
      /\ hi = XorOfNibbles[High(y)][High(x)]
  BY Zenon, <1>1, NibbleXor
<1>4. top \in Bit /\ TopSum(top, Top(y)) = Top(x) /\ top = TopSum(Top(y), Top(x))
  BY Zenon, <1>1, TopSumFacts
<1>5. x ^^ y = Whole(lo, hi, top)
  BY Zenon, XorPieces
<1> HIDE DEF lo, hi, top
<1>6. /\ Whole(lo, hi, top) \in Nine /\ Low(Whole(lo, hi, top)) = lo
      /\ High(Whole(lo, hi, top)) = hi /\ Top(Whole(lo, hi, top)) = top
  <2>1. lo \in Nibble /\ hi \in Nibble /\ top \in Bit
    BY Zenon, <1>2, <1>3, <1>4
  <2>2. QED
    BY Zenon, <2>1, Assembled
<1>7. (x ^^ y) ^^ y = Whole(Low(x), High(x), Top(x))
  <2> DEFINE z == x ^^ y
  <2>1. Low(z) = lo /\ High(z) = hi /\ Top(z) = top
    BY Zenon, <1>5, <1>6
  <2> HIDE DEF z
  <2>2. z ^^ y = Whole(XorOfNibbles[Low(z)][Low(y)], XorOfNibbles[High(z)][High(y)],
                       TopSum(Top(z), Top(y)))
    BY Zenon, XorPieces
  <2>3. z ^^ y = Whole(Low(x), High(x), Top(x))
    BY Zenon, <2>1, <2>2, <1>2, <1>3, <1>4
  <2>4. QED
    BY Zenon, <2>3 DEF z
<1>8. y ^^ x = Whole(lo, hi, top)
  BY Zenon, <1>2, <1>3, <1>4, XorPieces
<1>9. QED
  BY Zenon, <1>5, <1>6, <1>7, <1>8, Pieces

(* The widths WordBits may have, and their powers of two.                   *)
LEMMA Powers2 ==
    /\ 2^0 = 1 /\ 2^1 = 2 /\ 2^2 = 4 /\ 2^3 = 8 /\ 2^4 = 16
    /\ 2^5 = 32 /\ 2^6 = 64 /\ 2^7 = 128 /\ 2^8 = 256 /\ 2^9 = 512
OBVIOUS

(* The widths of a word.                                                    *)
LEMMA ModulusValues ==
    Modulus \in {2, 4, 8, 16, 32, 64, 128, 256, 512}
<1>1. WordBits \in {1, 2, 3, 4, 5, 6, 7, 8, 9}
  BY WordAssumption
<1>2. CASE WordBits = 1
  BY Zenon, <1>2, Powers2 DEF Modulus
<1>3. CASE WordBits = 2
  BY Zenon, <1>3, Powers2 DEF Modulus
<1>4. CASE WordBits = 3
  BY Zenon, <1>4, Powers2 DEF Modulus
<1>5. CASE WordBits = 4
  BY Zenon, <1>5, Powers2 DEF Modulus
<1>6. CASE WordBits = 5
  BY Zenon, <1>6, Powers2 DEF Modulus
<1>7. CASE WordBits = 6
  BY Zenon, <1>7, Powers2 DEF Modulus
<1>8. CASE WordBits = 7
  BY Zenon, <1>8, Powers2 DEF Modulus
<1>9. CASE WordBits = 8
  BY Zenon, <1>9, Powers2 DEF Modulus
<1>10. CASE WordBits = 9
  BY Zenon, <1>10, Powers2 DEF Modulus
<1>11. QED
  BY Zenon, <1>1, <1>2, <1>3, <1>4, <1>5, <1>6, <1>7, <1>8, <1>9, <1>10

(* A word has at most nine bits.                                            *)
LEMMA WordIsNine == Modulus \in Nat \ {0} /\ Word \subseteq Nine
BY ModulusValues DEF Word, Nine

(* A word has no bits above its width, and neither has the exclusive or of  *)
(* two words.                                                               *)
LEMMA XorWord ==
    ASSUME NEW x \in Word, NEW y \in Word
    PROVE  x ^^ y \in Word
<1> DEFINE xl == Low(x)
           xh == High(x)
           xt == Top(x)
           yl == Low(y)
           yh == High(y)
           yt == Top(y)
           lo == XorOfNibbles[xl][yl]
           hi == XorOfNibbles[xh][yh]
           top == TopSum(xt, yt)
<1>1. x \in Nine /\ y \in Nine /\ x < Modulus /\ y < Modulus
  BY WordIsNine DEF Word
<1>2. /\ xl \in Nibble /\ xh \in Nibble /\ xt \in Bit
      /\ yl \in Nibble /\ yh \in Nibble /\ yt \in Bit
      /\ Whole(xl, xh, xt) = x /\ Whole(yl, yh, yt) = y
  BY Zenon, <1>1, Pieces
<1>3. lo \in Nibble /\ \A m \in {1, 2, 4, 8} : xl < m /\ yl < m => lo < m
  BY Zenon, <1>2, NibbleXor
<1>4. hi \in Nibble /\ \A m \in {1, 2, 4, 8} : xh < m /\ yh < m => hi < m
  BY Zenon, <1>2, NibbleXor
<1>5. top \in Bit /\ (xt = 0 /\ yt = 0 => top = 0)
  BY <1>2 DEF TopSum, Bit
<1>6. x ^^ y = Whole(lo, hi, top)
  BY Zenon, XorPieces
<1> HIDE DEF lo, hi, top, xl, xh, xt, yl, yh, yt
<1>7. CASE Modulus \in {2, 4, 8}
  BY <1>1, <1>2, <1>3, <1>4, <1>5, <1>6, <1>7 DEF Word, Whole, Nibble, Bit, Nine
<1>8. CASE Modulus \in {16, 32, 64, 128}
  BY <1>1, <1>2, <1>3, <1>4, <1>5, <1>6, <1>8 DEF Word, Whole, Nibble, Bit, Nine
<1>9. CASE Modulus \in {256, 512}
  BY <1>1, <1>2, <1>3, <1>4, <1>5, <1>6, <1>9 DEF Word, Whole, Nibble, Bit, Nine
<1>10. QED
  BY Zenon, <1>7, <1>8, <1>9, ModulusValues

-----------------------------------------------------------------------------
(* Rotations of a word.                                                     *)

(* Division with remainder, and a quotient and a remainder that are the     *)
(* only ones.                                                               *)
LEMMA Divided ==
    ASSUME NEW x \in Nat, NEW b \in Nat \ {0}
    PROVE  /\ x \div b \in Nat /\ x % b \in 0..(b - 1)
           /\ x = b * (x \div b) + (x % b)
OBVIOUS

(* Quotient and remainder are determined by what they add up to.            *)
LEMMA Remainder ==
    ASSUME NEW b \in Nat \ {0}, NEW k \in Nat, NEW c \in 0..(b - 1)
    PROVE  (b * k + c) % b = c /\ (b * k + c) \div b = k
<1> DEFINE x == b * k + c
           e == x \div b
           r == x % b
<1>1. x \in Nat /\ b * k \in Nat
  OBVIOUS
<1>2. e \in Nat /\ r \in 0..(b - 1) /\ x = b * e + r
  <2> HIDE DEF x
  <2>1. QED
    BY Zenon, <1>1, Divided
<1>3. x = b * k + c
  BY Zenon
<1> HIDE DEF e, r, x
<1>4. ASSUME NEW u \in Nat, NEW v \in Nat, u > v PROVE b * u >= b * v + b
  <2>1. b * (u - v - 1) \in Nat
    BY <1>4
  <2>2. b * (u - v - 1) = (b * u - b * v) - b
    BY <1>4
  <2>3. QED
    BY <2>1, <2>2, <1>4
<1>5. ~ (k > e)
  <2> SUFFICES ASSUME k > e PROVE FALSE
    BY Zenon
  <2>1. b * k >= b * e + b /\ b * k \in Nat /\ b * e \in Nat
    BY <1>1, <1>2, <1>4
  <2>2. QED
    BY <2>1, <1>2, <1>3
<1>6. ~ (e > k)
  <2> SUFFICES ASSUME e > k PROVE FALSE
    BY Zenon
  <2>1. b * e >= b * k + b /\ b * k \in Nat /\ b * e \in Nat
    BY <1>1, <1>2, <1>4
  <2>2. QED
    BY <2>1, <1>2, <1>3
<1>7. e = k
  BY <1>2, <1>5, <1>6
<1>8. r = c
  BY <1>1, <1>2, <1>3, <1>7
<1>9. QED
  BY Zenon, <1>7, <1>8 DEF e, r, x

(* A rotation by places worth P in a word of P * Q: the upper part, of Q    *)
(* and more, and the lower part change places.                              *)
Turned(x, P, Q) == ((x * P) % (P * Q)) + (x \div Q)

(* The parts of a rotated word.                                             *)
LEMMA TurnedParts ==
    ASSUME NEW P \in Nat \ {0}, NEW Q \in Nat \ {0},
           NEW h \in 0..(P - 1), NEW r \in 0..(Q - 1)
    PROVE  Q * h + r \in 0..(P * Q - 1) /\ Turned(Q * h + r, P, Q) = P * r + h
<1> DEFINE x == Q * h + r
           M == P * Q
<1>1. /\ M \in Nat \ {0} /\ P * r \in Nat /\ Q * h \in Nat /\ M * h \in Nat
      /\ x * P = M * h + P * r
  OBVIOUS
<1>2. P * r <= M - P /\ Q * h <= M - Q
  <2>1. P * (Q - 1 - r) \in Nat /\ P * (Q - 1 - r) = M - P - P * r
    OBVIOUS
  <2>2. Q * (P - 1 - h) \in Nat /\ Q * (P - 1 - h) = M - Q - Q * h
    OBVIOUS
  <2> HIDE DEF M
  <2>3. QED
    BY <1>1, <2>1, <2>2
<1>3. x \div Q = h
  BY Remainder
<1>4. (M * h + P * r) % M = P * r
  <2> DEFINE c == P * r
  <2>1. c \in 0..(M - 1)
    <3> HIDE DEF M
    <3>1. QED
      BY <1>1, <1>2
  <2>2. h \in Nat
    OBVIOUS
  <2> HIDE DEF c, M
  <2>3. (M * h + c) % M = c
    BY Zenon, <1>1, <2>1, <2>2, Remainder
  <2>4. QED
    BY Zenon, <2>3 DEF c
<1>5. x \in 0..(M - 1)
  <2> HIDE DEF M
  <2>1. QED
    BY <1>1, <1>2
<1>6. Turned(x, P, Q) = P * r + h
  <2>1. Turned(x, P, Q) = ((x * P) % M) + (x \div Q)
    BY Zenon DEF Turned
  <2> HIDE DEF x, M
  <2>2. QED
    BY Zenon, <2>1, <1>1, <1>3, <1>4
<1>7. QED
  BY Zenon, <1>5, <1>6

(* Turning back by the rest of the word undoes a rotation.                  *)
LEMMA TurnedBack ==
    ASSUME NEW P \in Nat \ {0}, NEW Q \in Nat \ {0}, NEW x \in 0..(P * Q - 1)
    PROVE  Turned(x, P, Q) \in 0..(P * Q - 1) /\ Turned(Turned(x, P, Q), Q, P) = x
<1> DEFINE h == x \div Q
           r == x % Q
<1>1. x \in Nat /\ h \in Nat /\ r \in 0..(Q - 1) /\ x = Q * h + r
  BY Divided
<1> HIDE DEF h, r
<1>2. h \in 0..(P - 1)
  <2> SUFFICES ASSUME h >= P PROVE FALSE
    BY <1>1
  <2>1. Q * (h - P) \in Nat /\ Q * (h - P) = Q * h - P * Q /\ Q * h \in Nat
    BY <1>1
  <2>2. QED
    BY <1>1, <2>1
<1>3. Turned(x, P, Q) = P * r + h
  BY Zenon, <1>1, <1>2, TurnedParts
<1>4. P * r + h \in 0..(Q * P - 1) /\ Turned(P * r + h, Q, P) = Q * h + r
  BY Zenon, <1>1, <1>2, TurnedParts
<1>5. Q * P = P * Q
  OBVIOUS
<1>6. QED
  BY Zenon, <1>1, <1>3, <1>4, <1>5

(* The powers of two below nine bits.                                       *)
Twos == <<1, 2, 4, 8, 16, 32, 64, 128, 256, 512>>

(* The powers of two up to the ninth.                                       *)
LEMMA PowerIs ==
    ASSUME NEW e \in 0..9
    PROVE  2^e = Twos[e + 1]
<1>0. CASE e = 0
  <2>1. 2^e = 2^0
    BY Zenon, <1>0
  <2>2. QED
    BY <1>0, <2>1 DEF Twos
<1>1. CASE e = 1
  <2>1. 2^e = 2^1
    BY Zenon, <1>1
  <2>2. QED
    BY <1>1, <2>1 DEF Twos
<1>2. CASE e = 2
  <2>1. 2^e = 2^2
    BY Zenon, <1>2
  <2>2. QED
    BY <1>2, <2>1 DEF Twos
<1>3. CASE e = 3
  <2>1. 2^e = 2^3
    BY Zenon, <1>3
  <2>2. QED
    BY <1>3, <2>1 DEF Twos
<1>4. CASE e = 4
  <2>1. 2^e = 2^4
    BY Zenon, <1>4
  <2>2. QED
    BY <1>4, <2>1 DEF Twos
<1>5. CASE e = 5
  <2>1. 2^e = 2^5
    BY Zenon, <1>5
  <2>2. QED
    BY <1>5, <2>1 DEF Twos
<1>6. CASE e = 6
  <2>1. 2^e = 2^6
    BY Zenon, <1>6
  <2>2. QED
    BY <1>6, <2>1 DEF Twos
<1>7. CASE e = 7
  <2>1. 2^e = 2^7
    BY Zenon, <1>7
  <2>2. QED
    BY <1>7, <2>1 DEF Twos
<1>8. CASE e = 8
  <2>1. 2^e = 2^8
    BY Zenon, <1>8
  <2>2. QED
    BY <1>8, <2>1 DEF Twos
<1>9. CASE e = 9
  <2>1. 2^e = 2^9
    BY Zenon, <1>9
  <2>2. QED
    BY <1>9, <2>1 DEF Twos
<1>10. QED
  BY <1>0, <1>1, <1>2, <1>3, <1>4, <1>5, <1>6, <1>7, <1>8, <1>9

(* The modulus is the product of the powers for the two parts of a word.    *)
LEMMA PowerSplit ==
    ASSUME NEW e \in 0..WordBits
    PROVE  /\ 2^e \in Nat \ {0} /\ 2^(WordBits - e) \in Nat \ {0}
           /\ 2^e * 2^(WordBits - e) = Modulus
<1>1. WordBits \in 1..9 /\ WordBits \in 0..9 /\ e \in 0..9 /\ WordBits - e \in 0..9
  BY WordAssumption
<1>2. 2^e = Twos[e + 1] /\ 2^(WordBits - e) = Twos[(WordBits - e) + 1]
      /\ Modulus = Twos[WordBits + 1]
  BY Zenon, <1>1, PowerIs DEF Modulus
<1>3. /\ Twos[e + 1] \in Nat \ {0} /\ Twos[(WordBits - e) + 1] \in Nat \ {0}
      /\ Twos[e + 1] * Twos[(WordBits - e) + 1] = Twos[WordBits + 1]
  BY <1>1 DEF Twos
<1>4. QED
  BY Zenon, <1>2, <1>3

(* Two rotations whose counts add up to the width undo each other.          *)
LEMMA RotateBack ==
    ASSUME NEW x \in Word, NEW there \in Int, NEW back \in Int,
           \/ there % WordBits = 0 /\ back % WordBits = 0
           \/ there % WordBits # 0 /\ back % WordBits = WordBits - (there % WordBits)
    PROVE  rotate(x, there) \in Word /\ rotate(rotate(x, there), back) = x
<1> DEFINE e == there % WordBits
           P == 2^e
           Q == 2^(WordBits - e)
<1>1. WordBits \in Nat \ {0} /\ e \in 0..(WordBits - 1)
  BY WordAssumption
<1>2. P \in Nat \ {0} /\ Q \in Nat \ {0} /\ P * Q = Modulus
  <2> HIDE DEF e
  <2>1. e \in 0..WordBits
    BY <1>1
  <2>2. QED
    BY Zenon, <2>1, PowerSplit
<1>3. \A y : rotate(y, there) = Turned(y, P, Q)
  <2>1. \A y : rotate(y, there) = ((y * P) % Modulus) + (y \div Q)
    BY Zenon DEF rotate
  <2> HIDE DEF P, Q
  <2>2. QED
    BY Zenon, <2>1, <1>2 DEF Turned
<1>4. x \in 0..(P * Q - 1) /\ Word = 0..(P * Q - 1)
  <2> HIDE DEF P, Q
  <2>1. QED
    BY Zenon, <1>2 DEF Word
<1>5. Turned(x, P, Q) \in Word /\ Turned(Turned(x, P, Q), Q, P) = x
  <2> HIDE DEF P, Q
  <2>1. QED
    BY Zenon, <1>2, <1>4, TurnedBack
<1>6. CASE e # 0
  <2>1. back % WordBits = WordBits - e
    BY Zenon, <1>6
  <2> HIDE DEF e
  <2>2. WordBits - (WordBits - e) = e
    BY <1>1
  <2>3. \A y : rotate(y, back) = ((y * Q) % Modulus) + (y \div P)
    BY Zenon, <2>1, <2>2 DEF rotate
  <2>4. Q * P = Modulus
    <3> HIDE DEF P, Q
    <3>1. QED
      BY <1>2
  <2> HIDE DEF P, Q
  <2>5. \A y : rotate(y, back) = Turned(y, Q, P)
    BY Zenon, <2>3, <2>4 DEF Turned
  <2>6. QED
    BY Zenon, <1>3, <1>5, <2>5
<1>7. CASE e = 0
  <2>1. back % WordBits = 0
    BY Zenon, <1>7
  <2>2. P = 1
    BY Zenon, <1>7, Powers2
  <2>3. WordBits - 0 = WordBits
    BY <1>1
  <2>4. \A y : rotate(y, back) = ((y * P) % Modulus) + (y \div Q)
    BY Zenon, <2>1, <1>7 DEF rotate
  <2> HIDE DEF e, P, Q
  <2>5. Q = Modulus /\ x \in 0..(Modulus - 1) /\ Modulus \in Nat \ {0}
    BY <1>2, <1>4, <2>2
  <2>6. x % Modulus = x /\ x \div Modulus = 0
    BY <2>5
  <2>7. x * P = x
    BY <2>2, <2>5
  <2>8. Turned(x, P, Q) = x /\ rotate(x, back) = x
    <3>1. Turned(x, P, Q) = ((x * P) % Modulus) + (x \div Q)
      BY Zenon, <1>2 DEF Turned
    <3>2. Turned(x, P, Q) = x + 0 /\ rotate(x, back) = x + 0
      BY Zenon, <3>1, <2>4, <2>5, <2>6, <2>7
    <3>3. QED
      BY <3>2, <2>5
  <2>9. QED
    BY Zenon, <1>3, <1>5, <2>8
<1>8. QED
  BY Zenon, <1>6, <1>7

(* The rotations of a round.                                                *)
LEMMA RotationsUndone ==
    ASSUME NEW x \in Word
    PROVE  /\ rotate(x, -8) \in Word /\ rotate(rotate(x, -8), 8) = x
           /\ rotate(x, 3) \in Word /\ rotate(rotate(x, 3), -3) = x
<1>1. WordBits \in {1, 2, 3, 4, 5, 6, 7, 8, 9}
  BY WordAssumption
<1>2. \/ (-8) % WordBits = 0 /\ 8 % WordBits = 0
      \/ (-8) % WordBits # 0 /\ 8 % WordBits = WordBits - ((-8) % WordBits)
  BY <1>1
<1>3. \/ 3 % WordBits = 0 /\ (-3) % WordBits = 0
      \/ 3 % WordBits # 0 /\ (-3) % WordBits = WordBits - (3 % WordBits)
  BY <1>1
<1>4. -8 \in Int /\ 8 \in Int /\ 3 \in Int /\ -3 \in Int
  OBVIOUS
<1>5. rotate(x, -8) \in Word /\ rotate(rotate(x, -8), 8) = x
  BY Zenon, <1>2, <1>4, RotateBack
<1>6. rotate(x, 3) \in Word /\ rotate(rotate(x, 3), -3) = x
  BY Zenon, <1>3, <1>4, RotateBack
<1>7. QED
  BY Zenon, <1>5, <1>6

-----------------------------------------------------------------------------
(* One round of the cipher.                                                 *)

(* Adding a word and taking it away again, modulo the size of a word.       *)
LEMMA SumUndone ==
    ASSUME NEW a \in Word, NEW r \in Word
    PROVE  (a + r) % Modulus \in Word /\ (((a + r) % Modulus) - r) % Modulus = a
<1>1. Modulus \in Nat \ {0} /\ a \in 0..(Modulus - 1) /\ r \in 0..(Modulus - 1)
  BY Zenon, WordIsNine DEF Word
<1> DEFINE M == Modulus
<1> HIDE DEF M
<1>2. M \in Nat \ {0} /\ a \in 0..(M - 1) /\ r \in 0..(M - 1)
  BY Zenon, <1>1 DEF M
<1>3. CASE a + r < M
  <2>1. (a + r) % M = a + r /\ a % M = a
    BY <1>2, <1>3
  <2>2. (a + r) - r = a
    BY <1>2
  <2>3. a + r \in 0..(M - 1)
    BY <1>2, <1>3
  <2>4. QED
    BY Zenon, <2>1, <2>2, <2>3 DEF M, Word
<1>4. CASE a + r >= M
  <2> DEFINE c == (a + r) - M
  <2>1. c \in 0..(M - 1) /\ a + r = M * 1 + c
    BY <1>2, <1>4
  <2>2. (M * 1 + c) % M = c
    <3> HIDE DEF c
    <3>1. QED
      BY Zenon, <1>2, <2>1, Remainder
  <2>3. c - r = a - M
    BY <1>2
  <2>4. (a - M) % M = a
    BY <1>2
  <2> HIDE DEF c
  <2>5. (a + r) % M = c
    BY Zenon, <2>1, <2>2
  <2>6. QED
    BY Zenon, <2>1, <2>3, <2>4, <2>5 DEF M, Word
<1>5. QED
  <2>1. a + r < M \/ a + r >= M
    BY <1>2
  <2>2. QED
    BY Zenon, <1>3, <1>4, <2>1

(* The two words of a block.                                                *)
LEMMA BlockParts == ASSUME NEW in \in Blocks PROVE in.left \in Word /\ in.right \in Word
BY Zenon DEF Blocks

(* enc_round maps blocks to blocks.                                         *)
LEMMA EncRoundTyped ==
    ASSUME NEW in \in Blocks, NEW key \in Word
    PROVE  enc_round(in, key) \in Blocks
<1> DEFINE mixed == ((rotate(in.left, -8) + in.right) % Modulus) ^^ key
           right == rotate(in.right, 3) ^^ mixed
<1>1. in.left \in Word /\ in.right \in Word
  BY Zenon, BlockParts
<1>2. rotate(in.left, -8) \in Word /\ rotate(in.right, 3) \in Word
  BY Zenon, <1>1, RotationsUndone
<1>3. mixed \in Word
  BY Zenon, <1>1, <1>2, SumUndone, XorWord
<1>4. right \in Word
  <2> HIDE DEF mixed
  <2>1. QED
    BY Zenon, <1>2, <1>3, XorWord
<1>5. enc_round(in, key) = [left |-> mixed, right |-> right]
  BY Zenon DEF enc_round
<1> HIDE DEF mixed, right
<1>6. QED
  BY <1>3, <1>4, <1>5 DEF Blocks

(* dec_round undoes enc_round, on every block and with every round key: the *)
(* exclusive ors and the sum cancel, and the rotations turn back.           *)
THEOREM RoundUndone ==
    ASSUME NEW in \in Blocks, NEW key \in Nine
    PROVE  dec_round(enc_round(in, key), key) = in
<1> DEFINE turned == rotate(in.left, -8)
           sum == (turned + in.right) % Modulus
           mixed == sum ^^ key
           other == rotate(in.right, 3)
           out == enc_round(in, key)
<1>1. in.left \in Word /\ in.right \in Word
  BY Zenon, BlockParts
<1>2. /\ turned \in Word /\ rotate(turned, 8) = in.left
      /\ other \in Word /\ rotate(other, -3) = in.right
  BY Zenon, <1>1, RotationsUndone
<1>3. out.left = mixed /\ out.right = other ^^ mixed
  <2>1. out = [left |-> mixed, right |-> other ^^ mixed]
    BY Zenon DEF enc_round
  <2> HIDE DEF out, mixed, other
  <2>2. QED
    BY Zenon, <2>1
<1>4. sum \in Word /\ (sum - in.right) % Modulus = turned
  <2> HIDE DEF turned
  <2>1. QED
    BY Zenon, <1>1, <1>2, SumUndone
<1>5. dec_round(out, key) =
        [left |-> rotate(((out.left ^^ key) - rotate(out.left ^^ out.right, -3)) % Modulus, 8),
         right |-> rotate(out.left ^^ out.right, -3)]
  <2> HIDE DEF out
  <2>1. QED
    BY Zenon DEF dec_round
<1> HIDE DEF turned, sum, other, out
<1>6. sum \in Nine /\ other \in Nine
  BY Zenon, <1>2, <1>4, WordIsNine
<1>7. mixed \in Nine /\ mixed ^^ key = sum
  BY Zenon, <1>6, XorFacts
<1> HIDE DEF mixed
<1>8. mixed ^^ (other ^^ mixed) = other
  <2>1. other ^^ mixed \in Nine /\ (other ^^ mixed) ^^ mixed = other
    BY Zenon, <1>6, <1>7, XorFacts
  <2>2. mixed ^^ (other ^^ mixed) = (other ^^ mixed) ^^ mixed
    BY Zenon, <1>7, <2>1, XorFacts
  <2>3. QED
    BY Zenon, <2>1, <2>2
<1>9. dec_round(out, key) = [left |-> in.left, right |-> in.right]
  BY Zenon, <1>2, <1>3, <1>4, <1>5, <1>7, <1>8
<1>10. QED
  <2>1. in = [left |-> in.left, right |-> in.right]
    BY Zenon DEF Blocks
  <2>2. QED
    BY Zenon, <1>9, <2>1 DEF out

-----------------------------------------------------------------------------
(* Recursive functions on an interval.                                      *)

(* Every set of naturals with an element has a least one.                   *)
LEMMA LeastElement ==
  ASSUME NEW T, T \subseteq Nat, T # {}
  PROVE  \E x \in T : \A y \in T : x <= y
<1> DEFINE R == OpToRel(<, Nat)
<1>1. IsWellFoundedOn(R, Nat)
  BY Zenon, NatLessThanWellFounded
<1>2. \A x, y \in Nat : x < y => <<x, y>> \in R
  BY Zenon DEF OpToRel
<1> HIDE DEF R
<1>3. PICK x \in T : \A y \in T : ~ (<<y, x>> \in R)
  BY Zenon, <1>1, WFMin
<1>4. ASSUME NEW y \in T PROVE x <= y
  <2>1. x \in Nat /\ y \in Nat /\ ~ (<<y, x>> \in R)
    BY Zenon, <1>3
  <2>2. ~ (y < x)
    BY Zenon, <2>1, <1>2
  <2>3. QED
    BY <2>1, <2>2
<1>5. QED
  BY Zenon, <1>4

(* A set that holds 0 and, with each number below n, the next one, holds    *)
(* all the numbers up to n.                                                 *)
LEMMA UpTo ==
  ASSUME NEW T, NEW end \in Nat, 0 \in T,
         \A u \in 0..(end - 1) : u \in T => u + 1 \in T
  PROVE  \A u \in 0..end : u \in T
<1> DEFINE Miss == {u \in 0..end : u \notin T}
<1> SUFFICES ASSUME Miss # {} PROVE FALSE
  BY Zenon
<1>1. Miss \subseteq Nat
  OBVIOUS
<1>2. PICK x \in Miss : \A y \in Miss : x <= y
  <2> HIDE DEF Miss
  <2>1. QED
    BY Zenon, <1>1, LeastElement
<1>3. x \in 0..end /\ x \notin T /\ x # 0
  BY Zenon, <1>2
<1>4. x - 1 \in 0..(end - 1) /\ x - 1 \notin Miss
  BY <1>2, <1>3
<1>5. x - 1 \in T
  BY <1>4
<1>6. (x - 1) + 1 \in T
  BY Zenon, <1>4, <1>5
<1>7. QED
  BY <1>3, <1>6

(* The functions that record how a value is stepped k times.                *)
Record(S, a, k, step) ==
    { g \in [0..k -> S] :
        g[0] = a /\ \A u \in 1..k : g[u] = step[<<g[u - 1], u - 1>>] }

(* There is always one.                                                     *)
LEMMA Iterated ==
    ASSUME NEW S, NEW a \in S, NEW end \in Nat, NEW step \in [S \X Nat -> S]
    PROVE  \E g : g \in Record(S, a, end, step)
<1> DEFINE Records(g, k) ==
             g \in [0..k -> S] /\ g[0] = a /\ \A u \in 1..k : g[u] = step[<<g[u - 1], u - 1>>]
           T == { k \in 0..end : \E g : Records(g, k) }
<1>1. 0 \in T
  <2>1. Records([u \in 0..0 |-> a], 0)
    OBVIOUS
  <2>2. 0 \in 0..end
    OBVIOUS
  <2> HIDE DEF Records
  <2>3. QED
    BY Zenon, <2>1, <2>2
<1>2. ASSUME NEW k \in 0..(end - 1), k \in T PROVE k + 1 \in T
  <2>1. PICK g : Records(g, k)
    <3> HIDE DEF Records
    <3>1. QED
      BY Zenon, <1>2
  <2> DEFINE last == step[<<g[k], k>>]
             h == [u \in 0..(k + 1) |-> IF u = k + 1 THEN last ELSE g[u]]
  <2>2. k \in Nat /\ k \in 0..k /\ (k + 1) - 1 = k
    OBVIOUS
  <2>3. g[k] \in S
    BY Zenon, <2>1, <2>2
  <2>4. last \in S
    BY Zenon, <2>2, <2>3
  <2> HIDE DEF last
  <2>5. \A u \in 0..k : g[u] \in S /\ h[u] = g[u]
    <3> TAKE u \in 0..k
    <3>1. u # k + 1 /\ u \in 0..(k + 1)
      OBVIOUS
    <3>2. QED
      BY Zenon, <2>1, <3>1
  <2>6. h[k + 1] = last
    OBVIOUS
  <2>7. h \in [0..(k + 1) -> S]
    <3>1. ASSUME NEW u \in 0..(k + 1) PROVE h[u] \in S
      <4>1. u = k + 1 \/ u \in 0..k
        OBVIOUS
      <4> HIDE DEF h
      <4>2. QED
        BY Zenon, <2>4, <2>5, <2>6, <4>1
    <3>2. h = [u \in 0..(k + 1) |-> h[u]]
      BY Zenon
    <3> HIDE DEF h
    <3>3. QED
      BY Zenon, <3>1, <3>2
  <2>8. h[0] = a
    BY <2>1, <2>5
  <2>9. ASSUME NEW u \in 1..(k + 1) PROVE h[u] = step[<<h[u - 1], u - 1>>]
    <3>1. u - 1 \in 0..k /\ h[u - 1] = g[u - 1]
      BY <2>5
    <3> HIDE DEF h
    <3>2. CASE u = k + 1
      BY Zenon, <2>2, <2>6, <3>1, <3>2 DEF last
    <3>3. CASE u # k + 1
      <4>1. u \in 1..k /\ u \in 0..k
        BY <3>3
      <4>2. g[u] = step[<<g[u - 1], u - 1>>]
        BY Zenon, <2>1, <4>1
      <4>3. QED
        BY Zenon, <2>5, <3>1, <4>1, <4>2
    <3>4. QED
      BY Zenon, <3>2, <3>3
  <2>10. Records(h, k + 1)
    <3> HIDE DEF h
    <3>1. QED
      BY Zenon, <2>7, <2>8, <2>9
  <2>11. k + 1 \in 0..end
    OBVIOUS
  <2> HIDE DEF Records, h
  <2>12. QED
    BY Zenon, <2>10, <2>11
<1>3. end \in T
  <2> HIDE DEF T
  <2>1. end \in 0..end
    OBVIOUS
  <2>2. QED
    BY Zenon, <1>1, <1>2, <2>1, UpTo
<1>4. PICK g : Records(g, end)
  <2> HIDE DEF Records
  <2>1. QED
    BY Zenon, <1>3
<1>5. QED
  BY Zenon, <1>4 DEF Record

(* The state of key_schedule between two turns.                             *)
Schedules == [l : [0..2 -> Word], key : Word]

(* A number modulo the modulus is a word.                                   *)
LEMMA ModuloWord == ASSUME NEW u \in Nat PROVE u % Modulus \in Word
<1> DEFINE M == Modulus
<1>1. M \in Nat \ {0}
  BY Zenon, WordIsNine
<1> HIDE DEF M
<1>2. u % M \in 0..(M - 1)
  BY <1>1
<1>3. QED
  BY Zenon, <1>2 DEF M, Word

(* A turn of key_schedule makes words of words.                             *)
LEMMA KeyStepTyped ==
    ASSUME NEW s \in Schedules, NEW u \in Nat
    PROVE  KeyStep(s, u) \in Schedules
<1> DEFINE turn == u % 3
           new == ((s.key + rotate(s.l[turn], -8)) % Modulus) ^^ (u % Modulus)
           key == rotate(s.key, 3) ^^ new
<1>1. s.key \in Word /\ s.l \in [0..2 -> Word] /\ turn \in 0..2
  BY DEF Schedules
<1>2. s.l[turn] \in Word
  <2> HIDE DEF turn
  <2>1. QED
    BY Zenon, <1>1
<1>3. rotate(s.l[turn], -8) \in Word /\ rotate(s.key, 3) \in Word
  <2> HIDE DEF turn
  <2>1. QED
    BY Zenon, <1>1, <1>2, RotationsUndone
<1>4. (s.key + rotate(s.l[turn], -8)) % Modulus \in Word
  BY Zenon, <1>1, <1>3, SumUndone
<1>5. new \in Word
  <2>1. u % Modulus \in Word
    BY Zenon, ModuloWord
  <2>2. QED
    BY Zenon, <1>4, <2>1, XorWord
<1>6. key \in Word
  <2> HIDE DEF new
  <2>1. QED
    BY Zenon, <1>3, <1>5, XorWord
<1>7. KeyStep(s, u) = [l |-> [s.l EXCEPT ![turn] = new], key |-> key]
  BY Zenon DEF KeyStep
<1> HIDE DEF turn, new, key
<1>8. [s.l EXCEPT ![turn] = new] \in [0..2 -> Word]
  BY Zenon, <1>1, <1>5
<1>9. QED
  BY <1>6, <1>7, <1>8 DEF Schedules

(* key_schedule makes Rounds words of the four of the key.                  *)
LEMMA KeyScheduleTyped ==
    ASSUME NEW key \in [1..4 -> Word]
    PROVE  key_schedule(key) \in [0..(Rounds - 1) -> Word]
<1> DEFINE start == [l |-> [t \in 0..2 |-> key[t + 2]], key |-> key[1]]
           end == Rounds - 1
           Eq(s) == s = [u \in 0..end |-> IF u = 0 THEN start ELSE KeyStep(s[u - 1], u - 1)]
           f == CHOOSE s : Eq(s)
           step == [x \in Schedules \X Nat |-> KeyStep(x[1], x[2])]
<1>1. end \in Nat
  BY WordAssumption
<1>2. start \in Schedules
  BY DEF Schedules
<1>3. step \in [Schedules \X Nat -> Schedules]
  BY Zenon, KeyStepTyped
<1>4. \A s \in Schedules, u \in Nat : step[<<s, u>>] = KeyStep(s, u)
  BY Zenon
<1>5. key_schedule(key) = Table([u \in 0..end |-> f[u].key])
  BY Zenon DEF key_schedule
<1> HIDE DEF start, step, end
<1>6. PICK g \in [0..end -> Schedules] :
        g[0] = start /\ \A u \in 1..end : g[u] = step[<<g[u - 1], u - 1>>]
  <2>1. PICK g : g \in Record(Schedules, start, end, step)
    BY Zenon, <1>1, <1>2, <1>3, Iterated
  <2>2. QED
    BY Zenon, <2>1 DEF Record
<1>7. Eq(g)
  <2>1. ASSUME NEW u \in 0..end
        PROVE  g[u] = IF u = 0 THEN start ELSE KeyStep(g[u - 1], u - 1)
    <3>1. CASE u = 0
      BY Zenon, <1>6, <3>1
    <3>2. CASE u # 0
      <4>1. u \in 1..end /\ u - 1 \in Nat /\ u - 1 \in 0..end
        BY <1>1, <3>2
      <4>2. g[u - 1] \in Schedules
        BY Zenon, <1>6, <4>1
      <4>3. QED
        BY Zenon, <1>4, <1>6, <3>2, <4>1, <4>2
    <3>3. QED
      BY Zenon, <3>1, <3>2
  <2>2. QED
    BY Zenon, <1>6, <2>1
<1>8. Eq(f)
  <2> HIDE DEF Eq
  <2>1. QED
    BY Zenon, <1>7
<1> HIDE DEF f
<1>9. f[0] = start
  <2>1. 0 \in 0..end
    BY <1>1
  <2>2. QED
    BY Zenon, <1>8, <2>1
<1>10. \A u \in 0..end : f[u] \in Schedules
  <2> DEFINE T == { u \in 0..end : f[u] \in Schedules }
  <2>1. 0 \in T
    BY <1>1, <1>2, <1>9
  <2>2. ASSUME NEW u \in 0..(end - 1), u \in T PROVE u + 1 \in T
    <3>1. u + 1 \in 0..end /\ u + 1 # 0 /\ (u + 1) - 1 = u /\ u \in Nat
      BY <1>1
    <3>2. f[u + 1] = KeyStep(f[u], u)
      BY Zenon, <1>8, <3>1
    <3>3. QED
      BY Zenon, <2>2, <3>1, <3>2, KeyStepTyped
  <2>3. \A u \in 0..end : u \in T
    <3> HIDE DEF T
    <3>1. QED
      BY Zenon, <1>1, <2>1, <2>2, UpTo
  <2>4. QED
    BY Zenon, <2>3
<1>11. \A u \in 0..end : f[u].key \in Word
  BY Zenon, <1>10 DEF Schedules
<1>12. key_schedule(key) = [u \in 0..end |-> f[u].key]
  BY Zenon, <1>5, TableIs
<1>13. QED
  BY Zenon, <1>11, <1>12 DEF end

-----------------------------------------------------------------------------
(* Encryption and the counter mode.                                         *)

(* speck_encrypt maps blocks to blocks.                                     *)
LEMMA EncryptTyped ==
    ASSUME NEW in \in Blocks, NEW key \in [1..4 -> Word]
    PROVE  speck_encrypt(in, key) \in Blocks
<1> DEFINE keys == key_schedule(key)
           Eq(s) == s = [u \in 0..Rounds |-> IF u = 0 THEN in ELSE enc_round(s[u - 1], keys[u - 1])]
           f == CHOOSE s : Eq(s)
           step == [x \in Blocks \X Nat |->
                      IF x[2] \in 0..(Rounds - 1) THEN enc_round(x[1], keys[x[2]]) ELSE x[1]]
<1>1. Rounds \in Nat
  BY Zenon, WordAssumption
<1>2. keys \in [0..(Rounds - 1) -> Word]
  BY Zenon, KeyScheduleTyped
<1>3. speck_encrypt(in, key) = f[Rounds]
  BY Zenon DEF speck_encrypt
<1> HIDE DEF keys
<1>4. \A s \in Blocks, u \in 0..(Rounds - 1) : enc_round(s, keys[u]) \in Blocks
  <2> TAKE s \in Blocks, u \in 0..(Rounds - 1)
  <2>1. keys[u] \in Word
    BY Zenon, <1>2
  <2>2. QED
    BY Zenon, <2>1, EncRoundTyped
<1>5. step \in [Blocks \X Nat -> Blocks]
  BY Zenon, <1>4
<1>6. \A s \in Blocks, u \in 0..(Rounds - 1) : step[<<s, u>>] = enc_round(s, keys[u])
  BY <1>1
<1> HIDE DEF step
<1>7. PICK g \in [0..Rounds -> Blocks] :
        g[0] = in /\ \A u \in 1..Rounds : g[u] = step[<<g[u - 1], u - 1>>]
  <2>1. PICK g : g \in Record(Blocks, in, Rounds, step)
    BY Zenon, <1>1, <1>5, Iterated
  <2>2. QED
    BY Zenon, <2>1 DEF Record
<1>8. Eq(g)
  <2>1. ASSUME NEW u \in 0..Rounds
        PROVE  g[u] = IF u = 0 THEN in ELSE enc_round(g[u - 1], keys[u - 1])
    <3>1. CASE u = 0
      BY Zenon, <1>7, <3>1
    <3>2. CASE u # 0
      <4>1. u \in 1..Rounds /\ u - 1 \in 0..(Rounds - 1) /\ u - 1 \in 0..Rounds
        BY <1>1, <3>2
      <4>2. g[u - 1] \in Blocks
        BY Zenon, <1>7, <4>1
      <4>3. QED
        BY Zenon, <1>6, <1>7, <3>2, <4>1, <4>2
    <3>3. QED
      BY Zenon, <3>1, <3>2
  <2>2. QED
    BY Zenon, <1>7, <2>1
<1>9. Eq(f)
  <2> HIDE DEF Eq
  <2>1. QED
    BY Zenon, <1>8
<1> HIDE DEF f
<1>10. f[0] = in
  <2>1. 0 \in 0..Rounds
    BY <1>1
  <2>2. QED
    BY Zenon, <1>9, <2>1
<1>11. \A u \in 0..Rounds : f[u] \in Blocks
  <2> DEFINE T == { u \in 0..Rounds : f[u] \in Blocks }
  <2>1. 0 \in T
    BY <1>1, <1>10
  <2>2. ASSUME NEW u \in 0..(Rounds - 1), u \in T PROVE u + 1 \in T
    <3>1. u + 1 \in 0..Rounds /\ u + 1 # 0 /\ (u + 1) - 1 = u
      BY <1>1
    <3>2. f[u + 1] = enc_round(f[u], keys[u])
      BY Zenon, <1>9, <3>1
    <3>3. QED
      BY Zenon, <1>4, <2>2, <3>1, <3>2
  <2>3. \A u \in 0..Rounds : u \in T
    <3> HIDE DEF T
    <3>1. QED
      BY Zenon, <1>1, <2>1, <2>2, UpTo
  <2>4. QED
    BY Zenon, <2>3
<1>12. Rounds \in 0..Rounds
  BY <1>1
<1>13. QED
  BY Zenon, <1>3, <1>11, <1>12

(* The word of the pad that falls on word i of the data.                    *)
PadAt(key, nonce, u) ==
    LET pad == speck_encrypt(Counter(nonce, (u - 1) \div 2), key)
    IN IF u % 2 = 1 THEN pad.right ELSE pad.left

(* The pad is made of words.                                                *)
LEMMA PadTyped ==
    ASSUME NEW key \in [1..4 -> Word], NEW nonce \in Blocks, NEW u \in Nat \ {0}
    PROVE  PadAt(key, nonce, u) \in Word
<1> DEFINE m == (u - 1) \div 2
           M == Modulus
<1>1. m \in Nat
  OBVIOUS
<1>2. M \in Nat \ {0}
  BY Zenon, WordIsNine
<1>3. nonce.left \in Nat /\ nonce.right \in Nat
  <2>1. nonce.left \in Nine /\ nonce.right \in Nine
    BY Zenon, BlockParts, WordIsNine
  <2>2. QED
    BY Zenon, <2>1, NineNat
<1> HIDE DEF m, M
<1> DEFINE carry == (nonce.right + m) \div M
<1>4. nonce.right + m \in Nat /\ carry \in Nat
  <2>1. nonce.right + m \in Nat
    BY <1>1, <1>3
  <2> DEFINE v == nonce.right + m
  <2> HIDE DEF v
  <2>2. v \div M \in Nat
    BY Zenon, <1>2, <2>1, Divided DEF v
  <2>3. QED
    BY Zenon, <2>1, <2>2 DEF v
<1> HIDE DEF carry
<1>5. nonce.left + carry \in Nat
  BY <1>3, <1>4
<1>6. (nonce.left + carry) % Modulus \in Word /\ (nonce.right + m) % Modulus \in Word
  BY Zenon, <1>4, <1>5, ModuloWord
<1>7. Counter(nonce, m) = [left |-> (nonce.left + carry) % Modulus,
                           right |-> (nonce.right + m) % Modulus]
  BY Zenon DEF Counter, carry, M
<1>8. Counter(nonce, m) \in Blocks
  BY <1>6, <1>7 DEF Blocks
<1> DEFINE pad == speck_encrypt(Counter(nonce, m), key)
<1>9. pad \in Blocks
  BY Zenon, <1>8, EncryptTyped
<1>10. PadAt(key, nonce, u) = IF u % 2 = 1 THEN pad.right ELSE pad.left
  BY Zenon DEF PadAt, m
<1> HIDE DEF pad
<1>11. QED
  BY Zenon, <1>9, <1>10, BlockParts

(* speck_ctr word by word.                                                  *)
LEMMA CtrIs ==
    ASSUME NEW length \in Nat, NEW in \in [1..length -> Nine], NEW key, NEW nonce
    PROVE  speck_ctr(in, key, nonce) = [u \in 1..length |-> in[u] ^^ PadAt(key, nonce, u)]
<1> DEFINE last == (length - 1) \div 2
           pads == [end \in 0..last |-> speck_encrypt(Counter(nonce, end), key)]
           of(u) == LET pad == pads[(u - 1) \div 2]
                    IN IF u % 2 = 1 THEN pad.right ELSE pad.left
<1>1. Len(in) = length
  OBVIOUS
<1>2. speck_ctr(in, key, nonce) = [u \in 1..length |-> in[u] ^^ of(u)]
  <2>1. Table(pads) = pads
    BY Zenon, TableIs
  <2>2. speck_ctr(in, key, nonce) =
          Table([u \in 1..length |->
            in[u] ^^ (LET pad == Table(pads)[(u - 1) \div 2]
                      IN IF u % 2 = 1 THEN pad.right ELSE pad.left)])
    BY Zenon, <1>1 DEF speck_ctr
  <2>3. QED
    BY Zenon, <2>1, <2>2, TableIs
<1>3. ASSUME NEW u \in 1..length PROVE of(u) = PadAt(key, nonce, u)
  <2>1. (u - 1) \div 2 \in 0..last
    OBVIOUS
  <2>2. pads[(u - 1) \div 2] = speck_encrypt(Counter(nonce, (u - 1) \div 2), key)
    <3> HIDE DEF last
    <3>1. QED
      BY Zenon, <2>1
  <2> HIDE DEF pads
  <2>3. QED
    BY Zenon, <2>2 DEF PadAt
<1> HIDE DEF of
<1>4. QED
  BY Zenon, <1>2, <1>3

(* Counter mode keeps the width of the data and undoes itself, whatever the *)
(* key and the nonce.                                                       *)
THEOREM CtrIsItsOwnInverse ==
    ASSUME NEW length \in Nat, NEW in \in [1..length -> Nine],
           NEW key \in [1..4 -> Word], NEW nonce \in Blocks
    PROVE  /\ speck_ctr(in, key, nonce) \in [1..length -> Nine]
           /\ speck_ctr(speck_ctr(in, key, nonce), key, nonce) = in
<1> DEFINE out == speck_ctr(in, key, nonce)
           pad(u) == PadAt(key, nonce, u)
<1>1. ASSUME NEW u \in 1..length
      PROVE  in[u] \in Nine /\ in[u] ^^ pad(u) \in Nine /\ (in[u] ^^ pad(u)) ^^ pad(u) = in[u]
  <2>1. u \in Nat \ {0}
    OBVIOUS
  <2>2. pad(u) \in Nine
    BY Zenon, <2>1, PadTyped, WordIsNine
  <2>3. in[u] \in Nine
    BY Zenon
  <2> HIDE DEF pad
  <2>4. QED
    BY Zenon, <2>2, <2>3, XorFacts
<1>2. out = [u \in 1..length |-> in[u] ^^ pad(u)]
  BY Zenon, CtrIs
<1> HIDE DEF out
<1>3. out \in [1..length -> Nine]
  <2> HIDE DEF pad
  <2>1. QED
    BY Zenon, <1>1, <1>2
<1>4. speck_ctr(out, key, nonce) = [u \in 1..length |-> out[u] ^^ pad(u)]
  BY Zenon, <1>3, CtrIs
<1>5. \A u \in 1..length : out[u] ^^ pad(u) = in[u]
  <2> HIDE DEF pad
  <2>1. QED
    BY Zenon, <1>1, <1>2
<1>6. in = [u \in 1..length |-> in[u]]
  BY Zenon
<1>7. [u \in 1..length |-> out[u] ^^ pad(u)] = [u \in 1..length |-> in[u]]
  <2> HIDE DEF pad
  <2>1. QED
    BY Zenon, <1>5
<1>8. speck_ctr(out, key, nonce) = in
  BY Zenon, <1>4, <1>6, <1>7
<1>9. QED
  BY Zenon, <1>3, <1>8 DEF out

-----------------------------------------------------------------------------
(* Slices of the package.                                                   *)

(* What one geometry says of its sizes.                                     *)
SliceBytes(g) == (g.Length + KEY_SIZE) \div g.OriginalCount

(* The slices cover ciphertext and difference without a remainder.          *)
LEMMA GeometryFacts ==
    ASSUME NEW g \in Geometries
    PROVE  /\ g.Length \in Nat /\ g.OriginalCount \in Nat \ {0}
           /\ SliceBytes(g) \in Nat \ {0}
           /\ g.OriginalCount * SliceBytes(g) = g.Length + 4
<1> DEFINE k == g.OriginalCount
           x == g.Length + 4
<1>1. g.Length \in Nat /\ k \in Nat \ {0} /\ x % k = 0
  BY Zenon, GeometryAssumption DEF KEY_SIZE
<1>2. x \in Nat /\ x > 0
  BY <1>1
<1> HIDE DEF k, x
<1>3. x \div k \in Nat /\ x = k * (x \div k) + (x % k)
  BY Zenon, <1>1, <1>2, Divided
<1> DEFINE q == x \div k
<1>4. q \in Nat /\ x = k * q
  <2> DEFINE r == x % k
  <2>1. r = 0 /\ q \in Nat /\ x = k * q + r
    BY Zenon, <1>1, <1>3
  <2> HIDE DEF q, r
  <2>2. QED
    BY <1>1, <2>1
<1>5. q # 0
  <2> HIDE DEF q
  <2>1. QED
    BY <1>1, <1>2, <1>4
<1>6. SliceBytes(g) = q
  BY Zenon DEF SliceBytes, KEY_SIZE, k, x
<1> HIDE DEF q
<1>7. QED
  BY Zenon, <1>1, <1>4, <1>5, <1>6 DEF k, x

(* Byte at of the buffer lies in slice (at - 1) / size.                     *)
LEMMA SliceOf ==
    ASSUME NEW size \in Nat \ {0}, NEW count \in Nat \ {0}, NEW p \in 1..(count * size)
    PROVE  /\ (p - 1) \div size \in 0..(count - 1)
           /\ (p - 1) % size \in 0..(size - 1)
           /\ ((size * ((p - 1) \div size)) + ((p - 1) % size)) + 1 = p
<1> DEFINE x == p - 1
<1>1. x \in Nat /\ x < count * size /\ x + 1 = p
  <2>1. count * size \in Nat
    OBVIOUS
  <2> DEFINE all == count * size
  <2> HIDE DEF all
  <2>2. p \in 1..all /\ all \in Nat
    BY Zenon, <2>1 DEF all
  <2>3. p - 1 \in Nat /\ p - 1 < all /\ (p - 1) + 1 = p
    BY <2>2
  <2>4. QED
    BY Zenon, <2>3 DEF all
<1> HIDE DEF x
<1> DEFINE b == x \div size
           c == x % size
<1>2. b \in Nat /\ c \in 0..(size - 1) /\ x = size * b + c
  BY Zenon, <1>1, Divided
<1> HIDE DEF b, c
<1>3. ~ (b >= count)
  <2> SUFFICES ASSUME b >= count PROVE FALSE
    BY Zenon
  <2>1. size * (b - count) \in Nat /\ size * (b - count) = size * b - count * size
        /\ size * b \in Nat /\ count * size \in Nat
    BY <1>2
  <2>2. QED
    BY <1>1, <1>2, <2>1
<1>4. b \in 0..(count - 1)
  BY <1>2, <1>3
<1>5. QED
  BY Zenon, <1>1, <1>2, <1>4 DEF b, c, x

(* Cutting a buffer into slices and joining them gives the buffer back.     *)
LEMMA SlicesJoined ==
    ASSUME NEW size \in Nat \ {0}, NEW count \in Nat \ {0},
           NEW payload, NEW p \in 1..(count * size)
    PROVE  Slices(payload, count, size)[(p - 1) \div size][(p - 1) % size] = payload[p]
<1> DEFINE slice(b) == [c \in 0..(size - 1) |-> payload[((size * b) + c) + 1]]
           B == (p - 1) \div size
           C == (p - 1) % size
<1>1. B \in 0..(count - 1) /\ C \in 0..(size - 1) /\ ((size * B) + C) + 1 = p
  BY Zenon, SliceOf
<1>2. Slices(payload, count, size) = [b \in 0..(count - 1) |-> slice(b)]
  <2>1. \A b : Table(slice(b)) = slice(b)
    BY Zenon, TableIs
  <2>2. Slices(payload, count, size) = Table([b \in 0..(count - 1) |-> Table(slice(b))])
    BY Zenon DEF Slices
  <2> HIDE DEF slice
  <2>3. QED
    BY Zenon, <2>1, <2>2, TableIs
<1> HIDE DEF B, C
<1>3. Slices(payload, count, size)[B] = slice(B)
  <2> HIDE DEF slice
  <2>1. QED
    BY Zenon, <1>1, <1>2
<1>4. slice(B)[C] = payload[((size * B) + C) + 1]
  BY Zenon, <1>1
<1>5. QED
  BY Zenon, <1>1, <1>3, <1>4 DEF B, C

(* A byte has at most nine bits.                                            *)
LEMMA BytesAreNine == Byte \subseteq Nine
BY DEF Byte, Nine

(* The hash is taken from the difference again.                             *)
LEMMA KeyUndone ==
    ASSUME NEW key \in [1..4 -> Word], NEW hash \in [1..4 -> Word]
    PROVE  XorKey(key, hash) \in [1..4 -> Nine] /\ XorKey(XorKey(key, hash), hash) = key
<1> DEFINE d == XorKey(key, hash)
<1>1. \A a, b : XorKey(a, b) = [w \in 1..4 |-> a[w] ^^ b[w]]
  BY Zenon DEF XorKey, KEY_SIZE
<1>2. ASSUME NEW w \in 1..4
      PROVE  key[w] ^^ hash[w] \in Nine /\ (key[w] ^^ hash[w]) ^^ hash[w] = key[w]
  <2>1. key[w] \in Nine /\ hash[w] \in Nine
    BY Zenon, WordIsNine
  <2>2. QED
    BY Zenon, <2>1, XorFacts
<1>3. d = [w \in 1..4 |-> key[w] ^^ hash[w]]
  BY Zenon, <1>1
<1> HIDE DEF d
<1>4. d \in [1..4 -> Nine]
  BY Zenon, <1>2, <1>3
<1>5. XorKey(d, hash) = [w \in 1..4 |-> d[w] ^^ hash[w]]
  BY Zenon, <1>1
<1>6. \A w \in 1..4 : d[w] ^^ hash[w] = key[w]
  BY Zenon, <1>2, <1>3
<1>7. key = [w \in 1..4 |-> key[w]]
  BY Zenon
<1>8. XorKey(d, hash) = key
  BY Zenon, <1>5, <1>6, <1>7
<1>9. QED
  BY Zenon, <1>4, <1>8 DEF d

(* A function on 1..m is a sequence of length m.                            *)
LEMMA Sequence ==
    ASSUME NEW S, NEW m \in Nat, NEW a \in [1..m -> S]
    PROVE  a \in Seq(S) /\ Len(a) = m
<1>1. a \in Seq(S)
  BY Zenon, SeqDef
<1>2. Len(a) \in Nat /\ DOMAIN a = 1..Len(a) /\ DOMAIN a = 1..m
  BY Zenon, <1>1, LenProperties
<1> DEFINE k == Len(a)
<1>3. k \in Nat /\ 1..k = 1..m
  BY Zenon, <1>2
<1> HIDE DEF k
<1>4. k = m
  BY <1>3
<1>5. QED
  BY Zenon, <1>1, <1>4 DEF k

(* A buffer holds b from place m on.                                        *)
Holds(buffer, m, k, b) == \A p \in 1..k : buffer[m + p] = b[p]

(* Two sequences end to end, and taking them apart.                         *)
LEMMA EndToEnd ==
    ASSUME NEW S, NEW m \in Nat, NEW k \in Nat, NEW a \in [1..m -> S], NEW b \in [1..k -> S]
    PROVE  /\ Holds(a \o b, 0, m, a) /\ Holds(a \o b, m, k, b)
           /\ \A p \in 1..(m + k) : (a \o b)[p] \in S
           /\ Len(a) = m /\ Len(a \o b) = m + k
<1>1. a \in Seq(S) /\ Len(a) = m
  BY Zenon, Sequence
<1>2. b \in Seq(S) /\ Len(b) = k
  BY Zenon, Sequence
<1> DEFINE c == a \o b
<1>3. c \in Seq(S)
  BY Zenon, <1>1, <1>2, ConcatProperties
<1>4. Len(c) = Len(a) + Len(b)
  BY Zenon, <1>1, <1>2, ConcatProperties
<1>5. \A p \in 1..(Len(a) + Len(b)) : c[p] = IF p <= Len(a) THEN a[p] ELSE b[p - Len(a)]
  BY Zenon, <1>1, <1>2, ConcatProperties
<1>6. Len(c) = m + k
  BY Zenon, <1>1, <1>2, <1>4
<1>7. \A p \in 1..(m + k) : c[p] = IF p <= m THEN a[p] ELSE b[p - m]
  BY Zenon, <1>1, <1>2, <1>5
<1>8. \A p \in 1..(m + k) : c[p] \in S
  <2>1. \A p \in 1..Len(c) : c[p] \in S
    BY Zenon, <1>3, ElementOfSeq
  <2>2. QED
    BY Zenon, <2>1, <1>6
<1> HIDE DEF c
<1>9. \A p \in 1..m : c[0 + p] = a[p]
  <2> TAKE p \in 1..m
  <2>1. p \in 1..(m + k) /\ p <= m /\ 0 + p = p
    OBVIOUS
  <2>2. QED
    BY Zenon, <2>1, <1>7
<1>10. \A p \in 1..k : c[m + p] = b[p]
  <2> TAKE p \in 1..k
  <2>1. m + p \in 1..(m + k) /\ ~ (m + p <= m) /\ (m + p) - m = p
    OBVIOUS
  <2>2. QED
    BY Zenon, <2>1, <1>7
<1>11. QED
  BY Zenon, <1>1, <1>6, <1>8, <1>9, <1>10 DEF c, Holds

(* The part of a sequence from one place to another.                        *)
LEMMA PartOf ==
    ASSUME NEW S, NEW m \in Nat, NEW k \in Nat, NEW b \in [1..k -> S],
           NEW buffer, Holds(buffer, m, k, b)
    PROVE  SubSeq(buffer, m + 1, m + k) = b
<1> DEFINE s == SubSeq(buffer, m + 1, m + k)
           lo == m + 1
           hi == m + k
<1>1. lo \in Int /\ hi \in Int /\ \A p \in lo..hi : p - m \in 1..k /\ m + (p - m) = p
  OBVIOUS
<1> HIDE DEF lo, hi
<1>2. \A p \in lo..hi : buffer[p] \in S
  <2> TAKE p \in lo..hi
  <2>1. p - m \in 1..k /\ m + (p - m) = p
    BY Zenon, <1>1
  <2>2. buffer[m + (p - m)] = b[p - m]
    BY Zenon, <2>1 DEF Holds
  <2>3. QED
    BY Zenon, <2>1, <2>2
<1> DEFINE t == SubSeq(buffer, lo, hi)
<1>3. t \in Seq(S)
  BY Zenon, <1>1, <1>2, SubSeqProperties
<1>4. Len(t) = IF lo <= hi THEN hi - lo + 1 ELSE 0
  BY Zenon, <1>1, <1>2, SubSeqProperties
<1>5. \A p \in 1..(hi - lo + 1) : t[p] = buffer[lo + p - 1]
  <2> SUFFICES ASSUME NEW p \in 1..(hi - lo + 1) PROVE t[p] = buffer[lo + p - 1]
    BY Zenon
  <2>1. QED
    BY SMT, <1>1, <1>2, SubSeqProperties
<1> HIDE DEF t
<1>6. hi - lo + 1 = k /\ (lo <= hi \/ k = 0) /\ \A p \in 1..k : lo + p - 1 = m + p
  BY DEF lo, hi
<1>7. Len(t) = k
  BY Zenon, <1>4, <1>6
<1>8. \A p \in 1..k : t[p] = b[p]
  <2> TAKE p \in 1..k
  <2>1. p \in 1..(hi - lo + 1) /\ lo + p - 1 = m + p
    BY Zenon, <1>6
  <2>2. QED
    BY Zenon, <2>1, <1>5 DEF Holds
<1>9. b \in Seq(S) /\ Len(b) = k
  BY Zenon, Sequence
<1>10. \A p \in 1..Len(t) : t[p] = b[p]
  BY Zenon, <1>7, <1>8
<1>11. Len(t) = Len(b)
  BY Zenon, <1>7, <1>9
<1>12. t = b
  BY Zenon, <1>3, <1>9, <1>10, <1>11, SeqEqual
<1>13. QED
  BY Zenon, <1>12 DEF t, lo, hi

(* Both sequences come out of the buffer that holds them end to end.        *)
LEMMA TakenApart ==
    ASSUME NEW S, NEW m \in Nat, NEW k \in Nat, NEW a \in [1..m -> S], NEW b \in [1..k -> S],
           NEW buffer, buffer = [p \in 1..(m + k) |-> (a \o b)[p]]
    PROVE  SubSeq(buffer, 1, m) = a /\ SubSeq(buffer, m + 1, Len(buffer)) = b
<1> DEFINE c == a \o b
<1>1. /\ Holds(c, 0, m, a) /\ Holds(c, m, k, b)
      /\ \A p \in 1..(m + k) : c[p] \in S
  BY Zenon, EndToEnd
<1> HIDE DEF c
<1>2. buffer = [p \in 1..(m + k) |-> c[p]]
  BY Zenon DEF c
<1>3. Holds(buffer, 0, m, a)
  <2> SUFFICES ASSUME NEW p \in 1..m PROVE buffer[0 + p] = a[p]
    BY Zenon DEF Holds
  <2>1. p \in 1..(m + k) /\ 0 + p = p
    OBVIOUS
  <2>2. QED
    BY Zenon, <2>1, <1>1, <1>2 DEF Holds
<1>4. Holds(buffer, m, k, b)
  <2> SUFFICES ASSUME NEW p \in 1..k PROVE buffer[m + p] = b[p]
    BY Zenon DEF Holds
  <2>1. m + p \in 1..(m + k)
    OBVIOUS
  <2>2. QED
    BY Zenon, <2>1, <1>1, <1>2 DEF Holds
<1>5. Len(buffer) = m + k
  <2> DEFINE all == m + k
  <2>1. all \in Nat
    OBVIOUS
  <2>2. buffer \in [1..all -> S]
    BY Zenon, <1>1, <1>2
  <2> HIDE DEF all
  <2>3. Len(buffer) = all
    BY Zenon, <2>1, <2>2, Sequence
  <2>4. QED
    BY Zenon, <2>3 DEF all
<1>6. SubSeq(buffer, 1, m) = a
  <2>1. 0 \in Nat /\ 0 + 1 = 1 /\ 0 + m = m
    OBVIOUS
  <2>2. SubSeq(buffer, 0 + 1, 0 + m) = a
    BY Zenon, <2>1, <1>3, PartOf
  <2>3. QED
    BY Zenon, <2>1, <2>2
<1>7. SubSeq(buffer, m + 1, m + k) = b
  BY Zenon, <1>4, PartOf
<1>8. QED
  BY Zenon, <1>5, <1>6, <1>7

(* A buffer of ciphertext and difference is taken apart again.              *)
LEMMA WordsCount ==
    ASSUME NEW m \in Nat, NEW a \in [1..m -> Nine]
    PROVE  Len(a) = m
BY Zenon, Sequence

(* The same for a ciphertext and the four words of a difference.            *)
LEMMA BufferApart ==
    ASSUME NEW m \in Nat, NEW a \in [1..m -> Nine], NEW b \in [1..4 -> Nine]
    PROVE  LET buffer == [p \in 1..(m + 4) |-> (a \o b)[p]]
           IN SubSeq(buffer, 1, m) = a /\ SubSeq(buffer, m + 1, Len(buffer)) = b
<1> DEFINE k == 4
           buffer == [p \in 1..(m + k) |-> (a \o b)[p]]
<1>1. k \in Nat
  BY Zenon
<1>2. b \in [1..k -> Nine]
  BY Zenon
<1> HIDE DEF k
<1>3. SUFFICES ASSUME NEW c, c = buffer
               PROVE  SubSeq(c, 1, m) = a /\ SubSeq(c, m + 1, Len(c)) = b
  BY Zenon DEF k
<1>4. SubSeq(c, 1, m) = a
  BY SMT, <1>1, <1>2, <1>3, TakenApart
<1>5. SubSeq(c, m + 1, Len(c)) = b
  BY SMT, <1>1, <1>2, <1>3, TakenApart
<1>6. QED
  BY Zenon, <1>4, <1>5

(* What encode_aont_package makes of a block: a ciphertext that decrypts to *)
(* the block, and a difference from which the hash gives the key back.      *)
LEMMA PackageFacts ==
    ASSUME NEW g \in Geometries, NEW block \in Contents(g.Length), NEW key \in Keys,
           NEW cipher, cipher = speck_ctr(block, key, Nonce)
    PROVE  /\ Len(block) = g.Length
           /\ cipher \in [1..g.Length -> Nine]
           /\ XorKey(key, Hash(cipher)) \in [1..4 -> Nine]
           /\ XorKey(XorKey(key, Hash(cipher)), Hash(cipher)) = key
           /\ speck_ctr(cipher, key, Nonce) = block
<1> DEFINE m == g.Length
<1>1. m \in Nat
  BY Zenon, GeometryFacts
<1>2. block \in [1..m -> Byte]
  BY Zenon, ContentsAssumption
<1>3. key \in [1..4 -> Word] /\ Nonce \in Blocks
  BY Zenon, ContentsAssumption DEF KEY_SIZE
<1>4. Hash(cipher) \in [1..4 -> Word]
  BY Zenon, ContentsAssumption DEF KEY_SIZE
<1> HIDE DEF m
<1>5. block \in [1..m -> Nine]
  BY Zenon, <1>2, BytesAreNine
<1>6. Len(block) = m
  BY Zenon, <1>1, <1>5, WordsCount
<1>7. cipher \in [1..m -> Nine] /\ speck_ctr(cipher, key, Nonce) = block
  <2>1. speck_ctr(block, key, Nonce) \in [1..m -> Nine]
    BY Zenon, <1>1, <1>3, <1>5, CtrIsItsOwnInverse
  <2>2. speck_ctr(speck_ctr(block, key, Nonce), key, Nonce) = block
    BY SMT, <1>1, <1>3, <1>5, CtrIsItsOwnInverse
  <2>3. QED
    BY Zenon, <2>1, <2>2
<1>8. /\ XorKey(key, Hash(cipher)) \in [1..4 -> Nine]
      /\ XorKey(XorKey(key, Hash(cipher)), Hash(cipher)) = key
  BY Zenon, <1>3, <1>4, KeyUndone
<1>9. QED
  BY Zenon, <1>6, <1>7, <1>8 DEF m

(* A block is packaged in the data blocks that were encoded.                *)
Packaged(g, block, key) ==
    /\ data = block
    /\ params.BlockBytes = SliceBytes(g)
    /\ original = Slices(Payload(block, key), g.OriginalCount, SliceBytes(g))

(* decode_aont_package undoes encode_aont_package when the code has given   *)
(* the data blocks back.                                                    *)
LEMMA PackageUndone ==
    ASSUME NEW g \in Geometries, NEW block \in Contents(g.Length), NEW key \in Keys,
           Packaged(g, block, key), dataBlocks = original, DecodePackage
    PROVE  result' = data
<1> DEFINE m == g.Length
           cipher == speck_ctr(block, key, Nonce)
           diff == XorKey(key, Hash(cipher))
           size == SliceBytes(g)
           count == g.OriginalCount
           buffer == Joined(Len(data) + KEY_SIZE)
           first == SubSeq(buffer, 1, Len(data))
           found == SubSeq(buffer, Len(data) + 1, Len(buffer))
<1>1. result' = speck_ctr(first, XorKey(found, Hash(first)), Nonce)
  BY Zenon DEF DecodePackage
<1>2. /\ Len(block) = m /\ cipher \in [1..m -> Nine] /\ diff \in [1..4 -> Nine]
      /\ XorKey(diff, Hash(cipher)) = key /\ speck_ctr(cipher, key, Nonce) = block
  BY Zenon, PackageFacts
<1>3. m \in Nat /\ size \in Nat \ {0} /\ count \in Nat \ {0} /\ count * size = m + 4
  BY Zenon, GeometryFacts
<1>4. Payload(block, key) = cipher \o diff
  BY Zenon DEF Payload
<1>5. data = block /\ dataBlocks = Slices(cipher \o diff, count, size)
  BY Zenon, <1>4 DEF Packaged
<1>6. buffer = [p \in 1..(m + 4) |-> dataBlocks[(p - 1) \div size][(p - 1) % size]]
  BY Zenon, <1>2, <1>5 DEF Packaged, Joined, KEY_SIZE
<1> HIDE DEF m, cipher, diff, size, count
<1>7. ASSUME NEW p \in 1..(m + 4)
      PROVE  dataBlocks[(p - 1) \div size][(p - 1) % size] = (cipher \o diff)[p]
  <2>1. p \in 1..(count * size)
    BY Zenon, <1>3
  <2>2. Slices(cipher \o diff, count, size)[(p - 1) \div size][(p - 1) % size]
            = (cipher \o diff)[p]
    <3>1. \A payload : Slices(payload, count, size)[(p - 1) \div size][(p - 1) % size]
                         = payload[p]
      BY SMT, <1>3, <2>1, SlicesJoined
    <3>2. QED
      BY Zenon, <3>1
  <2>3. QED
    BY Zenon, <1>5, <2>2
<1>8. buffer = [p \in 1..(m + 4) |-> (cipher \o diff)[p]]
  BY Zenon, <1>6, <1>7
<1> HIDE DEF buffer
<1>9. SubSeq(buffer, 1, m) = cipher /\ SubSeq(buffer, m + 1, Len(buffer)) = diff
  <2> DEFINE whole == [p \in 1..(m + 4) |-> (cipher \o diff)[p]]
  <2>1. SubSeq(whole, 1, m) = cipher /\ SubSeq(whole, m + 1, Len(whole)) = diff
    BY SMT, <1>2, <1>3, BufferApart
  <2>2. QED
    BY Zenon, <1>8, <2>1
<1>10. first = cipher /\ found = diff
  BY Zenon, <1>2, <1>5, <1>9
<1> HIDE DEF first, found
<1>11. QED
  BY Zenon, <1>1, <1>2, <1>5, <1>10

-----------------------------------------------------------------------------
(* The block in the data blocks, the data blocks as long as none is lost,   *)
(* and the block read back then.                                            *)
PackageInv ==
    /\ aontpc = "coding" =>
          \E g \in Geometries : \E block \in Contents(g.Length), key \in Keys :
              Packaged(g, block, key)
    /\ (rspc \in {"encode", "stored"} \/ erasures = <<>>) => dataBlocks = original
    /\ rspc \in {"m1", "originals", "lower", "upper"} => erasures # <<>>

(* A block of which nothing was lost comes back as it was stored.           *)
IntactRoundTrip == (aontpc = "decoded" /\ erasures = <<>>) => result = data

(* No row is erased when the list of erasures is empty.                     *)
LEMMA NothingErased ==
    ASSUME erasures = <<>>
    PROVE  Initialize.RecoveryCount = 0
<1> DEFINE erased == { r \in Rows : \E e \in DOMAIN erasures : erasures[e] = r }
<1>1. erased = {}
  <2>1. DOMAIN erasures = {}
    OBVIOUS
  <2>2. QED
    BY Zenon, <2>1
<1>2. Initialize.RecoveryCount = Size(Ascend(erased))
  BY Zenon DEF Initialize
<1>3. DOMAIN Ascend({}) = 0..(Cardinality({}) - 1)
  BY Zenon DEF Ascend
<1>4. Cardinality({}) = 0
  BY Zenon, FS_EmptySet
<1>5. 0..(0 - 1) = {}
  OBVIOUS
<1>6. Size(Ascend({})) = 0
  BY Zenon, <1>3, <1>4, <1>5 DEF Size
<1>7. QED
  BY Zenon, <1>1, <1>2, <1>6

(* The data blocks are a function.                                          *)
LEMMA SlicesFunction ==
    ASSUME NEW payload, NEW count, NEW size
    PROVE  LET s == Slices(payload, count, size) IN s = [b \in DOMAIN s |-> s[b]]
BY Zenon, TableIs DEF Slices

-----------------------------------------------------------------------------
(* The package through encoding, loss and decoding.                         *)

(* One step of the code keeps the package invariant.                        *)
LEMMA CodeKeeps ==
    ASSUME PackageInv, Code
    PROVE  PackageInv'
<1> USE DEF PackageInv
<1>1. PICK g \in Geometries : \E block \in Contents(g.Length), key \in Keys :
          Packaged(g, block, key)
  BY Zenon DEF Code
<1>2. PICK block \in Contents(g.Length), key \in Keys : Packaged(g, block, key)
  BY Zenon, <1>1
<1>3. /\ aontpc = "coding" /\ aontpc' = aontpc /\ data' = data
      /\ CauchyNext
  BY Zenon DEF Code
<1>4. params' = params /\ original' = original
  BY Zenon, <1>3 DEF CauchyNext, EncodeBlock, Encoded, Lose, CauchyDecode, StartDecode, DecodeM1,
     EliminateOriginal, Factor, EliminateLower, EliminateDiagonal, EliminateUpper, CopyBack
<1>5. \E g1 \in Geometries : \E b1 \in Contents(g1.Length), k1 \in Keys : Packaged(g1, b1, k1)'
  <2>1. Packaged(g, block, key)'
    BY Zenon, <1>2, <1>3, <1>4 DEF Packaged
  <2>2. QED
    BY Zenon, <2>1
<1> DEFINE Intact == (rspc \in {"encode", "stored"} \/ erasures = <<>>) => dataBlocks = original
           Lossy == rspc \in {"m1", "originals", "lower", "upper"} => erasures # <<>>
<1>6. Intact' /\ Lossy'
  <2>1. CASE EncodeBlock
    BY Zenon, <2>1 DEF EncodeBlock
  <2>2. CASE Encoded
    <3>1. "stored" \notin {"m1", "originals", "lower", "upper"}
      BY Zenon
    <3>2. QED
      BY Zenon, <2>2, <3>1 DEF Encoded
  <2>3. CASE Lose
    <3>1. "lost" \notin {"m1", "originals", "lower", "upper", "encode", "stored"} /\ DOMAIN <<>> = {}
      OBVIOUS
    <3>2. PICK list \in LossLists, garbage \in Garbage :
             /\ erasures' = list
             /\ dataBlocks' = [b \in DOMAIN dataBlocks |->
                   IF \E e \in DOMAIN list : list[e] = b
                   THEN [p \in 0..(params.BlockBytes - 1) |-> garbage] ELSE dataBlocks[b]]
      BY Zenon, <2>3 DEF Lose
    <3>3. rspc' = "lost" /\ dataBlocks = original
      BY Zenon, <2>3 DEF Lose
    <3>4. dataBlocks = [b \in DOMAIN dataBlocks |-> dataBlocks[b]]
      <4> DEFINE s == Slices(Payload(block, key), g.OriginalCount, SliceBytes(g))
      <4>1. s = [b \in DOMAIN s |-> s[b]]
        BY Zenon, SlicesFunction
      <4>2. dataBlocks = s
        BY Zenon, <1>2, <3>3 DEF Packaged
      <4> HIDE DEF s
      <4>3. QED
        BY Zenon, <4>1, <4>2
    <3>5. erasures' = <<>> => dataBlocks' = dataBlocks
      BY Zenon, <3>1, <3>2, <3>4
    <3>6. QED
      BY Zenon, <1>4, <3>1, <3>3, <3>5
  <2>4. CASE StartDecode
    <3>1. /\ "lost" \notin {"encode", "stored"} /\ "done" \notin {"m1", "originals", "lower", "upper"}
          /\ "done" \notin {"encode", "stored"}
          /\ "m1" \notin {"encode", "stored"} /\ "originals" \notin {"encode", "stored"}
          /\ 0 <= 0 /\ ~ (0 > 0)
      OBVIOUS
    <3>2. /\ rspc' = CASE Initialize.RecoveryCount <= 0 -> "done"
                       [] Initialize.RecoveryCount > 0 /\ params.RecoveryCount = 1 -> "m1"
                       [] OTHER -> "originals"
          /\ erasures' = erasures /\ dataBlocks' = dataBlocks
      BY Zenon, <2>4 DEF StartDecode
    <3>3. CASE erasures = <<>>
      <4>1. Initialize.RecoveryCount = 0
        BY Zenon, <3>3, NothingErased
      <4>2. rspc' = "done"
        BY <3>2, <4>1
      <4>3. QED
        BY Zenon, <1>4, <3>1, <3>2, <3>3, <4>2
    <3>4. CASE erasures # <<>>
      <4>1. rspc' \notin {"encode", "stored"}
        <5> DEFINE c == Initialize.RecoveryCount
        <5> HIDE DEF c
        <5>1. rspc' = CASE c <= 0 -> "done"
                       [] c > 0 /\ params.RecoveryCount = 1 -> "m1"
                       [] OTHER -> "originals"
          BY Zenon, <3>2 DEF c
        <5>2. rspc' \in {"done", "m1", "originals"}
          BY Zenon, <5>1
        <5>3. QED
          BY Zenon, <5>2
      <4>2. QED
        BY Zenon, <3>2, <3>4, <4>1
    <3>5. QED
      BY Zenon, <3>3, <3>4
  <2>5. CASE DecodeM1
    <3>1. "m1" \in {"m1", "originals", "lower", "upper"}
          /\ "done" \notin {"m1", "originals", "lower", "upper", "encode", "stored"}
      BY Zenon
    <3>2. QED
      BY Zenon, <2>5, <3>1 DEF DecodeM1
  <2>6. CASE EliminateOriginal \/ EliminateLower \/ EliminateUpper
    <3>1. erasures # <<>> /\ erasures' = erasures /\ rspc' = rspc
          /\ rspc \in {"originals", "lower", "upper"}
      BY Zenon, <2>6 DEF EliminateOriginal, EliminateLower, EliminateUpper
    <3>2. rspc \notin {"encode", "stored"}
      BY Zenon, <3>1
    <3>3. QED
      BY Zenon, <3>1, <3>2
  <2>7. CASE Factor \/ EliminateDiagonal
    <3>1. erasures # <<>> /\ erasures' = erasures /\ rspc' \in {"lower", "upper"}
      BY Zenon, <2>7 DEF Factor, EliminateDiagonal
    <3>2. rspc' \notin {"encode", "stored"}
      BY Zenon, <3>1
    <3>3. QED
      BY Zenon, <3>1, <3>2
  <2>8. CASE CopyBack
    <3>1. erasures # <<>> /\ erasures' = erasures /\ rspc' = "done"
      BY Zenon, <2>8 DEF CopyBack
    <3>2. "done" \notin {"encode", "stored"}
      BY Zenon
    <3>3. QED
      BY Zenon, <3>1, <3>2
  <2>9. QED
    BY Zenon, <1>3, <2>1, <2>2, <2>3, <2>4, <2>5, <2>6, <2>7, <2>8 DEF CauchyNext, CauchyDecode
<1>7. QED
  BY Zenon, <1>5, <1>6

(* The other steps: encode_aont_package sets the block up, and a step that  *)
(* leaves the code alone leaves the invariant alone.                        *)
LEMMA EncodeKeeps ==
    ASSUME PackageInv, EncodePackage
    PROVE  PackageInv'
<1>1. PICK g \in Geometries : \E b \in Contents(g.Length), k \in Keys :
          /\ data' = b
          /\ params' = [OriginalCount |-> g.OriginalCount, RecoveryCount |-> g.RecoveryCount,
                        BlockBytes |-> (g.Length + KEY_SIZE) \div g.OriginalCount, cpu |-> g.cpu]
          /\ dataBlocks' = Slices(Payload(b, k), g.OriginalCount,
                                  (g.Length + KEY_SIZE) \div g.OriginalCount)
          /\ original' = dataBlocks'
  BY Zenon DEF EncodePackage
<1>2. PICK b \in Contents(g.Length), k \in Keys :
          /\ data' = b
          /\ params' = [OriginalCount |-> g.OriginalCount, RecoveryCount |-> g.RecoveryCount,
                        BlockBytes |-> SliceBytes(g), cpu |-> g.cpu]
          /\ dataBlocks' = Slices(Payload(b, k), g.OriginalCount, SliceBytes(g))
          /\ original' = dataBlocks'
  BY Zenon, <1>1 DEF SliceBytes
<1>3. params'.BlockBytes = SliceBytes(g)
  BY Zenon, <1>2
<1>4. Packaged(g, b, k)'
  BY Zenon, <1>2, <1>3 DEF Packaged
<1>5. \E g1 \in Geometries : \E b1 \in Contents(g1.Length), k1 \in Keys : Packaged(g1, b1, k1)'
  BY Zenon, <1>4
<1>6. rspc' = "encode"
  BY Zenon DEF EncodePackage
<1>7. "encode" \notin {"m1", "originals", "lower", "upper"}
  BY Zenon
<1>8. QED
  BY Zenon, <1>2, <1>5, <1>6, <1>7 DEF PackageInv

(* A step that leaves the code alone leaves the invariant alone.            *)
LEMMA RestKeeps ==
    ASSUME PackageInv, UNCHANGED rsVars, data' = data,
           aontpc' = aontpc \/ aontpc' \in {"ready", "decoded"}
    PROVE  PackageInv'
<1>1. /\ rspc' = rspc /\ params' = params /\ dataBlocks' = dataBlocks /\ erasures' = erasures
      /\ original' = original
  BY Zenon DEF rsVars
<1>2. "ready" # "coding" /\ "decoded" # "coding"
  BY Zenon
<1>3. aontpc' = "coding" => aontpc = "coding"
  BY Zenon, <1>2
<1>4. ASSUME NEW g, NEW b, NEW k, Packaged(g, b, k)
      PROVE  Packaged(g, b, k)'
  BY Zenon, <1>1, <1>4 DEF Packaged
<1>5. QED
  BY Zenon, <1>1, <1>3, <1>4 DEF PackageInv

(* The decryption round undoes the encryption round in the cases the run    *)
(* goes through, for every width of the word.                               *)
THEOREM RoundsAlwaysUndone == Spec => []RoundsUndone
<1>1. RoundsUndone
  <2> SUFFICES ASSUME row \in Word, NEW right \in {0, 1, row, Modulus - 1},
                      NEW key \in {0, 3, row, Modulus - 1}
               PROVE  dec_round(enc_round([left |-> row, right |-> right], key), key)
                        = [left |-> row, right |-> right]
    BY Zenon DEF RoundsUndone
  <2>1. Modulus \in Nat /\ Modulus >= 2 /\ Modulus - 1 \in Nat
    BY ModulusValues
  <2>2. right \in Word
    BY <2>1 DEF Word
  <2>3. key \in Nine
    <3>1. row \in Nine
      BY Zenon, WordIsNine
    <3>2. Modulus - 1 \in Word
      BY <2>1 DEF Word
    <3>3. Modulus - 1 \in Nine
      BY Zenon, <3>2, WordIsNine
    <3>4. 0 \in Nine /\ 3 \in Nine
      BY DEF Nine
    <3>5. QED
      BY Zenon, <3>1, <3>3, <3>4
  <2>4. [left |-> row, right |-> right] \in Blocks
    BY Zenon, <2>2 DEF Blocks
  <2>5. QED
    BY Zenon, <2>3, <2>4, RoundUndone
<1>2. QED
  BY <1>1, PTL

(* The invariants hold when the module is loaded.                           *)
LEMMA PackageInit == Init => PackageInv /\ IntactRoundTrip /\ RoundTrip
<1> SUFFICES ASSUME Init PROVE PackageInv /\ IntactRoundTrip /\ RoundTrip
  BY Zenon
<1>1. /\ aontpc = "tables" /\ rspc = "idle" /\ dataBlocks = <<>> /\ original = <<>>
      /\ erasures = <<>>
  BY Zenon DEF Init, AontInit
<1>2. /\ "tables" # "coding" /\ "tables" # "decoded"
      /\ "idle" \notin {"m1", "originals", "lower", "upper"}
  BY Zenon
<1>3. QED
  BY Zenon, <1>1, <1>2 DEF PackageInv, IntactRoundTrip, RoundTrip

(* Every step keeps the package invariant.                                  *)
LEMMA PackageKept == PackageInv /\ [Next]_vars => PackageInv'
<1> SUFFICES ASSUME PackageInv, [Next]_vars PROVE PackageInv'
  BY Zenon
<1>1. CASE UNCHANGED aontVars
  BY Zenon, <1>1, RestKeeps DEF aontVars
<1>2. CASE TableRow
  BY Zenon, <1>2, RestKeeps DEF TableRow
<1>3. CASE TablesReady
  BY Zenon, <1>3, RestKeeps DEF TablesReady
<1>4. CASE EncodePackage
  BY Zenon, <1>4, EncodeKeeps
<1>5. CASE Code
  BY Zenon, <1>5, CodeKeeps
<1>6. CASE DecodePackage
  BY Zenon, <1>6, RestKeeps DEF DecodePackage
<1>7. QED
  BY Zenon, <1>1, <1>2, <1>3, <1>4, <1>5, <1>6
     DEF Next, vars, StepShamir, StepAont, AontNext

(* A step that ends with a decoded package is decode_aont_package or leaves *)
(* everything alone.                                                        *)
LEMMA DecodedBy ==
    ASSUME [Next]_vars, aontpc' = "decoded"
    PROVE  \/ DecodePackage
           \/ /\ aontpc = "decoded" /\ result' = result /\ data' = data
              /\ erasures' = erasures /\ params' = params
<1>1. "decoded" # "tables" /\ "decoded" # "ready" /\ "decoded" # "coding"
  BY Zenon
<1>2. CASE UNCHANGED aontVars
  BY Zenon, <1>2 DEF aontVars, rsVars
<1>3. ~ TableRow /\ ~ TablesReady /\ ~ EncodePackage /\ ~ Code
  BY Zenon, <1>1 DEF TableRow, TablesReady, EncodePackage, Code
<1>4. QED
  BY Zenon, <1>2, <1>3 DEF Next, vars, StepShamir, StepAont, AontNext

(* decode_aont_package finds the block when the data blocks are what they   *)
(* were.                                                                    *)
LEMMA DecodeFinds ==
    ASSUME PackageInv, DecodePackage, dataBlocks = original
    PROVE  result' = data'
<1>1. aontpc = "coding" /\ data' = data
  BY Zenon DEF DecodePackage
<1>2. PICK g \in Geometries : \E block \in Contents(g.Length), key \in Keys :
          Packaged(g, block, key)
  BY Zenon, <1>1 DEF PackageInv
<1>3. PICK block \in Contents(g.Length), key \in Keys : Packaged(g, block, key)
  BY Zenon, <1>2
<1>4. result' = data
  BY Zenon, <1>3, PackageUndone
<1>5. QED
  BY Zenon, <1>1, <1>4

(* Without a loss the block comes back, whatever tables and matrices hold.  *)
THEOREM IntactAlwaysReadBack == Spec => []IntactRoundTrip
<1>1. Init => PackageInv /\ IntactRoundTrip
  BY Zenon, PackageInit
<1>2. PackageInv /\ IntactRoundTrip /\ [Next]_vars => PackageInv' /\ IntactRoundTrip'
  <2> SUFFICES ASSUME PackageInv, IntactRoundTrip, [Next]_vars
               PROVE  PackageInv' /\ IntactRoundTrip'
    BY Zenon
  <2>1. PackageInv'
    BY Zenon, PackageKept
  <2>2. ASSUME aontpc' = "decoded", erasures' = <<>>
        PROVE  result' = data'
    <3>1. CASE DecodePackage
      <4>1. erasures' = erasures
        BY Zenon, <3>1 DEF DecodePackage, rsVars
      <4>2. dataBlocks = original
        BY Zenon, <2>2, <4>1 DEF PackageInv
      <4>3. QED
        BY Zenon, <3>1, <4>2, DecodeFinds
    <3>2. CASE /\ aontpc = "decoded" /\ result' = result /\ data' = data
               /\ erasures' = erasures /\ params' = params
      BY Zenon, <2>2, <3>2 DEF IntactRoundTrip
    <3>3. QED
      BY Zenon, <2>2, <3>1, <3>2, DecodedBy
  <2>3. QED
    BY Zenon, <2>1, <2>2 DEF IntactRoundTrip
<1>3. QED
  BY <1>1, <1>2, PTL DEF Spec

(* With losses: the package comes back whenever the code recovers its data  *)
(* blocks.                                                                  *)
THEOREM PackageRoundTrip == Spec /\ []Recovered => []RoundTrip
<1>1. Init => PackageInv /\ RoundTrip
  BY Zenon, PackageInit
<1>2. PackageInv /\ RoundTrip /\ Recovered /\ [Next]_vars => PackageInv' /\ RoundTrip'
  <2> SUFFICES ASSUME PackageInv, RoundTrip, Recovered, [Next]_vars
               PROVE  PackageInv' /\ RoundTrip'
    BY Zenon
  <2>1. PackageInv'
    BY Zenon, PackageKept
  <2>2. ASSUME aontpc' = "decoded", (params.RecoveryCount > 1)' \/ erasures' = <<>>
        PROVE  result' = data'
    <3>1. CASE DecodePackage
      <4>1. erasures' = erasures /\ params' = params /\ rspc = "done"
        BY Zenon, <3>1 DEF DecodePackage, rsVars
      <4>2. dataBlocks = original
        <5>1. CASE erasures = <<>>
          BY Zenon, <5>1 DEF PackageInv
        <5>2. CASE params.RecoveryCount > 1
          BY Zenon, <4>1, <5>2 DEF Recovered
        <5>3. QED
          BY Zenon, <2>2, <4>1, <5>1, <5>2
      <4>3. QED
        BY Zenon, <3>1, <4>2, DecodeFinds
    <3>2. CASE /\ aontpc = "decoded" /\ result' = result /\ data' = data
               /\ erasures' = erasures /\ params' = params
      BY Zenon, <2>2, <3>2 DEF RoundTrip
    <3>3. QED
      BY Zenon, <2>2, <3>1, <3>2, DecodedBy
  <2>3. QED
    BY Zenon, <2>1, <2>2 DEF RoundTrip
<1>3. QED
  BY <1>1, <1>2, PTL DEF Spec
=============================================================================
