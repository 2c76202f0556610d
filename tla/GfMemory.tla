------------------------------ MODULE GfMemory ------------------------------
(***************************************************************************)
(* How the bulk operations of cauchy_rs.c (gf_add_mem and its relatives)    *)
(* walk over a buffer: wide chunks first, as wide as the processor allows,  *)
(* then narrower ones, then a tail of at most 15 bytes in up to three       *)
(* pieces.  A walk is a record: how many bytes the loops have done, how     *)
(* many are left, how many of the done ones went through the 4-bit vector   *)
(* tables, and the three pieces of the tail with the offset each is         *)
(* applied at.  What is done to a byte is the business of CauchyRs.         *)
(***************************************************************************)
EXTENDS Integers

(* What gf_architecture_init may find in the processor, and what a build    *)
(* without the AVX2 code uses: AVX2 implies SSSE3.                          *)
Cpus == {"avx2", "ssse3", "none"}
CpuHasAVX2(cpu) == cpu = "avx2"
CpuHasSSSE3(cpu) == cpu \in {"avx2", "ssse3"}

Start(bytes) == [done |-> 0, bytes |-> bytes, vector |-> 0]

(* while (bytes >= width) { ...; bytes -= width; }                          *)
Loop(w, width) ==
    [w EXCEPT !.done = w.done + width * (w.bytes \div width),
              !.bytes = w.bytes % width]

(* The same loop over the vector tables.                                    *)
VectorLoop(w, width) ==
    LET after == Loop(w, width) IN [after EXCEPT !.vector = after.done]

(* if (bytes >= width) { ...; bytes -= width; }, over the vector tables.    *)
VectorOnce(w, width) ==
    IF w.bytes >= width
    THEN [done |-> w.done + width, bytes |-> w.bytes - width, vector |-> w.done + width]
    ELSE w

(* The tail of the adding operations: eight = bytes & 8, four = bytes & 4   *)
(* at eight, and bytes & 3 single bytes at eight + four.                    *)
Tail8Short(w) ==    \* mutant: the single bytes put on top of the four
    LET eight == 8 * ((w.bytes \div 8) % 2)
        four == 4 * ((w.bytes \div 4) % 2)
    IN [done |-> w.done, vector |-> w.vector, eight |-> eight, four |-> four,
        rest |-> w.bytes % 4, fourAt |-> eight, restAt |-> eight]
Tail8(w) ==
    LET eight == 8 * ((w.bytes \div 8) % 2)
        four == 4 * ((w.bytes \div 4) % 2)
    IN [done |-> w.done, vector |-> w.vector, eight |-> eight, four |-> four,
        rest |-> w.bytes % 4, fourAt |-> eight, restAt |-> eight + four]

(* The tail of the multiplying operations, after a loop of 8 bytes.         *)
Tail4(w) ==
    LET four == 4 * ((w.bytes \div 4) % 2)
    IN [done |-> w.done, vector |-> w.vector, eight |-> 0, four |-> four,
        rest |-> w.bytes % 4, fourAt |-> 0, restAt |-> four]

(* gf_add_mem: x ^= y.                                                      *)
AddMemWalk(bytes, cpu) ==
    LET wide == IF CpuHasAVX2(cpu) THEN Loop(Loop(Start(bytes), 128), 32)
                                   ELSE Loop(Start(bytes), 64)
    IN Tail8(Loop(wide, 16))

(* gf_add2_mem: z ^= x ^ y.                                                 *)
Add2MemWalk(bytes, cpu) ==
    LET wide == IF CpuHasAVX2(cpu) THEN Loop(Start(bytes), 32) ELSE Start(bytes)
    IN Tail8(Loop(wide, 16))

(* gf_addset_mem: z = x ^ y.                                                *)
AddsetMemWalk(bytes, cpu) ==
    LET wide == Loop(Start(bytes), IF CpuHasAVX2(cpu) THEN 32 ELSE 64)
    IN Tail8(Loop(wide, 16))

(* gf_mul_mem: z = x * y, for y neither 0 nor 1.                            *)
MulMemWalk(bytes, cpu) ==
    LET avx2 == IF CpuHasAVX2(cpu) THEN VectorLoop(Start(bytes), 32) ELSE Start(bytes)
        ssse3 == IF CpuHasSSSE3(cpu) THEN VectorLoop(avx2, 16) ELSE avx2
    IN Tail4(Loop(ssse3, 8))

(* gf_muladd_mem: z ^= x * y, for y neither 0 nor 1.                        *)
MulAddMemWalk(bytes, cpu) ==
    LET avx2 == IF CpuHasAVX2(cpu)
                THEN VectorOnce(VectorLoop(Start(bytes), 64), 32) ELSE Start(bytes)
        ssse3 == IF CpuHasSSSE3(cpu)
                 THEN VectorLoop(VectorLoop(avx2, 32), 16) ELSE avx2
    IN Tail4(Loop(ssse3, 8))

(* gf_memswap: x <-> y.                                                     *)
MemswapWalk(bytes) == Tail8(Loop(Start(bytes), 16))

(* The bytes a walk touches, counted from the start of the buffer.          *)
Span(from, length) == from..(from + length - 1)
Touched(w) ==
    Span(0, w.done) \union Span(w.done, w.eight)
        \union Span(w.done + w.fourAt, w.four) \union Span(w.done + w.restAt, w.rest)

(* The bytes of which the vector tables give the product.                   *)
ByVector(w) == Span(0, w.vector)

(* Every byte of the buffer once, and none outside it: a byte left out      *)
(* keeps its old value, one met twice is added twice, which undoes it.      *)
WalkExact(w, bytes) ==
    /\ Touched(w) = 0..(bytes - 1)
    /\ w.done + w.eight + w.four + w.rest = bytes
    /\ w.vector <= w.done

Walks(bytes, cpu) ==
    { AddMemWalk(bytes, cpu), Add2MemWalk(bytes, cpu), AddsetMemWalk(bytes, cpu),
      MulMemWalk(bytes, cpu), MulAddMemWalk(bytes, cpu), MemswapWalk(bytes) }
=============================================================================
