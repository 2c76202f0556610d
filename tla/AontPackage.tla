---------------------------- MODULE AontPackage ----------------------------
(***************************************************************************)
(* The all-or-nothing package of aont.c around the Reed-Solomon code: a     *)
(* block is encrypted under a random key, the key is hidden in the          *)
(* difference of key and hash of the ciphertext, and ciphertext and         *)
(* difference are cut into the data blocks of the code.  Decoding goes the  *)
(* other way.  A machine word of the cipher is a byte here, so the key has  *)
(* four bytes and the nonce two.                                            *)
(***************************************************************************)
EXTENDS CauchyRs, Speck

CONSTANTS
    Geometries,     \* data blocks, parity blocks, data length, processor
    Contents(_),    \* the data of a given length a caller may store
    Keys,           \* keys get_random_bytes may produce
    Nonce,          \* the nonce of the map entry
    Hash(_)         \* sha3_256

KEY_SIZE == 4

(* The data blocks hold ciphertext and difference without a remainder, as   *)
(* the 4096 + 32 bytes of the engine in its two data blocks.                *)
ASSUME GeometryAssumption ==
    /\ Geometries \subseteq [OriginalCount : Nat \ {0}, RecoveryCount : Nat \ {0},
                            Length : Nat, cpu : Cpus]
    /\ \A g \in Geometries : (g.Length + KEY_SIZE) % g.OriginalCount = 0

(* Data are bytes; keys and hashes are words of the cipher.                 *)
ASSUME ContentsAssumption ==
    /\ \A g \in Geometries : Contents(g.Length) \subseteq [1..g.Length -> Byte]
    /\ Keys \subseteq [1..KEY_SIZE -> Word]
    /\ Nonce \in Blocks
    /\ \A g \in Geometries : \A block \in Contents(g.Length), key \in Keys :
          Hash(speck_ctr(block, key, Nonce)) \in [1..KEY_SIZE -> Word]

VARIABLES
    aontpc,         \* where the caller is
    row,            \* the row of the tables gf_mul_mem_init has come to
    data,           \* the block to store
    result,         \* the block read back
    difference      \* the key difference in the map entry
aontVars == <<rsVars, aontpc, row, data, result, difference>>

XorKey(a, b) == [w \in 1..KEY_SIZE |-> a[w] ^^ b[w]]

NoParams == [OriginalCount |-> 0, RecoveryCount |-> 0, BlockBytes |-> 0, cpu |-> "none"]
NoDecoder ==
    [RecoveryCount |-> 0, Recovery |-> <<>>, ErasuresIndices |-> <<>>, Original |-> <<>>]

AontInit ==
    /\ aontpc = "tables"
    /\ row = 0
    /\ data = <<>>
    /\ result = <<>>
    /\ difference = <<>>
    /\ rspc = "idle"
    /\ params = NoParams
    /\ dataBlocks = <<>>
    /\ parityBlocks = <<>>
    /\ erasures = <<>>
    /\ decoder = NoDecoder
    /\ factors = <<>>
    /\ j = 0
    /\ at = 0
    /\ original = <<>>

(* cauchy_init when the module is loaded: the tables row by row.            *)
TableRow ==
    /\ aontpc = "tables"
    /\ row < 255
    /\ row' = row + 1
    /\ UNCHANGED <<rsVars, aontpc, data, result, difference>>
TablesReady ==
    /\ aontpc = "tables"
    /\ row = 255
    /\ aontpc' = "ready"
    /\ UNCHANGED <<rsVars, row, data, result, difference>>

(* encode_aont_package.  The blocks have the length of ciphertext and       *)
(* difference divided by their number.                                      *)
PayloadOfPlain(block, key) ==    \* mutant: the hash of the plaintext
    LET cipher == speck_ctr(block, key, Nonce)
    IN cipher \o XorKey(key, Hash(block))
Payload(block, key) ==
    LET cipher == speck_ctr(block, key, Nonce)
    IN cipher \o XorKey(key, Hash(cipher))
Slices(payload, count, size) ==
    Table([b \in 0..(count - 1) |->
        Table([p \in 0..(size - 1) |-> payload[((size * b) + p) + 1]])])
EncodePackage ==
    /\ aontpc = "ready"
    /\ \E g \in Geometries : \E block \in Contents(g.Length), key \in Keys :
          LET payload == Payload(block, key)
              rs_block_size == (g.Length + KEY_SIZE) \div g.OriginalCount
              blank == [p \in 0..(rs_block_size - 1) |-> 0]
          IN /\ data' = block
             /\ difference' = SubSeq(payload, Len(block) + 1, Len(payload))
             /\ params' = [OriginalCount |-> g.OriginalCount, RecoveryCount |-> g.RecoveryCount,
                           BlockBytes |-> rs_block_size, cpu |-> g.cpu]
             /\ dataBlocks' = Slices(payload, g.OriginalCount, rs_block_size)
             /\ original' = dataBlocks'
             /\ parityBlocks' = [b \in 0..(g.RecoveryCount - 1) |-> blank]
    /\ aontpc' = "coding"
    /\ rspc' = "encode"
    /\ UNCHANGED <<row, result, erasures, decoder, factors, j, at>>

Code ==
    /\ aontpc = "coding"
    /\ CauchyNext
    /\ UNCHANGED <<aontpc, row, data, result, difference>>

(* decode_aont_package, after cauchy_rs_decode: the data blocks end to end. *)
Joined(length) ==
    [p \in 1..length |->
        dataBlocks[(p - 1) \div params.BlockBytes][(p - 1) % params.BlockBytes]]
DecodePackage ==
    /\ aontpc = "coding"
    /\ rspc = "done"
    /\ LET buffer == Joined(Len(data) + KEY_SIZE)
           cipher == SubSeq(buffer, 1, Len(data))
           found == SubSeq(buffer, Len(data) + 1, Len(buffer))
       IN /\ difference' = found
          /\ result' = speck_ctr(cipher, XorKey(found, Hash(cipher)), Nonce)
    /\ aontpc' = "decoded"
    /\ UNCHANGED <<rsVars, row, data>>

AontNext == TableRow \/ TablesReady \/ EncodePackage \/ Code \/ DecodePackage

-----------------------------------------------------------------------------
(* The tables agree with the arithmetic of polynomials in every row.        *)
TablesRight == aontpc = "tables" => FieldAt(row)

(* dec_round undoes enc_round, for every left word and a choice of right    *)
(* words and round keys.                                                    *)
RoundsUndone ==
    (aontpc = "tables" /\ row \in Word) =>
        \A right \in {0, 1, row, Modulus - 1}, key \in {0, 3, row, Modulus - 1} :
            LET in == [left |-> row, right |-> right]
            IN dec_round(enc_round(in, key), key) = in

(* A block comes back as it was stored, whichever data blocks were lost,    *)
(* with two parity blocks or more, or with nothing lost.                    *)
RoundTrip ==
    (aontpc = "decoded" /\ (params.RecoveryCount > 1 \/ erasures = <<>>)) => result = data
=============================================================================
