------------------------------ MODULE MCCodec ------------------------------
EXTENDS AfsCodec

(* Up to five data and four parity blocks of a few bytes, and the engine's  *)
(* two and two with blocks long enough for every chunk width of the walks.  *)
Geometry(k, m, size, c) ==
    [OriginalCount |-> k, RecoveryCount |-> m, Length |-> (k * size) - 4, cpu |-> c]
MCGeometries ==
    { Geometry(k, m, 5, "none") : k \in 1..3, m \in 1..3 }
    \union { Geometry(4, m, 2, "ssse3") : m \in 1..4 }
    \union { Geometry(5, 3, 2, "avx2") }
    \union { Geometry(2, 2, size, c) : size \in {31, 87}, c \in {"none", "ssse3", "avx2"} }

MCContents(length) == { [p \in 1..length |-> ((p * 37) + 11) % 256],
                        [p \in 1..length |-> (p * 101) % 256] }
MCKeys == { <<1, 2, 3, 4>>, <<255, 0, 128, 77>> }

(* One below a carry from the low word of the counter.                      *)
MCNonce == [left |-> 9, right |-> 254]

(* Any function of the ciphertext does for the hash.                        *)
MCHash(cipher) ==
    [w \in 1..4 |-> ((cipher[1] + cipher[Len(cipher)]) + (w * Len(cipher))) % 256]

MCShareLists == { <<48, 49, 50, 51>>, <<1, 255, 7>>, <<3, 0, 9>> }
MCSecrets == { <<0, 200>>, <<91, 1>> }
=============================================================================
