------------------------------- MODULE Speck -------------------------------
(***************************************************************************)
(* The block cipher of speck.c and the counter mode the packages use.  The  *)
(* code works on 64-bit words; a word has WordBits bits here, every sum     *)
(* wraps at 2^WordBits and a rotation is taken modulo the width.  A block   *)
(* is two words, [left |-> in[1], right |-> in[0]].                         *)
(***************************************************************************)
EXTENDS ExclusiveOr

CONSTANTS
    WordBits,   \* 64
    Rounds      \* 34

(* The exclusive or of this project reaches nine bits.                      *)
ASSUME WordAssumption == WordBits \in 1..9 /\ Rounds \in Nat \ {0}

Modulus == 2^WordBits
Word == 0..(Modulus - 1)
Blocks == [left : Word, right : Word]

(* rotate: a positive count turns left, a negative one right.               *)
rotate(in, rotation) ==
    LET left == rotation % WordBits
    IN ((in * 2^left) % Modulus) + (in \div 2^(WordBits - left))

(* key_schedule: one round key from the last, with three words l that take  *)
(* turns.                                                                   *)
KeyStep(s, i) ==
    LET turn == i % 3
        new == ((s.key + rotate(s.l[turn], -8)) % Modulus) ^^ (i % Modulus)
    IN [l |-> [s.l EXCEPT ![turn] = new], key |-> rotate(s.key, 3) ^^ new]
key_schedule(key) ==
    LET s[i \in 0..(Rounds - 1)] ==
            IF i = 0 THEN [l |-> [t \in 0..2 |-> key[t + 2]], key |-> key[1]]
            ELSE KeyStep(s[i - 1], i - 1)
    IN Table([i \in 0..(Rounds - 1) |-> s[i].key])

enc_round(in, key) ==
    LET mixed == ((rotate(in.left, -8) + in.right) % Modulus) ^^ key
    IN [left |-> mixed, right |-> rotate(in.right, 3) ^^ mixed]
DecRoundLeft(in, key) ==     \* mutant: the right word turned the way it was turned before
    LET right == rotate(in.left ^^ in.right, 3)
    IN [left |-> rotate(((in.left ^^ key) - right) % Modulus, 8), right |-> right]
dec_round(in, key) ==
    LET right == rotate(in.left ^^ in.right, -3)
    IN [left |-> rotate(((in.left ^^ key) - right) % Modulus, 8), right |-> right]

speck_encrypt(in, key) ==
    LET keys == key_schedule(key)
        out[i \in 0..Rounds] == IF i = 0 THEN in ELSE enc_round(out[i - 1], keys[i - 1])
    IN out[Rounds]

(* speck_decrypt, which nobody calls: it takes the round keys in the order  *)
(* of encryption.                                                           *)
speck_decrypt(in, key) ==
    LET keys == key_schedule(key)
        out[i \in 0..Rounds] == IF i = 0 THEN in ELSE dec_round(out[i - 1], keys[i - 1])
    IN out[Rounds]

(* The nonce after n calls of add1, which takes its two words as one        *)
(* little-endian counter.                                                   *)
Counter(nonce, n) ==
    [left |-> (nonce.left + ((nonce.right + n) \div Modulus)) % Modulus,
     right |-> (nonce.right + n) % Modulus]

(* speck_ctr on a sequence of words: each turn of the loop encrypts the     *)
(* counter and takes two words, and runs while any is left, so that an odd  *)
(* length is rounded up.                                                    *)
speck_ctr(in, key, nonce) ==
    LET pads == Table([n \in 0..((Len(in) - 1) \div 2) |-> speck_encrypt(Counter(nonce, n), key)])
    IN Table([i \in 1..Len(in) |->
          in[i] ^^ (LET pad == pads[(i - 1) \div 2]
                    IN IF i % 2 = 1 THEN pad.right ELSE pad.left)])
=============================================================================
