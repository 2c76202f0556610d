------------------------------- MODULE Shamir -------------------------------
(***************************************************************************)
(* Shamir's secret sharing as libgfshare.c does it: a context split into    *)
(* shares by Horner's rule, and recombined by Lagrange interpolation at 0   *)
(* from the shares whose numbers are not zero.  All bytes of a block are    *)
(* treated alike.                                                           *)
(***************************************************************************)
EXTENDS GaloisField, FiniteSets

CONSTANTS
    ShareLists,     \* lists of share numbers a caller may pass
    Thresholds,     \* thresholds a caller may pass
    Secrets,        \* blocks to share
    Coefficients    \* bytes gfshare_fill_rand may produce

VARIABLES
    shpc,           \* where the caller is
    ctx,            \* the context: share numbers, threshold, buffer
    secret,         \* the block that was shared
    shares,         \* the shares
    i,              \* share number of the decoder's loop, from 1
    n,              \* shares the decoder has used
    secretbuf       \* what the decoder has put together
shVars == <<shpc, ctx, secret, shares, i, n, secretbuf>>

-----------------------------------------------------------------------------
(* The tables exps and logs: powers of 2 modulo 0x11d, twice over, and      *)
(* their logarithms below 255, with 0 for the logarithm of 0.               *)
SharePowers == PowersOf2(285)
exps == LET power == SharePowers IN Table([k \in 0..509 |-> power[k % 255]])
logs == LET power == exps
        IN Table([x \in Byte |-> IF x = 0 THEN 0 ELSE CHOOSE k \in 0..254 : power[k] = x])

NoContext == [sharenrs |-> <<>>, threshold |-> 0, buffer |-> <<>>]
sharecount == Len(ctx.sharenrs)

ShamirInit ==
    /\ shpc = "idle"
    /\ ctx = NoContext
    /\ secret = <<>>
    /\ shares = <<>>
    /\ i = 0
    /\ n = 0
    /\ secretbuf = <<>>

(* gfshare_ctx_init_enc, which refuses a share number of 0, and             *)
(* _gfshare_ctx_init_core, which refuses a threshold out of range.          *)
Refused(sharenrs, threshold) ==
    \/ \E k \in DOMAIN sharenrs : sharenrs[k] = 0
    \/ threshold < 1
    \/ threshold > Len(sharenrs)
InitEnc ==
    /\ shpc = "idle"
    /\ \E sharenrs \in ShareLists, threshold \in Thresholds :
          IF Refused(sharenrs, threshold)
          THEN shpc' = "refused" /\ UNCHANGED ctx
          ELSE /\ shpc' = "context"
               /\ ctx' = [sharenrs |-> sharenrs, threshold |-> threshold, buffer |-> <<>>]
    /\ UNCHANGED <<secret, shares, i, n, secretbuf>>

(* gfshare_ctx_enc_getshares: the secret becomes the last row of the        *)
(* buffer, the rows before it are random, and a share is the polynomial     *)
(* they form at the share's number, by Horner's rule.                       *)
ShareByte(buffer, ilog, pos) ==
    InOrder(LAMBDA byte, row :
                (IF byte = 0 THEN 0 ELSE exps[ilog + logs[byte]]) ^^ buffer[row][pos],
            buffer[1][pos], 2..Len(buffer))
GetShares ==
    /\ shpc = "context"
    /\ \E block \in Secrets, random \in [1..(ctx.threshold - 1) -> Coefficients] :
          LET buffer == [row \in 1..ctx.threshold |->
                           IF row = ctx.threshold THEN block
                           ELSE [pos \in DOMAIN block |-> (random[row] + pos) % 256]]
          IN /\ ctx' = [ctx EXCEPT !.buffer = buffer]
             /\ secret' = block
             /\ shares' = [k \in 1..sharecount |->
                   [pos \in DOMAIN block |-> ShareByte(buffer, logs[ctx.sharenrs[k]], pos)]]
    /\ shpc' = "shared"
    /\ UNCHANGED <<i, n, secretbuf>>

(* gfshare_ctx_dec_decode is told 0 for the number of a share that is not   *)
(* there, and copies the shares into its buffer whatever they hold.         *)
DecDecode ==
    /\ shpc = "shared"
    /\ \E missing \in SUBSET (1..sharecount) :
          ctx' = [ctx EXCEPT
              !.sharenrs = [k \in 1..sharecount |-> IF k \in missing THEN 0 ELSE @[k]],
              !.buffer = [k \in 1..sharecount |->
                  IF k \in missing THEN [pos \in DOMAIN secret |-> 255] ELSE shares[k]]]
    /\ secretbuf' = [pos \in DOMAIN secret |-> 0]
    /\ i' = 1
    /\ n' = 0
    /\ shpc' = "decoding"
    /\ UNCHANGED <<secret, shares>>

(* The shares j the inner loop meets: those that are there among the first  *)
(* threshold of them.                                                       *)
Present(k) == { m \in 1..k : ctx.sharenrs[m] # 0 }
MetAll == { k \in 1..sharecount : ctx.sharenrs[k] # 0 }     \* mutant: all of them
Met == { k \in 1..sharecount :
           ctx.sharenrs[k] # 0 /\ Cardinality(Present(k)) <= ctx.threshold }
LogSum(S, f(_)) == InOrder(LAMBDA sum, k : sum + f(k), 0, S)
LiTop ==
    LET others == Met \ {i}
        top == LogSum(others, LAMBDA k : logs[ctx.sharenrs[k]])
        bottom == LogSum(others, LAMBDA k : logs[ctx.sharenrs[i] ^^ ctx.sharenrs[k]]) % 255
    IN (top + (255 - bottom)) % 255

Decoding == shpc = "decoding" /\ n < ctx.threshold /\ i <= sharecount

SkipShare ==
    /\ Decoding
    /\ ctx.sharenrs[i] = 0
    /\ i' = i + 1
    /\ UNCHANGED <<shpc, ctx, secret, shares, n, secretbuf>>

AddShare ==
    /\ Decoding
    /\ ctx.sharenrs[i] # 0
    /\ secretbuf' = [pos \in DOMAIN secretbuf |->
          IF ctx.buffer[i][pos] = 0 THEN secretbuf[pos]
          ELSE secretbuf[pos] ^^ exps[LiTop + logs[ctx.buffer[i][pos]]]]
    /\ i' = i + 1
    /\ n' = n + 1
    /\ UNCHANGED <<shpc, ctx, secret, shares>>

DecodeEnds ==
    /\ shpc = "decoding"
    /\ ~Decoding
    /\ shpc' = "decoded"
    /\ UNCHANGED <<ctx, secret, shares, i, n, secretbuf>>

ShamirNext == InitEnc \/ GetShares \/ DecDecode \/ SkipShare \/ AddShare \/ DecodeEnds

-----------------------------------------------------------------------------
(* Any threshold of the shares give the secret back, whichever are missing  *)
(* and whatever the random coefficients were.                               *)
SecretRecovered ==
    (shpc = "decoded" /\ Cardinality(Present(sharecount)) >= ctx.threshold) => secretbuf = secret
=============================================================================
