--------------------------- MODULE BlockAllocator --------------------------
(***************************************************************************)
(* What the allocator of one Artifice device promises its callers: taking  *)
(* a block is one atomic step that finds a clear bit, sets it and stores   *)
(* the block of that index; a failed acquire_block changes nothing; giving *)
(* a block back clears the bit whose index is the block number.            *)
(*                                                                         *)
(* AfsAllocation implements this specification.  The request engine        *)
(* (AfsEngine) takes the same steps as parts of its handlers.              *)
(***************************************************************************)
EXTENDS Integers

CONSTANTS
  Workers,            \* requests
  Slots,              \* carrier pointers of a request
  Indices,            \* indices of the free list
  BlockList,          \* block number at each index
  Reserved,           \* indices set before any request
  AFS_INVALID_BLOCK   \* no block

VARIABLES
  vector,  \* bits that are set
  ptr      \* ptr[w][i]: blocks held

vars == <<vector, ptr>>

Init ==
  /\ vector = Reserved \cup {AFS_INVALID_BLOCK}
  /\ ptr = [w \in Workers |-> [i \in Slots |-> AFS_INVALID_BLOCK]]

\* acquire_block, when it succeeds.
Take(w, i, k) ==
  /\ ptr[w][i] = AFS_INVALID_BLOCK
  /\ k \notin vector
  /\ vector' = vector \cup {k}
  /\ ptr' = [ptr EXCEPT ![w][i] = BlockList[k]]

\* allocation_free of one pointer and its invalidation in reset_entry.
GiveBack(w, i) ==
  /\ ptr[w][i] # AFS_INVALID_BLOCK
  /\ vector' = vector \ {ptr[w][i]}
  /\ ptr' = [ptr EXCEPT ![w][i] = AFS_INVALID_BLOCK]

Next ==
  \E w \in Workers, i \in Slots :
    GiveBack(w, i) \/ \E k \in Indices : Take(w, i, k)

Spec == Init /\ [][Next]_vars
=============================================================================
