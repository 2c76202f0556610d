--------------------------- MODULE AfsAllocation ---------------------------
(***************************************************************************)
(* The block allocator of src/dm_afs_allocation.c, at the granularity at   *)
(* which the workers of the flight and crypto work queues interleave.      *)
(*                                                                         *)
(* A mounted instance has a list of the free blocks of its passive file    *)
(* system (fs->block_list, filled by the detection modules) and a bit      *)
(* vector.  acquire_block draws random list INDICES, sets the bit of that  *)
(* index and returns the block NUMBER stored there.  allocation_free is    *)
(* called with a block number (engine.c:380, 578) and clears the bit of    *)
(* that number.  Every instance has its own vector and vector->lock, but   *)
(* the index drawn is a static local of acquire_block: one variable for    *)
(* all instances.                                                          *)
(*                                                                         *)
(* A worker is a request that fills its carrier pointers one after another *)
(* and, when an acquisition fails, runs reset_entry (engine.c:575), which  *)
(* frees what it holds.  The lists of all instances have the same length   *)
(* here, so block_num is a valid index of each of them.                    *)
(***************************************************************************)
EXTENDS Integers

CONSTANTS
  Workers,            \* requests that run acquire_block and reset_entry
  NoWorker,           \* the lock is free
  Instances,          \* Artifice devices that are up
  Home,               \* Home[w]: the instance worker w serves
  ListLen,            \* fs->list_len, of every instance
  BlockList,          \* BlockList[n]: fs->block_list of instance n
  Reserved,           \* indices set by write_super_block before any request
  NumCarriers,        \* config->num_carrier_blocks
  AFS_INVALID_BLOCK   \* U32_MAX: no block

Indices == 0 .. ListLen - 1

Slots == 0 .. NumCarriers - 1

Injective(f) == \A j, k \in DOMAIN f : f[j] = f[k] => j = k

ASSUME ListLenAssumption == ListLen \in Nat \ {0}

ASSUME NumCarriersAssumption == NumCarriers \in Nat \ {0}

ASSUME InvalidAssumption == AFS_INVALID_BLOCK \in Nat

ASSUME NoWorkerAssumption == NoWorker \notin Workers

ASSUME InstancesAssumption == Instances # {}

ASSUME HomeAssumption == Home \in [Workers -> Instances]

\* The detection modules list each free block once; numbers are 32-bit and
\* smaller than the invalid block, and so is the length of the list.
ASSUME BlockListAssumption ==
  /\ ListLen < AFS_INVALID_BLOCK
  /\ BlockList \in [Instances -> [Indices -> 0 .. AFS_INVALID_BLOCK - 1]]
  /\ \A n \in Instances : Injective(BlockList[n])

ASSUME ReservedAssumption == Reserved \subseteq Indices

VARIABLES
  vector,     \* vector[n]: the set of bits that are set
  lock,       \* lock[n]: the worker holding vector->lock, or NoWorker
  block_num,  \* the static local of acquire_block
  pc,         \* where each worker is
  current,    \* current_num of the worker's call
  index,      \* the index argument of its allocation_set call
  slot,       \* the carrier pointer its call is to fill
  ptr         \* ptr[w][i]: carrier blocks the worker holds

vars == <<vector, lock, block_num, pc, current, index, slot, ptr>>

TypeOK ==
  /\ vector \in [Instances -> SUBSET (0 .. AFS_INVALID_BLOCK)]
  /\ lock \in [Instances -> Workers \cup {NoWorker}]
  /\ block_num \in Indices
  /\ pc \in [Workers -> {"idle", "get", "set", "return", "redraw",
                     "compare", "reset"}]
  /\ current \in [Workers -> Indices]
  /\ index \in [Workers -> Indices]
  /\ slot \in [Workers -> Slots]
  /\ ptr \in [Workers -> [Slots -> 0 .. AFS_INVALID_BLOCK]]

\* Mutant of Init: a new vector in which write_super_block has set no bit.
InitUnreserved ==
  /\ vector = [n \in Instances |-> {AFS_INVALID_BLOCK}]
  /\ lock = [n \in Instances |-> NoWorker]
  /\ block_num = 0
  /\ pc = [w \in Workers |-> "idle"]
  /\ current = [w \in Workers |-> 0]
  /\ index = [w \in Workers |-> 0]
  /\ slot = [w \in Workers |-> 0]
  /\ ptr = [w \in Workers |-> [i \in Slots |-> AFS_INVALID_BLOCK]]

Init ==
  /\ vector = [n \in Instances |-> Reserved \cup {AFS_INVALID_BLOCK}]
  /\ lock = [n \in Instances |-> NoWorker]
  /\ block_num = 0
  /\ pc = [w \in Workers |-> "idle"]
  /\ current = [w \in Workers |-> 0]
  /\ index = [w \in Workers |-> 0]
  /\ slot = [w \in Workers |-> 0]
  /\ ptr = [w \in Workers |-> [i \in Slots |-> AFS_INVALID_BLOCK]]

Goto(w, from, to) ==
  /\ pc[w] = from
  /\ pc' = [pc EXCEPT ![w] = to]

\* Mutant of AcquireLock: acquire_block without vector->lock.
AcquireUnlocked(w, i, k) ==
  /\ Goto(w, "idle", "get")
  /\ ptr[w][i] = AFS_INVALID_BLOCK
  /\ \A j \in Slots : j < i => ptr[w][j] # AFS_INVALID_BLOCK
  /\ block_num' = k
  /\ current' = [current EXCEPT ![w] = k]
  /\ slot' = [slot EXCEPT ![w] = i]
  /\ UNCHANGED <<vector, lock, index, ptr>>

\* Entry of acquire_block for the next carrier pointer of the request: take
\* vector->lock and draw the first index k.
AcquireLock(w, i, k) ==
  /\ Goto(w, "idle", "get")
  /\ ptr[w][i] = AFS_INVALID_BLOCK
  /\ \A j \in Slots : j < i => ptr[w][j] # AFS_INVALID_BLOCK
  /\ lock[Home[w]] = NoWorker
  /\ lock' = [lock EXCEPT ![Home[w]] = w]
  /\ block_num' = k
  /\ current' = [current EXCEPT ![w] = k]
  /\ slot' = [slot EXCEPT ![w] = i]
  /\ UNCHANGED <<vector, index, ptr>>

\* allocation_set: read the index argument and test its bit.
AllocationGet(w) ==
  /\ pc[w] = "get"
  /\ index' = [index EXCEPT ![w] = block_num]
  /\ pc' = [pc EXCEPT ![w] =
              IF block_num \in vector[Home[w]] THEN "redraw" ELSE "set"]
  /\ UNCHANGED <<vector, lock, block_num, current, slot, ptr>>

\* allocation_set, bit was clear: bit_vector_set.
AllocationSet(w) ==
  /\ Goto(w, "set", "return")
  /\ vector' = [vector EXCEPT ![Home[w]] = @ \cup {index[w]}]
  /\ UNCHANGED <<lock, block_num, current, index, slot, ptr>>

\* ret = fs->block_list[block_num]; unlock; the caller stores the pointer.
AcquireReturn(w) ==
  /\ Goto(w, "return", "idle")
  /\ ptr' = [ptr EXCEPT ![w][slot[w]] = BlockList[Home[w]][block_num]]
  /\ lock' = [lock EXCEPT ![Home[w]] = NoWorker]
  /\ UNCHANGED <<vector, block_num, current, index, slot>>

\* Mutant of Redraw: an index from 1 to list_len.
RedrawOffByOne(w, k) ==
  /\ Goto(w, "redraw", "compare")
  /\ block_num' = k + 1
  /\ UNCHANGED <<vector, lock, current, index, slot, ptr>>

\* Bit was set: draw another index.
Redraw(w, k) ==
  /\ Goto(w, "redraw", "compare")
  /\ block_num' = k
  /\ UNCHANGED <<vector, lock, current, index, slot, ptr>>

\* while (block_num != current_num): go round again.
CompareDiffers(w) ==
  /\ Goto(w, "compare", "get")
  /\ block_num # current[w]
  /\ UNCHANGED <<vector, lock, block_num, current, index, slot, ptr>>

\* Mutant of AcquireFail: return with the lock held.
AcquireFailLocked(w) ==
  /\ Goto(w, "compare", "reset")
  /\ block_num = current[w]
  /\ UNCHANGED <<vector, lock, block_num, current, index, slot, ptr>>

\* The first index drawn came up again: unlock, return AFS_INVALID_BLOCK.
AcquireFail(w) ==
  /\ Goto(w, "compare", "reset")
  /\ block_num = current[w]
  /\ lock' = [lock EXCEPT ![Home[w]] = NoWorker]
  /\ UNCHANGED <<vector, block_num, current, index, slot, ptr>>

\* Mutant of AllocationFree: the bit of the index drawn last is cleared.
FreeLastDrawn(w, i) ==
  /\ pc[w] = "reset"
  /\ ptr[w][i] # AFS_INVALID_BLOCK
  /\ vector' = [vector EXCEPT ![Home[w]] = @ \ {index[w]}]
  /\ ptr' = [ptr EXCEPT ![w][i] = AFS_INVALID_BLOCK]
  /\ UNCHANGED <<lock, block_num, pc, current, index, slot>>

\* reset_entry: allocation_free(vector, carrier_block_ptr) clears the bit whose
\* index is the block NUMBER, without vector->lock; the pointer is invalidated.
AllocationFree(w, i) ==
  /\ pc[w] = "reset"
  /\ ptr[w][i] # AFS_INVALID_BLOCK
  /\ vector' = [vector EXCEPT ![Home[w]] = @ \ {ptr[w][i]}]
  /\ ptr' = [ptr EXCEPT ![w][i] = AFS_INVALID_BLOCK]
  /\ UNCHANGED <<lock, block_num, pc, current, index, slot>>

\* reset_entry is done; the worker turns to its next request.
ResetDone(w) ==
  /\ Goto(w, "reset", "idle")
  /\ \A i \in Slots : ptr[w][i] = AFS_INVALID_BLOCK
  /\ UNCHANGED <<vector, lock, block_num, current, index, slot, ptr>>

acquire_block(w) ==
  \/ \E i \in Slots, k \in Indices : AcquireLock(w, i, k)
  \/ AllocationGet(w)
  \/ AllocationSet(w)
  \/ AcquireReturn(w)
  \/ \E k \in Indices : Redraw(w, k)
  \/ CompareDiffers(w)
  \/ AcquireFail(w)

reset_entry(w) ==
  \/ \E i \in Slots : AllocationFree(w, i)
  \/ ResetDone(w)

Next == \E w \in Workers : acquire_block(w) \/ reset_entry(w)

Spec == Init /\ [][Next]_vars

(***************************************************************************)
(* Fairness.  A runnable worker runs on; spin_lock is a queued lock, so a  *)
(* waiter gets it in turn; get_random_bytes draws every index again and    *)
(* again, so a call that keeps redrawing draws its first index some time.  *)
(***************************************************************************)
Running(w) ==
  \/ AllocationGet(w)
  \/ AllocationSet(w)
  \/ AcquireReturn(w)
  \/ \E k \in Indices : Redraw(w, k)
  \/ CompareDiffers(w)
  \/ AcquireFail(w)
  \/ reset_entry(w)

Fairness ==
  \A w \in Workers :
    /\ WF_vars(Running(w))
    /\ SF_vars(\E i \in Slots, k \in Indices : AcquireLock(w, i, k))
    /\ SF_vars(Redraw(w, current[w]))

FairSpec == Spec /\ Fairness

-----------------------------------------------------------------------------

(***************************************************************************)
(* Assumptions about the environment under which the allocator is safe.    *)
(***************************************************************************)

\* One Artifice device is up.
OneInstance == \A v, w \in Workers : Home[v] = Home[w]

\* No block number is the list index of another block, so that clearing the
\* bit of a number never clears the bit of a block somebody else holds.  It is
\* so when every free block lies beyond block ListLen of the device.
NumbersBeyondIndices ==
  \A n \in Instances : \A k \in Indices :
    BlockList[n][k] = k \/ BlockList[n][k] >= ListLen

(***************************************************************************)
(* Safety.                                                                 *)
(***************************************************************************)

Holds(w, i) == ptr[w][i] # AFS_INVALID_BLOCK

\* "Acquire a free block from the free list" (allocation.c:76): acquire_block
\* never hands out a block that another carrier pointer of the same device
\* already names, whatever the interleaving with other acquisitions and with
\* the frees of reset_entry, which do not take the lock.
NoDoubleAllocation ==
  \A v, w \in Workers : \A i, j \in Slots :
    /\ Home[v] = Home[w]
    /\ Holds(v, i)
    /\ ptr[v][i] = ptr[w][j]
    => v = w /\ i = j

\* A block that write_super_block set aside (superblock replicas, map and
\* pointer blocks) is never handed out as a carrier block.
ReservedNeverAcquired ==
  \A w \in Workers : \A i \in Slots :
    Holds(w, i) =>
      \A k \in Reserved : ptr[w][i] # BlockList[Home[w]][k]

(***************************************************************************)
(* Refinement.  A call takes its block when it returns: until then the bit *)
(* it has set is not yet set in the abstract vector.                       *)
(***************************************************************************)

Device == CHOOSE n \in Instances : \A w \in Workers : Home[w] = n

Returning == {index[w] : w \in {v \in Workers : pc[v] = "return"}}

Atomic == INSTANCE BlockAllocator
            WITH BlockList <- BlockList[Device],
                 vector <- vector[Device] \ Returning

\* With one device and NumbersBeyondIndices, acquire_block and reset_entry act
\* as if acquiring a block were one atomic step, although the bit is tested,
\* set and translated to a block number in separate steps.
AtomicSpec == Atomic!Spec

(***************************************************************************)
(* Liveness.                                                               *)
(***************************************************************************)

\* Every call of acquire_block returns, with a block or with
\* AFS_INVALID_BLOCK, and reset_entry finishes; a worker that still needs a
\* block gets into acquire_block.  Nobody spins on vector->lock or redraws
\* indices for ever.
AcquireReturns ==
  \A w \in Workers :
    /\ pc[w] # "idle" ~> pc[w] = "idle"
    /\ pc[w] = "idle" /\ (\E i \in Slots : ~ Holds(w, i)) ~> pc[w] # "idle"
=============================================================================
