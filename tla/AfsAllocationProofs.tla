------------------------ MODULE AfsAllocationProofs ------------------------
(***************************************************************************)
(* Proofs about the allocator, for any number of workers, any list and any *)
(* number of carrier blocks.  The hypotheses OneInstance and               *)
(* NumbersBeyondIndices are stated where they are used: without either of  *)
(* them the properties are false (README.md gives the counterexamples).    *)
(***************************************************************************)
EXTENDS AfsAllocation, TLAPS

Inside == {"get", "set", "return", "redraw", "compare"}

\* A worker inside acquire_block holds the lock of its device.
LockInv == \A w \in Workers : pc[w] \in Inside => lock[Home[w]] = w

\* The static block_num still has the value allocation_set was called with.
StaticInv == \A w \in Workers : pc[w] \in {"set", "return"} => index[w] = block_num

\* The pointer a call is to fill is still invalid.
SlotInv == \A w \in Workers : pc[w] \in Inside => ~ Holds(w, slot[w])

\* Between the test and the set the bit stays clear.
ClearInv == \A w \in Workers : pc[w] = "set" => index[w] \notin vector[Home[w]]

\* Between the set and the return the bit is set, the index is not a reserved
\* one, and nobody holds its block.
ReturnInv ==
  \A w \in Workers : pc[w] = "return" =>
    /\ index[w] \in vector[Home[w]]
    /\ index[w] \notin Reserved
    /\ \A v \in Workers : \A i \in Slots : ptr[v][i] # BlockList[Home[w]][index[w]]

\* The bit of every block held is set, and is not a reserved one.
HeldInv ==
  \A w \in Workers : \A i \in Slots : Holds(w, i) =>
    \E k \in Indices \ Reserved :
      ptr[w][i] = BlockList[Home[w]][k] /\ k \in vector[Home[w]]

ReservedInv == \A w \in Workers : Reserved \subseteq vector[Home[w]]

IInv ==
  /\ TypeOK
  /\ LockInv
  /\ StaticInv
  /\ SlotInv
  /\ ClearInv
  /\ ReturnInv
  /\ HeldInv
  /\ ReservedInv
  /\ NoDoubleAllocation

-----------------------------------------------------------------------------

USE DEF Indices, Slots

LEMMA InitTypeOK == Init => TypeOK
BY ListLenAssumption, NumCarriersAssumption, InvalidAssumption,
   HomeAssumption, BlockListAssumption, ReservedAssumption
   DEF Init, TypeOK

LEMMA NextTypeOK == TypeOK /\ [Next]_vars => TypeOK'
<1> USE ListLenAssumption, NumCarriersAssumption, InvalidAssumption,
        HomeAssumption, BlockListAssumption, ReservedAssumption
<1> SUFFICES ASSUME TypeOK, [Next]_vars PROVE TypeOK'
  OBVIOUS
<1> USE DEF TypeOK
<1>1. ASSUME NEW w \in Workers, NEW i \in Slots, NEW k \in Indices,
             AcquireLock(w, i, k)
      PROVE  TypeOK'
  BY Zenon, <1>1 DEF AcquireLock, Goto
<1>2. ASSUME NEW w \in Workers, AllocationGet(w) PROVE TypeOK'
  BY Zenon, <1>2 DEF AllocationGet
<1>3. ASSUME NEW w \in Workers, AllocationSet(w) PROVE TypeOK'
  <2>1. Home[w] \in Instances /\ index[w] \in 0 .. AFS_INVALID_BLOCK
    OBVIOUS
  <2>2. vector' \in [Instances -> SUBSET (0 .. AFS_INVALID_BLOCK)]
    BY <1>3, <2>1 DEF AllocationSet
  <2> QED
    BY Zenon, <1>3, <2>2 DEF AllocationSet, Goto
<1>4. ASSUME NEW w \in Workers, AcquireReturn(w) PROVE TypeOK'
  <2>1. BlockList[Home[w]][block_num] \in 0 .. AFS_INVALID_BLOCK
    OBVIOUS
  <2>2. ptr' \in [Workers -> [Slots -> 0 .. AFS_INVALID_BLOCK]]
    BY Zenon, <1>4, <2>1 DEF AcquireReturn
  <2> QED
    BY Zenon, <1>4, <2>2 DEF AcquireReturn, Goto
<1>5. ASSUME NEW w \in Workers, NEW k \in Indices, Redraw(w, k) PROVE TypeOK'
  BY Zenon, <1>5 DEF Redraw, Goto
<1>6. ASSUME NEW w \in Workers, CompareDiffers(w) PROVE TypeOK'
  BY Zenon, <1>6 DEF CompareDiffers, Goto
<1>7. ASSUME NEW w \in Workers, AcquireFail(w) PROVE TypeOK'
  BY Zenon, <1>7 DEF AcquireFail, Goto
<1>8. ASSUME NEW w \in Workers, NEW i \in Slots, AllocationFree(w, i)
      PROVE  TypeOK'
  <2>1. Home[w] \in Instances
    OBVIOUS
  <2>2. vector' \in [Instances -> SUBSET (0 .. AFS_INVALID_BLOCK)]
    <3>1. vector[Home[w]] \ {ptr[w][i]} \in SUBSET (0 .. AFS_INVALID_BLOCK)
      BY <2>1
    <3> QED
      BY Zenon, <1>8, <2>1, <3>1 DEF AllocationFree
  <2>3. ptr' \in [Workers -> [Slots -> 0 .. AFS_INVALID_BLOCK]]
    <3>1. AFS_INVALID_BLOCK \in 0 .. AFS_INVALID_BLOCK
      OBVIOUS
    <3> QED
      BY Zenon, <1>8, <3>1 DEF AllocationFree
  <2> QED
    BY Zenon, <1>8, <2>2, <2>3 DEF AllocationFree
<1>9. ASSUME NEW w \in Workers, ResetDone(w) PROVE TypeOK'
  BY Zenon, <1>9 DEF ResetDone, Goto
<1>10. CASE UNCHANGED vars
  BY <1>10 DEF vars
<1> QED
  BY Zenon, <1>1, <1>2, <1>3, <1>4, <1>5, <1>6, <1>7, <1>8, <1>9, <1>10
     DEF Next, acquire_block, reset_entry

\* TypeOK is inductive on its own: indices stay within the list, pointers are
\* 32-bit block numbers and the control of every worker is at a known point.
THEOREM TypeCorrect == Spec => []TypeOK
BY InitTypeOK, NextTypeOK, PTL DEF Spec

-----------------------------------------------------------------------------

\* What the proofs use of the free list.
LEMMA ListFacts ==
  ASSUME NEW w \in Workers, NEW k \in Indices
  PROVE  /\ BlockList[Home[w]][k] \in 0 .. AFS_INVALID_BLOCK - 1
         /\ BlockList[Home[w]][k] # AFS_INVALID_BLOCK
         /\ \A l \in Indices :
              BlockList[Home[w]][l] = BlockList[Home[w]][k] => l = k
<1>1. Home[w] \in Instances
  BY HomeAssumption
<1>2. /\ BlockList[Home[w]] \in [Indices -> 0 .. AFS_INVALID_BLOCK - 1]
      /\ Injective(BlockList[Home[w]])
  BY <1>1, BlockListAssumption
<1>3. \A l \in Indices : BlockList[Home[w]][l] = BlockList[Home[w]][k] => l = k
  BY Zenon, <1>2 DEF Injective
<1>4. BlockList[Home[w]][k] \in 0 .. AFS_INVALID_BLOCK - 1
  BY Zenon, <1>2
<1> DEFINE b == BlockList[Home[w]][k]
<1>5. b \in 0 .. AFS_INVALID_BLOCK - 1
  BY <1>4
<1> HIDE DEF b
<1>6. b # AFS_INVALID_BLOCK
  BY <1>5, InvalidAssumption
<1> QED
  BY <1>3, <1>4, <1>6 DEF b

\* Only one worker at a time is inside acquire_block.
LEMMA MutualExclusion ==
  ASSUME IInv, OneInstance, NEW v \in Workers, NEW w \in Workers,
         pc[v] \in Inside, pc[w] \in Inside
  PROVE  v = w
BY DEF IInv, LockInv, OneInstance

\* Clearing the bit of the number of a held block clears the bit of no other
\* block: the number is the block's own index or lies beyond all indices.
LEMMA FreeClearsOwnBit ==
  ASSUME IInv, NumbersBeyondIndices,
         NEW w \in Workers, NEW i \in Slots, Holds(w, i),
         NEW k \in Indices, BlockList[Home[w]][k] # ptr[w][i]
  PROVE  k # ptr[w][i]
<1> USE BlockListAssumption, HomeAssumption, ListLenAssumption
<1>1. PICK l \in Indices : ptr[w][i] = BlockList[Home[w]][l]
  BY DEF IInv, HeldInv
<1>2. Home[w] \in Instances
  OBVIOUS
<1>3. CASE BlockList[Home[w]][l] = l
  BY <1>1, <1>3
<1>4. CASE BlockList[Home[w]][l] >= ListLen
  BY <1>1, <1>2, <1>4
<1> QED
  BY <1>2, <1>3, <1>4 DEF NumbersBeyondIndices

LEMMA InitIInv == Init => IInv
BY InitTypeOK, HomeAssumption, InvalidAssumption, ReservedAssumption
   DEF Init, IInv, LockInv, SlotInv, StaticInv, ClearInv, ReturnInv, HeldInv,
       ReservedInv, NoDoubleAllocation, Holds, Inside

LEMMA NextIInv ==
  ASSUME OneInstance, NumbersBeyondIndices
  PROVE  IInv /\ [Next]_vars => IInv'
<1> SUFFICES ASSUME IInv, [Next]_vars PROVE IInv'
  OBVIOUS
<1> USE HomeAssumption, NoWorkerAssumption
<1>0. TypeOK /\ TypeOK'
  BY NextTypeOK DEF IInv
<1>1. ASSUME NEW w \in Workers, NEW i \in Slots, NEW k \in Indices,
             AcquireLock(w, i, k)
      PROVE  IInv'
  <2>1. \A v \in Workers : pc[v] \notin Inside
    BY <1>0, <1>1 DEF AcquireLock, IInv, LockInv, OneInstance
  <2>2. LockInv' /\ SlotInv'
    BY <1>0, <1>1, <2>1 DEF AcquireLock, Goto, LockInv, SlotInv, Holds, Inside, TypeOK
  <2>3. StaticInv' /\ ClearInv' /\ ReturnInv'
    BY <1>0, <1>1, <2>1
       DEF AcquireLock, Goto, StaticInv, ClearInv, ReturnInv, Inside, TypeOK
  <2>4. HeldInv' /\ ReservedInv' /\ NoDoubleAllocation'
    BY <1>1 DEF AcquireLock, IInv, HeldInv, ReservedInv, NoDoubleAllocation, Holds
  <2> QED
    BY <1>0, <2>2, <2>3, <2>4 DEF IInv
<1>2. ASSUME NEW w \in Workers, AllocationGet(w) PROVE IInv'
  <2>1. \A v \in Workers \ {w} : pc[v] \notin Inside
    BY <1>2, MutualExclusion DEF AllocationGet, Inside
  <2>2. LockInv' /\ SlotInv'
    BY <1>0, <1>2 DEF AllocationGet, IInv, LockInv, SlotInv, Holds, Inside, TypeOK
  <2>3. StaticInv' /\ ClearInv' /\ ReturnInv'
    BY <1>0, <1>2, <2>1
       DEF AllocationGet, StaticInv, ClearInv, ReturnInv, Inside, TypeOK
  <2>4. HeldInv' /\ ReservedInv' /\ NoDoubleAllocation'
    BY <1>2 DEF AllocationGet, IInv, HeldInv, ReservedInv, NoDoubleAllocation, Holds
  <2> QED
    BY <1>0, <2>2, <2>3, <2>4 DEF IInv
<1>3. ASSUME NEW w \in Workers, AllocationSet(w) PROVE IInv'
  <2>1. \A v \in Workers \ {w} : pc[v] \notin Inside
    BY <1>3, MutualExclusion DEF AllocationSet, Goto, Inside
  <2>2. /\ index[w] \in Indices
        /\ index[w] \notin vector[Home[w]]
        /\ \A v \in Workers : Home[v] = Home[w]
    BY <1>0, <1>3 DEF AllocationSet, Goto, IInv, ClearInv, TypeOK, OneInstance
  <2>3. /\ vector'[Home[w]] = vector[Home[w]] \cup {index[w]}
        /\ pc' = [pc EXCEPT ![w] = "return"] /\ pc[w] = "set"
        /\ UNCHANGED <<lock, block_num, current, index, slot, ptr>>
    BY <1>0, <1>3 DEF AllocationSet, Goto, TypeOK
  <2>4. LockInv' /\ SlotInv' /\ StaticInv' /\ ClearInv'
    BY <1>0, <2>1, <2>3
       DEF IInv, LockInv, SlotInv, Holds, StaticInv, ClearInv, Inside, TypeOK
  <2>5. ReturnInv'
    <3>1. index[w] \notin Reserved
      BY <2>2 DEF IInv, ReservedInv
    <3>2. ASSUME NEW v \in Workers, NEW i \in Slots
          PROVE  ptr[v][i] # BlockList[Home[w]][index[w]]
      <4>1. CASE Holds(v, i)
        BY <2>2, <4>1, ListFacts DEF IInv, HeldInv
      <4>2. CASE ~ Holds(v, i)
        BY <2>2, <4>2, ListFacts DEF Holds
      <4> QED
        BY <4>1, <4>2
    <3>3. \A v \in Workers : pc'[v] = "return" => v = w
      BY <1>0, <2>1, <2>3 DEF Inside, TypeOK
    <3> QED
      BY <2>3, <3>1, <3>2, <3>3 DEF ReturnInv
  <2>6. HeldInv'
    <3> SUFFICES ASSUME NEW v \in Workers, NEW j \in Slots, Holds(v, j)'
                 PROVE  \E k \in Indices \ Reserved :
                          /\ ptr'[v][j] = BlockList[Home[v]][k]
                          /\ k \in vector'[Home[v]]
      BY DEF HeldInv
    <3>1. Holds(v, j) /\ ptr'[v][j] = ptr[v][j]
      BY <2>3 DEF Holds
    <3> QED
      BY <2>2, <2>3, <3>1 DEF IInv, HeldInv
  <2>7. ReservedInv'
    BY <2>2, <2>3 DEF IInv, ReservedInv
  <2>8. NoDoubleAllocation'
    BY <2>3 DEF IInv, NoDoubleAllocation, Holds
  <2> QED
    BY <1>0, <2>4, <2>5, <2>6, <2>7, <2>8 DEF IInv
<1>4. ASSUME NEW w \in Workers, AcquireReturn(w) PROVE IInv'
  <2>1. \A v \in Workers \ {w} : pc[v] \notin Inside
    BY <1>4, MutualExclusion DEF AcquireReturn, Goto, Inside
  <2> DEFINE b == BlockList[Home[w]][index[w]]
  <2>2. /\ pc[w] = "return" /\ pc' = [pc EXCEPT ![w] = "idle"]
        /\ ptr' = [ptr EXCEPT ![w][slot[w]] = b]
        /\ lock' = [lock EXCEPT ![Home[w]] = NoWorker]
        /\ UNCHANGED <<vector, block_num, current, index, slot>>
    BY Zenon, <1>4 DEF AcquireReturn, Goto, IInv, StaticInv
  <2>3. /\ index[w] \in Indices \ Reserved
        /\ index[w] \in vector[Home[w]]
        /\ \A v \in Workers : \A i \in Slots : ptr[v][i] # b
    BY <1>0, <2>2 DEF IInv, ReturnInv, TypeOK
  <2>4. \A v \in Workers : \A i \in Slots :
          ptr'[v][i] = IF v = w /\ i = slot[w] THEN b ELSE ptr[v][i]
    BY Zenon, <1>0, <2>2 DEF TypeOK
  <2>5. LockInv' /\ SlotInv' /\ StaticInv' /\ ClearInv' /\ ReturnInv'
    BY <1>0, <2>1, <2>2
       DEF LockInv, SlotInv, StaticInv, ClearInv, ReturnInv, Inside, TypeOK
  <2>6. HeldInv'
    BY <2>2, <2>3, <2>4 DEF IInv, HeldInv, Holds
  <2>7. ReservedInv'
    BY <2>2 DEF IInv, ReservedInv
  <2>8. NoDoubleAllocation'
    BY <2>2, <2>3, <2>4 DEF IInv, NoDoubleAllocation, Holds
  <2> QED
    BY <1>0, <2>5, <2>6, <2>7, <2>8 DEF IInv
<1>5. ASSUME NEW w \in Workers, NEW k \in Indices, Redraw(w, k) PROVE IInv'
  <2>1. \A v \in Workers \ {w} : pc[v] \notin Inside
    BY <1>5, MutualExclusion DEF Redraw, Goto, Inside
  <2>2. LockInv' /\ SlotInv'
    BY <1>0, <1>5 DEF Redraw, Goto, IInv, LockInv, SlotInv, Holds, Inside, TypeOK
  <2>3. StaticInv' /\ ClearInv' /\ ReturnInv'
    BY <1>0, <1>5, <2>1
       DEF Redraw, Goto, StaticInv, ClearInv, ReturnInv, Inside, TypeOK
  <2>4. HeldInv' /\ ReservedInv' /\ NoDoubleAllocation'
    BY <1>5 DEF Redraw, IInv, HeldInv, ReservedInv, NoDoubleAllocation, Holds
  <2> QED
    BY <1>0, <2>2, <2>3, <2>4 DEF IInv
<1>6. ASSUME NEW w \in Workers, CompareDiffers(w) \/ AcquireFail(w) PROVE IInv'
  <2>1. \A v \in Workers \ {w} : pc[v] \notin Inside
    BY <1>6, MutualExclusion DEF CompareDiffers, AcquireFail, Goto, Inside
  <2>2. LockInv' /\ SlotInv'
    BY Zenon, <1>0, <1>6, <2>1
       DEF CompareDiffers, AcquireFail, Goto, IInv, LockInv, SlotInv, Holds, Inside, TypeOK
  <2>3. StaticInv' /\ ClearInv' /\ ReturnInv'
    <3>1. \A v \in Workers : pc'[v] \notin {"set", "return"}
      BY Zenon, <1>0, <1>6, <2>1 DEF CompareDiffers, AcquireFail, Goto, Inside, TypeOK
    <3> QED
      BY <3>1 DEF StaticInv, ClearInv, ReturnInv
  <2>4. UNCHANGED <<vector, ptr>>
    BY <1>6 DEF CompareDiffers, AcquireFail
  <2>5. HeldInv' /\ ReservedInv' /\ NoDoubleAllocation'
    BY <2>4 DEF IInv, HeldInv, ReservedInv, NoDoubleAllocation, Holds
  <2> QED
    BY <1>0, <2>2, <2>3, <2>5 DEF IInv
<1>7. ASSUME NEW w \in Workers, NEW i \in Slots, AllocationFree(w, i)
      PROVE  IInv'
  <2>1. Holds(w, i)
    BY <1>7 DEF AllocationFree, Holds
  <2>2. /\ vector'[Home[w]] = vector[Home[w]] \ {ptr[w][i]}
        /\ ptr' = [ptr EXCEPT ![w][i] = AFS_INVALID_BLOCK]
        /\ UNCHANGED <<lock, block_num, pc, current, index, slot>>
    BY <1>0, <1>7 DEF AllocationFree, TypeOK
  <2>3. \A v \in Workers : \A j \in Slots :
          ptr'[v][j] = IF v = w /\ j = i THEN AFS_INVALID_BLOCK ELSE ptr[v][j]
    BY Zenon, <1>0, <2>2 DEF TypeOK
  <2>4. \A v \in Workers : Home[v] = Home[w]
    BY DEF OneInstance
  <2>5. ASSUME NEW k \in Indices, k \in vector[Home[w]],
               BlockList[Home[w]][k] # ptr[w][i]
        PROVE  k \in vector'[Home[w]]
    BY <2>1, <2>2, <2>5, FreeClearsOwnBit
  <2>6. LockInv' /\ SlotInv' /\ StaticInv'
    <3>1. LockInv' /\ StaticInv'
      BY <2>2 DEF IInv, LockInv, StaticInv
    <3>2. \A v \in Workers : slot[v] \in Slots
      BY <1>0 DEF TypeOK
    <3>3. SlotInv'
      BY <2>2, <2>3, <3>2 DEF IInv, SlotInv, Holds
    <3> QED
      BY <3>1, <3>3
  <2>7. ClearInv'
    BY <2>2, <2>4 DEF IInv, ClearInv
  <2>8. ReturnInv'
    <3> SUFFICES ASSUME NEW v \in Workers, pc[v] = "return"
                 PROVE  /\ index[v] \in vector'[Home[v]]
                        /\ index[v] \notin Reserved
                        /\ \A u \in Workers : \A j \in Slots :
                             ptr'[u][j] # BlockList[Home[v]][index[v]]
      BY <2>2 DEF ReturnInv
    <3>1. /\ index[v] \in Indices
          /\ index[v] \in vector[Home[v]]
          /\ index[v] \notin Reserved
          /\ \A u \in Workers : \A j \in Slots :
               ptr[u][j] # BlockList[Home[v]][index[v]]
      BY <1>0 DEF IInv, ReturnInv, TypeOK
    <3>2. index[v] \in vector'[Home[v]]
      BY <2>4, <2>5, <3>1
    <3>3. BlockList[Home[v]][index[v]] # AFS_INVALID_BLOCK
      BY <3>1, ListFacts
    <3> QED
      BY <2>3, <3>1, <3>2, <3>3
  <2>9. HeldInv'
    <3> SUFFICES ASSUME NEW v \in Workers, NEW j \in Slots, Holds(v, j)'
                 PROVE  \E k \in Indices \ Reserved :
                          /\ ptr'[v][j] = BlockList[Home[v]][k]
                          /\ k \in vector'[Home[v]]
      BY DEF HeldInv
    <3>1. Holds(v, j) /\ ptr'[v][j] = ptr[v][j] /\ ~ (v = w /\ j = i)
      BY <2>3 DEF Holds
    <3>2. PICK k \in Indices \ Reserved :
            ptr[v][j] = BlockList[Home[v]][k] /\ k \in vector[Home[v]]
      BY <3>1 DEF IInv, HeldInv
    <3>3. ptr[v][j] # ptr[w][i]
      BY <2>1, <2>4, <3>1 DEF IInv, NoDoubleAllocation
    <3>4. k \in vector'[Home[v]]
      BY <2>4, <2>5, <3>2, <3>3
    <3> QED
      BY <3>1, <3>2, <3>4
  <2>10. ReservedInv'
    <3> SUFFICES ASSUME NEW k \in Reserved PROVE k \in vector'[Home[w]]
      BY <2>4 DEF ReservedInv
    <3>1. k \in Indices /\ k \in vector[Home[w]]
      BY ReservedAssumption DEF IInv, ReservedInv
    <3>2. BlockList[Home[w]][k] # ptr[w][i]
      BY <2>1, <3>1, ListFacts DEF IInv, HeldInv
    <3> QED
      BY <2>5, <3>1, <3>2
  <2>11. NoDoubleAllocation'
    <3> SUFFICES ASSUME NEW u \in Workers, NEW v \in Workers,
                        NEW j \in Slots, NEW l \in Slots,
                        Holds(u, j)', ptr'[u][j] = ptr'[v][l]
                 PROVE  u = v /\ j = l
      BY DEF NoDoubleAllocation
    <3>1. /\ ptr'[u][j] = ptr[u][j] /\ ptr'[v][l] = ptr[v][l]
          /\ Holds(u, j) /\ Home[u] = Home[v]
      BY <2>3, <2>4 DEF Holds
    <3> QED
      BY Zenon, <3>1 DEF IInv, NoDoubleAllocation
  <2> QED
    BY <1>0, <2>6, <2>7, <2>8, <2>9, <2>10, <2>11 DEF IInv
<1>8. ASSUME NEW w \in Workers, ResetDone(w) PROVE IInv'
  <2>1. UNCHANGED <<vector, lock, block_num, current, index, slot, ptr>>
    BY <1>8 DEF ResetDone
  <2>2. \A v \in Workers : pc'[v] \in Inside => pc'[v] = pc[v]
    BY <1>0, <1>8 DEF ResetDone, Goto, Inside, TypeOK
  <2>4. LockInv' /\ SlotInv' /\ StaticInv'
    BY <2>1, <2>2 DEF IInv, LockInv, SlotInv, Holds, StaticInv, Inside
  <2>5. ClearInv' /\ ReturnInv'
    BY <2>1, <2>2 DEF IInv, ClearInv, ReturnInv, Inside
  <2>3. HeldInv' /\ ReservedInv' /\ NoDoubleAllocation'
    BY <2>1 DEF IInv, HeldInv, ReservedInv, NoDoubleAllocation, Holds
  <2> QED
    BY <1>0, <2>3, <2>4, <2>5 DEF IInv
<1>9. CASE UNCHANGED vars
  BY <1>0, <1>9 DEF vars, IInv, LockInv, SlotInv, StaticInv, ClearInv, ReturnInv,
                    HeldInv, ReservedInv, NoDoubleAllocation, Holds
<1> QED
  BY <1>1, <1>2, <1>3, <1>4, <1>5, <1>6, <1>7, <1>8, <1>9
     DEF Next, acquire_block, reset_entry

\* For any number of requests, carrier blocks and free blocks: with one device
\* and NumbersBeyondIndices, acquire_block never hands out a block that a
\* carrier pointer already names.
THEOREM AllocationIsExclusive ==
  ASSUME OneInstance, NumbersBeyondIndices
  PROVE  Spec => []NoDoubleAllocation
<1>1. IInv => NoDoubleAllocation
  BY DEF IInv
<1> QED
  BY <1>1, InitIInv, NextIInv, PTL DEF Spec

\* The blocks write_super_block reserved are never handed out.
THEOREM ReservedIsSafe ==
  ASSUME OneInstance, NumbersBeyondIndices
  PROVE  Spec => []ReservedNeverAcquired
<1>1. IInv => ReservedNeverAcquired
  <2> SUFFICES ASSUME IInv, NEW w \in Workers, NEW i \in Slots, Holds(w, i),
                      NEW k \in Reserved
               PROVE  ptr[w][i] # BlockList[Home[w]][k]
    BY DEF ReservedNeverAcquired
  <2>1. PICK l \in Indices \ Reserved : ptr[w][i] = BlockList[Home[w]][l]
    BY DEF IInv, HeldInv
  <2>2. k \in Indices /\ Home[w] \in Instances
    BY HomeAssumption, ReservedAssumption
  <2> QED
    BY <2>1, <2>2, ListFacts
<1> QED
  BY <1>1, InitIInv, NextIInv, PTL DEF Spec

-----------------------------------------------------------------------------

LEMMA DeviceIsHome ==
  ASSUME OneInstance
  PROVE  Device \in Instances /\ \A w \in Workers : Home[w] = Device
<1>1. \E n \in Instances : \A w \in Workers : Home[w] = n
  BY InstancesAssumption, HomeAssumption DEF OneInstance
<1> QED
  BY <1>1 DEF Device

\* A call that is about to return is the only one, so the bits that are set but
\* not yet taken are at most its own.
LEMMA OnlyReturning ==
  ASSUME IInv, OneInstance, NEW w \in Workers, pc[w] \in Inside
  PROVE  Returning = IF pc[w] = "return" THEN {index[w]} ELSE {}
BY MutualExclusion DEF Returning, Inside

\* Every step of the allocator is a step of the atomic one or changes nothing
\* the callers can see.
LEMMA NextAtomic ==
  ASSUME OneInstance, NumbersBeyondIndices, IInv, IInv', [Next]_vars
  PROVE  [Atomic!Next]_(Atomic!vars)
<1> USE DeviceIsHome DEF Atomic!vars
<1>0. TypeOK /\ TypeOK'
  BY DEF IInv
<1>1. ASSUME NEW w \in Workers, NEW i \in Slots, NEW k \in Indices,
             AcquireLock(w, i, k)
      PROVE  UNCHANGED Atomic!vars
  BY <1>0, <1>1 DEF AcquireLock, Goto, Returning, TypeOK
<1>2. ASSUME NEW w \in Workers, AllocationGet(w) PROVE UNCHANGED Atomic!vars
  BY <1>0, <1>2 DEF AllocationGet, Returning, TypeOK
<1>3. ASSUME NEW w \in Workers, AllocationSet(w) PROVE UNCHANGED Atomic!vars
  <2>1. pc[w] \in Inside /\ pc[w] # "return" /\ pc'[w] = "return"
    BY <1>0, <1>3 DEF AllocationSet, Goto, Inside, TypeOK
  <2>2. Returning = {}
    BY <2>1, OnlyReturning
  <2>3. Returning' = {index[w]}
    <3>1. \A v \in Workers : pc'[v] = "return" <=> v = w
      BY <1>0, <1>3, <2>1, MutualExclusion DEF AllocationSet, Goto, Inside, TypeOK
    <3> QED
      BY <1>3, <3>1 DEF AllocationSet, Returning
  <2>4. index[w] \notin vector[Device] /\ vector'[Device] = vector[Device] \cup {index[w]}
    BY <1>0, <1>3 DEF AllocationSet, Goto, IInv, ClearInv, TypeOK
  <2> QED
    BY <1>3, <2>2, <2>3, <2>4 DEF AllocationSet
<1>4. ASSUME NEW w \in Workers, AcquireReturn(w) PROVE Atomic!Next
  <2>1. pc[w] \in Inside /\ pc[w] = "return" /\ pc'[w] = "idle"
    BY <1>0, <1>4 DEF AcquireReturn, Goto, Inside, TypeOK
  <2>2. Returning = {index[w]}
    BY <2>1, OnlyReturning
  <2>3. Returning' = {}
    <3>1. \A v \in Workers : pc'[v] # "return"
      BY <1>0, <1>4, <2>1, MutualExclusion DEF AcquireReturn, Goto, Inside, TypeOK
    <3> QED
      BY <3>1 DEF Returning
  <2>4. /\ index[w] \in Indices /\ slot[w] \in Slots
        /\ index[w] \in vector[Device]
        /\ ptr[w][slot[w]] = AFS_INVALID_BLOCK
        /\ ptr' = [ptr EXCEPT ![w][slot[w]] = BlockList[Device][index[w]]]
        /\ vector' = vector
    BY Zenon, <1>0, <1>4, <2>1
       DEF AcquireReturn, IInv, StaticInv, SlotInv, Holds, ReturnInv, TypeOK
  <2>5. Atomic!Take(w, slot[w], index[w])
    BY <2>2, <2>3, <2>4 DEF Atomic!Take
  <2> QED
    BY <2>4, <2>5 DEF Atomic!Next
<1>5. ASSUME NEW w \in Workers, NEW k \in Indices, Redraw(w, k)
      PROVE  UNCHANGED Atomic!vars
  BY <1>0, <1>5 DEF Redraw, Goto, Returning, TypeOK
<1>6. ASSUME NEW w \in Workers, CompareDiffers(w) PROVE UNCHANGED Atomic!vars
  BY <1>0, <1>6 DEF CompareDiffers, Goto, Returning, TypeOK
<1>7. ASSUME NEW w \in Workers, AcquireFail(w) PROVE UNCHANGED Atomic!vars
  BY <1>0, <1>7 DEF AcquireFail, Goto, Returning, TypeOK
<1>8. ASSUME NEW w \in Workers, NEW i \in Slots, AllocationFree(w, i)
      PROVE  Atomic!Next
  <2>1. Returning' = Returning
    BY <1>8 DEF AllocationFree, Returning
  <2>2. vector'[Device] = vector[Device] \ {ptr[w][i]}
    BY <1>0, <1>8 DEF AllocationFree, TypeOK
  <2>3. Atomic!GiveBack(w, i)
    BY <1>8, <2>1, <2>2 DEF AllocationFree, Atomic!GiveBack
  <2> QED
    BY <2>3 DEF Atomic!Next
<1>9. ASSUME NEW w \in Workers, ResetDone(w) PROVE UNCHANGED Atomic!vars
  BY <1>0, <1>9 DEF ResetDone, Goto, Returning, TypeOK
<1>10. CASE UNCHANGED vars
  BY <1>10 DEF vars, Returning
<1> QED
  BY <1>1, <1>2, <1>3, <1>4, <1>5, <1>6, <1>7, <1>8, <1>9, <1>10
     DEF Next, acquire_block, reset_entry

\* acquire_block, which tests, sets and translates an index in separate steps
\* under vector->lock while reset_entry clears bits without it, implements the
\* allocator whose acquisitions are atomic.
THEOREM AllocationIsAtomic ==
  ASSUME OneInstance, NumbersBeyondIndices
  PROVE  Spec => AtomicSpec
<1>1. Init => Atomic!Init
  BY DeviceIsHome DEF Init, Atomic!Init, Returning
<1>2. IInv /\ IInv' /\ [Next]_vars => [Atomic!Next]_(Atomic!vars)
  BY NextAtomic
<1> QED
  BY <1>1, <1>2, InitIInv, NextIInv, PTL DEF Spec, AtomicSpec, Atomic!Spec
=============================================================================
