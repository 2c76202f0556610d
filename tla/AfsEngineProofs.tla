-------------------------- MODULE AfsEngineProofs --------------------------
(***************************************************************************)
(* Proofs about the request engine, for any number of requests, blocks,    *)
(* sectors and carrier blocks and for any free list: its types and where   *)
(* carrier blocks lie; then that blocks at rest are intact, when clients   *)
(* are serialised, the passive file system leaves the carrier blocks alone *)
(* and no block number is the index of another block; and that the engine  *)
(* implements BlockDevice when, besides, requests cover whole blocks.      *)
(***************************************************************************)
EXTENDS AfsEngine, TLAPS

-----------------------------------------------------------------------------

(***************************************************************************)
(* Types of the values the actions are built from.                         *)
(***************************************************************************)

LEMMA Sizes ==
  /\ 0 \in Blocks /\ 0 \in Sectors
  /\ 0 \in Slots /\ 1 \in Slots
  /\ NumCarriers - 1 \in Slots
  /\ \A i \in Slots : i # NumCarriers - 1 => i + 1 \in Slots
BY SizesAssumption DEF Blocks, Sectors, Slots

LEMMA BlockTypes ==
  /\ ZeroBlock \in DataBlock
  /\ JunkBlock \in DataBlock
  /\ \A d \in DataBlock : \A S :
       [s \in Sectors |-> IF s \in S THEN d[s] ELSE Junk] \in DataBlock
BY Zenon DEF ZeroBlock, JunkBlock, DataBlock, Values

LEMMA PageTypes ==
  /\ \A d \in DataBlock : Plain(d) \in Page
  /\ JunkPages \in [Slots -> Page]
  /\ \A r \in Reqs : \A d \in DataBlock : Encode(r, d) \in [Slots -> Page]
  /\ NoNums \in [Slots -> Numbers]
BY Zenon, Sizes, BlockTypes
   DEF Plain, JunkPages, JunkPage, Encode, NoNums, Numbers, Page

LEMMA DecodeType ==
  ASSUME NEW pages \in [Slots -> Page]
  PROVE  Decode(pages) \in DataBlock
BY Zenon, Sizes, BlockTypes DEF Decode, Page

LEMMA CopyType ==
  ASSUME NEW r \in Reqs, NEW d \in DataBlock
  PROVE  Copy(r, d) \in DataBlock
BY Zenon, BlockTypes DEF Copy

LEMMA ListTypes ==
  /\ \A k \in Indices : BlockList[k] \in Listed
  /\ Listed \subseteq Numbers
  /\ \A n \in Listed : n \in 0 .. AFS_INVALID_BLOCK /\ n # AFS_INVALID_BLOCK
  /\ Indices \subseteq 0 .. AFS_INVALID_BLOCK
<1>1. \A k \in Indices : BlockList[k] \in 0 .. AFS_INVALID_BLOCK - 1
  BY Zenon, BlockListAssumption
<1>2. \A n \in 0 .. AFS_INVALID_BLOCK - 1 :
        n \in 0 .. AFS_INVALID_BLOCK /\ n # AFS_INVALID_BLOCK
  BY SizesAssumption
<1>3. Indices \subseteq 0 .. AFS_INVALID_BLOCK
  BY SizesAssumption, BlockListAssumption DEF Indices
<1> QED
  BY Zenon, <1>1, <1>2, <1>3 DEF Listed, Numbers

-----------------------------------------------------------------------------

LEMMA InitTypeOK == Init => TypeOK
<1> SUFFICES ASSUME Init PROVE TypeOK
  BY Zenon
<1>1. vector \in SUBSET (0 .. AFS_INVALID_BLOCK)
  BY ListTypes, ReservedAssumption, SizesAssumption DEF Init
<1>2. disk \in [Listed -> Page]
  BY Zenon, PageTypes, BlockTypes DEF Init, JunkPage
<1>3. ptr \in [Blocks -> [Slots -> Numbers]] /\ nums \in [Reqs -> [Slots -> Numbers]]
  BY Zenon, PageTypes DEF Init
<1>4. sum \in [Blocks -> [Slots -> Page]] /\ carriers \in [Reqs -> [Slots -> Page]]
  BY Zenon, PageTypes DEF Init
<1> QED
  BY <1>1, <1>2, <1>3, <1>4, Sizes, BlockTypes, SizesAssumption
     DEF Init, TypeOK, States

\* What the helpers of the actions do to the types of the variables.
LEMMA StepType ==
  ASSUME TypeOK, NEW r \in Reqs, NEW here \in States, NEW next \in States,
         Step(r, here, next)
  PROVE  /\ state' \in [Reqs -> States]
         /\ slot' \in [Reqs -> Slots]
BY Zenon, Sizes DEF Step, TypeOK

LEMMA CleanType ==
  ASSUME TypeOK, NEW r \in Reqs, Clean(r)
  PROVE  /\ state' \in [Reqs -> States]
         /\ data' \in [Reqs -> DataBlock]
         /\ carriers' \in [Reqs -> [Slots -> Page]]
         /\ nums' \in [Reqs -> [Slots -> Numbers]]
         /\ modification' \in [Reqs -> BOOLEAN]
BY Zenon, BlockTypes, PageTypes DEF Clean, TypeOK, States

LEMMA AcquireType ==
  ASSUME TypeOK, NEW r \in Reqs, NEW k \in Indices, AcquireInto(r, k)
  PROVE  /\ vector' \in SUBSET (0 .. AFS_INVALID_BLOCK)
         /\ ptr' \in [Blocks -> [Slots -> Numbers]]
         /\ nums' \in [Reqs -> [Slots -> Numbers]]
<1>1. BlockList[k] \in Numbers /\ k \in 0 .. AFS_INVALID_BLOCK
  BY Zenon, ListTypes
<1>2. vector' \in SUBSET (0 .. AFS_INVALID_BLOCK)
  BY Zenon, <1>1 DEF AcquireInto, TypeOK
<1> QED
  BY Zenon, <1>1, <1>2 DEF AcquireInto, TypeOK

LEMMA FreeType ==
  ASSUME TypeOK, NEW r \in Reqs, FreeEntry(r)
  PROVE  /\ vector' \in SUBSET (0 .. AFS_INVALID_BLOCK)
         /\ ptr' \in [Blocks -> [Slots -> Numbers]]
<1>1. AFS_INVALID_BLOCK \in Numbers
  BY Zenon DEF Numbers
<1>2. vector' \subseteq vector
  BY Zenon DEF FreeEntry
<1> QED
  BY Zenon, <1>1, <1>2 DEF FreeEntry, TypeOK

LEMMA SubmitBiosType ==
  ASSUME TypeOK, NEW r \in Reqs, SubmitBios(r)
  PROVE  pending' \in [Reqs -> SUBSET Slots]
BY Zenon DEF SubmitBios, TypeOK

LEMMA NextTypeOK == TypeOK /\ [Next]_vars => TypeOK'
<1> SUFFICES ASSUME TypeOK, [Next]_vars PROVE TypeOK'
  BY Zenon
<1> USE DEF TypeOK, reqVars, memVars
<1>1. ASSUME NEW r \in Reqs, NEW o \in {"read", "write"}, NEW b \in Blocks,
             NEW offset \in Sectors, NEW count \in 1 .. SectorsPerBlock,
             afs_map(r, o, b, offset, count)
      PROVE  TypeOK'
  <2>1. Covered(offset, count) \subseteq Sectors
    BY SizesAssumption DEF Covered, Sectors
  <2> QED
    BY Zenon, <1>1, <2>1 DEF afs_map, Goto, States
<1>2. ASSUME NEW r \in Reqs, ReadUnmapped(r) PROVE TypeOK'
  BY Zenon, <1>2, CleanType, CopyType, BlockTypes DEF ReadUnmapped
<1>3. ASSUME NEW r \in Reqs, ReadMapped(r) PROVE TypeOK'
  BY Zenon, <1>3 DEF ReadMapped, Goto, States
<1>4. ASSUME NEW r \in Reqs, Lookup(r) PROVE TypeOK'
  <2>1. "lookup" \in States /\ "reading" \in States
    BY Zenon DEF States
  <2> QED
    BY <1>4, <2>1, StepType, SubmitBiosType DEF Lookup
<1>5. ASSUME NEW r \in Reqs, NEW i \in Slots, ReadBio(r, i) PROVE TypeOK'
  <2>1. nums[r][i] # AFS_INVALID_BLOCK => disk[nums[r][i]] \in Page
    BY DEF Numbers
  <2>2. carriers' \in [Reqs -> [Slots -> Page]]
    BY <1>5, <2>1 DEF ReadBio
  <2>3. pending' \in [Reqs -> SUBSET Slots]
    BY Zenon, <1>5 DEF ReadBio
  <2> QED
    BY Zenon, <1>5, <2>2, <2>3 DEF ReadBio, States
<1>6. ASSUME NEW r \in Reqs, DecodeIntact(r) PROVE TypeOK'
  BY Zenon, <1>6, CleanType, CopyType, DecodeType DEF DecodeIntact
<1>7. ASSUME NEW r \in Reqs, DecodeCorrupted(r) PROVE TypeOK'
  <2>1. data' \in [Reqs -> DataBlock]
    BY Zenon, <1>7, DecodeType DEF DecodeCorrupted
  <2>2. out' \in [Reqs -> DataBlock]
    BY Zenon, <1>7, <2>1, CopyType DEF DecodeCorrupted
  <2>3. carriers' \in [Reqs -> [Slots -> Page]]
    BY Zenon, <1>7, <2>1, PageTypes DEF DecodeCorrupted
  <2> QED
    BY Zenon, <1>7, <2>1, <2>2, <2>3 DEF DecodeCorrupted, Goto, States
<1>8. ASSUME NEW r \in Reqs, NEW k \in Indices, RebuildMap(r, k) PROVE TypeOK'
  <2>1. "rebuild" \in States /\ "writing" \in States
    BY Zenon DEF States
  <2>2. carriers' \in [Reqs -> [Slots -> Page]]
    BY Zenon, <1>8, PageTypes DEF RebuildMap
  <2> QED
    BY Zenon, <1>8, <2>1, <2>2, StepType, AcquireType, SubmitBiosType DEF RebuildMap
<1>9. ASSUME NEW r \in Reqs, RebuildNoSpace(r) PROVE TypeOK'
  BY Zenon, <1>9, Sizes DEF RebuildNoSpace, Goto, States
<1>10. ASSUME NEW r \in Reqs, RebuildReset(r) PROVE TypeOK'
  <2>1. "rebuildreset" \in States /\ "stuck" \in States
    BY Zenon DEF States
  <2> QED
    BY Zenon, <1>10, <2>1, StepType, FreeType DEF RebuildReset
<1>11. ASSUME NEW r \in Reqs, WriteStart(r) PROVE TypeOK'
  <2>0. [s \in Sectors |-> IF s \in sectors[r] THEN r ELSE data[r][s]] \in DataBlock
    <3>1. data[r] \in DataBlock
      BY Zenon
    <3> QED
      BY Zenon, <3>1 DEF DataBlock, Values
  <2>1. data' \in [Reqs -> DataBlock]
    BY Zenon, <1>11, <2>0 DEF WriteStart
  <2>2. carriers' \in [Reqs -> [Slots -> Page]]
    BY Zenon, <1>11, <2>1, PageTypes DEF WriteStart
  <2> QED
    BY Zenon, <1>11, <2>1, <2>2 DEF WriteStart, Goto, States, Mapped
<1>12. ASSUME NEW r \in Reqs, WriteMapOld(r) PROVE TypeOK'
  <2>1. "mapping" \in States /\ "writing" \in States
    BY Zenon DEF States
  <2> QED
    BY <1>12, <2>1, StepType, SubmitBiosType DEF WriteMapOld
<1>13. ASSUME NEW r \in Reqs, NEW k \in Indices, WriteMapNew(r, k) PROVE TypeOK'
  <2>1. "mapping" \in States /\ "writing" \in States
    BY Zenon DEF States
  <2> QED
    BY Zenon, <1>13, <2>1, StepType, AcquireType, SubmitBiosType DEF WriteMapNew
<1>14. ASSUME NEW r \in Reqs, WriteNoSpace(r) PROVE TypeOK'
  BY Zenon, <1>14, Sizes DEF WriteNoSpace, Goto, States
<1>15. ASSUME NEW r \in Reqs, WriteReset(r) PROVE TypeOK'
  <2>1. slot' \in [Reqs -> Slots]
    BY <1>15, Sizes, SizesAssumption DEF WriteReset, Slots
  <2> QED
    BY Zenon, <1>15, <2>1, FreeType DEF WriteReset
<1>16. ASSUME NEW r \in Reqs, WriteResetLast(r) PROVE TypeOK'
  BY Zenon, <1>16, Sizes, FreeType, CleanType DEF WriteResetLast
<1>17. ASSUME NEW r \in Reqs, NEW i \in Slots, WriteBio(r, i) PROVE TypeOK'
  <2>1. disk' \in [Listed -> Page]
    <3>1. carriers[r][i] \in Page
      BY Zenon
    <3>2. disk' = [disk EXCEPT ![nums[r][i]] = carriers[r][i]]
      BY Zenon, <1>17 DEF WriteBio
    <3> HIDE DEF TypeOK
    <3>3. disk \in [Listed -> Page]
      BY Zenon DEF TypeOK
    <3> QED
      BY Zenon, <3>1, <3>2, <3>3
  <2>2. pending' \in [Reqs -> SUBSET Slots]
    BY Zenon, <1>17 DEF WriteBio
  <2> QED
    BY Zenon, <1>17, <2>1, <2>2 DEF WriteBio
<1>18. ASSUME NEW r \in Reqs, NEW i \in Slots, WriteBioLast(r, i) PROVE TypeOK'
  <2>1. disk' \in [Listed -> Page]
    <3>1. carriers[r][i] \in Page
      BY Zenon
    <3>2. disk' = [disk EXCEPT ![nums[r][i]] = carriers[r][i]]
      BY Zenon, <1>18 DEF WriteBioLast
    <3> HIDE DEF TypeOK
    <3>3. disk \in [Listed -> Page]
      BY Zenon DEF TypeOK
    <3> QED
      BY Zenon, <3>1, <3>2, <3>3
  <2>2. pending' \in [Reqs -> SUBSET Slots]
    BY Zenon, <1>18 DEF WriteBioLast
  <2>3. sum' \in [Blocks -> [Slots -> Page]]
    BY Zenon, <1>18 DEF WriteBioLast
  <2> QED
    BY Zenon, <1>18, <2>1, <2>2, <2>3, CleanType DEF WriteBioLast
<1>19. ASSUME NEW k \in Indices, PassiveOverwrite(k) PROVE TypeOK'
  <2>1. disk' \in [Listed -> Page]
    BY Zenon, <1>19, PageTypes, BlockTypes DEF PassiveOverwrite, JunkPage
  <2>2. overwrites' \in 0 .. MaxOverwrites
    BY <1>19, SizesAssumption DEF PassiveOverwrite
  <2> QED
    BY Zenon, <1>19, <2>1, <2>2 DEF PassiveOverwrite
<1>20. CASE UNCHANGED vars
  BY Zenon, <1>20 DEF vars
<1>21. ASSUME NEW r \in Reqs, Submit(r) PROVE TypeOK'
  BY Zenon, <1>1, <1>21 DEF Submit
<1>22. ASSUME NEW r \in Reqs, Handle(r) PROVE TypeOK'
  BY Zenon, <1>2, <1>3, <1>4, <1>5, <1>6, <1>7, <1>8, <1>9, <1>10, <1>11, <1>12, <1>13,
     <1>14, <1>15, <1>16, <1>17, <1>18, <1>22 DEF Handle
<1> QED
  BY Zenon, <1>19, <1>20, <1>21, <1>22 DEF Next

\* Requests, map, vector and disk keep their types; in particular every block
\* number a carrier bio is sent to is on the free list or AFS_INVALID_BLOCK.
THEOREM TypeCorrect == Spec => []TypeOK
BY InitTypeOK, NextTypeOK, PTL DEF Spec

-----------------------------------------------------------------------------

(***************************************************************************)
(* Carrier blocks are exclusive.  CarriersExclusive is not inductive: that *)
(* acquire_block finds a clear bit says nothing about the map unless every *)
(* block in the map has its bit set.                                       *)
(***************************************************************************)

\* The bit of every block in the map is set, and is not a reserved one.
HeldInv ==
  \A b \in Blocks : \A i \in Slots : ptr[b][i] # AFS_INVALID_BLOCK =>
    \E k \in Indices \ Reserved : ptr[b][i] = BlockList[k] /\ k \in vector

ReservedInv == Reserved \subseteq vector

BookInv ==
  /\ HeldInv
  /\ ReservedInv
  /\ CarriersExclusive

\* A step leaves map and vector alone, acquires a block or frees one.
LEMMA MapSteps ==
  ASSUME [Next]_vars
  PROVE  \/ UNCHANGED <<vector, ptr>>
         \/ \E r \in Reqs : \E k \in Indices : AcquireInto(r, k)
         \/ \E r \in Reqs : FreeEntry(r)
<1>1. ASSUME NEW r \in Reqs, Submit(r) PROVE UNCHANGED <<vector, ptr>>
  BY Zenon, <1>1 DEF Submit, afs_map
<1>2. ASSUME NEW r \in Reqs, Handle(r)
      PROVE  \/ UNCHANGED <<vector, ptr>>
             \/ \E k \in Indices : AcquireInto(r, k)
             \/ FreeEntry(r)
  <2>1. CASE ReadUnmapped(r) \/ ReadMapped(r) \/ Lookup(r) \/ DecodeIntact(r)
    BY Zenon, <2>1 DEF ReadUnmapped, ReadMapped, Lookup, DecodeIntact
  <2>2. CASE DecodeCorrupted(r)
    BY Zenon, <2>2 DEF DecodeCorrupted
  <2>3. CASE RebuildNoSpace(r) \/ WriteMapOld(r) \/ WriteNoSpace(r)
    BY Zenon, <2>3 DEF RebuildNoSpace, WriteMapOld, WriteNoSpace
  <2>4. CASE WriteStart(r)
    BY Zenon, <2>4 DEF WriteStart
  <2>5. CASE \E i \in Slots : ReadBio(r, i) \/ WriteBio(r, i) \/ WriteBioLast(r, i)
    BY Zenon, <2>5 DEF ReadBio, WriteBio, WriteBioLast
  <2>6. CASE \E k \in Indices : RebuildMap(r, k) \/ WriteMapNew(r, k)
    BY Zenon, <2>6 DEF RebuildMap, WriteMapNew
  <2>7. CASE RebuildReset(r) \/ WriteReset(r) \/ WriteResetLast(r)
    BY Zenon, <2>7 DEF RebuildReset, WriteReset, WriteResetLast
  <2> QED
    BY Zenon, <1>2, <2>1, <2>2, <2>3, <2>4, <2>5, <2>6, <2>7 DEF Handle
<1>3. ASSUME NEW k \in Indices, PassiveOverwrite(k) PROVE UNCHANGED <<vector, ptr>>
  BY Zenon, <1>3 DEF PassiveOverwrite
<1>4. CASE UNCHANGED vars
  BY Zenon, <1>4 DEF vars
<1> QED
  BY Zenon, <1>1, <1>2, <1>3, <1>4 DEF Next

LEMMA ListInjective ==
  ASSUME NEW j \in Indices, NEW k \in Indices, BlockList[j] = BlockList[k]
  PROVE  j = k
BY Zenon, BlockListAssumption

LEMMA AcquireKeepsBook ==
  ASSUME TypeOK, BookInv, NEW r \in Reqs, NEW k \in Indices, AcquireInto(r, k)
  PROVE  BookInv'
<1> DEFINE b0 == block[r]
           i0 == slot[r]
<1>1. b0 \in Blocks /\ i0 \in Slots
  BY Zenon DEF TypeOK
<1>2. \A b \in Blocks : \A i \in Slots :
        ptr'[b][i] = IF b = b0 /\ i = i0 THEN BlockList[k] ELSE ptr[b][i]
  BY Zenon, <1>1 DEF AcquireInto, TypeOK
<1>3. vector' = vector \cup {k} /\ k \notin vector
  BY Zenon DEF AcquireInto
<1>4. k \notin Reserved
  BY Zenon, <1>3 DEF BookInv, ReservedInv
<1>5. \A b \in Blocks : \A i \in Slots : ptr[b][i] # BlockList[k]
  BY <1>3, ListInjective, ListTypes DEF BookInv, HeldInv
<1> HIDE DEF b0, i0
<1>6. HeldInv'
  BY <1>2, <1>3, <1>4 DEF BookInv, HeldInv
<1>7. ReservedInv'
  BY Zenon, <1>3 DEF BookInv, ReservedInv
<1>8. CarriersExclusive'
  BY <1>2, <1>5 DEF BookInv, CarriersExclusive
<1> QED
  BY Zenon, <1>6, <1>7, <1>8 DEF BookInv

\* Clearing the bit of a block number clears the bit of that block, or the bit of
\* no index at all.
LEMMA FreeKeepsBook ==
  ASSUME TypeOK, BookInv, NumbersBeyondIndices, NEW r \in Reqs, FreeEntry(r)
  PROVE  BookInv'
<1> DEFINE b0 == block[r]
           i0 == slot[r]
           n == ptr[b0][i0]
<1>1. b0 \in Blocks /\ i0 \in Slots
  BY Zenon DEF TypeOK
<1>2. \A b \in Blocks : \A i \in Slots :
        ptr'[b][i] = IF b = b0 /\ i = i0 THEN AFS_INVALID_BLOCK ELSE ptr[b][i]
  BY Zenon, <1>1 DEF FreeEntry, TypeOK
<1>3. \A k \in Indices : k \in vector /\ k \notin vector' => BlockList[k] = n /\ k \notin Reserved
  <2> SUFFICES ASSUME NEW k \in Indices, k \in vector, k \notin vector'
               PROVE  BlockList[k] = n /\ k \notin Reserved
    BY Zenon
  <2>1. n # AFS_INVALID_BLOCK /\ k = n
    BY Zenon DEF FreeEntry
  <2>2. PICK l \in Indices \ Reserved : n = BlockList[l]
    BY <1>1, <2>1 DEF BookInv, HeldInv
  <2>3. BlockList[l] = l
    <3>1. k < ListLen /\ k \in Int /\ ListLen \in Int
      BY SizesAssumption DEF Indices
    <3> QED
      BY <2>1, <2>2, <3>1 DEF NumbersBeyondIndices
  <2> QED
    BY Zenon, <2>1, <2>2, <2>3
<1>4. vector' \subseteq vector
  BY Zenon DEF FreeEntry
<1> HIDE DEF b0, i0
<1>5. HeldInv'
  <2> SUFFICES ASSUME NEW b \in Blocks, NEW i \in Slots,
                      ptr'[b][i] # AFS_INVALID_BLOCK
               PROVE  \E k \in Indices \ Reserved :
                        ptr'[b][i] = BlockList[k] /\ k \in vector'
    BY Zenon DEF HeldInv
  <2>1. ~ (b = b0 /\ i = i0) /\ ptr'[b][i] = ptr[b][i]
    BY Zenon, <1>2
  <2>2. PICK k \in Indices \ Reserved : ptr[b][i] = BlockList[k] /\ k \in vector
    BY Zenon, <2>1 DEF BookInv, HeldInv
  <2>3. ptr[b][i] # n
    BY <1>1, <2>1 DEF BookInv, CarriersExclusive
  <2>4. k \in vector'
    BY Zenon, <1>3, <2>2, <2>3
  <2> QED
    BY Zenon, <2>1, <2>2, <2>4
<1>6. ReservedInv'
  BY Zenon, <1>3, ReservedAssumption DEF BookInv, ReservedInv
<1>7. CarriersExclusive'
  BY <1>2 DEF BookInv, CarriersExclusive
<1> QED
  BY Zenon, <1>5, <1>6, <1>7 DEF BookInv

LEMMA InitBook == Init => BookInv
<1> SUFFICES ASSUME Init PROVE BookInv
  BY Zenon
<1>1. \A b \in Blocks : \A i \in Slots : ptr[b][i] = AFS_INVALID_BLOCK
  BY Zenon DEF Init, NoNums
<1>2. ReservedInv
  BY Zenon DEF Init, ReservedInv
<1> QED
  BY Zenon, <1>1, <1>2 DEF BookInv, HeldInv, CarriersExclusive

LEMMA NextBook ==
  ASSUME NumbersBeyondIndices
  PROVE  TypeOK /\ BookInv /\ [Next]_vars => BookInv'
<1> SUFFICES ASSUME TypeOK, BookInv, [Next]_vars PROVE BookInv'
  BY Zenon
<1>1. CASE UNCHANGED <<vector, ptr>>
  BY <1>1 DEF BookInv, HeldInv, ReservedInv, CarriersExclusive
<1> QED
  BY Zenon, <1>1, MapSteps, AcquireKeepsBook, FreeKeepsBook

LEMMA BookInvariant ==
  ASSUME NumbersBeyondIndices
  PROVE  Spec => []BookInv
BY InitBook, NextBook, TypeCorrect, PTL DEF Spec

\* No carrier block is in two places of the map, for any clients (serialised or
\* not) and any interference of the passive file system with the disk.
THEOREM CarriersAreExclusive ==
  ASSUME NumbersBeyondIndices
  PROVE  Spec => []CarriersExclusive
<1>1. BookInv => CarriersExclusive
  BY Zenon DEF BookInv
<1> QED
  BY <1>1, BookInvariant, PTL

\* The blocks of the metadata never become carrier blocks, under the same
\* assumption.
THEOREM MetadataIsSafe ==
  ASSUME NumbersBeyondIndices
  PROVE  Spec => []MetadataUntouched
<1>1. BookInv => MetadataUntouched
  <2> SUFFICES ASSUME HeldInv, NEW b \in Blocks, NEW i \in Slots, NEW k \in Reserved,
                      ptr[b][i] = BlockList[k]
               PROVE  FALSE
    BY Zenon DEF BookInv, MetadataUntouched
  <2>1. k \in Indices
    BY Zenon, ReservedAssumption
  <2>2. ptr[b][i] # AFS_INVALID_BLOCK
    BY Zenon, <2>1, ListTypes
  <2>3. PICK l \in Indices \ Reserved : ptr[b][i] = BlockList[l]
    BY Zenon, <2>2 DEF HeldInv
  <2> QED
    BY Zenon, <2>1, <2>3, ListInjective
<1> QED
  BY <1>1, BookInvariant, PTL

-----------------------------------------------------------------------------

(***************************************************************************)
(* With serialised clients every request works on a map entry of its own.  *)
(***************************************************************************)

\* What request q, and the map entry of block b, look like is the same after the
\* step as before it.
SameRequest(q) ==
  /\ state'[q] = state[q]
  /\ op'[q] = op[q]
  /\ block'[q] = block[q]
  /\ sectors'[q] = sectors[q]
  /\ data'[q] = data[q]
  /\ carriers'[q] = carriers[q]
  /\ nums'[q] = nums[q]
  /\ modification'[q] = modification[q]
  /\ slot'[q] = slot[q]
  /\ pending'[q] = pending[q]
  /\ out'[q] = out[q]

SameEntry(b) == ptr'[b] = ptr[b] /\ sum'[b] = sum[b]

\* Freeing carrier blocks of the block of r concerns no other entry.
LEMMA FreeFrame ==
  ASSUME TypeOK, NEW r \in Reqs, FreeEntry(r), sum' = sum
  PROVE  \A b \in Blocks : b # block[r] => SameEntry(b)
<1>1. ptr \in [Blocks -> [Slots -> Numbers]]
  BY Zenon DEF TypeOK
<1> QED
  BY Zenon, <1>1 DEF FreeEntry, SameEntry

\* A step of request r concerns r and the entry of its block.
LEMMA HandleFrame ==
  ASSUME TypeOK, NEW r \in Reqs, Handle(r)
  PROVE  /\ \A q \in Reqs : q # r => SameRequest(q)
         /\ \A b \in Blocks : b # block[r] => SameEntry(b)
         /\ block' = block /\ op' = op /\ sectors' = sectors
         /\ state[r] \in Active
<1> USE DEF TypeOK, SameRequest, SameEntry, reqVars, memVars
<1>1. CASE ReadUnmapped(r)
  BY Zenon, <1>1 DEF ReadUnmapped, Clean, Active, States
<1>2. CASE ReadMapped(r)
  BY Zenon, <1>2 DEF ReadMapped, Goto, Active, States
<1>3. CASE Lookup(r)
  BY Zenon, <1>3 DEF Lookup, Step, SubmitBios, Active, States
<1>4. CASE \E i \in Slots : ReadBio(r, i)
  BY <1>4 DEF ReadBio, Active, States
<1>5. CASE DecodeIntact(r)
  BY Zenon, <1>5 DEF DecodeIntact, Clean, Active, States
<1>6. CASE DecodeCorrupted(r)
  BY Zenon, <1>6 DEF DecodeCorrupted, Goto, Active, States
<1>7. CASE \E k \in Indices : RebuildMap(r, k)
  BY <1>7 DEF RebuildMap, AcquireInto, Step, SubmitBios, Active, States
<1>8. CASE RebuildNoSpace(r)
  BY Zenon, <1>8 DEF RebuildNoSpace, Goto, Active, States
<1>9. CASE RebuildReset(r)
  <2>1. sum' = sum /\ FreeEntry(r)
    BY Zenon, <1>9 DEF RebuildReset
  <2> QED
    BY Zenon, <1>9, <2>1, FreeFrame DEF RebuildReset, Step, Active, States
<1>10. CASE WriteStart(r)
  BY Zenon, <1>10 DEF WriteStart, Goto, Active, States
<1>11. CASE WriteMapOld(r)
  BY Zenon, <1>11 DEF WriteMapOld, Step, SubmitBios, Active, States
<1>12. CASE \E k \in Indices : WriteMapNew(r, k)
  BY <1>12 DEF WriteMapNew, AcquireInto, Step, SubmitBios, Active, States
<1>13. CASE WriteNoSpace(r)
  BY Zenon, <1>13 DEF WriteNoSpace, Goto, Active, States
<1>14. CASE WriteReset(r)
  <2>1. sum' = sum /\ FreeEntry(r)
    BY Zenon, <1>14 DEF WriteReset
  <2> QED
    BY Zenon, <1>14, <2>1, FreeFrame DEF WriteReset, Active, States
<1>15. CASE WriteResetLast(r)
  <2>1. sum' = sum /\ FreeEntry(r)
    BY Zenon, <1>15 DEF WriteResetLast
  <2> QED
    BY Zenon, <1>15, <2>1, FreeFrame DEF WriteResetLast, Clean, Active, States
<1>16. CASE \E i \in Slots : WriteBio(r, i)
  BY Zenon, <1>16 DEF WriteBio, Active, States
<1>17. CASE \E i \in Slots : WriteBioLast(r, i)
  BY <1>17 DEF WriteBioLast, Clean, Active, States
<1> QED
  BY Zenon, <1>1, <1>2, <1>3, <1>4, <1>5, <1>6, <1>7, <1>8, <1>9, <1>10, <1>11, <1>12,
     <1>13, <1>14, <1>15, <1>16, <1>17 DEF Handle

LEMMA SubmitFrame ==
  ASSUME TypeOK, NEW r \in Reqs, Submit(r)
  PROVE  /\ \A q \in Reqs : q # r => SameRequest(q)
         /\ state[r] = "new" /\ state'[r] = "flightq"
         /\ Serialised => \A q \in Reqs : state[q] \in Active => block[q] # block'[r]
         /\ UNCHANGED <<data, carriers, nums, modification, slot, pending, out,
                        ptr, sum, vector, disk, overwrites>>
<1> PICK o \in {"read", "write"}, b \in Blocks, offset \in Sectors,
         count \in 1 .. SectorsPerBlock : afs_map(r, o, b, offset, count)
  BY Zenon DEF Submit
<1> QED
  BY Zenon DEF afs_map, Goto, TypeOK, SameRequest, memVars

\* At most one request per block is being processed.
SerialInv ==
  \A q, r \in Reqs :
    state[q] \in Active /\ state[r] \in Active /\ block[q] = block[r] => q = r

Loops == {"lookup", "rebuild", "rebuildreset", "mapping", "writereset"}

\* Every loop over the carrier blocks starts at the first one.
LoopInv == \A r \in Reqs : state[r] \notin Loops => slot[r] = 0

\* While a request maps its carrier blocks, block_nums agrees with the map as far
\* as the loop has come; from then on entirely.
HomeInv ==
  \A r \in Reqs : \A j \in Slots :
    \/ state[r] \in {"mapping", "rebuild"} /\ j < slot[r]
    \/ state[r] = "writing"
    => nums[r][j] = ptr[block[r]][j]

LEMMA InitSerial == Init => SerialInv /\ LoopInv /\ HomeInv
BY DEF Init, SerialInv, LoopInv, HomeInv, Active, Loops

LEMMA NextSerial ==
  ASSUME Serialised
  PROVE  TypeOK /\ SerialInv /\ [Next]_vars => SerialInv'
<1> SUFFICES ASSUME TypeOK, SerialInv, [Next]_vars PROVE SerialInv'
  BY Zenon
<1>1. ASSUME NEW r \in Reqs, Submit(r) PROVE SerialInv'
  BY <1>1, SubmitFrame DEF SerialInv, SameRequest
<1>2. ASSUME NEW r \in Reqs, Handle(r) PROVE SerialInv'
  <2>1. \A q \in Reqs : state'[q] \in Active => state[q] \in Active
    BY Zenon, <1>2, HandleFrame DEF SameRequest
  <2> QED
    BY Zenon, <1>2, <2>1, HandleFrame DEF SerialInv
<1>3. ASSUME NEW k \in Indices, PassiveOverwrite(k) PROVE SerialInv'
  BY Zenon, <1>3 DEF PassiveOverwrite, SerialInv, reqVars
<1>4. CASE UNCHANGED vars
  BY Zenon, <1>4 DEF vars, reqVars, SerialInv
<1> QED
  BY Zenon, <1>1, <1>2, <1>3, <1>4 DEF Next

\* A loop step goes to the next carrier block, or resets the counter and moves on.
LEMMA StepCases ==
  ASSUME TypeOK, NEW r \in Reqs, NEW here, NEW next, Step(r, here, next)
  PROVE  \/ /\ slot[r] # NumCarriers - 1
            /\ state'[r] = here /\ slot'[r] = slot[r] + 1
         \/ /\ slot[r] = NumCarriers - 1
            /\ state'[r] = next /\ slot'[r] = 0
BY Zenon DEF Step, TypeOK

\* A handler that ends before its loop is through resets the loop counter.
LEMMA HandleLoop ==
  ASSUME TypeOK, LoopInv, NEW r \in Reqs, Handle(r)
  PROVE  state'[r] \notin Loops => slot'[r] = 0
<1>0. /\ state \in [Reqs -> States] /\ slot \in [Reqs -> Slots]
      /\ state[r] \notin Loops => slot[r] = 0
  BY Zenon DEF TypeOK, LoopInv
<1> USE <1>0 DEF Loops
<1>1. CASE ReadUnmapped(r)
  BY Zenon, <1>1 DEF ReadUnmapped, Clean
<1>2. CASE ReadMapped(r)
  BY Zenon, <1>2 DEF ReadMapped, Goto
<1>3. CASE Lookup(r)
  BY Zenon, <1>3, StepCases DEF Lookup
<1>4. CASE \E i \in Slots : ReadBio(r, i)
  BY Zenon, <1>4 DEF ReadBio
<1>5. CASE DecodeIntact(r)
  BY Zenon, <1>5 DEF DecodeIntact, Clean
<1>6. CASE DecodeCorrupted(r)
  BY Zenon, <1>6 DEF DecodeCorrupted, Goto
<1>7. CASE \E k \in Indices : RebuildMap(r, k)
  BY Zenon, <1>7, StepCases DEF RebuildMap
<1>8. CASE RebuildNoSpace(r)
  BY Zenon, <1>8 DEF RebuildNoSpace, Goto
<1>9. CASE RebuildReset(r)
  BY Zenon, <1>9, StepCases DEF RebuildReset
<1>10. CASE WriteStart(r)
  BY Zenon, <1>10 DEF WriteStart, Goto
<1>11. CASE WriteMapOld(r)
  BY Zenon, <1>11, StepCases DEF WriteMapOld
<1>12. CASE \E k \in Indices : WriteMapNew(r, k)
  BY Zenon, <1>12, StepCases DEF WriteMapNew
<1>13. CASE WriteNoSpace(r)
  BY Zenon, <1>13 DEF WriteNoSpace, Goto
<1>14. CASE WriteReset(r)
  BY Zenon, <1>14 DEF WriteReset
<1>15. CASE WriteResetLast(r)
  BY Zenon, <1>15 DEF WriteResetLast
<1>16. CASE \E i \in Slots : WriteBio(r, i)
  BY Zenon, <1>16 DEF WriteBio
<1>17. CASE \E i \in Slots : WriteBioLast(r, i)
  BY Zenon, <1>17 DEF WriteBioLast, Clean
<1> QED
  BY Zenon, <1>1, <1>2, <1>3, <1>4, <1>5, <1>6, <1>7, <1>8, <1>9, <1>10, <1>11, <1>12,
     <1>13, <1>14, <1>15, <1>16, <1>17 DEF Handle

LEMMA NextLoop == TypeOK /\ LoopInv /\ [Next]_vars => LoopInv'
<1> SUFFICES ASSUME TypeOK, LoopInv, [Next]_vars PROVE LoopInv'
  BY Zenon
<1>1. ASSUME NEW r \in Reqs, Submit(r) PROVE LoopInv'
  BY Zenon, <1>1, SubmitFrame DEF LoopInv, SameRequest, Loops
<1>2. ASSUME NEW r \in Reqs, Handle(r) PROVE LoopInv'
  BY Zenon, <1>2, HandleFrame, HandleLoop DEF LoopInv, SameRequest
<1>3. ASSUME NEW k \in Indices, PassiveOverwrite(k) PROVE LoopInv'
  BY Zenon, <1>3 DEF PassiveOverwrite, LoopInv
<1>4. CASE UNCHANGED vars
  BY Zenon, <1>4 DEF vars, LoopInv
<1> QED
  BY Zenon, <1>1, <1>2, <1>3, <1>4 DEF Next

\* A loop step that makes block_nums agree with the map at the current carrier.
LEMMA HomeStep ==
  ASSUME TypeOK, HomeInv, NEW r \in Reqs, NEW here \in {"mapping", "rebuild"},
         Step(r, here, "writing"), block' = block,
         nums'[r][slot[r]] = ptr'[block[r]][slot[r]],
         \A j \in Slots : j # slot[r] =>
           nums'[r][j] = nums[r][j] /\ ptr'[block[r]][j] = ptr[block[r]][j]
  PROVE  \A j \in Slots :
           \/ state'[r] \in {"mapping", "rebuild"} /\ j < slot'[r]
           \/ state'[r] = "writing"
           => nums'[r][j] = ptr'[block[r]][j]
<1> SUFFICES ASSUME NEW j \in Slots, j # slot[r],
                    \/ state'[r] \in {"mapping", "rebuild"} /\ j < slot'[r]
                    \/ state'[r] = "writing"
             PROVE  nums[r][j] = ptr[block[r]][j]
  BY Zenon
<1>1. /\ state[r] = here /\ NumCarriers \in Nat
      /\ slot[r] \in 0 .. NumCarriers - 1 /\ j \in 0 .. NumCarriers - 1
  <2>1. state[r] = here
    BY Zenon DEF Step
  <2>2. slot \in [Reqs -> Slots]
    BY Zenon DEF TypeOK
  <2>3. NumCarriers \in Nat
    BY Zenon, SizesAssumption
  <2> QED
    BY Zenon, <2>1, <2>2, <2>3 DEF Slots
<1>2. CASE slot[r] # NumCarriers - 1
  <2>1. state'[r] = here /\ slot'[r] = slot[r] + 1
    BY Zenon, <1>2, StepCases
  <2>2. j < slot[r] + 1
    BY Zenon, <2>1
  <2>3. j < slot[r]
    BY <1>1, <2>2
  <2> QED
    BY Zenon, <1>1, <2>3 DEF HomeInv
<1>3. CASE slot[r] = NumCarriers - 1
  <2>1. j < slot[r]
    BY <1>1, <1>3
  <2> QED
    BY Zenon, <1>1, <2>1 DEF HomeInv
<1> QED
  BY Zenon, <1>2, <1>3

LEMMA HandleHome ==
  ASSUME TypeOK, LoopInv, HomeInv, NEW r \in Reqs, Handle(r)
  PROVE  \A j \in Slots :
           \/ state'[r] \in {"mapping", "rebuild"} /\ j < slot'[r]
           \/ state'[r] = "writing"
           => nums'[r][j] = ptr'[block[r]][j]
<1>0. /\ block' = block /\ block[r] \in Blocks /\ slot[r] \in Slots
      /\ state \in [Reqs -> States]
      /\ \A j \in Slots : ~ (j < 0)
  BY SMTT(60), HandleFrame, SizesAssumption DEF TypeOK, Slots
<1>1. CASE ReadUnmapped(r) \/ DecodeIntact(r) \/ WriteResetLast(r)
           \/ \E i \in Slots : WriteBioLast(r, i)
  <2>1. state'[r] = "done"
    BY Zenon, <1>0, <1>1 DEF ReadUnmapped, DecodeIntact, WriteResetLast, WriteBioLast, Clean
  <2> QED
    BY Zenon, <2>1
<1>2. CASE ReadMapped(r) \/ Lookup(r) \/ (\E i \in Slots : ReadBio(r, i))
           \/ RebuildNoSpace(r) \/ RebuildReset(r) \/ WriteNoSpace(r) \/ WriteReset(r)
  <2>1. state'[r] \notin {"mapping", "rebuild", "writing"}
    BY Zenon, <1>0, <1>2 DEF ReadMapped, Lookup, ReadBio, RebuildNoSpace, RebuildReset,
       WriteNoSpace, WriteReset, Goto, Step
  <2> QED
    BY Zenon, <2>1
<1>3. CASE DecodeCorrupted(r) \/ WriteStart(r)
  <2>1. state[r] \in {"cryptoq", "flightq"} /\ slot' = slot /\ state'[r] # "writing"
    <3>1. Goto(r, "cryptoq", "rebuild") \/ Goto(r, "flightq", "mapping")
      BY Zenon, <1>3 DEF DecodeCorrupted, WriteStart
    <3>2. slot' = slot
      BY Zenon, <1>3 DEF DecodeCorrupted, WriteStart
    <3>3. state \in [Reqs -> States]
      BY Zenon DEF TypeOK
    <3> QED
      BY Zenon, <3>1, <3>2, <3>3 DEF Goto
  <2>2. slot'[r] = 0
    BY Zenon, <2>1 DEF LoopInv, Loops
  <2> QED
    BY Zenon, <1>0, <2>1, <2>2
<1>4. ASSUME NEW k \in Indices, RebuildMap(r, k) \/ WriteMapNew(r, k)
      PROVE  \A j \in Slots :
               \/ state'[r] \in {"mapping", "rebuild"} /\ j < slot'[r]
               \/ state'[r] = "writing"
               => nums'[r][j] = ptr'[block[r]][j]
  <2>1. /\ AcquireInto(r, k)
        /\ Step(r, "mapping", "writing") \/ Step(r, "rebuild", "writing")
    BY Zenon, <1>4 DEF RebuildMap, WriteMapNew
  <2>2. /\ nums'[r][slot[r]] = ptr'[block[r]][slot[r]]
        /\ \A j \in Slots : j # slot[r] =>
             nums'[r][j] = nums[r][j] /\ ptr'[block[r]][j] = ptr[block[r]][j]
    BY Zenon, <1>0, <2>1 DEF AcquireInto, TypeOK
  <2> QED
    BY Zenon, <1>0, <2>1, <2>2, HomeStep
<1>5. CASE WriteMapOld(r)
  <2>1. /\ nums'[r][slot[r]] = ptr'[block[r]][slot[r]]
        /\ \A j \in Slots : j # slot[r] =>
             nums'[r][j] = nums[r][j] /\ ptr'[block[r]][j] = ptr[block[r]][j]
    BY Zenon, <1>0, <1>5 DEF WriteMapOld, TypeOK
  <2>2. Step(r, "mapping", "writing")
    BY Zenon, <1>5 DEF WriteMapOld
  <2> QED
    BY Zenon, <1>0, <2>1, <2>2, HomeStep
<1>6. CASE \E i \in Slots : WriteBio(r, i)
  <2>1. state' = state /\ slot' = slot /\ nums' = nums /\ ptr' = ptr
    BY Zenon, <1>6 DEF WriteBio, memVars
  <2> QED
    BY Zenon, <1>0, <2>1 DEF HomeInv
<1> QED
  BY Zenon, <1>1, <1>2, <1>3, <1>4, <1>5, <1>6 DEF Handle

LEMMA NextHome ==
  TypeOK /\ SerialInv /\ LoopInv /\ HomeInv /\ [Next]_vars => HomeInv'
<1> SUFFICES ASSUME TypeOK, SerialInv, LoopInv, HomeInv, [Next]_vars PROVE HomeInv'
  BY Zenon
<1>1. ASSUME NEW r \in Reqs, Submit(r) PROVE HomeInv'
  <2>1. /\ \A q \in Reqs : q # r => SameRequest(q)
        /\ state'[r] = "flightq" /\ ptr' = ptr
    BY Zenon, <1>1, SubmitFrame
  <2> SUFFICES ASSUME NEW q \in Reqs, NEW j \in Slots,
                      \/ state'[q] \in {"mapping", "rebuild"} /\ j < slot'[q]
                      \/ state'[q] = "writing"
               PROVE  nums'[q][j] = ptr'[block'[q]][j]
    BY Zenon DEF HomeInv
  <2>2. q # r
    BY Zenon, <2>1
  <2>3. SameRequest(q)
    BY Zenon, <2>1, <2>2
  <2>4. \/ state[q] \in {"mapping", "rebuild"} /\ j < slot[q]
        \/ state[q] = "writing"
    BY Zenon, <2>3 DEF SameRequest
  <2>5. nums[q][j] = ptr[block[q]][j]
    BY Zenon, <2>4 DEF HomeInv
  <2> QED
    BY Zenon, <2>1, <2>3, <2>5 DEF SameRequest
<1>2. ASSUME NEW r \in Reqs, Handle(r) PROVE HomeInv'
  <2> SUFFICES ASSUME NEW q \in Reqs, q # r, NEW j \in Slots,
                      \/ state'[q] \in {"mapping", "rebuild"} /\ j < slot'[q]
                      \/ state'[q] = "writing"
               PROVE  nums'[q][j] = ptr'[block'[q]][j]
    BY SMTT(60), <1>2, HandleHome, HandleFrame DEF HomeInv
  <2>1. SameRequest(q)
    BY Zenon, <1>2, HandleFrame
  <2>2. state[q] \in {"mapping", "rebuild", "writing"} /\ block[q] \in Blocks
    BY Zenon, <2>1 DEF SameRequest, TypeOK
  <2>3. state[r] \in Active /\ (block[q] # block[r] => SameEntry(block[q]))
    BY Zenon, <1>2, <2>2, HandleFrame
  <2>4. SameEntry(block[q])
    BY Zenon, <2>2, <2>3 DEF SerialInv, Active, States
  <2> QED
    <3>1. \/ state[q] \in {"mapping", "rebuild"} /\ j < slot[q]
          \/ state[q] = "writing"
      BY Zenon, <2>1 DEF SameRequest
    <3>2. nums[q][j] = ptr[block[q]][j]
      BY Zenon, <3>1 DEF HomeInv
    <3> QED
      BY Zenon, <2>1, <2>4, <3>2 DEF SameRequest, SameEntry
<1>3. ASSUME NEW k \in Indices, PassiveOverwrite(k) PROVE HomeInv'
  BY Zenon, <1>3 DEF PassiveOverwrite, HomeInv, reqVars, memVars
<1>4. CASE UNCHANGED vars
  BY Zenon, <1>4 DEF vars, reqVars, memVars, HomeInv
<1> QED
  BY Zenon, <1>1, <1>2, <1>3, <1>4 DEF Next

LEMMA SerialInvariant ==
  ASSUME Serialised
  PROVE  Spec => [](SerialInv /\ LoopInv /\ HomeInv)
BY InitSerial, NextSerial, NextLoop, NextHome, TypeCorrect, PTL DEF Spec

\* A carrier bio in flight goes to a block the request's own map entry names,
\* when clients have at most one request per block outstanding.
THEOREM WritesAreAtHome ==
  ASSUME Serialised
  PROVE  Spec => []WritesStayHome
<1>1. TypeOK /\ HomeInv => WritesStayHome
  BY Zenon DEF TypeOK, HomeInv, WritesStayHome
<1> QED
  BY <1>1, SerialInvariant, TypeCorrect, PTL
-----------------------------------------------------------------------------

(***************************************************************************)
(* The inductive invariant says, for each state of a request, how far the  *)
(* carrier blocks of its block have been looked up, acquired, written or   *)
(* reset.  RestingBlocksIntact speaks of blocks without a request only.    *)
(***************************************************************************)

\* The entry of block b has no carrier block.
Empty(b) == \A i \in Slots : ptr[b][i] = AFS_INVALID_BLOCK

\* It has all of them, they agree with the checksums, and are one encoding.
Intact(b) ==
  /\ \A i \in Slots : ptr[b][i] \in Listed /\ disk[ptr[b][i]] = sum[b][i]
  /\ \E q \in Reqs : sum[b] = Encode(q, sum[b][0].data)

\* Reads find an intact block: block_nums and the pages agree with it as far as
\* the loop and the bios have come.
ReadSound(r) ==
  /\ state[r] \in {"lookup", "reading", "cryptoq"} => op[r] = "read" /\ Intact(block[r])
  /\ state[r] = "lookup" =>
       \A j \in Slots : j < slot[r] => nums[r][j] = ptr[block[r]][j]
  /\ state[r] = "reading" =>
       \A j \in Slots : /\ nums[r][j] = ptr[block[r]][j]
                        /\ j \notin pending[r] => carriers[r][j] = disk[ptr[block[r]][j]]
  /\ state[r] = "cryptoq" =>
       \A j \in Slots : carriers[r][j] = disk[ptr[block[r]][j]]

\* Writes encode the data of the bio; an old block stays intact until the bios are
\* submitted, a new one gets its carrier blocks in order.
WriteSound(r) ==
  /\ state[r] \in {"mapping", "writing", "writereset"} => op[r] = "write"
  /\ state[r] \in {"mapping", "writing"} =>
       /\ carriers[r] = Encode(r, data[r])
       /\ \A s \in sectors[r] : data[r][s] = r
  /\ state[r] = "mapping" /\ modification[r] => Intact(block[r])
  /\ state[r] = "mapping" /\ ~ modification[r] =>
       \A j \in Slots : IF j < slot[r] THEN ptr[block[r]][j] \in Listed
                                       ELSE ptr[block[r]][j] = AFS_INVALID_BLOCK
  /\ state[r] = "writing" =>
       \A j \in Slots :
         /\ ptr[block[r]][j] \in Listed
         /\ j \notin pending[r] => disk[ptr[block[r]][j]] = carriers[r][j]
  /\ state[r] = "writereset" =>
       \A j \in Slots : j < slot[r] => ptr[block[r]][j] = AFS_INVALID_BLOCK

\* No rebuild ever starts.
Sound(r) ==
  /\ state[r] \notin {"rebuild", "rebuildreset", "stuck"}
  /\ state[r] = "flightq" => Empty(block[r]) \/ Intact(block[r])
  /\ ReadSound(r)
  /\ WriteSound(r)

IntactInv ==
  /\ \A r \in Reqs : Sound(r)
  /\ \A b \in Blocks : Quiet(b) => Empty(b) \/ Intact(b)

LEMMA FirstSlot == 0 \in Slots /\ \A j \in Slots : ~ (j < 0)
BY SizesAssumption DEF Slots

LEMMA ListedValid == \A n \in Listed : n # AFS_INVALID_BLOCK
BY Zenon, ListTypes

LEMMA LoopAdvance ==
  ASSUME TypeOK, NEW r \in Reqs, slot'[r] = slot[r] + 1, NEW j \in Slots
  PROVE  j < slot'[r] <=> j < slot[r] \/ j = slot[r]
<1>1. slot[r] \in Slots
  BY Zenon DEF TypeOK
<1>2. slot[r] \in Int /\ j \in Int
  BY <1>1 DEF Slots
<1> QED
  BY <1>2

\* A block is at rest when it has no carrier block or is intact.
LEMMA IntactRests ==
  ASSUME TypeOK, NEW b \in Blocks, Empty(b) \/ Intact(b)
  PROVE  \/ \A i \in Slots : ptr[b][i] = AFS_INVALID_BLOCK
         \/ /\ \A i \in Slots : ptr[b][i] # AFS_INVALID_BLOCK
            /\ OnDisk(b) = sum[b]
            /\ \E r \in Reqs : sum[b] = Encode(r, sum[b][0].data)
<1>1. CASE Empty(b)
  BY Zenon, <1>1 DEF Empty
<1>2. CASE Intact(b)
  <2>1. \A i \in Slots : ptr[b][i] # AFS_INVALID_BLOCK
    BY Zenon, <1>2, ListedValid DEF Intact
  <2>2. OnDisk(b) = sum[b]
    <3>1. sum[b] \in [Slots -> Page]
      BY Zenon DEF TypeOK
    <3>2. \A i \in Slots : OnDisk(b)[i] = sum[b][i]
      BY Zenon, <1>2 DEF Intact, OnDisk
    <3> QED
      BY Zenon, <3>1, <3>2 DEF OnDisk
  <2> QED
    BY Zenon, <1>2, <2>1, <2>2 DEF Intact
<1> QED
  BY Zenon, <1>1, <1>2

-----------------------------------------------------------------------------

(***************************************************************************)
(* What a step of another request leaves alone.                            *)
(***************************************************************************)

\* The carrier blocks of b, and what is on them, are the same after the step.
SameBlock(b) ==
  /\ SameEntry(b)
  /\ \A i \in Slots : ptr[b][i] \in Listed => disk'[ptr[b][i]] = disk[ptr[b][i]]

LEMMA DiskFrame ==
  ASSUME TypeOK, HomeInv, CarriersExclusive, NEW r \in Reqs, Handle(r),
         NEW b \in Blocks, b # block[r]
  PROVE  SameBlock(b)
<1>1. SameEntry(b)
  BY Zenon, HandleFrame
<1>2. ASSUME NEW i \in Slots, ptr[b][i] \in Listed
      PROVE  disk'[ptr[b][i]] = disk[ptr[b][i]]
  <2>0. disk \in [Listed -> Page]
    BY Zenon DEF TypeOK
  <2>1. CASE \E j \in Slots : WriteBio(r, j) \/ WriteBioLast(r, j)
    <3> PICK j \in Slots : WriteBio(r, j) \/ WriteBioLast(r, j)
      BY Zenon, <2>1
    <3>1. /\ state[r] = "writing"
          /\ disk' = [disk EXCEPT ![nums[r][j]] = carriers[r][j]]
      BY Zenon DEF WriteBio, WriteBioLast
    <3>2. nums[r][j] = ptr[block[r]][j] /\ block[r] \in Blocks
      BY Zenon, <3>1 DEF HomeInv, TypeOK
    <3>3. ptr[b][i] # AFS_INVALID_BLOCK
      BY Zenon, <1>2, ListedValid
    <3>4. ptr[b][i] # nums[r][j]
      BY <3>2, <3>3 DEF CarriersExclusive
    <3> QED
      BY Zenon, <1>2, <2>0, <3>1, <3>4
  <2>2. CASE disk' = disk
    BY Zenon, <2>2
  <2>3. disk' = disk \/ \E j \in Slots : WriteBio(r, j) \/ WriteBioLast(r, j)
    BY Zenon DEF Handle, ReadUnmapped, ReadMapped, Lookup, ReadBio, DecodeIntact,
       DecodeCorrupted, RebuildMap, RebuildNoSpace, RebuildReset, WriteStart,
       WriteMapOld, WriteMapNew, WriteNoSpace, WriteReset, WriteResetLast
  <2> QED
    BY Zenon, <2>1, <2>2, <2>3
<1> QED
  BY Zenon, <1>1, <1>2 DEF SameBlock

LEMMA SameRests ==
  ASSUME NEW b \in Blocks, SameBlock(b)
  PROVE  /\ Empty(b) => Empty(b)'
         /\ Intact(b) => Intact(b)'
BY Zenon DEF SameBlock, SameEntry, Empty, Intact

LEMMA SameSound ==
  ASSUME TypeOK, NEW q \in Reqs, Sound(q), SameRequest(q), SameBlock(block[q])
  PROVE  Sound(q)'
<1>0. block[q] \in Blocks
  BY Zenon DEF TypeOK
<1>1. /\ Empty(block[q]) => Empty(block[q])'
      /\ Intact(block[q]) => Intact(block[q])'
  BY <1>0, SameRests DEF SameRequest, Empty, Intact
<1>2. /\ state'[q] = state[q] /\ op'[q] = op[q] /\ block'[q] = block[q]
      /\ sectors'[q] = sectors[q] /\ data'[q] = data[q] /\ carriers'[q] = carriers[q]
      /\ nums'[q] = nums[q] /\ modification'[q] = modification[q]
      /\ slot'[q] = slot[q] /\ pending'[q] = pending[q]
      /\ ptr'[block[q]] = ptr[block[q]]
  BY Zenon DEF SameRequest, SameBlock, SameEntry
<1>3. ReadSound(q)'
  <2>1. state[q] \in {"lookup", "reading", "cryptoq"} =>
          \A j \in Slots : disk'[ptr[block[q]][j]] = disk[ptr[block[q]][j]]
    BY Zenon DEF Sound, ReadSound, Intact, SameBlock
  <2> QED
    BY SMTT(30), <1>1, <1>2, <2>1 DEF Sound, ReadSound
<1>4. WriteSound(q)'
  <2>1. state[q] = "writing" =>
          \A j \in Slots : disk'[ptr[block[q]][j]] = disk[ptr[block[q]][j]]
    BY Zenon DEF Sound, WriteSound, SameBlock
  <2>2. WriteSound(q)
    BY Zenon DEF Sound
  <2>3. /\ state'[q] \in {"mapping", "writing", "writereset"} => op'[q] = "write"
        /\ state'[q] \in {"mapping", "writing"} =>
             /\ carriers'[q] = Encode(q, data'[q])
             /\ \A s \in sectors'[q] : data'[q][s] = q
    BY Zenon, <1>2, <2>2 DEF WriteSound
  <2>4. state'[q] = "mapping" /\ modification'[q] => Intact(block[q])'
    BY Zenon, <1>1, <1>2, <2>2 DEF WriteSound
  <2>5. /\ state'[q] = "mapping" /\ ~ modification'[q] =>
             \A j \in Slots : IF j < slot'[q] THEN ptr'[block'[q]][j] \in Listed
                              ELSE ptr'[block'[q]][j] = AFS_INVALID_BLOCK
        /\ state'[q] = "writereset" =>
             \A j \in Slots : j < slot'[q] => ptr'[block'[q]][j] = AFS_INVALID_BLOCK
    BY Zenon, <1>2, <2>2 DEF WriteSound
  <2>6. state'[q] = "writing" =>
          \A j \in Slots :
            /\ ptr'[block'[q]][j] \in Listed
            /\ j \notin pending'[q] => disk'[ptr'[block'[q]][j]] = carriers'[q][j]
    BY SMTT(30), <1>2, <2>1, <2>2 DEF WriteSound
  <2> QED
    BY Zenon, <2>3, <2>4, <2>5, <2>6 DEF WriteSound
<1> QED
  BY Zenon, <1>1, <1>2, <1>3, <1>4 DEF Sound

-----------------------------------------------------------------------------

(***************************************************************************)
(* The steps of a request keep it sound, and leave its block at rest when  *)
(* they end it.                                                            *)
(***************************************************************************)

Keeps(r) ==
  /\ Sound(r)'
  /\ state'[r] \notin Active => (Empty(block[r]) \/ Intact(block[r]))'

LEMMA EndKeeps ==
  ASSUME NEW r \in Reqs, state'[r] = "done", (Empty(block[r]) \/ Intact(block[r]))'
  PROVE  Keeps(r)
BY Zenon DEF Keeps, Sound, ReadSound, WriteSound

LEMMA StillRests ==
  ASSUME TypeOK, NEW r \in Reqs, UNCHANGED <<ptr, sum, disk, block>>
  PROVE  /\ Empty(block[r]) => Empty(block[r])'
         /\ Intact(block[r]) => Intact(block[r])'
BY Zenon DEF Empty, Intact

LEMMA MappedIntact ==
  ASSUME TypeOK, NEW r \in Reqs, Sound(r), state[r] = "flightq"
  PROVE  IF Mapped(block[r]) THEN Intact(block[r]) ELSE Empty(block[r])
BY Zenon, FirstSlot, ListedValid DEF Sound, Mapped, Empty, Intact

\* A read of a sound request meets no wrong checksum.
LEMMA NoCorruption ==
  ASSUME NEW r \in Reqs, Sound(r)
  PROVE  ~ DecodeCorrupted(r)
<1> SUFFICES ASSUME DecodeCorrupted(r) PROVE FALSE
  BY Zenon
<1>1. state[r] = "cryptoq" /\ Corrupted(r) # {}
  BY Zenon DEF DecodeCorrupted, Goto
<1>2. Intact(block[r]) /\ \A j \in Slots : carriers[r][j] = disk[ptr[block[r]][j]]
  BY Zenon, <1>1 DEF Sound, ReadSound
<1> QED
  BY Zenon, <1>1, <1>2 DEF Corrupted, Intact

LEMMA ReadKeeps ==
  ASSUME TypeOK, LoopInv, NEW r \in Reqs, Sound(r),
         \/ ReadUnmapped(r) \/ ReadMapped(r) \/ Lookup(r)
         \/ \E i \in Slots : ReadBio(r, i)
         \/ DecodeIntact(r) \/ DecodeCorrupted(r)
  PROVE  Keeps(r)
<1>0. /\ UNCHANGED <<ptr, sum, disk, block, op>>
      /\ state \in [Reqs -> States] /\ slot \in [Reqs -> Slots] /\ block[r] \in Blocks
      /\ \A j \in Slots : ~ (j < 0)
  <2>1. UNCHANGED <<ptr, sum, disk, block, op>>
    BY Zenon DEF ReadUnmapped, ReadMapped, Lookup, ReadBio, DecodeIntact, DecodeCorrupted,
       reqVars
  <2> QED
    BY Zenon, <2>1, FirstSlot DEF TypeOK
<1>1. /\ Empty(block[r]) => Empty(block[r])'
      /\ Intact(block[r]) => Intact(block[r])'
  BY Zenon, <1>0, StillRests
<1>2. CASE ReadUnmapped(r)
  <2>1. state'[r] = "done" /\ state[r] = "flightq"
    BY Zenon, <1>0, <1>2 DEF ReadUnmapped, Clean
  <2> QED
    BY Zenon, <1>1, <2>1, EndKeeps DEF Sound
<1>3. CASE ReadMapped(r)
  <2>1. /\ state[r] = "flightq" /\ state'[r] = "lookup" /\ op[r] = "read"
        /\ Mapped(block[r]) /\ slot' = slot
    BY Zenon, <1>0, <1>3 DEF ReadMapped, Goto
  <2>2. slot'[r] = 0
    BY Zenon, <2>1 DEF LoopInv, Loops
  <2>3. Intact(block[r])'
    BY Zenon, <1>1, <2>1, MappedIntact
  <2> QED
    BY Zenon, <1>0, <2>1, <2>2, <2>3 DEF Keeps, Sound, ReadSound, WriteSound, Active, States
<1>4. CASE Lookup(r)
  <2>1. /\ state[r] = "lookup" /\ Step(r, "lookup", "reading")
        /\ nums' = [nums EXCEPT ![r][slot[r]] = ptr[block[r]][slot[r]]]
        /\ SubmitBios(r)
    BY Zenon, <1>4 DEF Lookup, Step
  <2>2. Intact(block[r])' /\ op[r] = "read"
    BY Zenon, <1>1, <2>1 DEF Sound, ReadSound
  <2>3. \A j \in Slots : j < slot[r] \/ j = slot[r] => nums'[r][j] = ptr[block[r]][j]
    <3>1. nums \in [Reqs -> [Slots -> Numbers]]
      BY Zenon DEF TypeOK
    <3> QED
      BY Zenon, <2>1, <3>1 DEF Sound, ReadSound
  <2>4. CASE slot[r] # NumCarriers - 1
    <3>1. state'[r] = "lookup" /\ slot'[r] = slot[r] + 1
      BY Zenon, <2>1, <2>4, StepCases
    <3>2. \A j \in Slots : j < slot'[r] => j < slot[r] \/ j = slot[r]
      BY Zenon, <3>1, LoopAdvance
    <3> QED
      BY Zenon, <1>0, <2>2, <2>3, <3>1, <3>2
         DEF Keeps, Sound, ReadSound, WriteSound, Active, States
  <2>5. CASE slot[r] = NumCarriers - 1
    <3>1. state'[r] = "reading"
      BY Zenon, <2>1, <2>5, StepCases
    <3>2. \A j \in Slots : j < slot[r] \/ j = slot[r]
      BY <2>5, SizesAssumption DEF Slots
    <3>3. pending'[r] = Slots
      BY Zenon, <2>1, <2>5 DEF SubmitBios, TypeOK
    <3> QED
      BY Zenon, <1>0, <2>2, <2>3, <3>1, <3>2, <3>3
         DEF Keeps, Sound, ReadSound, WriteSound, Active, States
  <2> QED
    BY Zenon, <2>4, <2>5
<1>5. ASSUME NEW i \in Slots, ReadBio(r, i) PROVE Keeps(r)
  <2>1. /\ state[r] = "reading" /\ i \in pending[r] /\ nums' = nums
        /\ pending'[r] = pending[r] \ {i}
        /\ state'[r] = IF pending[r] = {i} THEN "cryptoq" ELSE "reading"
    BY Zenon, <1>0, <1>5 DEF ReadBio, TypeOK
  <2>2. Intact(block[r]) /\ op[r] = "read" /\ \A j \in Slots : nums[r][j] = ptr[block[r]][j]
    BY Zenon, <2>1 DEF Sound, ReadSound
  <2>3. \A j \in Slots : carriers'[r][j] = IF j = i THEN disk[ptr[block[r]][i]]
                                                    ELSE carriers[r][j]
    <3>1. nums[r][i] # AFS_INVALID_BLOCK
      BY Zenon, <2>2, ListedValid DEF Intact
    <3> QED
      BY Zenon, <1>5, <2>2, <3>1 DEF ReadBio, TypeOK
  <2>4. \A j \in Slots : j \notin pending'[r] => carriers'[r][j] = disk[ptr[block[r]][j]]
    BY Zenon, <2>1, <2>3 DEF Sound, ReadSound
  <2>5. CASE pending[r] = {i}
    BY Zenon, <1>0, <1>1, <2>1, <2>2, <2>4, <2>5
       DEF Keeps, Sound, ReadSound, WriteSound, Active, States
  <2>6. CASE pending[r] # {i}
    BY Zenon, <1>0, <1>1, <2>1, <2>2, <2>4, <2>6
       DEF Keeps, Sound, ReadSound, WriteSound, Active, States
  <2> QED
    BY Zenon, <2>5, <2>6
<1>6. CASE DecodeIntact(r)
  <2>1. state'[r] = "done" /\ state[r] = "cryptoq"
    BY Zenon, <1>0, <1>6 DEF DecodeIntact, Clean
  <2> QED
    BY Zenon, <1>1, <2>1, EndKeeps DEF Sound, ReadSound
<1>7. ~ DecodeCorrupted(r)
  BY Zenon, NoCorruption
<1> QED
  BY Zenon, <1>2, <1>3, <1>4, <1>5, <1>6, <1>7

LEMMA NoRebuild ==
  ASSUME NEW r \in Reqs, Sound(r)
  PROVE  /\ \A k \in Indices : ~ RebuildMap(r, k)
         /\ ~ RebuildNoSpace(r) /\ ~ RebuildReset(r)
BY Zenon DEF Sound, RebuildMap, RebuildNoSpace, RebuildReset, Step, Goto

LEMMA WriteStartKeeps ==
  ASSUME TypeOK, LoopInv, NEW r \in Reqs, Sound(r), WriteStart(r)
  PROVE  Keeps(r)
<1>1. /\ UNCHANGED <<ptr, sum, disk, block, op, slot, sectors>>
      /\ state[r] = "flightq" /\ state'[r] = "mapping" /\ op[r] = "write"
      /\ modification'[r] = Mapped(block[r])
      /\ carriers'[r] = Encode(r, data'[r])
      /\ data'[r] = [s \in Sectors |-> IF s \in sectors[r] THEN r ELSE data[r][s]]
  BY Zenon DEF WriteStart, Goto, TypeOK, reqVars
<1>2. slot[r] = 0 /\ \A j \in Slots : ~ (j < 0)
  BY Zenon, <1>1, FirstSlot DEF LoopInv, Loops
<1>3. \A s \in sectors[r] : data'[r][s] = r
  BY Zenon, <1>1 DEF TypeOK
<1>4. /\ Mapped(block[r]) => Intact(block[r])'
      /\ ~ Mapped(block[r]) => \A j \in Slots : ptr[block[r]][j] = AFS_INVALID_BLOCK
  BY Zenon, <1>1, StillRests, MappedIntact DEF Empty
<1> QED
  BY Zenon, <1>1, <1>2, <1>3, <1>4
     DEF Keeps, Sound, ReadSound, WriteSound, Active, States

\* The last turn of the loop submits a bio for every carrier block.
LEMMA SubmitAll ==
  ASSUME TypeOK, NEW r \in Reqs, SubmitBios(r), slot[r] = NumCarriers - 1
  PROVE  /\ pending'[r] = Slots
         /\ \A j \in Slots : j < slot[r] \/ j = slot[r]
BY SizesAssumption DEF SubmitBios, TypeOK, Slots

LEMMA WriteMapOldKeeps ==
  ASSUME TypeOK, NEW r \in Reqs, Sound(r), WriteMapOld(r)
  PROVE  Keeps(r)
<1>1. /\ UNCHANGED <<ptr, sum, disk, block, op, data, carriers, modification, sectors>>
      /\ state[r] = "mapping" /\ modification[r] /\ SubmitBios(r)
      /\ Step(r, "mapping", "writing")
  BY Zenon DEF WriteMapOld, Step, reqVars
<1>2. Intact(block[r]) /\ Intact(block[r])'
  BY Zenon, <1>1, StillRests DEF Sound, WriteSound
<1>3. CASE slot[r] # NumCarriers - 1
  <2>1. state'[r] = "mapping"
    BY Zenon, <1>1, <1>3, StepCases
  <2> QED
    BY Zenon, <1>1, <1>2, <2>1 DEF Keeps, Sound, ReadSound, WriteSound, Active, States
<1>4. CASE slot[r] = NumCarriers - 1
  <2>1. state'[r] = "writing"
    BY Zenon, <1>1, <1>4, StepCases
  <2>2. pending'[r] = Slots
    BY Zenon, <1>1, <1>4, SubmitAll
  <2>3. \A j \in Slots : ptr[block[r]][j] \in Listed
    BY Zenon, <1>2 DEF Intact
  <2> QED
    BY Zenon, <1>1, <2>1, <2>2, <2>3 DEF Keeps, Sound, ReadSound, WriteSound, Active, States
<1> QED
  BY Zenon, <1>3, <1>4

LEMMA WriteMapNewKeeps ==
  ASSUME TypeOK, NEW r \in Reqs, Sound(r), NEW k \in Indices, WriteMapNew(r, k)
  PROVE  Keeps(r)
<1>1. /\ UNCHANGED <<sum, disk, block, op, data, carriers, modification, sectors>>
      /\ state[r] = "mapping" /\ ~ modification[r] /\ SubmitBios(r)
      /\ Step(r, "mapping", "writing")
      /\ ptr' = [ptr EXCEPT ![block[r]][slot[r]] = BlockList[k]]
  BY Zenon DEF WriteMapNew, AcquireInto, Step, reqVars
<1>2. \A j \in Slots : ptr'[block[r]][j] = IF j = slot[r] THEN BlockList[k]
                                                         ELSE ptr[block[r]][j]
  BY Zenon, <1>1 DEF TypeOK
<1>3. \A j \in Slots : IF j < slot[r] \/ j = slot[r]
                       THEN ptr'[block[r]][j] \in Listed
                       ELSE ptr'[block[r]][j] = AFS_INVALID_BLOCK
  BY <1>1, <1>2, ListTypes DEF Sound, WriteSound
<1>4. CASE slot[r] # NumCarriers - 1
  <2>1. state'[r] = "mapping" /\ slot'[r] = slot[r] + 1
    BY Zenon, <1>1, <1>4, StepCases
  <2>2. \A j \in Slots : IF j < slot'[r] THEN ptr'[block[r]][j] \in Listed
                                         ELSE ptr'[block[r]][j] = AFS_INVALID_BLOCK
    BY Zenon, <1>3, <2>1, LoopAdvance
  <2> QED
    BY Zenon, <1>1, <2>1, <2>2 DEF Keeps, Sound, ReadSound, WriteSound, Active, States
<1>5. CASE slot[r] = NumCarriers - 1
  <2>1. state'[r] = "writing"
    BY Zenon, <1>1, <1>5, StepCases
  <2>2. pending'[r] = Slots /\ \A j \in Slots : ptr'[block[r]][j] \in Listed
    BY Zenon, <1>1, <1>3, <1>5, SubmitAll
  <2> QED
    BY Zenon, <1>1, <2>1, <2>2 DEF Keeps, Sound, ReadSound, WriteSound, Active, States
<1> QED
  BY Zenon, <1>4, <1>5

LEMMA WriteResetKeeps ==
  ASSUME TypeOK, NEW r \in Reqs, Sound(r),
         WriteNoSpace(r) \/ WriteReset(r) \/ WriteResetLast(r)
  PROVE  Keeps(r)
<1>0. state \in [Reqs -> States] /\ slot \in [Reqs -> Slots] /\ block[r] \in Blocks
  BY Zenon DEF TypeOK
<1>1. CASE WriteNoSpace(r)
  <2>1. /\ state[r] = "mapping" /\ state'[r] = "writereset" /\ slot'[r] = 0 /\ op' = op
    BY Zenon, <1>0, <1>1 DEF WriteNoSpace, Goto, reqVars
  <2> QED
    BY Zenon, <2>1, FirstSlot DEF Keeps, Sound, ReadSound, WriteSound, Active, States
<1>2. ASSUME state[r] = "writereset", FreeEntry(r)
      PROVE  \A j \in Slots : j < slot[r] \/ j = slot[r] =>
               ptr'[block[r]][j] = AFS_INVALID_BLOCK
  <2>1. \A j \in Slots : ptr'[block[r]][j] = IF j = slot[r] THEN AFS_INVALID_BLOCK
                                                            ELSE ptr[block[r]][j]
    BY Zenon, <1>0, <1>2 DEF FreeEntry, TypeOK
  <2> QED
    BY Zenon, <1>2, <2>1 DEF Sound, WriteSound
<1>3. CASE WriteReset(r)
  <2>1. /\ state[r] = "writereset" /\ state' = state /\ slot'[r] = slot[r] + 1
        /\ op' = op /\ block' = block /\ FreeEntry(r)
    BY Zenon, <1>0, <1>3 DEF WriteReset, reqVars
  <2>2. \A j \in Slots : j < slot'[r] => ptr'[block[r]][j] = AFS_INVALID_BLOCK
    BY Zenon, <1>2, <2>1, LoopAdvance
  <2> QED
    BY Zenon, <2>1, <2>2 DEF Keeps, Sound, ReadSound, WriteSound, Active, States
<1>4. CASE WriteResetLast(r)
  <2>1. /\ state[r] = "writereset" /\ state'[r] = "done" /\ slot[r] = NumCarriers - 1
        /\ block' = block /\ FreeEntry(r)
    BY Zenon, <1>0, <1>4 DEF WriteResetLast, Clean, reqVars
  <2>2. \A j \in Slots : j < slot[r] \/ j = slot[r]
    BY <2>1, SizesAssumption DEF Slots
  <2>3. Empty(block[r])'
    BY Zenon, <1>2, <2>1, <2>2 DEF Empty
  <2> QED
    BY Zenon, <2>1, <2>3, EndKeeps
<1> QED
  BY Zenon, <1>1, <1>3, <1>4

LEMMA OwnCarriers ==
  ASSUME CarriersExclusive, NEW b \in Blocks, NEW i \in Slots, NEW j \in Slots,
         ptr[b][j] # AFS_INVALID_BLOCK, ptr[b][j] = ptr[b][i]
  PROVE  j = i
BY Zenon DEF CarriersExclusive

\* A bio of a write changes no other carrier block of the entry either.
LEMMA BioFrame ==
  ASSUME TypeOK, HomeInv, CarriersExclusive, NEW r \in Reqs, Sound(r), NEW i \in Slots,
         state[r] = "writing", disk' = [disk EXCEPT ![nums[r][i]] = carriers[r][i]]
  PROVE  \A j \in Slots : disk'[ptr[block[r]][j]] =
           IF j = i THEN carriers[r][i] ELSE disk[ptr[block[r]][j]]
<1>1. /\ nums[r][i] = ptr[block[r]][i] /\ block[r] \in Blocks
      /\ \A j \in Slots : ptr[block[r]][j] \in Listed
      /\ disk \in [Listed -> Page]
  BY Zenon DEF HomeInv, Sound, WriteSound, TypeOK
<1>2. \A j \in Slots : j # i => ptr[block[r]][j] # ptr[block[r]][i]
  <2> SUFFICES ASSUME NEW j \in Slots, ptr[block[r]][j] = ptr[block[r]][i] PROVE j = i
    BY Zenon
  <2>1. ptr[block[r]][j] # AFS_INVALID_BLOCK /\ block[r] \in Blocks
    BY Zenon, <1>1, ListedValid
  <2> QED
    BY Zenon, <2>1, OwnCarriers
<1> QED
  BY Zenon, <1>1, <1>2

LEMMA WriteBioKeeps ==
  ASSUME TypeOK, HomeInv, CarriersExclusive, NEW r \in Reqs, Sound(r), NEW i \in Slots,
         WriteBio(r, i) \/ WriteBioLast(r, i)
  PROVE  Keeps(r)
<1>0. /\ state[r] = "writing" /\ disk' = [disk EXCEPT ![nums[r][i]] = carriers[r][i]]
      /\ UNCHANGED <<ptr, block, op, sectors>>
  BY Zenon DEF WriteBio, WriteBioLast, reqVars
<1>1. \A j \in Slots : disk'[ptr[block[r]][j]] =
        IF j = i THEN carriers[r][i] ELSE disk[ptr[block[r]][j]]
  BY Zenon, <1>0, BioFrame
<1>2. /\ carriers[r] = Encode(r, data[r])
      /\ \A j \in Slots : ptr[block[r]][j] \in Listed
      /\ \A j \in Slots : j \notin pending[r] => disk[ptr[block[r]][j]] = carriers[r][j]
  BY Zenon, <1>0 DEF Sound, WriteSound
<1>3. CASE WriteBio(r, i)
  <2>1. /\ UNCHANGED <<state, data, carriers>>
        /\ pending'[r] = pending[r] \ {i}
    BY Zenon, <1>3 DEF WriteBio, memVars, TypeOK
  <2>2. \A j \in Slots : j \notin pending'[r] => disk'[ptr[block[r]][j]] = carriers[r][j]
    BY Zenon, <1>1, <1>2, <2>1
  <2> QED
    BY Zenon, <1>0, <1>2, <2>1, <2>2 DEF Keeps, Sound, ReadSound, WriteSound, Active, States
<1>4. CASE WriteBioLast(r, i)
  <2>1. state'[r] = "done" /\ sum'[block[r]] = carriers[r] /\ pending[r] = {i}
    BY Zenon, <1>4 DEF WriteBioLast, Clean, TypeOK
  <2>2. \A j \in Slots : disk'[ptr[block[r]][j]] = carriers[r][j]
    BY Zenon, <1>1, <1>2, <2>1
  <2>3. carriers[r][0].data = data[r]
    <3>1. carriers[r] = Encode(r, data[r])
      BY Zenon, <1>2
    <3>2. 0 \in Slots
      BY Zenon, FirstSlot
    <3> QED
      BY SMTT(30), <3>1, <3>2 DEF Encode
  <2>4. Intact(block[r])'
    BY Zenon, <1>0, <1>2, <2>1, <2>2, <2>3 DEF Intact
  <2> QED
    BY Zenon, <2>1, <2>4, EndKeeps
<1> QED
  BY Zenon, <1>3, <1>4

LEMMA HandleKeeps ==
  ASSUME TypeOK, LoopInv, HomeInv, CarriersExclusive, NEW r \in Reqs, Sound(r), Handle(r)
  PROVE  Keeps(r)
BY Zenon, ReadKeeps, NoRebuild, WriteStartKeeps, WriteMapOldKeeps, WriteMapNewKeeps,
   WriteResetKeeps, WriteBioKeeps DEF Handle

-----------------------------------------------------------------------------

LEMMA InitIntact == Init => IntactInv
<1> SUFFICES ASSUME Init PROVE IntactInv
  BY Zenon
<1>1. \A r \in Reqs : state[r] = "new"
  BY Zenon DEF Init
<1>2. \A r \in Reqs : Sound(r)
  BY Zenon, <1>1 DEF Sound, ReadSound, WriteSound
<1>3. \A b \in Blocks : Empty(b)
  BY Zenon DEF Init, Empty, NoNums
<1> QED
  BY Zenon, <1>2, <1>3 DEF IntactInv

LEMMA NextIntact ==
  ASSUME Serialised, MaxOverwrites = 0
  PROVE  TypeOK /\ SerialInv /\ LoopInv /\ HomeInv /\ CarriersExclusive /\ IntactInv
           /\ [Next]_vars => IntactInv'
<1> SUFFICES ASSUME TypeOK, SerialInv, LoopInv, HomeInv, CarriersExclusive, IntactInv,
                    [Next]_vars
             PROVE  IntactInv'
  BY Zenon
<1>1. ASSUME NEW r \in Reqs, Submit(r) PROVE IntactInv'
  <2>1. /\ \A q \in Reqs : q # r => SameRequest(q)
        /\ state[r] = "new" /\ state'[r] = "flightq"
        /\ \A q \in Reqs : state[q] \in Active => block[q] # block'[r]
        /\ UNCHANGED <<ptr, sum, disk>>
    BY Zenon, <1>1, SubmitFrame
  <2>2. \A b \in Blocks : SameBlock(b)
    BY Zenon, <2>1 DEF SameBlock, SameEntry
  <2>3. ASSUME NEW q \in Reqs, q # r PROVE Sound(q)'
    BY Zenon, <2>1, <2>2, <2>3, SameSound DEF IntactInv, TypeOK
  <2>4. Sound(r)'
    <3>1. block'[r] \in Blocks
      BY Zenon, <1>1, NextTypeOK DEF Next, TypeOK
    <3>2. Empty(block'[r]) \/ Intact(block'[r])
      BY Zenon, <2>1, <3>1 DEF IntactInv, Quiet
    <3>3. Empty(block[r])' \/ Intact(block[r])'
      BY Zenon, <2>1, <3>2 DEF Empty, Intact
    <3> QED
      BY Zenon, <2>1, <3>3 DEF Sound, ReadSound, WriteSound
  <2>5. ASSUME NEW b \in Blocks, Quiet(b)' PROVE (Empty(b) \/ Intact(b))'
    <3>1. Quiet(b)
      BY Zenon, <2>1, <2>5 DEF Quiet, SameRequest, Active
    <3> QED
      BY Zenon, <2>2, <3>1, SameRests DEF IntactInv
  <2> QED
    BY Zenon, <2>3, <2>4, <2>5 DEF IntactInv
<1>2. ASSUME NEW r \in Reqs, Handle(r) PROVE IntactInv'
  <2>1. /\ \A q \in Reqs : q # r => SameRequest(q)
        /\ block' = block /\ state[r] \in Active
    BY Zenon, <1>2, HandleFrame
  <2>2. \A b \in Blocks : b # block[r] => SameBlock(b)
    BY Zenon, <1>2, DiskFrame
  <2>3. Keeps(r)
    BY Zenon, <1>2, HandleKeeps DEF IntactInv
  <2>4. ASSUME NEW q \in Reqs, q # r PROVE Sound(q)'
    <3>1. SameRequest(q) /\ block[q] \in Blocks /\ Sound(q)
      BY Zenon, <2>1, <2>4 DEF TypeOK, IntactInv
    <3>2. CASE state[q] \in Active
      <4>1. block[q] # block[r]
        BY Zenon, <2>1, <2>4, <3>2 DEF SerialInv
      <4> QED
        BY Zenon, <2>2, <3>1, <4>1, SameSound
    <3>3. CASE state[q] \notin Active
      BY Zenon, <3>1, <3>3 DEF SameRequest, Sound, ReadSound, WriteSound, Active, States
    <3> QED
      BY Zenon, <3>2, <3>3
  <2>5. ASSUME NEW b \in Blocks, Quiet(b)' PROVE (Empty(b) \/ Intact(b))'
    <3>1. CASE b = block[r]
      <4>1. state'[r] \notin Active
        BY Zenon, <2>1, <2>5, <3>1 DEF Quiet
      <4> QED
        BY Zenon, <2>1, <2>3, <3>1, <4>1 DEF Keeps, Empty, Intact
    <3>2. CASE b # block[r]
      <4>1. Quiet(b)
        BY Zenon, <2>1, <2>5, <3>2 DEF Quiet, SameRequest
      <4> QED
        BY Zenon, <2>2, <3>2, <4>1, SameRests DEF IntactInv
    <3> QED
      BY Zenon, <3>1, <3>2
  <2> QED
    BY Zenon, <2>3, <2>4, <2>5 DEF IntactInv, Keeps
<1>3. ASSUME NEW k \in Indices, PassiveOverwrite(k) PROVE FALSE
  BY <1>3 DEF PassiveOverwrite, TypeOK
<1>4. CASE UNCHANGED vars
  <2>1. \A q \in Reqs : SameRequest(q)
    BY Zenon, <1>4 DEF vars, reqVars, memVars, SameRequest
  <2>2. \A b \in Blocks : SameBlock(b)
    BY Zenon, <1>4 DEF vars, SameBlock, SameEntry
  <2>3. \A q \in Reqs : Sound(q)'
    BY Zenon, <2>1, <2>2, SameSound DEF IntactInv, TypeOK
  <2>4. \A b \in Blocks : Quiet(b)' => Quiet(b)
    BY Zenon, <2>1 DEF Quiet, SameRequest
  <2> QED
    BY Zenon, <2>2, <2>3, <2>4, SameRests DEF IntactInv
<1> QED
  BY Zenon, <1>1, <1>2, <1>3, <1>4 DEF Next

LEMMA IntactInvariant ==
  ASSUME Serialised, MaxOverwrites = 0, NumbersBeyondIndices
  PROVE  Spec => []IntactInv
BY InitIntact, NextIntact, SerialInvariant, CarriersAreExclusive, TypeCorrect, PTL DEF Spec

\* A block without a request in progress has no carrier block, or all of them with
\* the shares of one encoding and their checksums (afs_write_endio), whatever
\* requests have run, failed for want of space or overlapped on other blocks.
THEOREM BlocksRestIntact ==
  ASSUME Serialised, MaxOverwrites = 0, NumbersBeyondIndices
  PROVE  Spec => []RestingBlocksIntact
<1>1. TypeOK /\ IntactInv => RestingBlocksIntact
  BY Zenon, IntactRests DEF IntactInv, RestingBlocksIntact
<1> QED
  BY <1>1, IntactInvariant, TypeCorrect, PTL

-----------------------------------------------------------------------------


\* Requests cover whole blocks, as those of a file system with blocks of 4096
\* bytes do.
WholeBlocks == \A r \in Reqs : state[r] \in Active => sectors[r] = Sectors

DeviceInv ==
  /\ TypeOK
  /\ SerialInv
  /\ LoopInv
  /\ HomeInv
  /\ CarriersExclusive
  /\ IntactInv
  /\ WholeBlocks

-----------------------------------------------------------------------------

(***************************************************************************)
(* What the refinement mapping is, in terms of the one request that is     *)
(* active on a block.                                                      *)
(***************************************************************************)

\* A write that has not stored all pointers, or is resetting them.
Partial(r) ==
  \/ state[r] = "mapping" /\ ~ modification[r]
  \/ state[r] = "writereset"

ActiveStore ==
  \A r \in Reqs : state[r] \in Active =>
    Store(block[r]) = IF state[r] = "writing" THEN data[r]
                      ELSE IF Partial(r) \/ ~ Mapped(block[r]) THEN NoReq
                      ELSE Decode(OnDisk(block[r]))

QuietStore ==
  \A b \in Blocks : Quiet(b) =>
    Store(b) = IF Mapped(b) THEN Decode(OnDisk(b)) ELSE NoReq

LEMMA StoreForms == SerialInv => ActiveStore /\ QuietStore
<1> SUFFICES ASSUME SerialInv PROVE ActiveStore /\ QuietStore
  BY Zenon
<1>1. ASSUME NEW r \in Reqs, state[r] \in Active
      PROVE  Store(block[r]) = IF state[r] = "writing" THEN data[r]
                               ELSE IF Partial(r) \/ ~ Mapped(block[r]) THEN NoReq
                               ELSE Decode(OnDisk(block[r]))
  <2>1. Writer(block[r]) = IF state[r] = "writing" THEN {r} ELSE {}
    BY Zenon, <1>1 DEF Writer, SerialInv, Active, States
  <2>2. Unfinished(block[r]) <=> Partial(r)
    BY Zenon, <1>1 DEF Unfinished, Partial, SerialInv, Active, States
  <2> QED
    BY <2>1, <2>2 DEF Store
<1>2. ASSUME NEW b \in Blocks, Quiet(b)
      PROVE  Store(b) = IF Mapped(b) THEN Decode(OnDisk(b)) ELSE NoReq
  <2>1. Writer(b) = {} /\ ~ Unfinished(b)
    BY Zenon, <1>2 DEF Quiet, Writer, Unfinished, Active, States
  <2> QED
    BY Zenon, <2>1 DEF Store
<1> QED
  BY Zenon, <1>1, <1>2 DEF ActiveStore, QuietStore

LEMMA StoreFormsNext == SerialInv' => ActiveStore' /\ QuietStore'
BY StoreForms, PTL

\* A block that counts as holding data, without a write in progress, is intact.
LEMMA StoreIntact ==
  ASSUME TypeOK, IntactInv, NEW b \in Blocks, Writer(b) = {}, ~ Unfinished(b), Mapped(b)
  PROVE  Intact(b)
<1>0. ~ Empty(b)
  BY Zenon, FirstSlot DEF Empty, Mapped
<1>1. CASE Quiet(b)
  BY Zenon, <1>0, <1>1 DEF IntactInv
<1>2. ASSUME NEW q \in Reqs, state[q] \in Active, block[q] = b PROVE Intact(b)
  <2>1. Sound(q) /\ state[q] # "writing" /\ ~ Partial(q)
    BY Zenon, <1>2 DEF IntactInv, Writer, Unfinished, Partial
  <2>2. state[q] \in {"flightq", "lookup", "reading", "cryptoq", "mapping"}
    BY Zenon, <1>2, <2>1 DEF Sound, Partial, Active, States
  <2> QED
    BY Zenon, <1>0, <1>2, <2>1, <2>2 DEF Sound, ReadSound, WriteSound, Partial
<1> QED
  BY Zenon, <1>1, <1>2 DEF Quiet

LEMMA DecodeEncode ==
  ASSUME NEW r \in Reqs, NEW d
  PROVE  Decode(Encode(r, d)) = d
BY Zenon, Sizes, NamesAssumption DEF Decode, Encode

\* What the shares of an intact block decode to.
LEMMA IntactDecode ==
  ASSUME TypeOK, NEW b \in Blocks, Intact(b)
  PROVE  /\ OnDisk(b) = sum[b]
         /\ Decode(OnDisk(b)) = sum[b][0].data
         /\ Decode(OnDisk(b)) \in DataBlock
         /\ Mapped(b)
<1>1. OnDisk(b) = sum[b]
  <2>1. sum[b] \in [Slots -> Page]
    BY Zenon DEF TypeOK
  <2>2. \A i \in Slots : OnDisk(b)[i] = sum[b][i]
    BY Zenon DEF Intact, OnDisk
  <2> QED
    BY Zenon, <2>1, <2>2 DEF OnDisk
<1>2. Decode(OnDisk(b)) = sum[b][0].data
  BY Zenon, <1>1, DecodeEncode DEF Intact
<1>3. sum[b] \in [Slots -> Page]
  BY Zenon DEF TypeOK
<1>4. Decode(OnDisk(b)) \in DataBlock
  BY Zenon, <1>1, <1>3, DecodeType
<1>5. Mapped(b)
  BY Zenon, FirstSlot, ListedValid DEF Mapped, Intact
<1> QED
  BY Zenon, <1>1, <1>2, <1>4, <1>5

-----------------------------------------------------------------------------

(***************************************************************************)
(* What a step of request r leaves alone.                                  *)
(***************************************************************************)

LEMMA OtherStore ==
  ASSUME TypeOK, IntactInv, NEW r \in Reqs, \A q \in Reqs : q # r => SameRequest(q),
         NEW b \in Blocks, SameBlock(b),
         block[r] # b \/ state[r] = "new",
         block'[r] # b \/ state'[r] = "flightq"
  PROVE  Store(b)' = Store(b)
<1>1. Writer(b)' = Writer(b) /\ r \notin Writer(b)
  BY Zenon DEF Writer, SameRequest
<1>2. Unfinished(b)' <=> Unfinished(b)
  BY DEF Unfinished, SameRequest
<1>3. Mapped(b)' <=> Mapped(b)
  BY Zenon DEF Mapped, SameBlock, SameEntry
<1>4. CASE Writer(b) # {}
  <2>1. (CHOOSE q \in Writer(b) : TRUE) \in Writer(b)
    BY Zenon, <1>4
  <2>2. \A q \in Writer(b) : data'[q] = data[q]
    BY Zenon, <1>1 DEF Writer, SameRequest
  <2> QED
    BY Zenon, <1>1, <1>4, <2>1, <2>2 DEF Store
<1>5. CASE Writer(b) = {} /\ (Unfinished(b) \/ ~ Mapped(b))
  BY Zenon, <1>1, <1>2, <1>3, <1>5 DEF Store
<1>6. CASE Writer(b) = {} /\ ~ Unfinished(b) /\ Mapped(b)
  <2>1. OnDisk(b)' = OnDisk(b)
    BY Zenon, <1>6, StoreIntact DEF OnDisk, Intact, SameBlock, SameEntry
  <2> QED
    BY Zenon, <1>1, <1>2, <1>3, <1>6, <2>1 DEF Store
<1> QED
  BY Zenon, <1>4, <1>5, <1>6

LEMMA HandleOthers ==
  ASSUME DeviceInv, NEW r \in Reqs, Handle(r)
  PROVE  /\ \A b \in Blocks : b # block[r] => Store(b)' = Store(b)
         /\ \A q \in Reqs : q # r => Phase(q)' = Phase(q) /\ out'[q] = out[q]
         /\ op' = op /\ block' = block
<1>1. /\ \A q \in Reqs : q # r => SameRequest(q)
      /\ op' = op /\ block' = block
  BY Zenon, HandleFrame DEF DeviceInv
<1>2. \A b \in Blocks : b # block[r] => SameBlock(b)
  BY Zenon, DiskFrame DEF DeviceInv
<1>3. \A b \in Blocks : b # block[r] => Store(b)' = Store(b)
  BY Zenon, <1>1, <1>2, OtherStore DEF DeviceInv
<1> QED
  BY Zenon, <1>1, <1>3 DEF SameRequest, Phase

\* The store after a step that gives the block of r the content d.
LEMMA StoreStep ==
  ASSUME DeviceInv, NEW r \in Reqs, Handle(r), NEW d, Store(block[r])' = d
  PROVE  /\ [b \in Blocks |-> Store(b)]' = [[b \in Blocks |-> Store(b)] EXCEPT ![block[r]] = d]
         /\ d = Store(block[r]) => [b \in Blocks |-> Store(b)]' = [b \in Blocks |-> Store(b)]
<1>1. block[r] \in Blocks /\ block' = block
  BY Zenon, HandleOthers DEF DeviceInv, TypeOK
<1>2. Store(block[r])' = d
  BY Zenon
<1>3. \A b \in Blocks : Store(b)' = IF b = block[r] THEN d ELSE Store(b)
  BY Zenon, <1>1, HandleOthers
<1> QED
  BY Zenon, <1>1, <1>3

LEMMA PhaseStep ==
  ASSUME DeviceInv, NEW r \in Reqs, Handle(r), NEW ph, Phase(r)' = ph
  PROVE  /\ [q \in Reqs |-> Phase(q)]' = [[q \in Reqs |-> Phase(q)] EXCEPT ![r] = ph]
         /\ ph = Phase(r) => [q \in Reqs |-> Phase(q)]' = [q \in Reqs |-> Phase(q)]
<1>1. \A q \in Reqs : Phase(q)' = IF q = r THEN ph ELSE Phase(q)
  BY Zenon, HandleOthers
<1> QED
  BY Zenon, <1>1

-----------------------------------------------------------------------------

(***************************************************************************)
(* Every step of a request is a step of BlockDevice or leaves it alone.    *)
(***************************************************************************)

\* What is on the device before a step of r, and after it if r is still active.
LEMMA StoreHere ==
  ASSUME DeviceInv, SerialInv', NEW r \in Reqs, Handle(r)
  PROVE  /\ Store(block[r]) = IF state[r] = "writing" THEN data[r]
                              ELSE IF Partial(r) \/ ~ Mapped(block[r]) THEN NoReq
                              ELSE Decode(OnDisk(block[r]))
         /\ state'[r] \in Active =>
              Store(block[r])' = IF state'[r] = "writing" THEN data'[r]
                                 ELSE IF (Partial(r) \/ ~ Mapped(block[r]))' THEN NoReq
                                 ELSE Decode(OnDisk(block[r]))'
         /\ state'[r] \notin Active =>
              Store(block[r])' = IF Mapped(block[r])' THEN Decode(OnDisk(block[r]))'
                                 ELSE NoReq
         /\ block[r] \in Blocks /\ block' = block
<1>1. /\ \A q \in Reqs : q # r => SameRequest(q)
      /\ block' = block /\ state[r] \in Active /\ block[r] \in Blocks
  BY Zenon, HandleFrame DEF DeviceInv, TypeOK
<1>2. ActiveStore /\ ActiveStore' /\ QuietStore'
  BY Zenon, StoreForms, StoreFormsNext DEF DeviceInv
<1>3. ASSUME state'[r] \notin Active PROVE Quiet(block[r])'
  <2>1. \A q \in Reqs : q # r /\ state[q] \in Active => block[q] # block[r]
    BY Zenon, <1>1 DEF DeviceInv, SerialInv
  <2> QED
    BY Zenon, <1>1, <1>3, <2>1 DEF Quiet, SameRequest
<1>4. state'[r] \notin Active =>
        Store(block[r])' = IF Mapped(block[r])' THEN Decode(OnDisk(block[r]))' ELSE NoReq
  BY Zenon, <1>1, <1>2, <1>3 DEF QuietStore
<1>5. state'[r] \in Active =>
        Store(block[r])' = IF state'[r] = "writing" THEN data'[r]
                           ELSE IF (Partial(r) \/ ~ Mapped(block[r]))' THEN NoReq
                           ELSE Decode(OnDisk(block[r]))'
  BY Zenon, <1>2 DEF ActiveStore
<1>6. Store(block[r]) = IF state[r] = "writing" THEN data[r]
                        ELSE IF Partial(r) \/ ~ Mapped(block[r]) THEN NoReq
                        ELSE Decode(OnDisk(block[r]))
  BY Zenon, <1>1, <1>2 DEF ActiveStore
<1> QED
  BY Zenon, <1>1, <1>4, <1>5, <1>6

LEMMA Stutters ==
  ASSUME DeviceInv, NEW r \in Reqs, Handle(r), out' = out,
         Phase(r)' = Phase(r), Store(block[r])' = Store(block[r])
  PROVE  UNCHANGED Device!vars
BY Zenon, HandleOthers, PhaseStep, StoreStep DEF Device!vars

LEMMA StillStored ==
  ASSUME NEW r \in Reqs, UNCHANGED <<ptr, disk, block>>
  PROVE  /\ Mapped(block[r])' <=> Mapped(block[r])
         /\ Decode(OnDisk(block[r]))' = Decode(OnDisk(block[r]))
<1>1. Mapped(block[r])' <=> Mapped(block[r])
  BY Zenon DEF Mapped
<1>2. OnDisk(block[r])' = OnDisk(block[r])
  BY Zenon DEF OnDisk
<1> QED
  BY Zenon, <1>1, <1>2

LEMMA ReadRefines ==
  ASSUME DeviceInv, SerialInv', NEW r \in Reqs, Handle(r),
         \/ ReadUnmapped(r) \/ ReadMapped(r) \/ Lookup(r)
         \/ \E i \in Slots : ReadBio(r, i)
         \/ DecodeIntact(r) \/ DecodeCorrupted(r)
  PROVE  [Device!Next]_(Device!vars)
<1>0. /\ UNCHANGED <<ptr, sum, disk, block, op>>
      /\ state \in [Reqs -> States] /\ out \in [Reqs -> DataBlock]
      /\ carriers[r] \in [Slots -> Page] /\ block[r] \in Blocks
  BY Zenon DEF ReadUnmapped, ReadMapped, Lookup, ReadBio, DecodeIntact, DecodeCorrupted,
     reqVars, DeviceInv, TypeOK
<1>1. /\ Mapped(block[r])' <=> Mapped(block[r])
      /\ Decode(OnDisk(block[r]))' = Decode(OnDisk(block[r]))
  BY Zenon, <1>0, StillStored
<1>2. CASE ReadMapped(r) \/ Lookup(r) \/ \E i \in Slots : ReadBio(r, i)
  <2>1. /\ state[r] \in {"flightq", "lookup", "reading"}
        /\ state'[r] \in {"lookup", "reading", "cryptoq"}
        /\ out' = out
    BY Zenon, <1>0, <1>2 DEF ReadMapped, Lookup, ReadBio, Goto, Step
  <2>2. Phase(r)' = Phase(r)
    BY Zenon, <2>1 DEF Phase
  <2>3. Store(block[r])' = Store(block[r])
    BY Zenon, <1>1, <2>1, StoreHere DEF Partial, Active, States
  <2> QED
    BY Zenon, <2>1, <2>2, <2>3, Stutters
<1>3. ASSUME ReadUnmapped(r) \/ DecodeIntact(r),
             state[r] \in {"flightq", "cryptoq"}, state'[r] = "done", op[r] = "read",
             out' = [out EXCEPT ![r] = IF Mapped(block[r]) THEN Decode(OnDisk(block[r]))
                                       ELSE ZeroBlock],
             Mapped(block[r]) => Intact(block[r])
      PROVE  Device!Next
  <2>1. Store(block[r]) = IF Mapped(block[r]) THEN Decode(OnDisk(block[r])) ELSE NoReq
    BY Zenon, <1>3, StoreHere DEF Partial
  <2>2. Store(block[r])' = Store(block[r])
    BY Zenon, <1>1, <1>3, <2>1, StoreHere DEF Active
  <2>3. Phase(r) = "pending" /\ Phase(r)' = "done"
    BY Zenon, <1>3 DEF Phase
  <2>4. out'= [out EXCEPT ![r] = IF Store(block[r]) = NoReq THEN [s \in Sectors |-> Zero]
                                 ELSE Store(block[r])]
    <3>1. Mapped(block[r]) => Decode(OnDisk(block[r])) # NoReq
      BY Zenon, <1>0, <1>3, IntactDecode, NoContentAssumption DEF DeviceInv
    <3> QED
      BY Zenon, <1>3, <2>1, <3>1 DEF ZeroBlock
  <2>5. /\ [q \in Reqs |-> Phase(q)]' = [[q \in Reqs |-> Phase(q)] EXCEPT ![r] = "done"]
        /\ [b \in Blocks |-> Store(b)]' = [b \in Blocks |-> Store(b)]
    BY Zenon, <2>2, <2>3, PhaseStep, StoreStep
  <2>6. Device!Read(r)
    BY Zenon, <1>0, <1>3, <2>3, <2>4, <2>5 DEF Device!Read, Device!Goto
  <2> QED
    BY Zenon, <2>6 DEF Device!Next
<1>4. sectors[r] = Sectors /\ state[r] \in Active
  BY Zenon, HandleFrame DEF DeviceInv, WholeBlocks
<1>5. \A d \in DataBlock : Copy(r, d) = d
  BY Zenon, <1>4 DEF Copy, DataBlock
<1>6. CASE ReadUnmapped(r)
  <2>1. /\ state[r] = "flightq" /\ state'[r] = "done" /\ op[r] = "read"
        /\ ~ Mapped(block[r]) /\ out' = [out EXCEPT ![r] = ZeroBlock]
    BY Zenon, <1>0, <1>5, <1>6, BlockTypes DEF ReadUnmapped, Clean
  <2> QED
    BY Zenon, <1>3, <1>6, <2>1
<1>7. CASE DecodeIntact(r)
  <2>1. /\ state[r] = "cryptoq" /\ state'[r] = "done"
        /\ out' = [out EXCEPT ![r] = Decode(carriers[r])]
    BY Zenon, <1>0, <1>5, <1>7, DecodeType DEF DecodeIntact, Clean
  <2>2. /\ Intact(block[r]) /\ op[r] = "read"
        /\ \A j \in Slots : carriers[r][j] = disk[ptr[block[r]][j]]
    BY Zenon, <2>1 DEF DeviceInv, IntactInv, Sound, ReadSound
  <2>3. carriers[r] = OnDisk(block[r])
    BY Zenon, <1>0, <2>2 DEF OnDisk
  <2>4. Mapped(block[r])
    BY Zenon, <1>0, <2>2, IntactDecode DEF DeviceInv
  <2> QED
    BY Zenon, <1>3, <1>7, <2>1, <2>2, <2>3, <2>4
<1>8. ~ DecodeCorrupted(r)
  BY Zenon, NoCorruption DEF DeviceInv, IntactInv
<1> QED
  BY Zenon, <1>2, <1>6, <1>7, <1>8

\* The data of a whole-block write.
LEMMA WholeData ==
  ASSUME DeviceInv, NEW r \in Reqs, state[r] \in {"mapping", "writing"}
  PROVE  data[r] = [s \in Sectors |-> r]
<1>1. sectors[r] = Sectors
  BY Zenon DEF DeviceInv, WholeBlocks, Active, States
<1>2. \A s \in Sectors : data[r][s] = r
  BY Zenon, <1>1 DEF DeviceInv, IntactInv, Sound, WriteSound
<1>3. data[r] \in [Sectors -> Values]
  BY Zenon DEF DeviceInv, TypeOK, DataBlock
<1> QED
  BY Zenon, <1>2, <1>3

\* The bios of a write are submitted: it takes effect.
LEMMA EffectRefines ==
  ASSUME DeviceInv, SerialInv', NEW r \in Reqs, Handle(r),
         state[r] = "mapping", state'[r] = "writing", data' = data, out' = out
  PROVE  Device!Next
<1>1. Store(block[r])' = [s \in Sectors |-> r]
  BY Zenon, StoreHere, WholeData DEF Active, States
<1>2. Phase(r) = "pending" /\ Phase(r)' = "effective"
  BY Zenon DEF Phase
<1>3. op[r] = "write"
  BY Zenon DEF DeviceInv, IntactInv, Sound, WriteSound
<1>4. /\ [q \in Reqs |-> Phase(q)]' = [[q \in Reqs |-> Phase(q)] EXCEPT ![r] = "effective"]
      /\ [b \in Blocks |-> Store(b)]' =
           [[b \in Blocks |-> Store(b)] EXCEPT ![block[r]] = [s \in Sectors |-> r]]
  BY Zenon, <1>1, <1>2, PhaseStep, StoreStep
<1>5. Device!WriteEffect(r)
  BY Zenon, <1>2, <1>3, <1>4, HandleOthers DEF Device!WriteEffect, Device!Goto
<1> QED
  BY Zenon, <1>5 DEF Device!Next

LEMMA MapRefines ==
  ASSUME DeviceInv, SerialInv', NEW r \in Reqs, Handle(r),
         WriteMapOld(r) \/ \E k \in Indices : WriteMapNew(r, k)
  PROVE  [Device!Next]_(Device!vars)
<1>1. /\ Step(r, "mapping", "writing") /\ state[r] = "mapping"
      /\ UNCHANGED <<data, out, modification, block, disk>>
      /\ TypeOK
  BY Zenon DEF WriteMapOld, WriteMapNew, Step, reqVars, DeviceInv
<1>2. CASE slot[r] = NumCarriers - 1
  BY Zenon, <1>1, <1>2, StepCases, EffectRefines
<1>3. CASE slot[r] # NumCarriers - 1
  <2>1. state'[r] = "mapping"
    BY Zenon, <1>1, <1>3, StepCases
  <2>2. Phase(r)' = Phase(r)
    BY Zenon, <1>1, <2>1 DEF Phase
  <2>3. Store(block[r])' = Store(block[r])
    <3>1. CASE modification[r]
      <4>1. ptr' = ptr
        BY Zenon, <3>1 DEF WriteMapOld, WriteMapNew
      <4>2. /\ Mapped(block[r])' <=> Mapped(block[r])
            /\ Decode(OnDisk(block[r]))' = Decode(OnDisk(block[r]))
        BY Zenon, <1>1, <4>1, StillStored
      <4> QED
        BY Zenon, <1>1, <2>1, <3>1, <4>2, StoreHere DEF Partial, Active, States
    <3>2. CASE ~ modification[r]
      BY Zenon, <1>1, <2>1, <3>2, StoreHere DEF Partial, Active, States
    <3> QED
      BY Zenon, <3>1, <3>2
  <2> QED
    BY Zenon, <1>1, <2>2, <2>3, Stutters
<1> QED
  BY Zenon, <1>2, <1>3

LEMMA WriteStartRefines ==
  ASSUME DeviceInv, SerialInv', NEW r \in Reqs, Handle(r), WriteStart(r)
  PROVE  UNCHANGED Device!vars
<1>1. /\ state[r] = "flightq" /\ state'[r] = "mapping"
      /\ UNCHANGED <<out, block, ptr, disk>>
      /\ modification'[r] = Mapped(block[r])
  BY Zenon DEF WriteStart, Goto, reqVars, DeviceInv, TypeOK
<1>2. /\ Mapped(block[r])' <=> Mapped(block[r])
      /\ Decode(OnDisk(block[r]))' = Decode(OnDisk(block[r]))
  BY Zenon, <1>1, StillStored
<1>3. Phase(r)' = Phase(r)
  BY Zenon, <1>1 DEF Phase
<1>4. Store(block[r])' = Store(block[r])
  BY Zenon, <1>1, <1>2, StoreHere DEF Partial, Active, States
<1> QED
  BY Zenon, <1>1, <1>3, <1>4, Stutters

\* A write to a block that holds data does not fail.
LEMMA FailsUnmodified ==
  ASSUME DeviceInv, NEW r \in Reqs, WriteNoSpace(r)
  PROVE  ~ modification[r]
<1> SUFFICES ASSUME modification[r] PROVE FALSE
  BY Zenon
<1>1. state[r] = "mapping" /\ ptr[block[r]][slot[r]] = AFS_INVALID_BLOCK
  BY Zenon DEF WriteNoSpace, Goto
<1>2. Intact(block[r]) /\ slot[r] \in Slots
  BY Zenon, <1>1 DEF DeviceInv, IntactInv, Sound, WriteSound, TypeOK
<1> QED
  BY Zenon, <1>1, <1>2, ListedValid DEF Intact

LEMMA ResetRefines ==
  ASSUME DeviceInv, SerialInv', NEW r \in Reqs, Handle(r),
         WriteNoSpace(r) \/ WriteReset(r) \/ WriteResetLast(r)
  PROVE  [Device!Next]_(Device!vars)
<1>0. /\ state \in [Reqs -> States] /\ out' = out /\ block' = block
      /\ block[r] \in Blocks
  BY Zenon DEF WriteNoSpace, WriteReset, WriteResetLast, reqVars, DeviceInv, TypeOK
<1>1. Partial(r)
  BY Zenon, FailsUnmodified DEF Partial, WriteNoSpace, WriteReset, WriteResetLast, Goto
<1>2. Store(block[r]) = NoReq
  BY Zenon, <1>1, StoreHere DEF Partial
<1>3. CASE WriteNoSpace(r) \/ WriteReset(r)
  <2>1. state'[r] = "writereset"
    BY Zenon, <1>0, <1>3 DEF WriteNoSpace, WriteReset, Goto
  <2>2. Store(block[r])' = NoReq
    BY Zenon, <2>1, StoreHere DEF Partial, Active, States
  <2>3. Phase(r)' = Phase(r)
    BY Zenon, <1>1, <2>1 DEF Partial, Phase
  <2> QED
    BY Zenon, <1>0, <1>2, <2>2, <2>3, Stutters
<1>4. CASE WriteResetLast(r)
  <2>1. state[r] = "writereset" /\ state'[r] = "done"
    BY Zenon, <1>0, <1>4 DEF WriteResetLast, Clean
  <2>2. ~ Mapped(block[r])'
    <3>1. \A j \in Slots : j < slot[r] => ptr[block[r]][j] = AFS_INVALID_BLOCK
      BY Zenon, <2>1 DEF DeviceInv, IntactInv, Sound, WriteSound
    <3>2. 0 < slot[r] /\ 0 \in Slots /\ slot[r] # 0
      BY <1>4, SizesAssumption, FirstSlot DEF WriteResetLast
    <3>3. ptr'[block[r]][0] = ptr[block[r]][0]
      BY Zenon, <1>0, <1>4, <3>2 DEF WriteResetLast, FreeEntry, DeviceInv, TypeOK
    <3> QED
      BY Zenon, <1>0, <3>1, <3>2, <3>3 DEF Mapped
  <2>3. Store(block[r])' = NoReq
    BY Zenon, <2>1, <2>2, StoreHere DEF Active
  <2>4. Phase(r) = "pending" /\ Phase(r)' = "done"
    BY Zenon, <2>1 DEF Phase
  <2>5. op[r] = "write"
    BY Zenon, <2>1 DEF DeviceInv, IntactInv, Sound, WriteSound
  <2>6. /\ [q \in Reqs |-> Phase(q)]' = [[q \in Reqs |-> Phase(q)] EXCEPT ![r] = "done"]
        /\ [b \in Blocks |-> Store(b)]' = [b \in Blocks |-> Store(b)]
    BY Zenon, <1>2, <2>3, <2>4, PhaseStep, StoreStep
  <2>7. Device!WriteDropped(r)
    BY Zenon, <1>0, <1>2, <2>4, <2>5, <2>6, HandleOthers DEF Device!WriteDropped, Device!Goto
  <2> QED
    BY Zenon, <2>7 DEF Device!Next
<1> QED
  BY Zenon, <1>3, <1>4

LEMMA BioRefines ==
  ASSUME DeviceInv, SerialInv', NEW r \in Reqs, Handle(r), NEW i \in Slots,
         WriteBio(r, i) \/ WriteBioLast(r, i)
  PROVE  [Device!Next]_(Device!vars)
<1>0. /\ state[r] = "writing" /\ out' = out /\ block' = block /\ ptr' = ptr
      /\ disk' = [disk EXCEPT ![nums[r][i]] = carriers[r][i]]
      /\ block[r] \in Blocks
  BY Zenon DEF WriteBio, WriteBioLast, reqVars, DeviceInv, TypeOK
<1>1. Store(block[r]) = data[r]
  BY Zenon, <1>0, StoreHere
<1>2. CASE WriteBio(r, i)
  <2>1. state' = state /\ data' = data
    BY Zenon, <1>2 DEF WriteBio, memVars
  <2>2. Store(block[r])' = Store(block[r])
    BY Zenon, <1>0, <1>1, <2>1, StoreHere DEF Active, States
  <2>3. Phase(r)' = Phase(r)
    BY Zenon, <2>1 DEF Phase
  <2> QED
    BY Zenon, <1>0, <2>2, <2>3, Stutters
<1>3. CASE WriteBioLast(r, i)
  <2>1. state'[r] = "done" /\ pending[r] = {i}
    BY Zenon, <1>3 DEF WriteBioLast, Clean, DeviceInv, TypeOK
  <2>2. /\ carriers[r] = Encode(r, data[r])
        /\ \A j \in Slots : ptr[block[r]][j] \in Listed
        /\ \A j \in Slots : j # i => disk[ptr[block[r]][j]] = carriers[r][j]
    BY Zenon, <1>0, <2>1 DEF DeviceInv, IntactInv, Sound, WriteSound
  <2>3. \A j \in Slots : disk'[ptr[block[r]][j]] = carriers[r][j]
    <3>1. \A j \in Slots : disk'[ptr[block[r]][j]] =
            IF j = i THEN carriers[r][i] ELSE disk[ptr[block[r]][j]]
      BY Zenon, <1>0, BioFrame DEF DeviceInv, IntactInv
    <3> QED
      BY Zenon, <2>2, <3>1
  <2>4. OnDisk(block[r])' = Encode(r, data[r])
    <3>1. OnDisk(block[r])' = [j \in Slots |-> disk'[ptr[block[r]][j]]]
      <4>1. block' = block /\ ptr' = ptr
        BY Zenon, <1>0
      <4> QED
        BY Zenon, <4>1 DEF OnDisk
    <3>2. Encode(r, data[r]) = [j \in Slots |-> carriers[r][j]]
      BY Zenon, <2>2 DEF Encode
    <3> QED
      BY Zenon, <2>3, <3>1, <3>2
  <2>5. Mapped(block[r])'
    BY Zenon, <1>0, <2>2, FirstSlot, ListedValid DEF Mapped
  <2>6. Decode(OnDisk(block[r]))' = data[r]
    <3>1. Decode(Encode(r, data[r])) = data[r]
      BY Zenon, DecodeEncode
    <3> QED
      BY Zenon, <2>4, <3>1 DEF Decode
  <2>7. Store(block[r])' = Store(block[r])
    BY Zenon, <1>1, <2>1, <2>5, <2>6, StoreHere DEF Active
  <2>8. Phase(r) = "effective" /\ Phase(r)' = "done"
    BY Zenon, <1>0, <2>1 DEF Phase
  <2>9. /\ [q \in Reqs |-> Phase(q)]' = [[q \in Reqs |-> Phase(q)] EXCEPT ![r] = "done"]
        /\ [b \in Blocks |-> Store(b)]' = [b \in Blocks |-> Store(b)]
    BY Zenon, <2>7, <2>8, PhaseStep, StoreStep
  <2>10. Device!WriteEnd(r)
    BY Zenon, <1>0, <2>8, <2>9, HandleOthers DEF Device!WriteEnd, Device!Goto
  <2> QED
    BY Zenon, <2>10 DEF Device!Next
<1> QED
  BY Zenon, <1>2, <1>3

LEMMA HandleRefines ==
  ASSUME DeviceInv, SerialInv', NEW r \in Reqs, Handle(r)
  PROVE  [Device!Next]_(Device!vars)
<1>1. Sound(r)
  BY Zenon DEF DeviceInv, IntactInv
<1> QED
  BY Zenon, <1>1, ReadRefines, NoRebuild, WriteStartRefines, MapRefines, ResetRefines,
     BioRefines
     DEF Handle

LEMMA SubmitRefines ==
  ASSUME DeviceInv, NEW r \in Reqs, Submit(r)
  PROVE  Device!Next
<1>1. /\ \A q \in Reqs : q # r => SameRequest(q)
      /\ state[r] = "new" /\ state'[r] = "flightq"
      /\ UNCHANGED <<data, out, ptr, sum, disk>>
  BY Zenon, SubmitFrame DEF DeviceInv
<1>2. \A b \in Blocks : SameBlock(b)
  BY Zenon, <1>1 DEF SameBlock, SameEntry
<1>3. \A b \in Blocks : Store(b)' = Store(b)
  BY Zenon, <1>1, <1>2, OtherStore DEF DeviceInv
<1>4. \A q \in Reqs : Phase(q)' = IF q = r THEN "pending" ELSE Phase(q)
  BY Zenon, <1>1 DEF SameRequest, Phase
<1>5. Phase(r) = "new"
  BY Zenon, <1>1 DEF Phase
<1>6. PICK o \in {"read", "write"}, b \in Blocks, offset \in Sectors,
         count \in 1 .. SectorsPerBlock : afs_map(r, o, b, offset, count)
  BY Zenon DEF Submit
<1>7. Device!Submit(r, o, b)
  BY Zenon, <1>1, <1>3, <1>4, <1>5, <1>6 DEF afs_map, Device!Submit, Device!Goto
<1> QED
  BY Zenon, <1>7 DEF Device!Next

LEMMA NextDevice ==
  ASSUME MaxOverwrites = 0
  PROVE  DeviceInv /\ SerialInv' /\ [Next]_vars
           => [Device!Next]_(Device!vars)
<1> SUFFICES ASSUME DeviceInv, SerialInv', [Next]_vars
             PROVE  [Device!Next]_(Device!vars)
  BY Zenon
<1>1. ASSUME NEW k \in Indices, PassiveOverwrite(k) PROVE FALSE
  BY <1>1 DEF PassiveOverwrite, DeviceInv, TypeOK
<1>2. CASE UNCHANGED vars
  <2>1. UNCHANGED <<state, op, block, out, data, modification, ptr, disk>>
    BY Zenon, <1>2 DEF vars, reqVars, memVars
  <2>2. \A r \in Reqs : Phase(r)' = Phase(r)
    BY Zenon, <2>1 DEF Phase
  <2>3. \A b \in Blocks : Store(b)' = Store(b)
    <3> SUFFICES ASSUME NEW b \in Blocks PROVE Store(b)' = Store(b)
      BY Zenon
    <3>1. /\ Writer(b)' = Writer(b)
          /\ Unfinished(b)' <=> Unfinished(b)
          /\ Mapped(b)' <=> Mapped(b)
          /\ OnDisk(b)' = OnDisk(b)
      BY Zenon, <2>1 DEF Writer, Unfinished, Mapped, OnDisk
    <3> QED
      BY <2>1, <3>1 DEF Store
  <2> QED
    BY Zenon, <2>1, <2>2, <2>3 DEF Device!vars
<1> QED
  BY Zenon, <1>1, <1>2, HandleRefines, SubmitRefines DEF Next

\* The engine implements BlockDevice: reads and writes of whole blocks are atomic,
\* although afs_write_request, the bios and afs_read_decode of many requests
\* interleave, and only a first write is dropped when space runs out.
THEOREM EngineIsDevice ==
  ASSUME Serialised, MaxOverwrites = 0, NumbersBeyondIndices
  PROVE  Spec /\ []WholeBlocks => DeviceSpec
<1>1. Init => Device!Init
  <2> SUFFICES ASSUME Init PROVE Device!Init
    BY Zenon
  <2>1. \A r \in Reqs : Phase(r) = "new"
    BY Zenon DEF Init, Phase
  <2>2. \A b \in Blocks : Store(b) = NoReq
    BY Zenon, FirstSlot DEF Init, Store, Writer, Unfinished, Mapped, NoNums
  <2> QED
    BY Zenon, <2>1, <2>2 DEF Device!Init
<1>2. DeviceInv /\ SerialInv' /\ [Next]_vars => [Device!Next]_(Device!vars)
  BY Zenon, NextDevice
<1> QED
  BY <1>1, <1>2, TypeCorrect, SerialInvariant, CarriersAreExclusive, IntactInvariant, PTL
     DEF Spec, DeviceInv, DeviceSpec, Device!Spec
=============================================================================
