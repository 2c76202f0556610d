-------------------------- MODULE AfsLayoutProofs --------------------------
(***************************************************************************)
(* Where the sessions of AfsMetadata put the superblock, the map blocks,   *)
(* the pointer block and the carrier blocks: the inductive invariants, and *)
(* the proof that each action keeps them.  The theorems that follow from   *)
(* them are in AfsMetadataProofs.                                          *)
(***************************************************************************)
EXTENDS AfsMetadata, TLAPS

\* Division, with remainder, of naturals.
LEMMA DivisionFacts ==
  ASSUME NEW x \in Nat, NEW b \in Nat \ {0}
  PROVE  /\ x \div b \in Nat
         /\ x % b = x - (x \div b) * b
         /\ x % b \in 0 .. b - 1
OBVIOUS

\* A number below the modulus is its own remainder.
LEMMA SmallModulo ==
  ASSUME NEW x \in Nat, NEW b \in Nat \ {0}, x < b
  PROVE  x % b = x
OBVIOUS

\* The remainder is the one number below b that differs by a multiple of b.
LEMMA Remainder ==
  ASSUME NEW b \in Nat \ {0}, NEW k \in Nat, NEW c \in 0 .. b - 1
  PROVE  (k * b + c) % b = c /\ (k * b + c) \div b = k
<1> DEFINE x == k * b + c
           e == x \div b
<1>1. x \in Nat /\ k * b \in Nat
  OBVIOUS
<1>2. e \in Nat /\ x % b = x - e * b /\ x % b \in 0 .. b - 1
  <2> HIDE DEF x
  <2>1. QED
    BY Zenon, <1>1, DivisionFacts
<1> HIDE DEF e
<1>3. \A d \in Nat : d # 0 => d * b >= b
  <2> TAKE d \in Nat
  <2>1. d # 0 => (d - 1) * b \in Nat /\ d * b = (d - 1) * b + b
    OBVIOUS
  <2>2. QED
    BY <2>1
<1>4. e * b \in Nat /\ (k > e => (k - e) * b = k * b - e * b)
      /\ (e > k => (e - k) * b = e * b - k * b)
  BY <1>2
<1>5. ~ (k > e)
  <2> SUFFICES ASSUME k > e PROVE FALSE
    BY Zenon
  <2>1. (k - e) * b >= b
    BY <1>2, <1>3
  <2>2. k * b - e * b >= b
    BY Zenon, <2>1, <1>4
  <2> HIDE DEF x
  <2>3. x = k * b + c
    BY Zenon DEF x
  <2>4. QED
    BY <2>2, <2>3, <1>1, <1>2, <1>4
<1>6. ~ (e > k)
  <2> SUFFICES ASSUME e > k PROVE FALSE
    BY Zenon
  <2>1. (e - k) * b >= b
    BY <1>2, <1>3
  <2>2. e * b - k * b >= b
    BY Zenon, <2>1, <1>4
  <2> HIDE DEF x
  <2>3. x = k * b + c
    BY Zenon DEF x
  <2>4. QED
    BY <2>2, <2>3, <1>1, <1>2, <1>4
<1>7. e = k
  BY <1>2, <1>5, <1>6
<1>8. QED
  BY <1>1, <1>2, <1>7 DEF e

(***************************************************************************)
(* Sizes, and the types of what the actions write.                         *)
(***************************************************************************)

\* What is below in multiples of b is below.
LEMMA Cancel ==
  ASSUME NEW b \in Nat \ {0}, NEW p \in Nat, NEW q \in Nat, p * b < q * b
  PROVE  p < q
<1> SUFFICES ASSUME q <= p PROVE FALSE
  OBVIOUS
<1>1. (p - q) * b \in Nat /\ p * b = (p - q) * b + q * b /\ q * b \in Nat
  OBVIOUS
<1>2. QED
  BY <1>1

\* RoundUp(n, m) pieces of size m hold n elements, element x in piece x \div m.
LEMMA RoundUpFacts ==
  ASSUME NEW n \in Nat, NEW m \in Nat \ {0}
  PROVE  /\ RoundUp(n, m) \in Nat
         /\ n # 0 => RoundUp(n, m) # 0
         /\ \A x \in 0 .. n - 1 : x \div m \in 0 .. RoundUp(n, m) - 1
<1> DEFINE e == n \div m
           d == n % m
           r == RoundUp(n, m)
<1>1. e \in Nat /\ d = n - e * m /\ d \in 0 .. m - 1
  BY Zenon, DivisionFacts
<1>2. r = e + (IF d # 0 THEN 1 ELSE 0)
  BY Zenon DEF RoundUp
<1> HIDE DEF e, d, r
<1>3. r \in Nat
  BY <1>1, <1>2
<1>4. n <= r * m
  <2>1. e * m \in Nat /\ (e + 1) * m = e * m + m
    BY <1>1
  <2>2. CASE d = 0
    BY <2>1, <2>2, <1>1, <1>2
  <2>3. CASE d # 0
    BY <2>1, <2>3, <1>1, <1>2
  <2>4. QED
    BY Zenon, <2>2, <2>3
<1>5. n # 0 => r # 0
  BY <1>3, <1>4
<1>6. ASSUME NEW x \in 0 .. n - 1 PROVE x \div m \in 0 .. r - 1
  <2> DEFINE y == x \div m
  <2>1. y \in Nat /\ x % m = x - y * m /\ x % m \in 0 .. m - 1
    <3>1. x \in Nat
      OBVIOUS
    <3>2. QED
      BY Zenon, <3>1, DivisionFacts
  <2> HIDE DEF y
  <2>2. y * m \in Nat /\ r * m \in Nat
    BY <2>1, <1>3
  <2>3. y * m < r * m
    BY <2>1, <2>2, <1>4
  <2>4. y < r
    BY Zenon, <2>1, <2>3, <1>3, Cancel
  <2>5. y \in 0 .. r - 1
    BY <2>1, <2>4, <1>3
  <2>6. QED
    BY Zenon, <2>5 DEF y
<1>7. QED
  BY Zenon, <1>3, <1>5, <1>6 DEF r

\* The constants are numbers, and there is one of each at least.
LEMMA Sizes ==
  /\ NumBlocks \in Nat \ {0} /\ EntriesPerBlock \in Nat \ {0}
  /\ NUM_MAP_BLKS_IN_SB \in Nat \ {0} /\ NUM_MAP_BLKS_IN_PB \in Nat \ {0}
  /\ NUM_SUPERBLOCK_REPLICAS \in Nat \ {0} /\ DeviceSize \in Nat \ {0}
  /\ WrapBlocks \in Nat \ {0} /\ ChainLen \in Nat \ {0} /\ MaxVersion \in Nat \ {0}
  /\ MaxPassive \in Nat /\ MaxCrashes \in Nat
BY Zenon, SizesAssumption

\* Every block has its entry in a map block.
LEMMA MapSizes ==
  /\ NumMapBlocks \in Nat \ {0}
  /\ \A b \in Blocks : /\ b \div EntriesPerBlock \in MapBlocks
                       /\ b % EntriesPerBlock \in Offsets
                       /\ (b \div EntriesPerBlock) * EntriesPerBlock + (b % EntriesPerBlock) = b
<1>1. NumMapBlocks \in Nat \ {0}
  BY Zenon, Sizes, RoundUpFacts DEF NumMapBlocks
<1>2. ASSUME NEW b \in Blocks
      PROVE  /\ b \div EntriesPerBlock \in MapBlocks
             /\ b % EntriesPerBlock \in Offsets
             /\ (b \div EntriesPerBlock) * EntriesPerBlock + (b % EntriesPerBlock) = b
  <2>1. b \in 0 .. NumBlocks - 1 /\ b \in Nat
    BY Sizes DEF Blocks
  <2>2. b \div EntriesPerBlock \in MapBlocks
    BY Zenon, <2>1, Sizes, RoundUpFacts DEF MapBlocks, NumMapBlocks
  <2> DEFINE e == b \div EntriesPerBlock
             d == b % EntriesPerBlock
  <2>3. e \in Nat /\ d = b - e * EntriesPerBlock /\ d \in 0 .. EntriesPerBlock - 1
    BY Zenon, <2>1, Sizes, DivisionFacts
  <2> HIDE DEF e, d
  <2>4. e * EntriesPerBlock \in Nat
    BY <2>3, Sizes
  <2>5. e * EntriesPerBlock + d = b /\ d \in Offsets
    BY <2>1, <2>3, <2>4 DEF Offsets
  <2>6. b % EntriesPerBlock \in Offsets
    BY Zenon, <2>5 DEF d
  <2>7. (b \div EntriesPerBlock) * EntriesPerBlock + (b % EntriesPerBlock) = b
    <3>1. e * EntriesPerBlock + d = b
      BY Zenon, <2>5
    <3>2. QED
      BY Zenon, <3>1, Zenon DEF e, d
  <2>8. QED
    BY Zenon, <2>2, <2>6, <2>7
<1>3. QED
  BY Zenon, <1>1, <1>2

\* A map block that has no room in the superblock has a slot in a pointer block.
LEMMA PtrSizes ==
  /\ NumPtrBlocks \in Nat
  /\ \A i \in MapBlocks \ SbSlots : PtrIndex(i) \in PtrIndices /\ PtrSlot(i) \in PbSlots
<1> DEFINE rest == NumMapBlocks - NUM_MAP_BLKS_IN_SB
<1>1. NumMapBlocks \in Nat
  BY Zenon, MapSizes
<1>2. NumPtrBlocks = IF NumMapBlocks < NUM_MAP_BLKS_IN_SB THEN 0
                     ELSE RoundUp(rest, NUM_MAP_BLKS_IN_PB)
  BY Zenon DEF NumPtrBlocks
<1>3. ~ (NumMapBlocks < NUM_MAP_BLKS_IN_SB) => rest \in Nat
  BY <1>1, Sizes
<1>4. NumPtrBlocks \in Nat
  <2>1. ~ (NumMapBlocks < NUM_MAP_BLKS_IN_SB) => RoundUp(rest, NUM_MAP_BLKS_IN_PB) \in Nat
    BY Zenon, <1>3, Sizes, RoundUpFacts
  <2> HIDE DEF rest
  <2>2. QED
    BY Zenon, <1>2, <2>1
<1>5. ASSUME NEW i \in MapBlocks \ SbSlots
      PROVE  PtrIndex(i) \in PtrIndices /\ PtrSlot(i) \in PbSlots
  <2> DEFINE x == i - NUM_MAP_BLKS_IN_SB
  <2>1. x \in 0 .. rest - 1 /\ ~ (NumMapBlocks < NUM_MAP_BLKS_IN_SB) /\ x \in Nat
    BY <1>1, Sizes DEF MapBlocks, SbSlots
  <2>2. PtrIndex(i) = x \div NUM_MAP_BLKS_IN_PB /\ PtrSlot(i) = x % NUM_MAP_BLKS_IN_PB
    BY Zenon DEF PtrIndex, PtrSlot
  <2> HIDE DEF x, rest
  <2>3. x \div NUM_MAP_BLKS_IN_PB \in 0 .. RoundUp(rest, NUM_MAP_BLKS_IN_PB) - 1
    BY Zenon, <2>1, <1>3, Sizes, RoundUpFacts
  <2>4. x % NUM_MAP_BLKS_IN_PB \in 0 .. NUM_MAP_BLKS_IN_PB - 1
    BY Zenon, <2>1, Sizes, DivisionFacts
  <2>5. QED
    BY Zenon, <1>2, <2>1, <2>2, <2>3, <2>4 DEF PtrIndices, PbSlots
<1>6. QED
  BY Zenon, <1>4, <1>5

\* What is written is content, and is read again as what it is.
LEMMA ContentFacts ==
  /\ \A s \in SuperBlock : /\ [kind |-> "sb", sb |-> s] \in Content
                           /\ IsKind([kind |-> "sb", sb |-> s], "sb")
  /\ \A p \in PtrBlock : /\ [kind |-> "ptr", ptr |-> p] \in Content
                         /\ IsKind([kind |-> "ptr", ptr |-> p], "ptr")
  /\ \A e \in [Offsets -> Entry] : /\ [kind |-> "map", entries |-> e] \in Content
                                   /\ IsKind([kind |-> "map", entries |-> e], "map")
  /\ \A b \in Blocks, v \in 0 .. MaxVersion :
       Data(b, v) \in Content /\ IsKind(Data(b, v), "data")
  /\ Junk \in Content /\ Passive \in Content
<1>1. ASSUME NEW s \in SuperBlock
      PROVE  [kind |-> "sb", sb |-> s] \in Own
  BY Zenon DEF Own
<1>2. ASSUME NEW p \in PtrBlock
      PROVE  [kind |-> "ptr", ptr |-> p] \in Own
  BY Zenon DEF Own
<1>3. ASSUME NEW e \in [Offsets -> Entry]
      PROVE  [kind |-> "map", entries |-> e] \in Own
  BY Zenon DEF Own
<1>4. ASSUME NEW b \in Blocks, NEW v \in 0 .. MaxVersion
      PROVE  Data(b, v) \in Own /\ Data(b, v).kind = "data"
  BY Zenon DEF Own, Data
<1>5. \A c \in Own : c \in Content /\ (IsKind(c, c.kind))
  BY Zenon, ContentAssumption DEF Content, IsKind
<1>6. Junk \in Content /\ Passive \in Content
  BY Zenon DEF Content
<1>7. ASSUME NEW s \in SuperBlock
      PROVE  /\ [kind |-> "sb", sb |-> s] \in Content
             /\ IsKind([kind |-> "sb", sb |-> s], "sb")
  <2> DEFINE c == [kind |-> "sb", sb |-> s]
  <2>1. c \in Own /\ c.kind = "sb"
    BY Zenon, <1>1
  <2> HIDE DEF c
  <2>2. c \in Content /\ IsKind(c, "sb")
    BY Zenon, <2>1, <1>5
  <2>3. QED
    BY Zenon, <2>2 DEF c
<1>8. ASSUME NEW p \in PtrBlock
      PROVE  /\ [kind |-> "ptr", ptr |-> p] \in Content
             /\ IsKind([kind |-> "ptr", ptr |-> p], "ptr")
  <2> DEFINE c == [kind |-> "ptr", ptr |-> p]
  <2>1. c \in Own /\ c.kind = "ptr"
    BY Zenon, <1>2
  <2> HIDE DEF c
  <2>2. c \in Content /\ IsKind(c, "ptr")
    BY Zenon, <2>1, <1>5
  <2>3. QED
    BY Zenon, <2>2 DEF c
<1>9. ASSUME NEW e \in [Offsets -> Entry]
      PROVE  /\ [kind |-> "map", entries |-> e] \in Content
             /\ IsKind([kind |-> "map", entries |-> e], "map")
  <2> DEFINE c == [kind |-> "map", entries |-> e]
  <2>1. c \in Own /\ c.kind = "map"
    BY Zenon, <1>3
  <2> HIDE DEF c
  <2>2. c \in Content /\ IsKind(c, "map")
    BY Zenon, <2>1, <1>5
  <2>3. QED
    BY Zenon, <2>2 DEF c
<1>10. ASSUME NEW b \in Blocks, NEW v \in 0 .. MaxVersion
       PROVE  Data(b, v) \in Content /\ IsKind(Data(b, v), "data")
  BY Zenon, <1>4, <1>5
<1>11. QED
  BY Zenon, <1>6, <1>7, <1>8, <1>9, <1>10

\* What a content of a kind holds.
LEMMA KindFacts ==
  ASSUME NEW c \in Content
  PROVE  /\ IsKind(c, "sb") => c.sb \in SuperBlock /\ c = [kind |-> "sb", sb |-> c.sb]
         /\ IsKind(c, "ptr") => c.ptr \in PtrBlock /\ c = [kind |-> "ptr", ptr |-> c.ptr]
         /\ IsKind(c, "map") => c.entries \in [Offsets -> Entry]
         /\ IsKind(c, "data") => /\ c.block \in Blocks /\ c.version \in 0 .. MaxVersion
                                 /\ c = Data(c.block, c.version)
<1>1. CASE c \in {Junk, Passive}
  BY Zenon, <1>1 DEF IsKind
<1>2. CASE c \in [kind : {"sb"}, sb : SuperBlock]
  BY Zenon, <1>2 DEF IsKind
<1>3. CASE c \in [kind : {"ptr"}, ptr : PtrBlock]
  BY Zenon, <1>3 DEF IsKind
<1>4. CASE c \in [kind : {"map"}, entries : [Offsets -> Entry]]
  BY Zenon, <1>4 DEF IsKind
<1>5. CASE c \in [kind : {"data"}, block : Blocks, version : 0 .. MaxVersion]
  BY Zenon, <1>5 DEF IsKind, Data
<1>6. QED
  BY Zenon, <1>1, <1>2, <1>3, <1>4, <1>5 DEF Content, Own

(***************************************************************************)
(* What the sessions need of the lists that binary_search and the chain of *)
(* hashes work on.  AfsMetadataProofs shows that it is so for every device.*)
(***************************************************************************)

\* A list of free blocks has them as its entries and positions of the device as
\* its indices, the locations of the superblock are positions too, and the list
\* of all free blocks has no block twice.
ListRight ==
  /\ \A S \in SUBSET Free :
       /\ BlockList(S) \in [DOMAIN BlockList(S) -> S]
       /\ DOMAIN BlockList(S) \subseteq Device
       /\ SomeListed(BlockList(S)) =>
            \A j \in Replicas : SbBlock(BlockList(S), j) \in Device
  /\ \A k, l \in DOMAIN BlockList(Free) :
       BlockList(Free)[k] = BlockList(Free)[l] => k = l

\* A list of free blocks: positions are below the size of the device.
LEMMA ListTyped ==
  ASSUME ListRight, NEW S, S \subseteq Free
  PROVE  /\ DOMAIN BlockList(S) \subseteq Device
         /\ \A k \in DOMAIN BlockList(S) : BlockList(S)[k] \in S
         /\ SomeListed(BlockList(S)) =>
              \A j \in Replicas : SbBlock(BlockList(S), j) \in Device
<1>1. S \in SUBSET Free
  BY Zenon
<1>2. BlockList(S) \in [DOMAIN BlockList(S) -> S]
  BY Zenon, <1>1 DEF ListRight
<1>3. \A k \in DOMAIN BlockList(S) : BlockList(S)[k] \in S
  BY Zenon, <1>2
<1>4. QED
  BY Zenon, <1>1, <1>3 DEF ListRight

\* What read_page and write_page leave of the type of the disk.
LEMMA PageTyped ==
  ASSUME disk \in [Device -> Content]
  PROVE  /\ \A n : read_page(n) \in Content
         /\ \A n, c : c \in Content /\ write_page(n, c) => disk' \in [Device -> Content]
<1>1. Junk \in Content
  BY Zenon, ContentFacts
<1>2. \A n : read_page(n) \in Content
  BY Zenon, <1>1 DEF read_page
<1>3. \A n, c : c \in Content /\ write_page(n, c) => disk' \in [Device -> Content]
  BY Zenon DEF write_page
<1>4. QED
  BY Zenon, <1>2, <1>3

\* A few numbers that are used as pointers.
LEMMA NumberFacts ==
  /\ 0 \in Device /\ 0 \in Numbers /\ AFS_INVALID_BLOCK \in Numbers
  /\ Device \subseteq Numbers /\ Free \subseteq Device /\ Arbitrary \subseteq Numbers
  /\ AFS_INVALID_BLOCK \notin Device /\ Device \subseteq Nat /\ Numbers \subseteq Nat
  /\ 0 \in 0 .. MaxVersion /\ 1 \in 0 .. MaxVersion
BY Sizes, DeviceAssumption DEF Device, Numbers

\* Map entries and the blocks of the map.
LEMMA MapTyped ==
  /\ NoMap \in [Blocks -> Entry]
  /\ \A m \in [Blocks -> Entry] : \A i : /\ MapBlock(m, i) \in Content
                                          /\ IsKind(MapBlock(m, i), "map")
<1>1. NoEntry \in Entry
  BY Zenon, NumberFacts DEF NoEntry, Entry
<1>2. [ptr |-> 0, sum |-> 0] \in Entry
  BY Zenon, NumberFacts DEF Entry
<1>3. ASSUME NEW m \in [Blocks -> Entry], NEW i
      PROVE  MapBlock(m, i) \in Content /\ IsKind(MapBlock(m, i), "map")
  <2> DEFINE e == [o \in Offsets |->
                     LET b == i * EntriesPerBlock + o
                     IN IF b \in Blocks THEN m[b] ELSE [ptr |-> 0, sum |-> 0]]
  <2>1. e \in [Offsets -> Entry]
    BY Zenon, <1>2
  <2>2. MapBlock(m, i) = [kind |-> "map", entries |-> e]
    BY Zenon DEF MapBlock
  <2> HIDE DEF e
  <2>3. QED
    BY Zenon, <2>1, <2>2, ContentFacts
<1>4. QED
  BY Zenon, <1>1, <1>3 DEF NoMap

\* Whatever is found on the disk, it is read as pointers and entries.
LEMMA ReadTyped ==
  ASSUME disk \in [Device -> Content], NEW s \in SuperBlock, NEW u \in Numbers
  PROVE  /\ \A i : MapBlockOf(s, i, u) \in Numbers
         /\ afs_fill_map(s, u) \in [Blocks -> Entry]
         /\ RebuildPtrBlocks(s, u) \in [PtrIndices -> PtrBlock]
<1>1. 0 \in PbSlots
  BY Sizes DEF PbSlots
<1>2. ASSUME NEW n PROVE AsPtrBlock(read_page(n), u) \in PtrBlock
  <2> DEFINE c == read_page(n)
  <2>1. c \in Content
    BY Zenon, PageTyped
  <2> HIDE DEF c
  <2>2. IsKind(c, "ptr") => c.ptr \in PtrBlock
    BY Zenon, <2>1, KindFacts
  <2>3. [map_block_ptrs |-> [j \in PbSlots |-> u], next_ptr_block |-> u] \in PtrBlock
    BY Zenon DEF PtrBlock
  <2>4. AsPtrBlock(c, u) \in PtrBlock
    BY Zenon, <2>2, <2>3 DEF AsPtrBlock
  <2>5. QED
    BY Zenon, <2>4 DEF c
<1>3. ASSUME NEW n PROVE AsEntries(read_page(n), u) \in [Offsets -> Entry]
  <2> DEFINE c == read_page(n)
  <2>1. c \in Content
    BY Zenon, PageTyped
  <2> HIDE DEF c
  <2>2. IsKind(c, "map") => c.entries \in [Offsets -> Entry]
    BY Zenon, <2>1, KindFacts
  <2>3. [o \in Offsets |-> [ptr |-> u, sum |-> 0]] \in [Offsets -> Entry]
    BY Zenon, NumberFacts DEF Entry
  <2>4. AsEntries(c, u) \in [Offsets -> Entry]
    BY Zenon, <2>2, <2>3 DEF AsEntries
  <2>5. QED
    BY Zenon, <2>4 DEF c
<1>4. ASSUME NEW i PROVE MapBlockOf(s, i, u) \in Numbers
  <2>1. AsPtrBlock(read_page(s.first_ptr_block), u).map_block_ptrs[0] \in Numbers
    <3>1. AsPtrBlock(read_page(s.first_ptr_block), u) \in PtrBlock
      BY Zenon, <1>2
    <3>2. QED
      BY Zenon, <3>1, <1>1 DEF PtrBlock
  <2>2. i \in SbSlots => s.map_block_ptrs[i] \in Numbers
    BY Zenon DEF SuperBlock
  <2>3. QED
    BY Zenon, <2>1, <2>2 DEF MapBlockOf
<1>5. ASSUME NEW b \in Blocks
      PROVE  AsEntries(read_page(MapBlockOf(s, b \div EntriesPerBlock, u)), u)
               [b % EntriesPerBlock] \in Entry
  <2>1. b % EntriesPerBlock \in Offsets
    BY Zenon, MapSizes
  <2>2. AsEntries(read_page(MapBlockOf(s, b \div EntriesPerBlock, u)), u)
          \in [Offsets -> Entry]
    BY Zenon, <1>3
  <2>3. QED
    BY Zenon, <2>1, <2>2
<1>6. afs_fill_map(s, u) \in [Blocks -> Entry]
  BY Zenon, <1>5 DEF afs_fill_map
<1>7. RebuildPtrBlocks(s, u) \in [PtrIndices -> PtrBlock]
  BY Zenon, <1>2 DEF RebuildPtrBlocks
<1>8. QED
  BY Zenon, <1>4, <1>6, <1>7

(***************************************************************************)
(* Type correctness.                                                       *)
(***************************************************************************)

\* How often the loop of a phase runs.
Turns ==
  IF phase \in {"mapblocks", "saving"} THEN NumMapBlocks
  ELSE IF phase = "ptrblocks" THEN NumPtrBlocks
  ELSE IF phase = "superblock" THEN NUM_SUPERBLOCK_REPLICAS
  ELSE 1

TypeInv == TypeOK /\ written < Turns

LEMMA ZeroTyped ==
  /\ ZeroSb \in SuperBlock
  /\ [ZeroSb EXCEPT !.first_ptr_block = AFS_INVALID_BLOCK] \in SuperBlock
  /\ ZeroPtrs \in [PtrIndices -> PtrBlock]
  /\ DOMAIN NoList = {}
BY Zenon, NumberFacts DEF ZeroSb, SuperBlock, ZeroPtrs, PtrBlock, NoList

\* The counters of the loops.
LEMMA CounterTyped ==
  /\ NumMapBlocks \in Nat \ {0} /\ NumPtrBlocks \in Nat
  /\ NUM_SUPERBLOCK_REPLICAS \in Nat \ {0}
  /\ 0 \in 0 .. NumMapBlocks + NumPtrBlocks + NUM_SUPERBLOCK_REPLICAS
BY MapSizes, PtrSizes, Sizes

LEMMA ForgetTyped ==
  ASSUME TypeInv, Forget, disk' \in [Device -> Content], UNCHANGED <<free, formatted, remapped>>,
         saved' \in [Blocks -> Entry], image' \in [Blocks -> Entry],
         passive' \in 0 .. MaxPassive, crashes' \in 0 .. MaxCrashes
  PROVE  TypeInv'
BY ZeroTyped, CounterTyped, MapTyped DEF TypeInv, TypeOK, Forget, Turns, Phases

LEMMA StartTyped == ListRight /\ TypeInv /\ CreateStart => TypeInv'
<1> SUFFICES ASSUME ListRight, TypeInv, CreateStart PROVE TypeInv'
  BY Zenon
<1>1. free \subseteq Free
  BY Zenon DEF TypeInv, TypeOK
<1>2. /\ DOMAIN list' \subseteq Device
      /\ \A k \in DOMAIN list' : list'[k] \in Free
  BY Zenon, <1>1, ListTyped DEF CreateStart
<1>3. vector' \in SUBSET Numbers
  <2>1. SomeListed(list') /\ vector' = {AFS_INVALID_BLOCK} \cup Locations(list')
    BY Zenon DEF CreateStart
  <2>2. \A j \in Replicas : SbBlock(list', j) \in Device
    <3>1. list' = BlockList(free)
      BY Zenon DEF CreateStart
    <3>2. QED
      BY Zenon, <2>1, <3>1, <1>1, ListTyped
  <2>3. Locations(list') \subseteq Device
    BY Zenon, <2>2 DEF Locations
  <2>4. QED
    BY Zenon, <2>1, <2>3, NumberFacts
<1>4. written' = 0 /\ phase' = "mapblocks" /\ written' < Turns'
  BY CounterTyped DEF CreateStart, TypeInv, TypeOK, Turns
<1>5. QED
  BY Zenon, <1>2, <1>3, <1>4, ZeroTyped, MapTyped
  DEF CreateStart, TypeInv, TypeOK, Phases, history, world

LEMMA MapBlockTyped ==
  ASSUME TypeInv, NEW k \in DOMAIN list, CreateMapBlock(k)
  PROVE  TypeInv'
<1>1. list[k] \in Numbers /\ k \in Numbers
  BY Zenon, NumberFacts DEF TypeInv, TypeOK
<1>2. written \in MapBlocks /\ NumMapBlocks \in Nat /\ NumPtrBlocks \in Nat
  BY CounterTyped DEF TypeInv, TypeOK, Turns, CreateMapBlock, MapBlocks
<1>3. sb' \in SuperBlock
  <2>1. sb \in SuperBlock
    BY Zenon DEF TypeInv, TypeOK
  <2>2. CASE written \in SbSlots
    BY <2>1, <2>2, <1>1 DEF CreateMapBlock, SuperBlock
  <2>3. CASE written \notin SbSlots
    BY Zenon, <2>1, <2>3 DEF CreateMapBlock
  <2>4. QED
    BY Zenon, <2>2, <2>3
<1>4. ptrblocks' \in [PtrIndices -> PtrBlock]
  <2>1. ptrblocks \in [PtrIndices -> PtrBlock]
    BY Zenon DEF TypeInv, TypeOK
  <2>2. CASE written \in SbSlots
    BY Zenon, <2>1, <2>2 DEF CreateMapBlock
  <2>3. CASE written \notin SbSlots
    <3>1. PtrIndex(written) \in PtrIndices /\ PtrSlot(written) \in PbSlots
      BY Zenon, <1>2, <2>3, PtrSizes
    <3>2. ptrblocks' = [ptrblocks EXCEPT
                          ![PtrIndex(written)].map_block_ptrs[PtrSlot(written)] = list[k]]
      BY Zenon, <2>3 DEF CreateMapBlock
    <3>3. QED
      BY Zenon, <2>1, <3>1, <3>2, <1>1 DEF PtrBlock
  <2>4. QED
    BY Zenon, <2>2, <2>3
<1>5. disk' \in [Device -> Content]
  <2>1. MapBlock(map, written) \in Content /\ disk \in [Device -> Content]
    BY Zenon, MapTyped DEF TypeInv, TypeOK
  <2>2. QED
    BY Zenon, <2>1, PageTyped DEF CreateMapBlock
<1>6. /\ vector' \in SUBSET Numbers /\ phase' \in Phases
      /\ list' = list /\ free' = free /\ type' = type /\ map' = map
      /\ UNCHANGED <<history, world>>
  BY Zenon, <1>1 DEF TypeInv, TypeOK, CreateMapBlock, Acquire, Phases, world
<1>7. /\ written' \in 0 .. NumMapBlocks + NumPtrBlocks + NUM_SUPERBLOCK_REPLICAS
      /\ written' < Turns'
  <2>1. written' = IF written = NumMapBlocks - 1 THEN 0 ELSE written + 1
    BY Zenon DEF CreateMapBlock
  <2>2. phase' = IF written # NumMapBlocks - 1 THEN "mapblocks"
                 ELSE IF NumPtrBlocks = 0 THEN "superblock" ELSE "ptrblocks"
    BY Zenon DEF CreateMapBlock
  <2>3. CASE written = NumMapBlocks - 1
    BY <2>1, <2>2, <2>3, CounterTyped DEF Turns
  <2>4. CASE written # NumMapBlocks - 1
    BY <2>1, <2>2, <2>4, <1>2, CounterTyped DEF Turns, MapBlocks
  <2>5. QED
    BY Zenon, <2>3, <2>4
<1>8. QED
  BY Zenon, <1>3, <1>4, <1>5, <1>6, <1>7 DEF TypeInv, TypeOK, history, world

LEMMA PtrBlockTyped ==
  ASSUME TypeInv, NEW k \in DOMAIN list, CreatePtrBlock(k)
  PROVE  TypeInv'
<1> DEFINE i == NumPtrBlocks - 1 - written
           block == IF written = 0
                    THEN [ptrblocks[i] EXCEPT !.next_ptr_block = AFS_INVALID_BLOCK]
                    ELSE ptrblocks[i]
<1>1. list[k] \in Numbers /\ k \in Numbers
  BY Zenon, NumberFacts DEF TypeInv, TypeOK
<1>2. /\ i \in PtrIndices /\ NumMapBlocks \in Nat /\ NumPtrBlocks \in Nat
      /\ written \in 0 .. NumPtrBlocks - 1
  BY CounterTyped DEF TypeInv, TypeOK, Turns, CreatePtrBlock, PtrIndices
<1>3. sb \in SuperBlock /\ ptrblocks \in [PtrIndices -> PtrBlock]
  BY Zenon DEF TypeInv, TypeOK
<1>4. block \in PtrBlock
  <2>1. ptrblocks[i] \in PtrBlock
    BY Zenon, <1>2, <1>3
  <2>2. [ptrblocks[i] EXCEPT !.next_ptr_block = AFS_INVALID_BLOCK] \in PtrBlock
    <3>1. AFS_INVALID_BLOCK \in Numbers
      BY Zenon, NumberFacts
    <3> DEFINE p == ptrblocks[i]
    <3> HIDE DEF p
    <3>2. p \in PtrBlock => [p EXCEPT !.next_ptr_block = AFS_INVALID_BLOCK] \in PtrBlock
      BY Zenon, <3>1 DEF PtrBlock
    <3>3. QED
      BY Zenon, <3>2, <2>1 DEF p
  <2> HIDE DEF i
  <2>3. QED
    BY Zenon, <2>1, <2>2
<1>5. /\ write_page(list[k], [kind |-> "ptr", ptr |-> block])
      /\ ptrblocks' = [j \in PtrIndices |->
                         IF j = i THEN block
                         ELSE IF j = i - 1
                              THEN [ptrblocks[j] EXCEPT !.next_ptr_block = list[k]]
                         ELSE ptrblocks[j]]
      /\ sb' = IF i = 0 THEN [sb EXCEPT !.first_ptr_block = list[k]] ELSE sb
      /\ written' = IF i = 0 THEN 0 ELSE written + 1
      /\ phase' = IF i = 0 THEN "superblock" ELSE "ptrblocks"
  BY Zenon DEF CreatePtrBlock
<1>6. /\ written' \in 0 .. NumMapBlocks + NumPtrBlocks + NUM_SUPERBLOCK_REPLICAS
      /\ written' < Turns'
  <2>1. CASE i = 0
    BY <2>1, <1>5, CounterTyped DEF Turns
  <2>2. CASE i # 0
    <3>1. written' = written + 1 /\ phase' = "ptrblocks"
      BY Zenon, <2>2, <1>5
    <3>2. written + 1 < NumPtrBlocks
      BY <2>2, <1>2
    <3>3. QED
      BY <3>1, <3>2, <1>2, CounterTyped DEF Turns
  <2>3. QED
    BY Zenon, <2>1, <2>2
<1> HIDE DEF i, block
<1>7. sb' \in SuperBlock
  BY Zenon, <1>1, <1>3, <1>5 DEF SuperBlock
<1>8. ptrblocks' \in [PtrIndices -> PtrBlock]
  <2>1. \A j \in PtrIndices : [ptrblocks[j] EXCEPT !.next_ptr_block = list[k]] \in PtrBlock
    BY Zenon, <1>1, <1>3 DEF PtrBlock
  <2>2. QED
    BY Zenon, <2>1, <1>3, <1>4, <1>5
<1>9. disk' \in [Device -> Content]
  <2>1. [kind |-> "ptr", ptr |-> block] \in Content /\ disk \in [Device -> Content]
    BY Zenon, <1>4, ContentFacts DEF TypeInv, TypeOK
  <2>2. QED
    BY Zenon, <2>1, <1>5, PageTyped
<1>10. /\ vector' \in SUBSET Numbers /\ phase' \in Phases
       /\ list' = list /\ free' = free /\ type' = type /\ map' = map
       /\ UNCHANGED <<history, world>>
  BY Zenon, <1>1, <1>5 DEF TypeInv, TypeOK, CreatePtrBlock, Acquire, Phases, world
<1>11. QED
  BY Zenon, <1>6, <1>7, <1>8, <1>9, <1>10 DEF TypeInv, TypeOK, history, world

LEMMA SuperBlockTyped ==
  ASSUME TypeInv, NEW u, CreateSuperBlock(u)
  PROVE  TypeInv'
<1>1. disk' \in [Device -> Content]
  <2>1. [kind |-> "sb", sb |-> sb] \in Content /\ disk \in [Device -> Content]
    BY Zenon, ContentFacts DEF TypeInv, TypeOK
  <2>2. QED
    BY Zenon, <2>1, PageTyped DEF CreateSuperBlock
<1>2. /\ written' \in 0 .. NumMapBlocks + NumPtrBlocks + NUM_SUPERBLOCK_REPLICAS
      /\ written' < Turns' /\ phase' \in Phases
  <2>1. /\ written' = IF written = NUM_SUPERBLOCK_REPLICAS - 1 THEN 0 ELSE written + 1
        /\ phase' = IF written = NUM_SUPERBLOCK_REPLICAS - 1 THEN "up" ELSE "superblock"
        /\ written < NUM_SUPERBLOCK_REPLICAS /\ written \in Nat
    BY CounterTyped DEF CreateSuperBlock, TypeInv, TypeOK, Turns
  <2>2. QED
    BY <2>1, CounterTyped DEF Turns, Phases
<1>3. QED
  BY Zenon, <1>1, <1>2 DEF TypeInv, TypeOK, CreateSuperBlock, context, world

LEMMA MountTyped ==
  ASSUME ListRight, TypeInv, NEW u \in Arbitrary, Mount(u)
  PROVE  TypeInv'
<1> DEFINE lst == BlockList(free)
           location == SbBlock(lst, 0)
           content == read_page(ListAt(lst, location, u))
<1>1. u \in Numbers
  BY Zenon, NumberFacts
<1>2. disk \in [Device -> Content] /\ free \subseteq Free
  BY Zenon DEF TypeInv, TypeOK
<1>3. content \in Content
  BY Zenon, <1>2, PageTyped
<1>4. /\ IsKind(content, "sb") /\ SomeListed(lst) /\ phase = "down"
      /\ phase' = "up" /\ type' = "mount" /\ list' = lst /\ sb' = content.sb
      /\ map' = afs_fill_map(content.sb, u)
      /\ vector' = MountVector(location, content.sb, map', u)
      /\ ptrblocks' = RebuildPtrBlocks(content.sb, u)
      /\ saved' = map' /\ image' = map'
      /\ UNCHANGED <<disk, written, formatted, remapped, world>>
  BY Zenon DEF Mount
<1>5. DOMAIN lst \subseteq Device /\ \A k \in DOMAIN lst : lst[k] \in Free
  BY Zenon, <1>2, ListTyped
<1>6. location \in Numbers
  <2>1. 0 \in Replicas
    BY Sizes DEF Replicas
  <2>2. \A j \in Replicas : SbBlock(lst, j) \in Device
    BY Zenon, <1>2, <1>4, ListTyped
  <2> HIDE DEF lst
  <2>3. QED
    BY Zenon, <2>1, <2>2, NumberFacts
<1> HIDE DEF lst, location, content
<1>7. content.sb \in SuperBlock
  BY Zenon, <1>3, <1>4, KindFacts
<1>8. /\ map' \in [Blocks -> Entry] /\ ptrblocks' \in [PtrIndices -> PtrBlock]
      /\ \A i : MapBlockOf(content.sb, i, u) \in Numbers
  BY Zenon, <1>1, <1>2, <1>4, <1>7, ReadTyped
<1>9. vector' \in SUBSET Numbers
  <2>1. content.sb.first_ptr_block \in Numbers
    BY Zenon, <1>7 DEF SuperBlock
  <2>2. \A b \in Blocks : map'[b].ptr \in Numbers
    BY Zenon, <1>8 DEF Entry
  <2>3. QED
    BY Zenon, <1>4, <1>6, <1>8, <2>1, <2>2, NumberFacts DEF MountVector
<1>10. /\ written' \in 0 .. NumMapBlocks + NumPtrBlocks + NUM_SUPERBLOCK_REPLICAS
       /\ written' < Turns'
  BY Zenon, <1>4, CounterTyped DEF TypeInv, TypeOK, Turns
<1>11. QED
  BY Zenon, <1>2, <1>4, <1>5, <1>7, <1>8, <1>9, <1>10 DEF TypeInv, TypeOK, Phases, world

LEMMA WriteNewTyped ==
  ASSUME TypeInv, NEW b \in Blocks, NEW k \in DOMAIN list, WriteNew(b, k)
  PROVE  TypeInv'
<1>1. list[k] \in Device /\ list[k] \in Numbers /\ k \in Numbers
  BY Zenon, NumberFacts DEF TypeInv, TypeOK
<1>2. disk' \in [Device -> Content]
  <2>1. Data(b, 1) \in Content /\ disk \in [Device -> Content]
    BY Zenon, NumberFacts, ContentFacts DEF TypeInv, TypeOK
  <2>2. QED
    BY Zenon, <2>1, <1>1 DEF WriteNew
<1>3. map' \in [Blocks -> Entry]
  <2>1. [ptr |-> list[k], sum |-> 1] \in Entry /\ map \in [Blocks -> Entry]
    BY Zenon, <1>1, NumberFacts DEF Entry, TypeInv, TypeOK
  <2>2. QED
    BY Zenon, <2>1 DEF WriteNew
<1>4. vector' \in SUBSET Numbers /\ remapped' \in BOOLEAN
  BY Zenon, <1>1 DEF WriteNew, Acquire, TypeInv, TypeOK
<1>5. QED
  BY Zenon, <1>2, <1>3, <1>4 DEF WriteNew, TypeInv, TypeOK, Turns, world

LEMMA WriteOldTyped ==
  ASSUME TypeInv, NEW b \in Blocks, WriteOld(b)
  PROVE  TypeInv'
<1>1. map \in [Blocks -> Entry] /\ disk \in [Device -> Content] /\ MaxVersion \in Nat
  BY Zenon, Sizes DEF TypeInv, TypeOK
<1>2. map[b] \in Entry /\ map[b].ptr \in Device /\ map[b].sum + 1 \in 0 .. MaxVersion
  BY <1>1 DEF WriteOld, Entry, Numbers
<1>3. map' \in [Blocks -> Entry] /\ map'[b].sum = map[b].sum + 1
  <2>1. map' = [map EXCEPT ![b].sum = @ + 1]
    BY Zenon DEF WriteOld
  <2>2. [map[b] EXCEPT !.sum = @ + 1] \in Entry
    BY Zenon, <1>2 DEF Entry
  <2>3. map' = [map EXCEPT ![b] = [map[b] EXCEPT !.sum = @ + 1]]
    BY Zenon, <2>1, <1>1
  <2>4. QED
    BY Zenon, <1>1, <1>2, <2>2, <2>3 DEF Entry
<1>4. disk' \in [Device -> Content]
  <2>1. Data(b, map'[b].sum) \in Content
    BY Zenon, <1>2, <1>3, ContentFacts
  <2>2. disk' = [disk EXCEPT ![map[b].ptr] = Data(b, map'[b].sum)]
    BY Zenon DEF WriteOld
  <2>3. QED
    BY Zenon, <2>1, <2>2, <1>1
<1>5. QED
  BY Zenon, <1>3, <1>4 DEF WriteOld, TypeInv, TypeOK, Turns, history, world

LEMMA UnmountTyped == TypeInv /\ UnmountStart => TypeInv'
<1> SUFFICES ASSUME TypeInv, UnmountStart PROVE TypeInv'
  BY Zenon
<1>1. written = 0 /\ phase' = "saving" /\ written' < Turns'
  BY CounterTyped DEF UnmountStart, TypeInv, TypeOK, Turns
<1>2. QED
  BY Zenon, <1>1 DEF UnmountStart, TypeInv, TypeOK, Phases, context, world

LEMMA SaveTyped == TypeInv /\ SaveMapBlock => TypeInv'
<1> SUFFICES ASSUME TypeInv, SaveMapBlock PROVE TypeInv'
  BY Zenon
<1>1. disk' \in [Device -> Content]
  <2>1. MapBlock(map, written) \in Content /\ disk \in [Device -> Content]
    BY Zenon, MapTyped DEF TypeInv, TypeOK
  <2>2. QED
    BY Zenon, <2>1, PageTyped DEF SaveMapBlock
<1>2. map \in [Blocks -> Entry] /\ image' \in [Blocks -> Entry]
  BY Zenon DEF TypeInv, TypeOK, SaveMapBlock
<1>3. CASE written = NumMapBlocks - 1
  <2>1. Forget /\ saved' = map /\ UNCHANGED <<free, formatted, remapped, passive, crashes>>
    BY Zenon, <1>3 DEF SaveMapBlock, world
  <2>2. passive' \in 0 .. MaxPassive /\ crashes' \in 0 .. MaxCrashes
    BY Zenon, <2>1 DEF TypeInv, TypeOK
  <2>3. QED
    BY Zenon, <1>1, <1>2, <2>1, <2>2, ForgetTyped
<1>4. CASE written # NumMapBlocks - 1
  <2>1. /\ written' = written + 1 /\ phase' = phase /\ phase = "saving"
        /\ UNCHANGED <<context, saved, formatted, image, remapped, world>>
    BY Zenon, <1>4 DEF SaveMapBlock
  <2>2. written + 1 < NumMapBlocks /\ written \in Nat
    BY <1>4, <2>1, CounterTyped DEF TypeInv, TypeOK, Turns
  <2>3. /\ written' \in 0 .. NumMapBlocks + NumPtrBlocks + NUM_SUPERBLOCK_REPLICAS
        /\ written' < Turns'
    BY <2>1, <2>2, CounterTyped DEF Turns
  <2>4. QED
    BY Zenon, <1>1, <2>1, <2>3 DEF TypeInv, TypeOK, context, world
<1>5. QED
  BY Zenon, <1>3, <1>4

LEMMA WorldTyped ==
  /\ TypeInv /\ CreateNoSpace => TypeInv'
  /\ TypeInv /\ Crash => TypeInv'
  /\ \A n \in free : TypeInv /\ PassiveAllocate(n) => TypeInv'
<1>1. ASSUME TypeInv, CreateNoSpace PROVE TypeInv'
  <2>1. Forget /\ UNCHANGED <<disk, formatted, saved, image, remapped, free, passive, crashes>>
    BY Zenon, <1>1 DEF CreateNoSpace, history, world
  <2>2. /\ disk' \in [Device -> Content] /\ saved' \in [Blocks -> Entry]
        /\ image' \in [Blocks -> Entry]
        /\ passive' \in 0 .. MaxPassive /\ crashes' \in 0 .. MaxCrashes
    BY Zenon, <1>1, <2>1 DEF TypeInv, TypeOK
  <2>3. QED
    BY Zenon, <1>1, <2>1, <2>2, ForgetTyped
<1>2. ASSUME TypeInv, Crash PROVE TypeInv'
  <2>1. Forget /\ UNCHANGED <<disk, formatted, saved, image, remapped, free, passive>>
    BY Zenon, <1>2 DEF Crash, history
  <2>2. /\ disk' \in [Device -> Content] /\ saved' \in [Blocks -> Entry]
        /\ image' \in [Blocks -> Entry] /\ passive' \in 0 .. MaxPassive
    BY Zenon, <1>2, <2>1 DEF TypeInv, TypeOK
  <2>3. crashes' \in 0 .. MaxCrashes
    BY <1>2, Sizes DEF Crash, TypeInv, TypeOK
  <2>4. QED
    BY Zenon, <1>2, <2>1, <2>2, <2>3, ForgetTyped
<1>3. ASSUME TypeInv, NEW n \in free, PassiveAllocate(n) PROVE TypeInv'
  <2>1. n \in Device /\ Passive \in Content
    BY Zenon, <1>3, NumberFacts, ContentFacts DEF TypeInv, TypeOK
  <2>2. disk' \in [Device -> Content]
    BY Zenon, <1>3, <2>1 DEF PassiveAllocate, TypeInv, TypeOK
  <2>3. passive' \in 0 .. MaxPassive /\ free' \subseteq Free
    <3>1. passive \in 0 .. MaxPassive /\ free \subseteq Free
      BY Zenon, <1>3 DEF TypeInv, TypeOK
    <3>2. passive < MaxPassive /\ passive' = passive + 1 /\ free' = free \ {n}
      BY Zenon, <1>3 DEF PassiveAllocate
    <3>3. QED
      BY <3>1, <3>2, Sizes
  <2>4. QED
    BY Zenon, <1>3, <2>2, <2>3 DEF PassiveAllocate, TypeInv, TypeOK, Turns, context, history
<1>4. QED
  BY Zenon, <1>1, <1>2, <1>3

LEMMA InitTyped == Init => TypeInv
<1> SUFFICES ASSUME Init PROVE TypeInv
  BY Zenon
<1>1. disk \in [Device -> Content]
  BY Zenon, ContentFacts DEF Init
<1>2. /\ written \in 0 .. NumMapBlocks + NumPtrBlocks + NUM_SUPERBLOCK_REPLICAS
      /\ written < Turns
      /\ passive \in 0 .. MaxPassive /\ crashes \in 0 .. MaxCrashes
  BY CounterTyped, Sizes DEF Init, Turns
<1>3. DOMAIN list = {}
  BY Zenon, ZeroTyped DEF Init
<1>4. /\ free \subseteq Free /\ vector \in SUBSET Numbers /\ phase \in Phases
      /\ type \in {"create", "mount"}
      /\ formatted \in BOOLEAN /\ remapped \in BOOLEAN
  BY Zenon DEF Init, Phases
<1>5. /\ map \in [Blocks -> Entry] /\ saved \in [Blocks -> Entry]
      /\ image \in [Blocks -> Entry]
      /\ sb \in SuperBlock /\ ptrblocks \in [PtrIndices -> PtrBlock]
  BY Zenon, ZeroTyped, MapTyped DEF Init
<1>6. QED
  BY Zenon, <1>1, <1>2, <1>3, <1>4, <1>5 DEF TypeInv, TypeOK

LEMMA NextTyped == ListRight /\ TypeInv /\ [Next]_vars => TypeInv'
<1> SUFFICES ASSUME ListRight, TypeInv, [Next]_vars PROVE TypeInv'
  BY Zenon
<1>1. CASE UNCHANGED vars
  BY Zenon, <1>1 DEF TypeInv, TypeOK, Turns, vars, context, history, world
<1>2. CASE CreateStart
  BY Zenon, <1>2, StartTyped
<1>3. CASE \E k \in DOMAIN list : CreateMapBlock(k) \/ CreatePtrBlock(k)
  BY Zenon, <1>3, MapBlockTyped, PtrBlockTyped
<1>4. CASE \E u \in Arbitrary : CreateSuperBlock(u) \/ Mount(u)
  BY Zenon, <1>4, SuperBlockTyped, MountTyped
<1>5. CASE \E b \in Blocks, k \in DOMAIN list : WriteNew(b, k)
  BY Zenon, <1>5, WriteNewTyped
<1>6. CASE \E b \in Blocks : WriteOld(b)
  BY Zenon, <1>6, WriteOldTyped
<1>7. CASE UnmountStart \/ SaveMapBlock
  BY Zenon, <1>7, UnmountTyped, SaveTyped
<1>8. CASE CreateNoSpace \/ Crash \/ \E n \in free : PassiveAllocate(n)
  BY Zenon, <1>8, WorldTyped
<1>9. QED
  BY Zenon, <1>1, <1>2, <1>3, <1>4, <1>5, <1>6, <1>7, <1>8 DEF Next

(***************************************************************************)
(* Where everything is.  Until the passive file system takes a block the   *)
(* list is the same in every session; a place is a block of that list.     *)
(* Nothing here counts positions of blocks: what is on a block tells what  *)
(* it is used for, and what a session has acquired tells what it may       *)
(* overwrite.                                                              *)
(***************************************************************************)

FullList == BlockList(Free)

\* The block that replica j of the superblock is written to.
Place(j) == FullList[SbBlock(FullList, j)]

\* The blocks whose bits are set, and those reserved for the superblock.
Taken == {FullList[k] : k \in vector \cap DOMAIN FullList}

Reserved == {Place(j) : j \in Replicas}

\* Where superblock s says map block i is.
Home(s, i) ==
  IF i \in SbSlots THEN s.map_block_ptrs[i]
  ELSE disk[s.first_ptr_block].ptr.map_block_ptrs[0]

\* The superblock that the next session reads.
DiskSb == disk[Place(0)].sb

\* Nothing that could be taken for a device is there before one is created.
NothingYet ==
  ~ formatted =>
    /\ phase \in {"down", "mapblocks", "ptrblocks", "superblock"}
    /\ phase = "superblock" => written = 0
    /\ saved = NoMap /\ image = NoMap
    /\ \A n \in Device : ~ IsKind(disk[n], "sb") /\ ~ IsKind(disk[n], "data")

\* What a session knows.
SessionInv ==
  phase # "down" =>
    /\ list = FullList
    /\ SomeListed(FullList)
    /\ phase \in {"mapblocks", "ptrblocks", "superblock"} => type = "create" /\ map = NoMap
    /\ phase \in {"mapblocks", "ptrblocks"} => ~ formatted
    /\ phase # "saving" => image = saved
    /\ phase = "saving" => image = map
    /\ type = "create" => saved = NoMap

\* In the session that creates the device: the pages written so far.
Done(i) == phase = "mapblocks" => i < written

CreatingInv ==
  phase # "down" /\ type = "create" =>
    /\ Reserved \subseteq Taken
    /\ \A i \in MapBlocks : Done(i) => SavePtr(i) \in Taken \ Reserved
    /\ NumPtrBlocks # 0 /\ phase \notin {"mapblocks", "ptrblocks"} =>
         sb.first_ptr_block \in Taken \ Reserved
    /\ \A b \in Blocks : map[b].ptr # AFS_INVALID_BLOCK => map[b].ptr \in Taken

\* The blank map and the pointer block are on the disk before the superblock.
BlankInv ==
  phase \in {"mapblocks", "ptrblocks", "superblock"} /\ ~ formatted =>
    /\ \A i \in MapBlocks : Done(i) => disk[SavePtr(i)] = MapBlock(NoMap, i)
    /\ \A i, j \in MapBlocks :
         Done(i) /\ Done(j) /\ SavePtr(i) = SavePtr(j) => i = j
    /\ NumPtrBlocks # 0 /\ phase = "superblock" =>
         disk[sb.first_ptr_block] = [kind |-> "ptr", ptr |-> ptrblocks[0]]

\* From the first replica on: the superblock leads to all map blocks, and each
\* holds its part of the map last saved or of the one being saved.
DeviceInv ==
  formatted =>
    /\ SomeListed(FullList)
    /\ IsKind(disk[Place(0)], "sb")
    /\ NumPtrBlocks # 0 => /\ DiskSb.first_ptr_block \in Free
                           /\ IsKind(disk[DiskSb.first_ptr_block], "ptr")
    /\ \A i \in MapBlocks :
         /\ Home(DiskSb, i) \in Free
         /\ disk[Home(DiskSb, i)] \in {MapBlock(saved, i), MapBlock(image, i)}
    /\ \A i, j \in MapBlocks : Home(DiskSb, i) = Home(DiskSb, j) => i = j

\* The session works on the device that is on the disk.
MemoryInv ==
  formatted /\ phase # "down" =>
    /\ sb = DiskSb
    /\ NumPtrBlocks # 0 => ptrblocks[0] = disk[sb.first_ptr_block].ptr
    /\ phase = "saving" =>
         \A i \in MapBlocks : i < written => disk[Home(sb, i)] = MapBlock(map, i)

\* No carrier block is lost.
CarrierInv ==
  /\ phase = "down" => map = NoMap
  /\ HoldsOwnData(map) /\ HoldsOwnData(saved) /\ HoldsOwnData(image)

\* As long as no session was interrupted the map of the session, or the one saved
\* by the last, is exactly what the carrier blocks hold.
Current == IF phase = "down" THEN saved ELSE map

ExactInv ==
  crashes = 0 =>
    /\ phase = "down" => image = saved
    /\ \A b \in Blocks, n \in Device :
         /\ IsKind(disk[n], "data") /\ disk[n].block = b => Current[b].ptr = n
         /\ Current[b].ptr = n => disk[n] = Data(b, Current[b].sum)

PassiveInv == \A n \in Device \ Free : disk[n] = Passive

Layout ==
  /\ NothingYet /\ SessionInv /\ CreatingInv /\ BlankInv
  /\ DeviceInv /\ MemoryInv /\ CarrierInv /\ ExactInv /\ PassiveInv

LayoutInv ==
  /\ passive = 0 => free = Free
  /\ Undisturbed => Layout

\* The devices that the theorems about the layout are about, and the lists.
Setting == SmallDevice /\ LocationsListed /\ OneIndirect /\ ListRight

\* The list of the device as it was: one index per free block.
LEMMA PlaceFacts ==
  ASSUME Setting
  PROVE  /\ FullList \in [DOMAIN FullList -> Free]
         /\ \A k, l \in DOMAIN FullList : FullList[k] = FullList[l] => k = l
         /\ \A j \in Replicas : /\ SbBlock(FullList, j) \in DOMAIN FullList
                                /\ Place(j) \in Free /\ Place(j) \in Reserved
         /\ 0 \in Replicas
<1>1. Free \in SUBSET Free
  BY Zenon
<1>2. FullList \in [DOMAIN FullList -> Free]
  BY Zenon, <1>1 DEF Setting, ListRight, FullList
<1>3. \A k, l \in DOMAIN FullList : FullList[k] = FullList[l] => k = l
  BY Zenon DEF Setting, ListRight, FullList
<1>4. \A j \in Replicas : SbBlock(FullList, j) \in DOMAIN FullList
  BY Zenon DEF Setting, LocationsListed, FullList
<1>5. \A j \in Replicas : Place(j) \in Free /\ Place(j) \in Reserved
  BY Zenon, <1>2, <1>4 DEF Place, Reserved
<1>6. 0 \in Replicas
  BY Sizes DEF Replicas
<1>7. QED
  BY Zenon, <1>2, <1>3, <1>4, <1>5, <1>6

\* At most one map block is behind a pointer block, in the first slot.
LEMMA PtrFacts ==
  ASSUME Setting
  PROVE  /\ NumPtrBlocks \in {0, 1}
         /\ \A i \in MapBlocks \ SbSlots :
              NumPtrBlocks = 1 /\ PtrIndex(i) = 0 /\ PtrSlot(i) = 0
         /\ 0 \in PbSlots
<1> DEFINE B == NUM_MAP_BLKS_IN_PB
<1>1. /\ NumMapBlocks \in Nat /\ NUM_MAP_BLKS_IN_SB \in Nat /\ B \in Nat /\ B > 0
      /\ NumMapBlocks <= NUM_MAP_BLKS_IN_SB + 1
  BY Sizes, MapSizes DEF Setting, OneIndirect
<1>2. 0 \div B = 0 /\ 0 % B = 0
  BY <1>1, SmallModulo
<1>3. 1 \div B + (IF 1 % B # 0 THEN 1 ELSE 0) = 1
  <2>1. CASE B = 1
    BY <2>1
  <2>2. CASE B > 1
    <3>1. 1 \div B = 0 /\ 1 % B = 1
      BY <2>2, <1>1, SmallModulo
    <3>2. QED
      BY <3>1
  <2>3. QED
    BY <2>1, <2>2, <1>1
<1> HIDE DEF B
<1>4. NumPtrBlocks = IF NumMapBlocks = NUM_MAP_BLKS_IN_SB + 1 THEN 1 ELSE 0
  <2>1. CASE NumMapBlocks = NUM_MAP_BLKS_IN_SB + 1
    <3>1. NumMapBlocks - NUM_MAP_BLKS_IN_SB = 1 /\ ~ (NumMapBlocks < NUM_MAP_BLKS_IN_SB)
      BY <2>1, <1>1
    <3>2. RoundUp(1, NUM_MAP_BLKS_IN_PB) = 1
      BY Zenon, <1>3 DEF RoundUp, B
    <3>3. QED
      BY Zenon, <3>1, <3>2, <2>1 DEF NumPtrBlocks
  <2>2. CASE NumMapBlocks = NUM_MAP_BLKS_IN_SB
    <3>1. NumMapBlocks - NUM_MAP_BLKS_IN_SB = 0 /\ ~ (NumMapBlocks < NUM_MAP_BLKS_IN_SB)
          /\ NumMapBlocks # NUM_MAP_BLKS_IN_SB + 1
      BY <2>2, <1>1
    <3>2. RoundUp(0, NUM_MAP_BLKS_IN_PB) = 0
      BY <1>2 DEF RoundUp, B
    <3>3. QED
      BY Zenon, <3>1, <3>2 DEF NumPtrBlocks
  <2>3. CASE NumMapBlocks < NUM_MAP_BLKS_IN_SB
    BY <2>3, <1>1 DEF NumPtrBlocks
  <2>4. QED
    BY <2>1, <2>2, <2>3, <1>1
<1>5. ASSUME NEW i \in MapBlocks \ SbSlots
      PROVE  NumPtrBlocks = 1 /\ PtrIndex(i) = 0 /\ PtrSlot(i) = 0
  <2>1. i = NUM_MAP_BLKS_IN_SB /\ NumMapBlocks = NUM_MAP_BLKS_IN_SB + 1
    BY <1>1 DEF MapBlocks, SbSlots
  <2>2. i - NUM_MAP_BLKS_IN_SB = 0
    BY <2>1, <1>1
  <2>3. QED
    BY Zenon, <2>1, <2>2, <1>2, <1>4 DEF PtrIndex, PtrSlot, B
<1>6. 0 \in PbSlots
  BY <1>1 DEF PbSlots, B
<1>7. QED
  BY Zenon, <1>4, <1>5, <1>6

\* Below 4 GB a page is read and written where its number says.
LEMMA AddressFacts ==
  ASSUME Setting, NEW n \in Device
  PROVE  /\ Address(n) = n
         /\ read_page(n) = disk[n]
         /\ \A c : write_page(n, c) => disk' = [disk EXCEPT ![n] = c]
<1>1. /\ WrapBlocks \in Nat /\ WrapBlocks > 0 /\ n \in Nat /\ n < WrapBlocks
  BY Sizes DEF Setting, SmallDevice, Device
<1>2. n % WrapBlocks = n
  BY <1>1, SmallModulo
<1>3. Address(n) = n
  BY Zenon, <1>2 DEF Address
<1>4. QED
  BY Zenon, <1>3 DEF read_page, write_page

\* Where the memory of a session says the map blocks are.
LEMMA SavePtrFacts ==
  ASSUME Setting, NEW i \in MapBlocks
  PROVE  SavePtr(i) = IF i \in SbSlots THEN sb.map_block_ptrs[i]
                      ELSE ptrblocks[0].map_block_ptrs[0]
BY Zenon, PtrFacts DEF SavePtr

LEMMA SavePtrNext ==
  ASSUME Setting, NEW i \in MapBlocks
  PROVE  SavePtr(i)' = IF i \in SbSlots THEN sb'.map_block_ptrs[i]
                       ELSE ptrblocks'[0].map_block_ptrs[0]
BY Zenon, PtrFacts DEF SavePtr

\* What the type invariant says of the variables the steps below are about.
LEMMA Typed ==
  ASSUME TypeInv
  PROVE  /\ disk \in [Device -> Content] /\ map \in [Blocks -> Entry]
         /\ saved \in [Blocks -> Entry] /\ image \in [Blocks -> Entry]
         /\ sb \in SuperBlock /\ ptrblocks \in [PtrIndices -> PtrBlock]
         /\ type \in {"create", "mount"} /\ passive \in Nat /\ crashes \in Nat
         /\ written \in Nat
<1>1. /\ passive \in Nat /\ crashes \in Nat /\ written \in Nat
  <2>1. /\ passive \in 0 .. MaxPassive /\ crashes \in 0 .. MaxCrashes
        /\ written \in 0 .. NumMapBlocks + NumPtrBlocks + NUM_SUPERBLOCK_REPLICAS
    BY Zenon DEF TypeInv, TypeOK
  <2>2. QED
    BY <2>1
<1>2. QED
  BY Zenon, <1>1 DEF TypeInv, TypeOK

LEMMA WrittenFacts ==
  ASSUME TypeInv
  PROVE  /\ phase \in {"mapblocks", "saving"} => written \in MapBlocks
         /\ phase = "ptrblocks" => written < NumPtrBlocks
         /\ phase = "superblock" => written \in Replicas
         /\ phase \in {"down", "up"} => written = 0
<1>1. written \in Nat /\ written < Turns
  BY Zenon, Typed DEF TypeInv
<1>2. NumMapBlocks \in Nat /\ NUM_SUPERBLOCK_REPLICAS \in Nat
  BY Zenon, MapSizes, Sizes
<1>3. QED
  BY <1>1, <1>2 DEF Turns, MapBlocks, Replicas

\* A map block without a slot in the superblock is named in the pointer block.
LEMMA PtrNeeded ==
  ASSUME Setting
  PROVE  /\ \A i \in MapBlocks : i \notin SbSlots => NumPtrBlocks # 0
         /\ NumPtrBlocks # 0 => NumPtrBlocks = 1 /\ 0 \in PtrIndices
BY PtrFacts DEF PtrIndices

\* The device stays when its superblock and pointer block are not overwritten and
\* each map block holds a block of a map that counts.
LEMMA DeviceStays ==
  ASSUME Setting, DeviceInv, formatted, disk'[Place(0)] = disk[Place(0)],
         NumPtrBlocks # 0 => disk'[DiskSb.first_ptr_block] = disk[DiskSb.first_ptr_block],
         \A i \in MapBlocks :
           disk'[Home(DiskSb, i)] \in {MapBlock(saved', i), MapBlock(image', i)}
  PROVE  /\ DeviceInv' /\ DiskSb' = DiskSb
         /\ \A i \in MapBlocks : Home(DiskSb, i)' = Home(DiskSb, i)
<1>1. /\ SomeListed(FullList) /\ IsKind(disk[Place(0)], "sb")
      /\ NumPtrBlocks # 0 => /\ DiskSb.first_ptr_block \in Free
                             /\ IsKind(disk[DiskSb.first_ptr_block], "ptr")
      /\ \A i \in MapBlocks : Home(DiskSb, i) \in Free
      /\ \A i, j \in MapBlocks : Home(DiskSb, i) = Home(DiskSb, j) => i = j
  BY Zenon DEF DeviceInv
<1>2. DiskSb' = DiskSb
  BY Zenon DEF DiskSb, Place, FullList
<1>3. ASSUME NEW i \in MapBlocks PROVE Home(DiskSb, i)' = Home(DiskSb, i)
  <2>1. Home(DiskSb, i)' = IF i \in SbSlots THEN DiskSb.map_block_ptrs[i]
                           ELSE disk'[DiskSb.first_ptr_block].ptr.map_block_ptrs[0]
    BY Zenon, <1>2 DEF Home
  <2>2. i \notin SbSlots => NumPtrBlocks # 0
    BY Zenon, PtrNeeded
  <2>3. QED
    BY Zenon, <2>1, <2>2 DEF Home
<1>4. SomeListed(FullList)' /\ IsKind(disk[Place(0)], "sb")'
  BY Zenon, <1>1 DEF SomeListed, FullList, Found, Place
<1>5. NumPtrBlocks # 0 => /\ DiskSb'.first_ptr_block \in Free
                          /\ IsKind(disk'[DiskSb'.first_ptr_block], "ptr")
  BY Zenon, <1>1, <1>2
<1>6. ASSUME NEW i \in MapBlocks
      PROVE  /\ Home(DiskSb, i)' \in Free
             /\ disk'[Home(DiskSb, i)'] \in {MapBlock(saved, i)', MapBlock(image, i)'}
  <2>1. MapBlock(saved, i)' = MapBlock(saved', i) /\ MapBlock(image, i)' = MapBlock(image', i)
    BY Zenon DEF MapBlock
  <2>2. QED
    BY Zenon, <2>1, <1>1, <1>3
<1>7. ASSUME NEW i \in MapBlocks, NEW j \in MapBlocks, Home(DiskSb, i)' = Home(DiskSb, j)'
      PROVE  i = j
  BY Zenon, <1>1, <1>3, <1>7
<1>8. DeviceInv'
  BY Zenon, <1>4, <1>5, <1>6, <1>7 DEF DeviceInv
<1>9. QED
  BY Zenon, <1>2, <1>3, <1>8

\* On disk d every carrier block that map m names holds the data of its block.
Carries(d, m) ==
  \A b \in Blocks :
    m[b].ptr # AFS_INVALID_BLOCK => IsKind(d[m[b].ptr], "data") /\ d[m[b].ptr].block = b

\* A step that changes one block, and of a carrier block the data only, loses no
\* carrier block of any map.
LEMMA CarriersStay ==
  ASSUME NEW n,
         \A x \in Device : x # n => disk'[x] = disk[x],
         IsKind(disk[n], "data") => /\ IsKind(disk'[n], "data")
                                    /\ disk'[n].block = disk[n].block
  PROVE  \A m \in [Blocks -> Entry] : Carries(disk, m) => Carries(disk', m)
<1> SUFFICES ASSUME NEW m \in [Blocks -> Entry], Carries(disk, m),
                    NEW c \in Blocks, m[c].ptr # AFS_INVALID_BLOCK
             PROVE  IsKind(disk'[m[c].ptr], "data") /\ disk'[m[c].ptr].block = c
  BY Zenon DEF Carries
<1>1. IsKind(disk[m[c].ptr], "data") /\ disk[m[c].ptr].block = c
  BY Zenon DEF Carries
<1>2. m[c].ptr \in Device
  BY Zenon DEF Entry, Numbers
<1>3. CASE m[c].ptr = n
  BY Zenon, <1>1, <1>3
<1>4. CASE m[c].ptr # n
  BY Zenon, <1>1, <1>2, <1>4
<1>5. QED
  BY Zenon, <1>3, <1>4

\* In a session on a device its memory names the map blocks as the disk does.
LEMMA HomeIsSaved ==
  ASSUME Setting, MemoryInv, formatted, phase # "down", NEW i \in MapBlocks
  PROVE  SavePtr(i) = Home(sb, i) /\ sb = DiskSb
<1>1. /\ sb = DiskSb
      /\ NumPtrBlocks # 0 => ptrblocks[0] = disk[sb.first_ptr_block].ptr
  BY Zenon DEF MemoryInv
<1>2. i \notin SbSlots => NumPtrBlocks # 0
  BY PtrFacts
<1>3. QED
  BY Zenon, <1>1, <1>2, SavePtrFacts DEF Home

\* A block that acquire_block returns is free and was not in use.
LEMMA AcquireFacts ==
  ASSUME Setting, list = FullList, NEW k \in DOMAIN list, Acquire(k)
  PROVE  /\ list[k] \in Free /\ list[k] \in Device /\ list[k] \notin Taken
         /\ Taken' = Taken \cup {list[k]}
<1>1. list[k] \in Free
  BY Zenon, PlaceFacts
<1>2. list[k] \notin Taken
  <2> SUFFICES ASSUME NEW l \in vector \cap DOMAIN FullList, FullList[l] = FullList[k]
               PROVE  FALSE
    BY Zenon DEF Taken
  <2>1. l = k
    BY Zenon, PlaceFacts
  <2>2. QED
    BY Zenon, <2>1 DEF Acquire
<1>3. vector' = vector \cup {k}
  BY Zenon DEF Acquire
<1>4. Taken' = {FullList[l] : l \in vector' \cap DOMAIN FullList}
  BY Zenon DEF Taken, FullList
<1>5. Taken' = Taken \cup {list[k]}
  BY Zenon, <1>3, <1>4 DEF Taken
<1>6. QED
  BY Zenon, <1>1, <1>2, <1>5, NumberFacts

\* The empty map names no carrier block.
LEMMA NoMapFacts ==
  /\ \A b \in Blocks : NoMap[b].ptr = AFS_INVALID_BLOCK /\ NoMap[b].ptr \notin Device
  /\ HoldsOwnData(NoMap) /\ HoldsOwnData(NoMap)'
<1>1. \A b \in Blocks : NoMap[b].ptr = AFS_INVALID_BLOCK
  BY Zenon DEF NoMap, NoEntry
<1>2. QED
  BY Zenon, <1>1, NumberFacts DEF HoldsOwnData

\* Before there is a device, nothing is said of it.
LEMMA BlankFacts ==
  ASSUME NothingYet', ~ formatted', map' = NoMap
  PROVE  DeviceInv' /\ MemoryInv' /\ CarrierInv' /\ ExactInv'
<1>1. /\ saved' = NoMap /\ image' = NoMap
      /\ \A n \in Device : ~ IsKind(disk'[n], "data")
  BY Zenon DEF NothingYet
<1>2. Current' = NoMap
  BY Zenon, <1>1 DEF Current
<1>3. CarrierInv'
  BY Zenon, <1>1, NoMapFacts DEF CarrierInv, HoldsOwnData
<1>4. ExactInv'
  BY Zenon, <1>1, <1>2, NoMapFacts DEF ExactInv
<1>5. QED
  BY Zenon, <1>3, <1>4 DEF DeviceInv, MemoryInv

\* A session ends: what is on the disk stays.
LEMMA ForgetKeeps ==
  ASSUME Setting, Layout, Forget, UNCHANGED <<disk, history>>,
         \/ crashes' # 0
         \/ phase \in {"mapblocks", "ptrblocks"} /\ crashes' = crashes
  PROVE  Layout'
<1>1. phase' = "down" /\ map' = NoMap
  BY Zenon DEF Forget
<1>2. disk' = disk /\ formatted' = formatted /\ saved' = saved /\ image' = image
  BY Zenon DEF history
<1>3. NothingYet'
  BY Zenon, <1>1, <1>2 DEF Layout, NothingYet
<1>4. SessionInv' /\ CreatingInv' /\ BlankInv' /\ MemoryInv'
  BY Zenon, <1>1 DEF SessionInv, CreatingInv, BlankInv, MemoryInv
<1>5. DeviceInv'
  <2>1. CASE ~ formatted
    BY Zenon, <2>1, <1>2 DEF DeviceInv
  <2>2. CASE formatted
    <3>1. \A i \in MapBlocks :
            disk[Home(DiskSb, i)] \in {MapBlock(saved, i), MapBlock(image, i)}
      BY Zenon, <2>2 DEF Layout, DeviceInv
    <3>2. QED
      BY Zenon, <3>1, <2>2, <1>2, DeviceStays DEF Layout
  <2>3. QED
    BY Zenon, <2>1, <2>2
<1>6. CarrierInv'
  BY Zenon, <1>1, <1>2, NoMapFacts DEF Layout, CarrierInv, HoldsOwnData
<1>7. ExactInv'
  <2>1. CASE crashes' # 0
    BY Zenon, <2>1 DEF ExactInv
  <2>2. CASE phase \in {"mapblocks", "ptrblocks"} /\ crashes' = crashes
    <3>1. ~ formatted
      BY Zenon, <2>2 DEF Layout, SessionInv
    <3>2. QED
      BY Zenon, <3>1, <1>1, <1>2, <1>3, BlankFacts
  <2>3. QED
    BY Zenon, <2>1, <2>2
<1>8. PassiveInv'
  BY Zenon, <1>2 DEF Layout, PassiveInv
<1>9. QED
  BY Zenon, <1>3, <1>4, <1>5, <1>6, <1>7, <1>8 DEF Layout

LEMMA StartKeeps ==
  ASSUME Setting, TypeInv, Layout, free = Free, CreateStart
  PROVE  Layout'
<1>1. /\ phase' = "mapblocks" /\ type' = "create" /\ map' = NoMap /\ list' = FullList
      /\ SomeListed(FullList) /\ ~ formatted /\ phase = "down"
      /\ vector' = {AFS_INVALID_BLOCK} \cup Locations(FullList)
      /\ disk' = disk /\ written' = written /\ formatted' = formatted
      /\ saved' = saved /\ image' = image
  BY Zenon DEF CreateStart, FullList, history
<1>2. written = 0
  BY Zenon, <1>1, WrittenFacts
<1>3. NothingYet' /\ saved' = NoMap /\ image' = NoMap
  BY Zenon, <1>1 DEF Layout, NothingYet
<1>4. SessionInv'
  BY Zenon, <1>1, <1>3 DEF SessionInv, FullList, SomeListed, Found
<1>5. \A i \in MapBlocks : ~ Done(i)'
  BY <1>1, <1>2, MapSizes DEF Done, MapBlocks
<1>6. CreatingInv'
  <2>1. Reserved' \subseteq Taken'
    <3>1. ASSUME NEW j \in Replicas PROVE Place(j) \in Taken'
      <4>1. SbBlock(FullList, j) \in vector' \cap DOMAIN FullList
        BY Zenon, <1>1, PlaceFacts DEF Locations
      <4>2. QED
        BY Zenon, <4>1 DEF Place, Taken, FullList
    <3>2. Reserved' = Reserved
      BY Zenon DEF Reserved, Place, FullList
    <3>3. QED
      BY Zenon, <3>1, <3>2 DEF Reserved
  <2>2. QED
    BY Zenon, <2>1, <1>1, <1>5, NoMapFacts DEF CreatingInv
<1>7. BlankInv'
  BY Zenon, <1>1, <1>5 DEF BlankInv
<1>8. DeviceInv' /\ MemoryInv' /\ CarrierInv' /\ ExactInv'
  BY Zenon, <1>1, <1>3, BlankFacts
<1>9. PassiveInv'
  BY Zenon, <1>1 DEF Layout, PassiveInv
<1>10. QED
  BY Zenon, <1>3, <1>4, <1>6, <1>7, <1>8, <1>9 DEF Layout

\* What CreateMapBlock(k) does to the places of the map blocks.
LEMMA NewMapBlock ==
  ASSUME Setting, TypeInv, NEW k \in DOMAIN list, CreateMapBlock(k)
  PROVE  /\ written \in MapBlocks
         /\ \A i \in MapBlocks : SavePtr(i)' = IF i = written THEN list[k] ELSE SavePtr(i)
         /\ \A i \in MapBlocks : Done(i)' => i = written \/ Done(i)
<1>1. /\ written \in MapBlocks /\ NumMapBlocks \in Nat /\ phase = "mapblocks"
      /\ written' = IF written = NumMapBlocks - 1 THEN 0 ELSE written + 1
      /\ phase' = IF written # NumMapBlocks - 1 THEN "mapblocks"
                  ELSE IF NumPtrBlocks = 0 THEN "superblock" ELSE "ptrblocks"
  BY CounterTyped DEF TypeInv, TypeOK, Turns, CreateMapBlock, MapBlocks
<1>2. \A i \in MapBlocks : Done(i)' => i = written \/ Done(i)
  BY <1>1 DEF Done, MapBlocks
<1>3. sb \in SuperBlock /\ ptrblocks \in [PtrIndices -> PtrBlock]
  BY Zenon DEF TypeInv, TypeOK
<1>4. CASE written \in SbSlots
  <2>1. sb' = [sb EXCEPT !.map_block_ptrs[written] = list[k]] /\ ptrblocks' = ptrblocks
    BY Zenon, <1>4 DEF CreateMapBlock
  <2>2. \A i \in SbSlots : sb'.map_block_ptrs[i] =
                             IF i = written THEN list[k] ELSE sb.map_block_ptrs[i]
    BY Zenon, <2>1, <1>3 DEF SuperBlock
  <2>3. \A i \in MapBlocks : SavePtr(i)' = IF i = written THEN list[k] ELSE SavePtr(i)
    BY Zenon, <2>1, <2>2, <1>4, SavePtrFacts, SavePtrNext
  <2>4. QED
    BY Zenon, <1>1, <1>2, <2>3
<1>5. CASE written \notin SbSlots
  <2>1. /\ NumPtrBlocks = 1 /\ PtrIndex(written) = 0 /\ PtrSlot(written) = 0
        /\ 0 \in PbSlots /\ 0 \in PtrIndices
    BY <1>1, <1>5, PtrFacts DEF PtrIndices
  <2>2. ptrblocks' = [ptrblocks EXCEPT ![0].map_block_ptrs[0] = list[k]] /\ sb' = sb
    BY Zenon, <1>5, <2>1 DEF CreateMapBlock
  <2>3. ptrblocks'[0].map_block_ptrs[0] = list[k]
    BY Zenon, <2>1, <2>2, <1>3 DEF PtrBlock
  <2>4. \A i \in MapBlocks \ SbSlots : i = written
    BY <1>1, <1>5, Sizes DEF Setting, OneIndirect, MapBlocks, SbSlots
  <2>5. \A i \in MapBlocks : SavePtr(i)' = IF i = written THEN list[k] ELSE SavePtr(i)
    BY Zenon, <2>2, <2>3, <2>4, <1>5, SavePtrFacts, SavePtrNext
  <2>6. QED
    BY Zenon, <1>1, <1>2, <2>5
<1>6. QED
  BY Zenon, <1>4, <1>5

LEMMA MapBlockKeeps ==
  ASSUME Setting, TypeInv, Layout, NEW k \in DOMAIN list, CreateMapBlock(k)
  PROVE  Layout'
<1> DEFINE n == list[k]
<1>1. /\ phase = "mapblocks" /\ phase' \in {"mapblocks", "ptrblocks", "superblock"}
      /\ phase' = "superblock" => written' = 0 /\ NumPtrBlocks = 0
      /\ type' = type /\ map' = map /\ list' = list /\ formatted' = formatted
      /\ saved' = saved /\ image' = image
      /\ Acquire(k) /\ write_page(n, MapBlock(map, written))
  BY Zenon DEF CreateMapBlock, history
<1>2. /\ list = FullList /\ SomeListed(FullList) /\ type = "create" /\ map = NoMap
      /\ ~ formatted /\ image = saved /\ saved = NoMap
  BY Zenon, <1>1 DEF Layout, SessionInv
<1>3. n \in Free /\ n \in Device /\ n \notin Taken /\ Taken' = Taken \cup {n}
  BY Zenon, <1>1, <1>2, AcquireFacts
<1>4. /\ written \in MapBlocks
      /\ \A i \in MapBlocks : SavePtr(i)' = IF i = written THEN n ELSE SavePtr(i)
      /\ \A i \in MapBlocks : Done(i)' => i = written \/ Done(i)
  BY Zenon, NewMapBlock
<1>5. disk' = [disk EXCEPT ![n] = MapBlock(NoMap, written)] /\ disk \in [Device -> Content]
  BY Zenon, <1>1, <1>2, <1>3, AddressFacts DEF TypeInv, TypeOK
<1>6. IsKind(MapBlock(NoMap, written), "map")
  BY Zenon, MapTyped
<1> HIDE DEF n
<1>7. /\ disk'[n] = MapBlock(NoMap, written)
      /\ \A x \in Device : x # n => disk'[x] = disk[x]
  BY Zenon, <1>3, <1>5
<1>8. /\ Reserved \subseteq Taken
      /\ \A i \in MapBlocks : Done(i) => SavePtr(i) \in Taken \ Reserved
  BY Zenon, <1>1, <1>2 DEF Layout, CreatingInv
<1>9. Reserved' = Reserved /\ Taken \subseteq Device
  <2>1. Reserved' = Reserved
    BY Zenon DEF Reserved, Place, FullList
  <2>2. Taken \subseteq Device
    BY Zenon, PlaceFacts, NumberFacts DEF Taken
  <2>3. QED
    BY Zenon, <2>1, <2>2
<1>10. NothingYet'
  <2>1. \A x \in Device : ~ IsKind(disk'[x], "sb") /\ ~ IsKind(disk'[x], "data")
    <3> TAKE x \in Device
    <3>1. ~ IsKind(disk[x], "sb") /\ ~ IsKind(disk[x], "data")
      BY Zenon, <1>2 DEF Layout, NothingYet
    <3>2. ~ IsKind(disk'[n], "sb") /\ ~ IsKind(disk'[n], "data")
      BY Zenon, <1>6, <1>7 DEF IsKind
    <3>3. QED
      BY Zenon, <3>1, <3>2, <1>7
  <2>2. QED
    BY Zenon, <2>1, <1>1, <1>2 DEF NothingYet
<1>11. SessionInv'
  BY Zenon, <1>1, <1>2 DEF SessionInv, FullList, SomeListed, Found
<1>12. CreatingInv'
  <2>1. \A i \in MapBlocks : Done(i)' => SavePtr(i)' \in Taken' \ Reserved'
    BY Zenon, <1>3, <1>4, <1>8, <1>9
  <2>2. QED
    BY Zenon, <2>1, <1>1, <1>2, <1>3, <1>8, <1>9, NoMapFacts DEF CreatingInv
<1>13. BlankInv'
  <2>0. /\ \A i \in MapBlocks : Done(i) => disk[SavePtr(i)] = MapBlock(NoMap, i)
        /\ \A i, j \in MapBlocks : Done(i) /\ Done(j) /\ SavePtr(i) = SavePtr(j) => i = j
    BY Zenon, <1>1, <1>2 DEF Layout, BlankInv
  <2>1. ASSUME NEW i \in MapBlocks, Done(i)' PROVE disk'[SavePtr(i)'] = MapBlock(NoMap, i)
    <3>1. CASE i = written
      BY Zenon, <3>1, <1>4, <1>7
    <3>2. CASE i # written
      <4>1. SavePtr(i)' = SavePtr(i) /\ Done(i)
        BY Zenon, <3>2, <2>1, <1>4
      <4>2. SavePtr(i) \in Device /\ SavePtr(i) # n
        BY Zenon, <4>1, <1>3, <1>8, <1>9
      <4>3. QED
        BY Zenon, <4>1, <4>2, <1>7, <2>0
    <3>3. QED
      BY Zenon, <3>1, <3>2
  <2>2. ASSUME NEW i \in MapBlocks, NEW j \in MapBlocks, Done(i)', Done(j)',
               SavePtr(i)' = SavePtr(j)'
        PROVE  i = j
    <3>1. \A x \in MapBlocks : Done(x) => SavePtr(x) # n
      BY Zenon, <1>3, <1>8
    <3>2. QED
      BY Zenon, <3>1, <2>0, <2>2, <1>4
  <2>3. ~ (NumPtrBlocks # 0 /\ phase' = "superblock")
    BY Zenon, <1>1
  <2>4. QED
    BY Zenon, <2>1, <2>2, <2>3 DEF BlankInv, MapBlock, NoMap, NoEntry
<1>14. DeviceInv' /\ MemoryInv' /\ CarrierInv' /\ ExactInv'
  BY Zenon, <1>1, <1>2, <1>10, BlankFacts
<1>15. PassiveInv'
  BY Zenon, <1>3, <1>7 DEF Layout, PassiveInv
<1>16. QED
  BY Zenon, <1>10, <1>11, <1>12, <1>13, <1>14, <1>15 DEF Layout

LEMMA PtrBlockKeeps ==
  ASSUME Setting, TypeInv, Layout, NEW k \in DOMAIN list, CreatePtrBlock(k)
  PROVE  Layout'
<1> DEFINE n == list[k]
           block == [ptrblocks[0] EXCEPT !.next_ptr_block = AFS_INVALID_BLOCK]
<1>1. phase = "ptrblocks" /\ NumPtrBlocks = 1 /\ written = 0 /\ 0 \in PtrIndices
  <2>1. phase = "ptrblocks" /\ written \in Nat /\ written < NumPtrBlocks
    BY CounterTyped DEF CreatePtrBlock, TypeInv, TypeOK, Turns
  <2>2. QED
    BY <2>1, PtrFacts DEF PtrIndices
<1>2. /\ phase' = "superblock" /\ written' = 0
      /\ type' = type /\ map' = map /\ list' = list /\ formatted' = formatted
      /\ saved' = saved /\ image' = image
      /\ Acquire(k) /\ sb' = [sb EXCEPT !.first_ptr_block = n]
      /\ write_page(n, [kind |-> "ptr", ptr |-> block])
  BY <1>1 DEF CreatePtrBlock, history
<1>3. ptrblocks'[0] = block
  <2>1. NumPtrBlocks - 1 - written = 0
    BY <1>1
  <2>2. ptrblocks' = [j \in PtrIndices |->
                        IF j = 0 THEN block
                        ELSE IF j = 0 - 1
                             THEN [ptrblocks[j] EXCEPT !.next_ptr_block = list[k]]
                        ELSE ptrblocks[j]]
    BY Zenon, <2>1, <1>1 DEF CreatePtrBlock
  <2>3. QED
    BY Zenon, <2>2, <1>1
<1>4. /\ list = FullList /\ SomeListed(FullList) /\ type = "create" /\ map = NoMap
      /\ ~ formatted /\ image = saved /\ saved = NoMap
  BY Zenon, <1>1 DEF Layout, SessionInv
<1>5. n \in Free /\ n \in Device /\ n \notin Taken /\ Taken' = Taken \cup {n}
  BY Zenon, <1>2, <1>4, AcquireFacts
<1>6. sb \in SuperBlock /\ ptrblocks[0] \in PtrBlock /\ disk \in [Device -> Content]
  BY Zenon, <1>1 DEF TypeInv, TypeOK
<1>7. block \in PtrBlock /\ block.map_block_ptrs = ptrblocks[0].map_block_ptrs
  <2> DEFINE p == ptrblocks[0]
  <2>1. p \in PtrBlock
    BY Zenon, <1>6
  <2> HIDE DEF p
  <2>2. /\ [p EXCEPT !.next_ptr_block = AFS_INVALID_BLOCK] \in PtrBlock
        /\ [p EXCEPT !.next_ptr_block = AFS_INVALID_BLOCK].map_block_ptrs = p.map_block_ptrs
    BY Zenon, <2>1, NumberFacts DEF PtrBlock
  <2>3. QED
    BY Zenon, <2>2 DEF p
<1> HIDE DEF block
<1>8. sb'.map_block_ptrs = sb.map_block_ptrs /\ sb'.first_ptr_block = n
  BY Zenon, <1>2, <1>6 DEF SuperBlock
<1>9. \A i \in MapBlocks : SavePtr(i)' = SavePtr(i)
  BY Zenon, <1>3, <1>7, <1>8, SavePtrFacts, SavePtrNext
<1>10. \A i : Done(i) /\ Done(i)'
  BY Zenon, <1>1, <1>2 DEF Done
<1>11. disk' = [disk EXCEPT ![n] = [kind |-> "ptr", ptr |-> block]]
  BY Zenon, <1>2, <1>5, AddressFacts
<1> HIDE DEF n
<1>12. /\ disk'[n] = [kind |-> "ptr", ptr |-> block] /\ IsKind(disk'[n], "ptr")
       /\ \A x \in Device : x # n => disk'[x] = disk[x]
  <2>1. IsKind([kind |-> "ptr", ptr |-> block], "ptr")
    BY Zenon, <1>7, ContentFacts
  <2>2. QED
    BY Zenon, <2>1, <1>5, <1>6, <1>11
<1>13. /\ Reserved \subseteq Taken
       /\ \A i \in MapBlocks : SavePtr(i) \in Taken \ Reserved
  BY Zenon, <1>1, <1>4, <1>10 DEF Layout, CreatingInv
<1>14. Reserved' = Reserved /\ Taken \subseteq Device
  <2>1. Reserved' = Reserved
    BY Zenon DEF Reserved, Place, FullList
  <2>2. Taken \subseteq Device
    BY Zenon, PlaceFacts, NumberFacts DEF Taken
  <2>3. QED
    BY Zenon, <2>1, <2>2
<1>15. NothingYet'
  <2>1. \A x \in Device : ~ IsKind(disk'[x], "sb") /\ ~ IsKind(disk'[x], "data")
    <3> TAKE x \in Device
    <3>1. ~ IsKind(disk[x], "sb") /\ ~ IsKind(disk[x], "data")
      BY Zenon, <1>4 DEF Layout, NothingYet
    <3>2. ~ IsKind(disk'[n], "sb") /\ ~ IsKind(disk'[n], "data")
      BY Zenon, <1>12 DEF IsKind
    <3>3. QED
      BY Zenon, <3>1, <3>2, <1>12
  <2>2. QED
    BY Zenon, <2>1, <1>2, <1>4 DEF NothingYet
<1>16. SessionInv'
  BY Zenon, <1>2, <1>4 DEF SessionInv, FullList, SomeListed, Found
<1>17. CreatingInv'
  <2>1. \A i \in MapBlocks : SavePtr(i)' \in Taken' \ Reserved'
    BY Zenon, <1>5, <1>9, <1>13, <1>14
  <2>2. sb'.first_ptr_block \in Taken' \ Reserved'
    BY Zenon, <1>5, <1>8, <1>13, <1>14
  <2>3. QED
    BY Zenon, <2>1, <2>2, <1>2, <1>4, <1>5, <1>13, <1>14, NoMapFacts DEF CreatingInv
<1>18. BlankInv'
  <2>1. /\ \A i \in MapBlocks : disk[SavePtr(i)] = MapBlock(NoMap, i)
        /\ \A i, j \in MapBlocks : SavePtr(i) = SavePtr(j) => i = j
    BY Zenon, <1>1, <1>4, <1>10 DEF Layout, BlankInv
  <2>2. \A i \in MapBlocks : disk'[SavePtr(i)'] = MapBlock(NoMap, i)
    BY Zenon, <2>1, <1>5, <1>9, <1>12, <1>13, <1>14
  <2>3. disk'[sb'.first_ptr_block] = [kind |-> "ptr", ptr |-> ptrblocks'[0]]
    BY Zenon, <1>3, <1>8, <1>12
  <2>4. QED
    BY Zenon, <2>1, <2>2, <2>3, <1>9 DEF BlankInv, MapBlock, NoMap, NoEntry
<1>19. DeviceInv' /\ MemoryInv' /\ CarrierInv' /\ ExactInv'
  BY Zenon, <1>2, <1>4, <1>15, BlankFacts
<1>20. PassiveInv'
  BY Zenon, <1>5, <1>12 DEF Layout, PassiveInv
<1>21. QED
  BY Zenon, <1>15, <1>16, <1>17, <1>18, <1>19, <1>20 DEF Layout

\* While the superblock is written, before and after its first replica: the pages
\* it names are on the disk, none of them at a location of the superblock.
LEMMA PagesWritten ==
  ASSUME Setting, TypeInv, Layout, phase = "superblock", NEW i \in MapBlocks
  PROVE  /\ SavePtr(i) = Home(sb, i)
         /\ SavePtr(i) \in Free \ Reserved
         /\ disk[SavePtr(i)] = MapBlock(NoMap, i)
         /\ \A j \in MapBlocks : SavePtr(i) = SavePtr(j) => i = j
         /\ NumPtrBlocks # 0 =>
              /\ sb.first_ptr_block \in Free \ Reserved
              /\ IsKind(disk[sb.first_ptr_block], "ptr")
              /\ ptrblocks[0] = disk[sb.first_ptr_block].ptr
<1>1. type = "create" /\ saved = NoMap /\ image = NoMap /\ \A j : Done(j)
  BY Zenon DEF Layout, SessionInv, Done
<1>2. /\ SavePtr(i) \in Taken \ Reserved
      /\ NumPtrBlocks # 0 => sb.first_ptr_block \in Taken \ Reserved
  BY Zenon, <1>1 DEF Layout, CreatingInv
<1>3. Taken \subseteq Free
  BY Zenon, PlaceFacts DEF Taken
<1>4. CASE ~ formatted
  <2>1. /\ disk[SavePtr(i)] = MapBlock(NoMap, i)
        /\ \A j \in MapBlocks : SavePtr(i) = SavePtr(j) => i = j
        /\ NumPtrBlocks # 0 =>
             disk[sb.first_ptr_block] = [kind |-> "ptr", ptr |-> ptrblocks[0]]
    BY Zenon, <1>1, <1>4 DEF Layout, BlankInv
  <2>2. NumPtrBlocks # 0 => disk[sb.first_ptr_block].ptr = ptrblocks[0]
    <3> DEFINE c == disk[sb.first_ptr_block]
    <3>1. c = [kind |-> "ptr", ptr |-> ptrblocks[0]] => c.ptr = ptrblocks[0]
      OBVIOUS
    <3>2. QED
      BY Zenon, <3>1, <2>1
  <2>3. SavePtr(i) = Home(sb, i)
    <3>1. i \notin SbSlots => NumPtrBlocks # 0
      BY Zenon, PtrNeeded
    <3>2. SavePtr(i) = IF i \in SbSlots THEN sb.map_block_ptrs[i]
                       ELSE ptrblocks[0].map_block_ptrs[0]
      BY Zenon, SavePtrFacts
    <3>3. QED
      BY Zenon, <3>1, <3>2, <2>2 DEF Home
  <2>4. NumPtrBlocks # 0 => IsKind(disk[sb.first_ptr_block], "ptr")
    <3>1. NumPtrBlocks # 0 => ptrblocks[0] \in PtrBlock
      BY Zenon, PtrNeeded, Typed
    <3>2. QED
      BY Zenon, <3>1, <2>1, ContentFacts
  <2>5. QED
    BY Zenon, <2>1, <2>2, <2>3, <2>4, <1>2, <1>3
<1>5. CASE formatted
  <2>1. /\ sb = DiskSb /\ \A j \in MapBlocks : SavePtr(j) = Home(sb, j)
        /\ NumPtrBlocks # 0 => ptrblocks[0] = disk[sb.first_ptr_block].ptr
    BY Zenon, <1>5, HomeIsSaved DEF Layout, MemoryInv
  <2>2. /\ disk[Home(sb, i)] = MapBlock(NoMap, i)
        /\ \A j \in MapBlocks : Home(sb, i) = Home(sb, j) => i = j
        /\ NumPtrBlocks # 0 => IsKind(disk[sb.first_ptr_block], "ptr")
    BY Zenon, <2>1, <1>1, <1>5 DEF Layout, DeviceInv
  <2>3. QED
    BY Zenon, <2>1, <2>2, <1>2, <1>3
<1>6. QED
  BY Zenon, <1>4, <1>5

LEMMA SuperBlockKeeps ==
  ASSUME Setting, TypeInv, Layout, NEW u, CreateSuperBlock(u)
  PROVE  Layout'
<1> DEFINE n == Place(written)
<1>1. /\ phase = "superblock" /\ phase' \in {"superblock", "up"} /\ formatted' = TRUE
      /\ type' = type /\ list' = list /\ vector' = vector /\ map' = map /\ sb' = sb
      /\ ptrblocks' = ptrblocks /\ saved' = saved /\ image' = image /\ crashes' = crashes
      /\ write_page(ListAt(list, SbBlock(list, written), u), [kind |-> "sb", sb |-> sb])
  BY Zenon DEF CreateSuperBlock, context, world
<1>2. /\ list = FullList /\ SomeListed(FullList) /\ type = "create" /\ map = NoMap
      /\ image = saved /\ saved = NoMap
  BY Zenon, <1>1 DEF Layout, SessionInv
<1>3. written \in Replicas /\ 0 \in Replicas
  BY Zenon, <1>1, WrittenFacts, PlaceFacts
<1>4. ListAt(list, SbBlock(list, written), u) = n
  BY Zenon, <1>2, <1>3, PlaceFacts DEF ListAt, Place
<1>5. n \in Free /\ n \in Device /\ n \in Reserved
  BY Zenon, <1>3, PlaceFacts, NumberFacts
<1>6. disk \in [Device -> Content] /\ sb \in SuperBlock
  BY Zenon, Typed
<1> HIDE DEF n
<1>7. disk' = [disk EXCEPT ![n] = [kind |-> "sb", sb |-> sb]]
  BY Zenon, <1>1, <1>4, <1>5, AddressFacts
<1>8. /\ disk'[n] = [kind |-> "sb", sb |-> sb] /\ IsKind(disk'[n], "sb") /\ disk'[n].sb = sb
      /\ \A x \in Device : x # n => disk'[x] = disk[x]
  <2>1. IsKind([kind |-> "sb", sb |-> sb], "sb")
    BY Zenon, <1>6, ContentFacts
  <2>2. QED
    BY Zenon, <2>1, <1>5, <1>6, <1>7
<1>9. /\ \A i \in MapBlocks :
           /\ SavePtr(i) = Home(sb, i)
           /\ SavePtr(i) \in Free \ Reserved
           /\ disk[SavePtr(i)] = MapBlock(NoMap, i)
           /\ \A j \in MapBlocks : SavePtr(i) = SavePtr(j) => i = j
      /\ NumPtrBlocks # 0 =>
           /\ sb.first_ptr_block \in Free \ Reserved
           /\ IsKind(disk[sb.first_ptr_block], "ptr")
           /\ ptrblocks[0] = disk[sb.first_ptr_block].ptr
  <2>1. 0 \in MapBlocks
    BY MapSizes DEF MapBlocks
  <2>2. QED
    BY Zenon, <2>1, <1>1, PagesWritten
<1>10. Free \subseteq Device
  BY Zenon, NumberFacts
<1>11. /\ IsKind(disk'[Place(0)], "sb") /\ disk'[Place(0)].sb = sb
  <2>1. Place(0) \in Device
    BY Zenon, <1>3, <1>10, PlaceFacts
  <2>2. CASE Place(0) = n
    BY Zenon, <2>2, <1>8
  <2>3. CASE Place(0) # n
    <3>1. written # 0
      BY Zenon, <2>3 DEF n
    <3>2. formatted
      BY Zenon, <3>1, <1>1 DEF Layout, NothingYet
    <3>3. IsKind(disk[Place(0)], "sb") /\ disk[Place(0)].sb = sb
      BY Zenon, <3>2, <1>1 DEF Layout, DeviceInv, MemoryInv, DiskSb
    <3>4. QED
      BY Zenon, <3>3, <2>1, <2>3, <1>8
  <2>4. QED
    BY Zenon, <2>2, <2>3
<1>12. /\ DiskSb' = sb
       /\ NumPtrBlocks # 0 => disk'[sb.first_ptr_block] = disk[sb.first_ptr_block]
       /\ \A i \in MapBlocks : disk'[SavePtr(i)] = disk[SavePtr(i)]
  <2>1. DiskSb' = sb
    BY Zenon, <1>11 DEF DiskSb, Place, FullList
  <2>2. QED
    BY Zenon, <2>1, <1>5, <1>8, <1>9, <1>10
<1>13. \A i \in MapBlocks : Home(DiskSb, i)' = SavePtr(i)
  <2> TAKE i \in MapBlocks
  <2>1. i \notin SbSlots => NumPtrBlocks # 0
    BY Zenon, PtrNeeded
  <2>2. Home(DiskSb, i)' = IF i \in SbSlots THEN sb.map_block_ptrs[i]
                           ELSE disk'[sb.first_ptr_block].ptr.map_block_ptrs[0]
    BY Zenon, <1>12 DEF Home
  <2>3. SavePtr(i) = Home(sb, i)
    BY Zenon, <1>9
  <2>4. QED
    BY Zenon, <2>1, <2>2, <2>3, <1>12 DEF Home
<1>14. NothingYet' /\ BlankInv'
  BY Zenon, <1>1 DEF NothingYet, BlankInv
<1>15. SessionInv'
  BY Zenon, <1>1, <1>2 DEF SessionInv, FullList, SomeListed, Found
<1>16. CreatingInv'
  <2>1. Reserved' = Reserved /\ Taken' = Taken
    BY Zenon, <1>1 DEF Reserved, Place, FullList, Taken
  <2>2. \A i : SavePtr(i)' = SavePtr(i)
    BY Zenon, <1>1 DEF SavePtr
  <2>3. /\ Reserved \subseteq Taken
        /\ \A i \in MapBlocks : SavePtr(i) \in Taken \ Reserved
        /\ NumPtrBlocks # 0 => sb.first_ptr_block \in Taken \ Reserved
    BY Zenon, <1>1, <1>2 DEF Layout, CreatingInv, Done
  <2>4. QED
    BY Zenon, <2>1, <2>2, <2>3, <1>1, <1>2, NoMapFacts DEF CreatingInv
<1>17. DeviceInv'
  <2>1. \A i : MapBlock(saved, i)' = MapBlock(NoMap, i)
    BY Zenon, <1>1, <1>2 DEF MapBlock
  <2>2. /\ SomeListed(FullList)' /\ IsKind(disk[Place(0)], "sb")'
    BY Zenon, <1>2, <1>11 DEF SomeListed, FullList, Found, Place
  <2>3. NumPtrBlocks # 0 => /\ DiskSb'.first_ptr_block \in Free
                            /\ IsKind(disk'[DiskSb'.first_ptr_block], "ptr")
    BY Zenon, <1>9, <1>12
  <2>4. \A i \in MapBlocks :
          /\ Home(DiskSb, i)' \in Free
          /\ disk'[Home(DiskSb, i)'] = MapBlock(saved, i)'
    BY Zenon, <2>1, <1>9, <1>12, <1>13
  <2>5. \A i, j \in MapBlocks : Home(DiskSb, i)' = Home(DiskSb, j)' => i = j
    BY Zenon, <1>9, <1>13
  <2>6. QED
    BY Zenon, <2>2, <2>3, <2>4, <2>5 DEF DeviceInv
<1>18. MemoryInv'
  BY Zenon, <1>1, <1>9, <1>12 DEF MemoryInv
<1>19. CarrierInv'
  BY Zenon, <1>1, <1>2, NoMapFacts DEF CarrierInv, HoldsOwnData
<1>20. ExactInv'
  <2> SUFFICES ASSUME crashes = 0
               PROVE  \A b \in Blocks, x \in Device : ~ (IsKind(disk'[x], "data") /\ disk'[x].block = b)
    BY Zenon, <1>1, <1>2, NoMapFacts DEF ExactInv, Current
  <2> TAKE b \in Blocks, x \in Device
  <2>1. ~ (IsKind(disk[x], "data") /\ disk[x].block = b)
    BY Zenon, <1>1, <1>2, NoMapFacts DEF Layout, ExactInv, Current
  <2>2. ~ IsKind(disk'[n], "data")
    BY Zenon, <1>8 DEF IsKind
  <2>3. QED
    BY Zenon, <2>1, <2>2, <1>8
<1>21. PassiveInv'
  BY Zenon, <1>5, <1>8 DEF Layout, PassiveInv
<1>22. QED
  BY Zenon, <1>14, <1>15, <1>16, <1>17, <1>18, <1>19, <1>20, <1>21 DEF Layout

\* An entry of the map is found again in the block of the map that it is written to.
LEMMA EntryBack ==
  ASSUME NEW m, NEW b \in Blocks
  PROVE  MapBlock(m, b \div EntriesPerBlock).entries[b % EntriesPerBlock] = m[b]
<1> DEFINE i == b \div EntriesPerBlock
           o == b % EntriesPerBlock
<1>1. o \in Offsets /\ i * EntriesPerBlock + o = b
  BY Zenon, MapSizes
<1> HIDE DEF i, o
<1>2. MapBlock(m, i).entries[o] = m[b]
  BY Zenon, <1>1 DEF MapBlock
<1>3. QED
  BY Zenon, <1>2 DEF i, o

\* What afs_fill_map and rebuild_ptr_blocks read from the superblock on the disk.
LEMMA Loads ==
  ASSUME Setting, TypeInv, DeviceInv, formatted, NEW u
  PROVE  /\ \A i \in MapBlocks : /\ Home(DiskSb, i) \in Device
                                 /\ IsKind(disk[Home(DiskSb, i)], "map")
         /\ \A b \in Blocks : afs_fill_map(DiskSb, u)[b] \in {saved[b], image[b]}
         /\ \A i \in MapBlocks :
              MapBlock(afs_fill_map(DiskSb, u), i) = disk[Home(DiskSb, i)]
         /\ NumPtrBlocks # 0 =>
              RebuildPtrBlocks(DiskSb, u)[0] = disk[DiskSb.first_ptr_block].ptr
<1> DEFINE E == EntriesPerBlock
           m == afs_fill_map(DiskSb, u)
<1>1. /\ NumPtrBlocks # 0 => /\ DiskSb.first_ptr_block \in Device
                             /\ IsKind(disk[DiskSb.first_ptr_block], "ptr")
      /\ \A i \in MapBlocks :
           /\ Home(DiskSb, i) \in Device
           /\ disk[Home(DiskSb, i)] \in {MapBlock(saved, i), MapBlock(image, i)}
  BY Zenon, NumberFacts DEF DeviceInv
<1>2. \A i \in MapBlocks : IsKind(disk[Home(DiskSb, i)], "map")
  <2>1. saved \in [Blocks -> Entry] /\ image \in [Blocks -> Entry]
    BY Zenon, Typed
  <2>2. QED
    BY Zenon, <2>1, <1>1, MapTyped
<1>3. NumPtrBlocks # 0 =>
        AsPtrBlock(read_page(DiskSb.first_ptr_block), u) = disk[DiskSb.first_ptr_block].ptr
  <2> SUFFICES ASSUME NumPtrBlocks # 0
               PROVE  AsPtrBlock(read_page(DiskSb.first_ptr_block), u)
                        = disk[DiskSb.first_ptr_block].ptr
    BY Zenon
  <2>1. read_page(DiskSb.first_ptr_block) = disk[DiskSb.first_ptr_block]
    BY Zenon, <1>1, AddressFacts
  <2>2. QED
    BY Zenon, <2>1, <1>1 DEF AsPtrBlock
<1>4. \A i \in MapBlocks : MapBlockOf(DiskSb, i, u) = Home(DiskSb, i)
  <2> TAKE i \in MapBlocks
  <2>1. i \notin SbSlots => NumPtrBlocks # 0
    BY Zenon, PtrNeeded
  <2>2. QED
    BY Zenon, <2>1, <1>3 DEF MapBlockOf, Home
<1>5. \A i \in MapBlocks :
        AsEntries(read_page(MapBlockOf(DiskSb, i, u)), u) = disk[Home(DiskSb, i)].entries
  <2> TAKE i \in MapBlocks
  <2>1. read_page(Home(DiskSb, i)) = disk[Home(DiskSb, i)]
    BY Zenon, <1>1, AddressFacts
  <2>2. QED
    BY Zenon, <2>1, <1>2, <1>4 DEF AsEntries
<1>6. \A b \in Blocks : m[b] = disk[Home(DiskSb, b \div E)].entries[b % E]
  <2> TAKE b \in Blocks
  <2>1. b \div E \in MapBlocks
    BY Zenon, MapSizes
  <2>2. m[b] = AsEntries(read_page(MapBlockOf(DiskSb, b \div E, u)), u)[b % E]
    BY Zenon DEF afs_fill_map
  <2>3. QED
    BY Zenon, <2>1, <2>2, <1>5
<1> HIDE DEF m
<1>7. \A b \in Blocks : m[b] \in {saved[b], image[b]}
  <2> TAKE b \in Blocks
  <2>1. b \div E \in MapBlocks
    BY Zenon, MapSizes
  <2>2. \/ disk[Home(DiskSb, b \div E)] = MapBlock(saved, b \div E)
        \/ disk[Home(DiskSb, b \div E)] = MapBlock(image, b \div E)
    BY Zenon, <2>1, <1>1
  <2>3. /\ MapBlock(saved, b \div E).entries[b % E] = saved[b]
        /\ MapBlock(image, b \div E).entries[b % E] = image[b]
    BY Zenon, EntryBack
  <2>4. QED
    BY Zenon, <2>2, <2>3, <1>6
<1>8. ASSUME NEW i \in MapBlocks, NEW x, disk[Home(DiskSb, i)] = MapBlock(x, i)
      PROVE  MapBlock(m, i) = MapBlock(x, i)
  <2>1. ASSUME NEW o \in Offsets, i * E + o \in Blocks
        PROVE  m[i * E + o] = x[i * E + o]
    <3>1. E \in Nat \ {0} /\ i \in Nat /\ o \in 0 .. E - 1
      BY Sizes, MapSizes DEF Offsets, MapBlocks
    <3>2. (i * E + o) % E = o /\ (i * E + o) \div E = i
      <4> HIDE DEF E
      <4>1. QED
        BY Zenon, <3>1, Remainder
    <3>3. m[i * E + o] = MapBlock(x, i).entries[o]
      BY Zenon, <3>2, <2>1, <1>6, <1>8
    <3>4. MapBlock(x, i).entries[o] = x[i * E + o]
      BY Zenon, <2>1 DEF MapBlock
    <3>5. QED
      BY Zenon, <3>3, <3>4
  <2>2. [o \in Offsets |-> IF i * E + o \in Blocks THEN m[i * E + o]
                           ELSE [ptr |-> 0, sum |-> 0]]
        = [o \in Offsets |-> IF i * E + o \in Blocks THEN x[i * E + o]
                             ELSE [ptr |-> 0, sum |-> 0]]
    <3> HIDE DEF E
    <3>1. QED
      BY Zenon, <2>1
  <2>3. QED
    BY Zenon, <2>2 DEF MapBlock
<1>9. \A i \in MapBlocks : MapBlock(m, i) = disk[Home(DiskSb, i)]
  <2> TAKE i \in MapBlocks
  <2>1. PICK x \in {saved, image} : disk[Home(DiskSb, i)] = MapBlock(x, i)
    BY Zenon, <1>1
  <2>2. QED
    BY Zenon, <2>1, <1>8
<1>10. NumPtrBlocks # 0 =>
         RebuildPtrBlocks(DiskSb, u)[0] = disk[DiskSb.first_ptr_block].ptr
  <2>1. NumPtrBlocks # 0 => 0 \in PtrIndices
    BY Zenon, PtrNeeded
  <2>2. 0 \in PtrIndices =>
          RebuildPtrBlocks(DiskSb, u)[0] = AsPtrBlock(read_page(DiskSb.first_ptr_block), u)
    BY Zenon DEF RebuildPtrBlocks
  <2>3. QED
    BY Zenon, <2>1, <2>2, <1>3
<1>11. QED
  BY Zenon, <1>1, <1>2, <1>7, <1>9, <1>10 DEF m

\* Mounting reads the block of the first replica.
LEMMA MountReads ==
  ASSUME Setting, NEW u
  PROVE  read_page(ListAt(FullList, SbBlock(FullList, 0), u)) = disk[Place(0)]
<1>1. SbBlock(FullList, 0) \in DOMAIN FullList /\ Place(0) \in Device
  BY Zenon, PlaceFacts, NumberFacts
<1>2. ListAt(FullList, SbBlock(FullList, 0), u) = Place(0)
  BY Zenon, <1>1 DEF ListAt, Place
<1>3. QED
  BY Zenon, <1>1, <1>2, AddressFacts

LEMMA MountKeeps ==
  ASSUME Setting, TypeInv, Layout, free = Free, NEW u, Mount(u)
  PROVE  Layout'
<1> DEFINE m == afs_fill_map(DiskSb, u)
<1>1. /\ phase = "down" /\ phase' = "up" /\ type' = "mount" /\ list' = FullList
      /\ SomeListed(FullList) /\ IsKind(disk[Place(0)], "sb") /\ sb' = DiskSb
      /\ map' = m /\ saved' = m /\ image' = m /\ ptrblocks' = RebuildPtrBlocks(DiskSb, u)
      /\ disk' = disk /\ formatted' = formatted /\ crashes' = crashes
  BY Zenon, MountReads DEF Mount, FullList, DiskSb, world
<1>2. formatted
  <2>1. Place(0) \in Device
    BY Zenon, PlaceFacts, NumberFacts
  <2>2. QED
    BY Zenon, <2>1, <1>1 DEF Layout, NothingYet
<1>3. /\ \A b \in Blocks : m[b] \in {saved[b], image[b]}
      /\ \A i \in MapBlocks : MapBlock(m, i) = disk[Home(DiskSb, i)]
      /\ NumPtrBlocks # 0 =>
           RebuildPtrBlocks(DiskSb, u)[0] = disk[DiskSb.first_ptr_block].ptr
  BY Zenon, <1>2, Loads DEF Layout
<1>4. m \in [Blocks -> Entry] /\ saved \in [Blocks -> Entry]
  <2>1. DOMAIN m = Blocks /\ m = [b \in Blocks |-> m[b]]
    BY Zenon DEF afs_fill_map
  <2>2. saved \in [Blocks -> Entry] /\ image \in [Blocks -> Entry]
    BY Zenon, Typed
  <2> HIDE DEF m
  <2>3. QED
    BY Zenon, <2>1, <2>2, <1>3
<1> HIDE DEF m
<1>5. DeviceInv' /\ DiskSb' = DiskSb
  <2>1. \A i \in MapBlocks : disk'[Home(DiskSb, i)] = MapBlock(saved', i)
    BY Zenon, <1>1, <1>3
  <2>2. QED
    BY Zenon, <2>1, <1>1, <1>2, DeviceStays DEF Layout
<1>6. NothingYet' /\ CreatingInv' /\ BlankInv'
  BY Zenon, <1>1, <1>2 DEF NothingYet, CreatingInv, BlankInv
<1>7. SessionInv'
  BY Zenon, <1>1 DEF SessionInv, FullList, SomeListed, Found
<1>8. MemoryInv'
  BY Zenon, <1>1, <1>3, <1>5 DEF MemoryInv
<1>9. CarrierInv'
  <2>1. HoldsOwnData(m)
    BY Zenon, <1>3 DEF Layout, CarrierInv, HoldsOwnData
  <2>2. QED
    BY Zenon, <2>1, <1>1 DEF CarrierInv, HoldsOwnData
<1>10. ExactInv'
  <2> SUFFICES ASSUME crashes = 0 PROVE ExactInv'
    BY Zenon, <1>1 DEF ExactInv
  <2>1. image = saved
    BY Zenon, <1>1 DEF Layout, ExactInv
  <2>2. m = saved
    <3>1. \A b \in Blocks : m[b] = saved[b]
      BY Zenon, <2>1, <1>3
    <3>2. QED
      BY <3>1, <1>4
  <2>3. Current' = Current
    BY Zenon, <2>2, <1>1 DEF Current
  <2>4. QED
    BY Zenon, <2>3, <1>1 DEF Layout, ExactInv, Data
<1>11. PassiveInv'
  BY Zenon, <1>1 DEF Layout, PassiveInv
<1>12. QED
  BY Zenon, <1>5, <1>6, <1>7, <1>8, <1>9, <1>10, <1>11 DEF Layout

\* A write to a block that holds no page of the metadata leaves the device as it is.
LEMMA DeviceKept ==
  ASSUME Setting, DeviceInv, formatted, saved' = saved, image' = image,
         NEW n, \A x \in Device : x # n => disk'[x] = disk[x],
         n # Place(0), NumPtrBlocks # 0 => n # DiskSb.first_ptr_block,
         \A i \in MapBlocks : n # Home(DiskSb, i)
  PROVE  /\ DeviceInv' /\ DiskSb' = DiskSb
         /\ NumPtrBlocks # 0 =>
              disk'[DiskSb.first_ptr_block] = disk[DiskSb.first_ptr_block]
<1>1. Place(0) \in Device
  BY Zenon, PlaceFacts, NumberFacts
<1>2. /\ NumPtrBlocks # 0 => DiskSb.first_ptr_block \in Device
      /\ \A i \in MapBlocks :
           /\ Home(DiskSb, i) \in Device
           /\ disk[Home(DiskSb, i)] \in {MapBlock(saved, i), MapBlock(image, i)}
  BY Zenon, NumberFacts DEF DeviceInv
<1>3. disk'[Place(0)] = disk[Place(0)]
  BY Zenon, <1>1
<1>4. NumPtrBlocks # 0 => disk'[DiskSb.first_ptr_block] = disk[DiskSb.first_ptr_block]
  BY Zenon, <1>2
<1>5. \A i \in MapBlocks :
        disk'[Home(DiskSb, i)] \in {MapBlock(saved', i), MapBlock(image', i)}
  BY Zenon, <1>2
<1>6. QED
  BY Zenon, <1>3, <1>4, <1>5, DeviceStays

LEMMA WriteNewKeeps ==
  ASSUME Setting, TypeInv, Layout, type = "create",
         NEW b \in Blocks, NEW k \in DOMAIN list, WriteNew(b, k)
  PROVE  Layout'
<1> DEFINE n == list[k]
<1>1. /\ phase = "up" /\ phase' = "up" /\ map[b].ptr = AFS_INVALID_BLOCK /\ Acquire(k)
      /\ disk' = [disk EXCEPT ![n] = Data(b, 1)]
      /\ map' = [map EXCEPT ![b] = [ptr |-> n, sum |-> 1]]
      /\ type' = type /\ list' = list /\ sb' = sb /\ ptrblocks' = ptrblocks
      /\ formatted' = formatted /\ saved' = saved /\ image' = image /\ crashes' = crashes
  BY Zenon DEF WriteNew, world
<1>2. /\ formatted /\ list = FullList /\ SomeListed(FullList)
      /\ saved = NoMap /\ image = NoMap
  BY Zenon, <1>1 DEF Layout, SessionInv, NothingYet
<1>3. n \in Free /\ n \in Device /\ n \notin Taken /\ Taken' = Taken \cup {n}
  BY Zenon, <1>1, <1>2, AcquireFacts
<1>4. disk \in [Device -> Content] /\ map \in [Blocks -> Entry]
  BY Zenon, Typed
<1> HIDE DEF n
<1>5. /\ disk'[n] = Data(b, 1) /\ IsKind(disk'[n], "data") /\ disk'[n].block = b
      /\ \A x \in Device : x # n => disk'[x] = disk[x]
  <2>1. IsKind(Data(b, 1), "data") /\ Data(b, 1).block = b
    BY Zenon, ContentFacts, NumberFacts DEF Data
  <2>2. QED
    BY Zenon, <2>1, <1>1, <1>3, <1>4
<1>6. /\ map'[b].ptr = n /\ map'[b].sum = 1
      /\ \A c \in Blocks : c # b => map'[c] = map[c]
  BY Zenon, <1>1, <1>4
<1>7. /\ Reserved \subseteq Taken
      /\ \A i \in MapBlocks : SavePtr(i) \in Taken \ Reserved
      /\ NumPtrBlocks # 0 => sb.first_ptr_block \in Taken \ Reserved
      /\ \A c \in Blocks : map[c].ptr # AFS_INVALID_BLOCK => map[c].ptr \in Taken
  BY Zenon, <1>1 DEF Layout, CreatingInv, Done
<1>8. sb = DiskSb /\ \A i \in MapBlocks : SavePtr(i) = Home(DiskSb, i)
  <2>1. \A i \in MapBlocks : SavePtr(i) = Home(sb, i) /\ sb = DiskSb
    BY Zenon, <1>1, <1>2, HomeIsSaved DEF Layout
  <2>2. sb = DiskSb
    BY Zenon, <1>1, <1>2 DEF Layout, MemoryInv
  <2>3. QED
    BY Zenon, <2>1, <2>2
<1>9. Place(0) \in Reserved
  BY Zenon, PlaceFacts
<1>10. /\ DeviceInv' /\ DiskSb' = DiskSb
       /\ NumPtrBlocks # 0 =>
            disk'[DiskSb.first_ptr_block] = disk[DiskSb.first_ptr_block]
  <2>1. n # Place(0) /\ (NumPtrBlocks # 0 => n # DiskSb.first_ptr_block)
    BY Zenon, <1>3, <1>7, <1>8, <1>9
  <2>2. \A i \in MapBlocks : n # Home(DiskSb, i)
    BY Zenon, <1>3, <1>7, <1>8
  <2>3. QED
    BY Zenon, <2>1, <2>2, <1>1, <1>2, <1>5, DeviceKept DEF Layout
<1>11. NothingYet' /\ BlankInv'
  BY Zenon, <1>1, <1>2 DEF NothingYet, BlankInv
<1>12. SessionInv'
  BY Zenon, <1>1, <1>2 DEF SessionInv, FullList, SomeListed, Found
<1>13. CreatingInv'
  <2>1. Reserved' = Reserved
    BY Zenon DEF Reserved, Place, FullList
  <2>2. \A i : SavePtr(i)' = SavePtr(i)
    BY Zenon, <1>1 DEF SavePtr
  <2>3. n \notin Reserved
    BY Zenon, <1>3, <1>7
  <2>4. \A c \in Blocks : map'[c].ptr # AFS_INVALID_BLOCK => map'[c].ptr \in Taken'
    BY Zenon, <1>3, <1>6, <1>7
  <2>5. QED
    BY Zenon, <2>1, <2>2, <2>3, <2>4, <1>1, <1>3, <1>7 DEF CreatingInv
<1>14. MemoryInv'
  <2>1. NumPtrBlocks # 0 => ptrblocks[0] = disk[sb.first_ptr_block].ptr
    BY Zenon, <1>1, <1>2 DEF Layout, MemoryInv
  <2>2. QED
    BY Zenon, <2>1, <1>1, <1>8, <1>10 DEF MemoryInv
<1>15. Taken \subseteq Device
  BY Zenon, PlaceFacts, NumberFacts DEF Taken
<1>16. CarrierInv'
  <2>1. ASSUME NEW c \in Blocks, map'[c].ptr # AFS_INVALID_BLOCK
        PROVE  IsKind(disk'[map'[c].ptr], "data") /\ disk'[map'[c].ptr].block = c
    <3>1. CASE c = b
      BY Zenon, <3>1, <1>5, <1>6
    <3>2. CASE c # b
      <4>1. map'[c].ptr = map[c].ptr /\ map[c].ptr \in Device /\ map[c].ptr # n
        BY Zenon, <3>2, <2>1, <1>3, <1>6, <1>7, <1>15
      <4>2. IsKind(disk[map[c].ptr], "data") /\ disk[map[c].ptr].block = c
        BY Zenon, <4>1, <2>1 DEF Layout, CarrierInv, HoldsOwnData
      <4>3. QED
        BY Zenon, <4>1, <4>2, <1>5
    <3>3. QED
      BY Zenon, <3>1, <3>2
  <2>2. HoldsOwnData(map)'
    BY Zenon, <2>1 DEF HoldsOwnData
  <2>3. HoldsOwnData(saved)' /\ HoldsOwnData(image)'
    BY Zenon, <1>1, <1>2, NoMapFacts DEF HoldsOwnData
  <2>4. QED
    BY Zenon, <2>2, <2>3, <1>1 DEF CarrierInv
<1>17. ExactInv'
  <2> SUFFICES ASSUME crashes = 0, NEW c \in Blocks, NEW x \in Device
               PROVE  /\ IsKind(disk'[x], "data") /\ disk'[x].block = c => map'[c].ptr = x
                      /\ map'[c].ptr = x => disk'[x] = Data(c, map'[c].sum)
    <3>1. Current' = map' /\ phase' # "down" /\ crashes' = crashes
      BY Zenon, <1>1 DEF Current
    <3>2. QED
      BY Zenon, <3>1 DEF ExactInv, Data
  <2>1. /\ IsKind(disk[x], "data") /\ disk[x].block = c => map[c].ptr = x
        /\ map[c].ptr = x => disk[x] = Data(c, map[c].sum)
    BY Zenon, <1>1 DEF Layout, ExactInv, Current
  <2>2. AFS_INVALID_BLOCK \notin Device
    BY Zenon, NumberFacts
  <2>3. CASE x = n
    <3>1. c # b => map'[c].ptr # n
      BY Zenon, <2>2, <1>3, <1>6, <1>7
    <3>2. QED
      BY Zenon, <3>1, <2>3, <1>5, <1>6
  <2>4. CASE x # n
    <3>1. disk'[x] = disk[x]
      BY Zenon, <2>4, <1>5
    <3>2. CASE c = b
      BY Zenon, <3>1, <3>2, <2>1, <2>2, <2>4, <1>1, <1>6
    <3>3. CASE c # b
      BY Zenon, <3>1, <3>3, <2>1, <1>6
    <3>4. QED
      BY Zenon, <3>2, <3>3
  <2>5. QED
    BY Zenon, <2>3, <2>4
<1>18. PassiveInv'
  BY Zenon, <1>3, <1>5 DEF Layout, PassiveInv
<1>19. QED
  BY Zenon, <1>10, <1>11, <1>12, <1>13, <1>14, <1>16, <1>17, <1>18 DEF Layout

LEMMA WriteOldKeeps ==
  ASSUME Setting, TypeInv, Layout, NEW b \in Blocks, WriteOld(b)
  PROVE  Layout'
<1> DEFINE n == map[b].ptr
           v == map[b].sum + 1
<1>1. /\ phase = "up" /\ phase' = "up" /\ n # AFS_INVALID_BLOCK /\ map[b].sum < MaxVersion
      /\ map' = [map EXCEPT ![b].sum = @ + 1]
      /\ disk' = [disk EXCEPT ![n] = Data(b, map'[b].sum)]
      /\ type' = type /\ list' = list /\ vector' = vector /\ sb' = sb
      /\ ptrblocks' = ptrblocks /\ crashes' = crashes
      /\ formatted' = formatted /\ saved' = saved /\ image' = image
  BY Zenon DEF WriteOld, world, history
<1>2. disk \in [Device -> Content] /\ map \in [Blocks -> Entry]
  BY Zenon, Typed
<1>3. IsKind(disk[n], "data") /\ disk[n].block = b
  BY Zenon, <1>1 DEF Layout, CarrierInv, HoldsOwnData
<1>4. n \in Device /\ v \in 0 .. MaxVersion
  <2>1. n \in Numbers /\ map[b].sum \in 0 .. MaxVersion
    BY Zenon, <1>2 DEF Entry
  <2>2. QED
    BY <2>1, <1>1, Sizes DEF Numbers
<1>5. n \in Free
  BY Zenon, <1>3, <1>4 DEF Layout, PassiveInv, IsKind
<1>6. /\ map'[b].ptr = n /\ map'[b].sum = v
      /\ \A c \in Blocks : c # b => map'[c] = map[c]
      /\ \A c \in Blocks : map'[c].ptr = map[c].ptr
  <2>1. map[b] \in Entry
    BY Zenon, <1>2
  <2>2. map'[b] = [map[b] EXCEPT !.sum = @ + 1] /\ \A c \in Blocks : c # b => map'[c] = map[c]
    BY Zenon, <1>1, <1>2
  <2> DEFINE e == map[b]
  <2> HIDE DEF e
  <2>3. e \in Entry => /\ [e EXCEPT !.sum = @ + 1].ptr = e.ptr
                       /\ [e EXCEPT !.sum = @ + 1].sum = e.sum + 1
    BY Zenon DEF Entry
  <2>4. map'[b].ptr = n /\ map'[b].sum = v
    BY Zenon, <2>1, <2>2, <2>3 DEF e
  <2>5. QED
    BY Zenon, <2>2, <2>4
<1> HIDE DEF n, v
<1>7. /\ disk'[n] = Data(b, v) /\ IsKind(disk'[n], "data") /\ disk'[n].block = b
      /\ \A x \in Device : x # n => disk'[x] = disk[x]
  <2>1. IsKind(Data(b, v), "data") /\ Data(b, v).block = b
    BY Zenon, <1>4, ContentFacts DEF Data
  <2>2. QED
    BY Zenon, <2>1, <1>1, <1>2, <1>4, <1>6
<1>8. /\ formatted /\ list = FullList /\ SomeListed(FullList)
  BY Zenon, <1>1 DEF Layout, SessionInv, NothingYet
<1>9. sb = DiskSb
  BY Zenon, <1>1, <1>8 DEF Layout, MemoryInv
<1>10. /\ DeviceInv' /\ DiskSb' = DiskSb
       /\ NumPtrBlocks # 0 =>
            disk'[DiskSb.first_ptr_block] = disk[DiskSb.first_ptr_block]
  <2>1. /\ IsKind(disk[Place(0)], "sb")
        /\ NumPtrBlocks # 0 => IsKind(disk[DiskSb.first_ptr_block], "ptr")
    BY Zenon, <1>8 DEF Layout, DeviceInv
  <2>2. \A i \in MapBlocks : IsKind(disk[Home(DiskSb, i)], "map")
    BY Zenon, <1>8, Loads DEF Layout
  <2>3. /\ n # Place(0) /\ (NumPtrBlocks # 0 => n # DiskSb.first_ptr_block)
        /\ \A i \in MapBlocks : n # Home(DiskSb, i)
    BY Zenon, <2>1, <2>2, <1>3 DEF IsKind
  <2>4. QED
    BY Zenon, <2>3, <1>1, <1>7, <1>8, DeviceKept DEF Layout
<1>11. NothingYet' /\ BlankInv'
  BY Zenon, <1>1, <1>8 DEF NothingYet, BlankInv
<1>12. SessionInv'
  <2>1. image = saved /\ (type = "create" => saved = NoMap)
    BY Zenon, <1>1 DEF Layout, SessionInv
  <2>2. QED
    BY Zenon, <2>1, <1>1, <1>8 DEF SessionInv, FullList, SomeListed, Found
<1>13. CreatingInv'
  <2>1. Reserved' = Reserved /\ Taken' = Taken
    BY Zenon, <1>1 DEF Reserved, Place, FullList, Taken
  <2>2. \A i : SavePtr(i)' = SavePtr(i)
    BY Zenon, <1>1 DEF SavePtr
  <2>3. QED
    BY <2>1, <2>2, <1>1, <1>6 DEF Layout, CreatingInv, Done
<1>14. MemoryInv'
  <2>1. NumPtrBlocks # 0 => ptrblocks[0] = disk[sb.first_ptr_block].ptr
    BY Zenon, <1>1, <1>8 DEF Layout, MemoryInv
  <2>2. QED
    BY Zenon, <2>1, <1>1, <1>9, <1>10 DEF MemoryInv
<1>15. CarrierInv'
  <2>1. /\ \A x \in Device : x # n => disk'[x] = disk[x]
        /\ IsKind(disk[n], "data") => /\ IsKind(disk'[n], "data")
                                      /\ disk'[n].block = disk[n].block
    BY Zenon, <1>3, <1>7
  <2>2. \A m \in [Blocks -> Entry] : Carries(disk, m) => Carries(disk', m)
    BY Zenon, <2>1, CarriersStay
  <2>3. saved \in [Blocks -> Entry] /\ image \in [Blocks -> Entry]
    BY Zenon, Typed
  <2>4. Carries(disk, map) /\ Carries(disk, saved) /\ Carries(disk, image)
    BY Zenon DEF Layout, CarrierInv, HoldsOwnData, Carries
  <2>5. Carries(disk', map) /\ Carries(disk', saved') /\ Carries(disk', image')
    BY Zenon, <2>2, <2>3, <2>4, <1>1, <1>2
  <2>6. Carries(disk', map')
    BY Zenon, <2>5, <1>6 DEF Carries
  <2>7. HoldsOwnData(map)' /\ HoldsOwnData(saved)' /\ HoldsOwnData(image)'
    BY Zenon, <2>5, <2>6 DEF HoldsOwnData, Carries
  <2>8. QED
    BY Zenon, <2>7, <1>1 DEF CarrierInv
<1>16. ExactInv'
  <2> SUFFICES ASSUME crashes = 0, NEW c \in Blocks, NEW x \in Device
               PROVE  /\ IsKind(disk'[x], "data") /\ disk'[x].block = c => map'[c].ptr = x
                      /\ map'[c].ptr = x => disk'[x] = Data(c, map'[c].sum)
    <3>1. Current' = map' /\ phase' # "down" /\ crashes' = crashes
      BY Zenon, <1>1 DEF Current
    <3>2. QED
      BY Zenon, <3>1 DEF ExactInv, Data
  <2>1. /\ IsKind(disk[x], "data") /\ disk[x].block = c => map[c].ptr = x
        /\ map[c].ptr = x => disk[x] = Data(c, map[c].sum)
    BY Zenon, <1>1 DEF Layout, ExactInv, Current
  <2>2. CASE x = n
    <3>1. map[c].ptr = n => c = b
      <4> HAVE map[c].ptr = n
      <4>1. disk[n] = Data(c, map[c].sum)
        BY Zenon, <2>1, <2>2
      <4>2. Data(c, map[c].sum).block = c
        BY Zenon DEF Data
      <4>3. QED
        BY Zenon, <4>1, <4>2, <1>3
    <3>2. QED
      BY Zenon, <3>1, <2>2, <1>6, <1>7
  <2>3. CASE x # n
    <3>1. disk'[x] = disk[x]
      BY Zenon, <2>3, <1>7
    <3>2. CASE c = b
      <4>1. map[b].ptr # x
        BY Zenon, <2>3 DEF n
      <4>2. QED
        BY Zenon, <4>1, <3>1, <3>2, <2>1, <2>3, <1>6
    <3>3. CASE c # b
      BY Zenon, <3>1, <3>3, <2>1, <1>6
    <3>4. QED
      BY Zenon, <3>2, <3>3
  <2>4. QED
    BY Zenon, <2>2, <2>3
<1>17. PassiveInv'
  BY Zenon, <1>5, <1>7 DEF Layout, PassiveInv
<1>18. QED
  BY Zenon, <1>10, <1>11, <1>12, <1>13, <1>14, <1>15, <1>16, <1>17 DEF Layout

LEMMA UnmountKeeps ==
  ASSUME Setting, TypeInv, Layout, UnmountStart
  PROVE  Layout'
<1>1. /\ phase = "up" /\ phase' = "saving" /\ image' = map /\ disk' = disk
      /\ written' = written /\ type' = type /\ list' = list /\ vector' = vector
      /\ map' = map /\ sb' = sb /\ ptrblocks' = ptrblocks /\ crashes' = crashes
      /\ formatted' = formatted /\ saved' = saved
  BY Zenon DEF UnmountStart, context, world
<1>2. /\ formatted /\ list = FullList /\ SomeListed(FullList) /\ image = saved
      /\ type = "create" => saved = NoMap
  BY Zenon, <1>1 DEF Layout, SessionInv, NothingYet
<1>3. written = 0
  BY Zenon, <1>1, WrittenFacts
<1>4. DeviceInv' /\ DiskSb' = DiskSb
  <2>1. \A i \in MapBlocks : disk'[Home(DiskSb, i)] = MapBlock(saved', i)
    BY Zenon, <1>1, <1>2 DEF Layout, DeviceInv
  <2>2. QED
    BY Zenon, <2>1, <1>1, <1>2, DeviceStays DEF Layout
<1>5. NothingYet' /\ BlankInv'
  BY Zenon, <1>1, <1>2 DEF NothingYet, BlankInv
<1>6. SessionInv'
  BY Zenon, <1>1, <1>2 DEF SessionInv, FullList, SomeListed, Found
<1>7. CreatingInv'
  <2>1. Reserved' = Reserved /\ Taken' = Taken
    BY Zenon, <1>1 DEF Reserved, Place, FullList, Taken
  <2>2. \A i : SavePtr(i)' = SavePtr(i)
    BY Zenon, <1>1 DEF SavePtr
  <2>3. QED
    BY Zenon, <2>1, <2>2, <1>1 DEF Layout, CreatingInv, Done
<1>8. MemoryInv'
  <2>1. /\ sb = DiskSb
        /\ NumPtrBlocks # 0 => ptrblocks[0] = disk[sb.first_ptr_block].ptr
    BY Zenon, <1>1, <1>2 DEF Layout, MemoryInv
  <2>2. \A i \in MapBlocks : ~ (i < written')
    BY <1>1, <1>3, MapSizes DEF MapBlocks
  <2>3. QED
    BY Zenon, <2>1, <2>2, <1>1, <1>4 DEF MemoryInv
<1>9. CarrierInv'
  BY Zenon, <1>1 DEF Layout, CarrierInv, HoldsOwnData
<1>10. ExactInv'
  BY Zenon, <1>1 DEF Layout, ExactInv, Current, Data
<1>11. PassiveInv'
  BY Zenon, <1>1 DEF Layout, PassiveInv
<1>12. QED
  BY Zenon, <1>4, <1>5, <1>6, <1>7, <1>8, <1>9, <1>10, <1>11 DEF Layout

LEMMA SaveKeeps ==
  ASSUME Setting, TypeInv, Layout, SaveMapBlock
  PROVE  Layout'
<1> DEFINE n == SavePtr(written)
<1>1. /\ phase = "saving" /\ write_page(n, MapBlock(map, written))
      /\ formatted' = formatted /\ image' = image /\ crashes' = crashes
      /\ \/ /\ written = NumMapBlocks - 1
            /\ phase' = "down" /\ map' = NoMap /\ saved' = map
         \/ /\ written # NumMapBlocks - 1
            /\ phase' = phase /\ written' = written + 1 /\ saved' = saved
            /\ UNCHANGED context
  BY Zenon DEF SaveMapBlock, Forget, world
<1>2. /\ formatted /\ list = FullList /\ SomeListed(FullList) /\ image = map
      /\ type = "create" => saved = NoMap
  BY Zenon, <1>1 DEF Layout, SessionInv, NothingYet
<1>3. written \in MapBlocks /\ NumMapBlocks \in Nat
  BY Zenon, <1>1, WrittenFacts, MapSizes
<1>4. sb = DiskSb /\ \A i \in MapBlocks : SavePtr(i) = Home(DiskSb, i)
  <2>1. \A i \in MapBlocks : SavePtr(i) = Home(sb, i)
    BY Zenon, <1>1, <1>2, HomeIsSaved DEF Layout
  <2>2. sb = DiskSb
    BY Zenon, <1>1, <1>2 DEF Layout, MemoryInv
  <2>3. QED
    BY Zenon, <2>1, <2>2
<1>5. /\ IsKind(disk[Place(0)], "sb")
      /\ NumPtrBlocks # 0 => /\ DiskSb.first_ptr_block \in Free
                             /\ IsKind(disk[DiskSb.first_ptr_block], "ptr")
      /\ \A i \in MapBlocks :
           /\ Home(DiskSb, i) \in Free
           /\ disk[Home(DiskSb, i)] \in {MapBlock(saved, i), MapBlock(image, i)}
      /\ \A i, j \in MapBlocks : Home(DiskSb, i) = Home(DiskSb, j) => i = j
  BY Zenon, <1>2 DEF Layout, DeviceInv
<1>6. \A i \in MapBlocks : IsKind(disk[Home(DiskSb, i)], "map")
  BY Zenon, <1>2, Loads DEF Layout
<1>7. /\ n = Home(DiskSb, written) /\ n \in Free /\ n \in Device
      /\ IsKind(disk[n], "map")
  BY Zenon, <1>3, <1>4, <1>5, <1>6, NumberFacts
<1> HIDE DEF n
<1>8. /\ map \in [Blocks -> Entry] /\ saved \in [Blocks -> Entry]
      /\ disk \in [Device -> Content]
  BY Zenon, Typed
<1>9. disk' = [disk EXCEPT ![n] = MapBlock(map, written)]
  BY Zenon, <1>1, <1>7, AddressFacts
<1>10. /\ disk'[n] = MapBlock(map, written) /\ IsKind(disk'[n], "map")
       /\ \A x \in Device : x # n => disk'[x] = disk[x]
  BY Zenon, <1>7, <1>8, <1>9, MapTyped
<1>11. /\ Place(0) \in Device /\ Place(0) # n
       /\ NumPtrBlocks # 0 => n # DiskSb.first_ptr_block
  BY Zenon, <1>5, <1>7, PlaceFacts, NumberFacts DEF IsKind
<1>12. /\ disk'[Place(0)] = disk[Place(0)]
       /\ NumPtrBlocks # 0 =>
            disk'[DiskSb.first_ptr_block] = disk[DiskSb.first_ptr_block]
  BY Zenon, <1>5, <1>10, <1>11, NumberFacts
<1>13. \A i \in MapBlocks :
         disk'[Home(DiskSb, i)] = IF i = written THEN MapBlock(map, i)
                                  ELSE disk[Home(DiskSb, i)]
  BY Zenon, <1>3, <1>5, <1>7, <1>10, NumberFacts
<1>14. \A i \in MapBlocks : i < written => disk[Home(DiskSb, i)] = MapBlock(map, i)
  BY Zenon, <1>1, <1>2, <1>4 DEF Layout, MemoryInv
<1>15. NothingYet' /\ BlankInv'
  BY Zenon, <1>1, <1>2 DEF NothingYet, BlankInv
<1>16. ASSUME written = NumMapBlocks - 1
       PROVE  SessionInv' /\ CreatingInv' /\ DeviceInv' /\ MemoryInv'
  <2>1. phase' = "down" /\ map' = NoMap /\ saved' = map
    BY Zenon, <1>1, <1>16
  <2>2. SessionInv' /\ CreatingInv' /\ MemoryInv'
    BY Zenon, <2>1 DEF SessionInv, CreatingInv, MemoryInv
  <2>3. \A i \in MapBlocks : disk'[Home(DiskSb, i)] = MapBlock(map, i)
    <3>1. \A i \in MapBlocks : i = written \/ i < written
      BY <1>3, <1>16 DEF MapBlocks
    <3>2. QED
      BY Zenon, <3>1, <1>13, <1>14
  <2>4. DeviceInv'
    BY Zenon, <2>1, <2>3, <1>2, <1>12, DeviceStays DEF Layout
  <2>5. QED
    BY Zenon, <2>2, <2>4
<1>17. ASSUME written # NumMapBlocks - 1
       PROVE  SessionInv' /\ CreatingInv' /\ DeviceInv' /\ MemoryInv'
  <2>1. /\ phase' = "saving" /\ written' = written + 1 /\ saved' = saved
        /\ type' = type /\ list' = list /\ vector' = vector /\ map' = map /\ sb' = sb
        /\ ptrblocks' = ptrblocks
    BY Zenon, <1>1, <1>17 DEF context
  <2>2. SessionInv'
    BY Zenon, <2>1, <1>1, <1>2 DEF SessionInv, FullList, SomeListed, Found
  <2>3. CreatingInv'
    <3>1. Reserved' = Reserved /\ Taken' = Taken
      BY Zenon, <2>1 DEF Reserved, Place, FullList, Taken
    <3>2. \A i : SavePtr(i)' = SavePtr(i)
      BY Zenon, <2>1 DEF SavePtr
    <3>3. QED
      BY Zenon, <3>1, <3>2, <2>1, <1>1 DEF Layout, CreatingInv, Done
  <2>4. \A i \in MapBlocks : disk'[Home(DiskSb, i)] \in {MapBlock(saved', i), MapBlock(image', i)}
    BY Zenon, <2>1, <1>1, <1>2, <1>5, <1>13
  <2>5. /\ DeviceInv' /\ DiskSb' = DiskSb
        /\ \A i \in MapBlocks : Home(DiskSb, i)' = Home(DiskSb, i)
    BY Zenon, <2>4, <1>2, <1>12, DeviceStays DEF Layout
  <2>6. MemoryInv'
    <3>1. NumPtrBlocks # 0 => ptrblocks[0] = disk[sb.first_ptr_block].ptr
      BY Zenon, <1>1, <1>2 DEF Layout, MemoryInv
    <3>2. \A i \in MapBlocks : i < written' => i = written \/ i < written
      BY <2>1, <1>3 DEF MapBlocks
    <3>3. sb' = DiskSb' /\ \A i \in MapBlocks : Home(sb, i)' = Home(DiskSb, i)
      <4>1. sb' = DiskSb'
        BY Zenon, <2>1, <2>5, <1>4
      <4>2. \A i : Home(sb, i)' = Home(DiskSb, i)'
        BY Zenon, <4>1 DEF Home
      <4>3. QED
        BY Zenon, <4>1, <4>2, <2>5
    <3>4. \A i \in MapBlocks : i < written' => disk'[Home(sb, i)'] = MapBlock(map, i)'
      <4>1. \A i : MapBlock(map, i)' = MapBlock(map, i)
        BY Zenon, <2>1 DEF MapBlock
      <4>2. QED
        BY Zenon, <4>1, <3>2, <3>3, <1>13, <1>14
    <3>5. NumPtrBlocks # 0 => ptrblocks'[0] = disk'[sb'.first_ptr_block].ptr
      BY Zenon, <3>1, <3>3, <2>1, <2>5, <1>4, <1>12
    <3>6. QED
      BY Zenon, <3>3, <3>4, <3>5 DEF MemoryInv
  <2>7. QED
    BY Zenon, <2>2, <2>3, <2>5, <2>6
<1>18. SessionInv' /\ CreatingInv' /\ DeviceInv' /\ MemoryInv'
  BY Zenon, <1>16, <1>17
<1>19. CarrierInv'
  <2>1. \A m \in [Blocks -> Entry] : Carries(disk, m) => Carries(disk', m)
    <3>1. ~ IsKind(disk[n], "data")
      BY Zenon, <1>7 DEF IsKind
    <3>2. \A x \in Device : x # n => disk'[x] = disk[x]
      BY Zenon, <1>10
    <3>3. QED
      BY Zenon, <3>1, <3>2, CarriersStay
  <2>2. Carries(disk, map) /\ Carries(disk, saved)
    BY Zenon DEF Layout, CarrierInv, HoldsOwnData, Carries
  <2>3. Carries(disk', map) /\ Carries(disk', saved)
    BY Zenon, <2>1, <2>2, <1>8
  <2>4. Carries(disk', NoMap)
    BY Zenon, NoMapFacts DEF Carries
  <2>5. /\ image' = map /\ saved' \in {map, saved} /\ map' \in {NoMap, map}
        /\ phase' = "down" => map' = NoMap
    BY Zenon, <1>1, <1>2 DEF context
  <2>6. Carries(disk', map') /\ Carries(disk', saved') /\ Carries(disk', image')
    BY Zenon, <2>3, <2>4, <2>5
  <2>7. HoldsOwnData(map)' /\ HoldsOwnData(saved)' /\ HoldsOwnData(image)'
    BY Zenon, <2>6 DEF HoldsOwnData, Carries
  <2>8. QED
    BY Zenon, <2>5, <2>7 DEF CarrierInv
<1>20. ExactInv'
  <2>1. Current = map /\ Current' = map /\ (phase' = "down" => image' = saved')
    BY Zenon, <1>1, <1>2 DEF Current, context
  <2> SUFFICES ASSUME crashes = 0, NEW c \in Blocks, NEW x \in Device
               PROVE  /\ IsKind(disk'[x], "data") /\ disk'[x].block = c => map[c].ptr = x
                      /\ map[c].ptr = x => disk'[x] = Data(c, map[c].sum)
    BY Zenon, <2>1, <1>1 DEF ExactInv, Data
  <2>2. /\ IsKind(disk[x], "data") /\ disk[x].block = c => map[c].ptr = x
        /\ map[c].ptr = x => disk[x] = Data(c, map[c].sum)
    BY Zenon, <2>1 DEF Layout, ExactInv
  <2>3. ~ IsKind(disk'[n], "data")
    BY Zenon, <1>10 DEF IsKind
  <2>4. map[c].ptr # n
    <3> SUFFICES ASSUME map[c].ptr = n PROVE FALSE
      BY Zenon
    <3>1. n # AFS_INVALID_BLOCK
      BY Zenon, <1>7, NumberFacts
    <3>2. IsKind(disk[n], "data")
      BY Zenon, <3>1 DEF Layout, CarrierInv, HoldsOwnData
    <3>3. QED
      BY Zenon, <3>2, <1>7 DEF IsKind
  <2>5. QED
    BY Zenon, <2>2, <2>3, <2>4, <1>10
<1>21. PassiveInv'
  BY Zenon, <1>7, <1>10 DEF Layout, PassiveInv
<1>22. QED
  BY Zenon, <1>15, <1>18, <1>19, <1>20, <1>21 DEF Layout

LEMMA LayoutInit == Setting /\ Init => LayoutInv
<1> SUFFICES ASSUME Setting, Init PROVE LayoutInv
  BY Zenon
<1>1. /\ phase = "down" /\ ~ formatted /\ map = NoMap /\ saved = NoMap /\ image = NoMap
      /\ free = Free /\ disk = [n \in Device |-> IF n \in Free THEN Junk ELSE Passive]
  BY Zenon DEF Init
<1>2. \A n \in Device : disk[n] \in {Junk, Passive} /\ \A t : ~ IsKind(disk[n], t)
  BY Zenon, <1>1 DEF IsKind
<1>3. NothingYet
  BY Zenon, <1>1, <1>2 DEF NothingYet
<1>4. SessionInv /\ CreatingInv /\ BlankInv /\ DeviceInv /\ MemoryInv
  BY Zenon, <1>1 DEF SessionInv, CreatingInv, BlankInv, DeviceInv, MemoryInv
<1>5. CarrierInv
  BY Zenon, <1>1, NoMapFacts DEF CarrierInv
<1>6. ExactInv
  BY Zenon, <1>1, <1>2, NoMapFacts DEF ExactInv, Current
<1>7. PassiveInv
  BY Zenon, <1>1 DEF PassiveInv
<1>8. QED
  BY Zenon, <1>1, <1>3, <1>4, <1>5, <1>6, <1>7 DEF LayoutInv, Layout

\* Nothing changes.
LEMMA StutterKeeps ==
  ASSUME Setting, Layout, UNCHANGED vars
  PROVE  Layout'
<1>1. /\ disk' = disk /\ phase' = phase /\ written' = written
      /\ type' = type /\ list' = list /\ vector' = vector /\ map' = map /\ sb' = sb
      /\ ptrblocks' = ptrblocks /\ formatted' = formatted /\ saved' = saved
      /\ image' = image /\ crashes' = crashes
  BY Zenon DEF vars, context, history, world
<1>2. NothingYet'
  BY Zenon, <1>1 DEF Layout, NothingYet
<1>3. SessionInv'
  BY Zenon, <1>1 DEF Layout, SessionInv, FullList, SomeListed, Found
<1>4. (\A i : SavePtr(i)' = SavePtr(i) /\ Done(i)' = Done(i)) /\ Reserved' = Reserved
      /\ Taken' = Taken
  BY Zenon, <1>1 DEF SavePtr, Done, Reserved, Place, FullList, Taken
<1>5. CreatingInv'
  BY Zenon, <1>1, <1>4 DEF Layout, CreatingInv
<1>6. BlankInv'
  BY Zenon, <1>1, <1>4 DEF Layout, BlankInv, MapBlock, NoMap, NoEntry
<1>7. DeviceInv' /\ (formatted => DiskSb' = DiskSb)
  <2>1. CASE ~ formatted
    BY Zenon, <2>1, <1>1 DEF DeviceInv
  <2>2. CASE formatted
    <3>1. \A i \in MapBlocks :
            disk[Home(DiskSb, i)] \in {MapBlock(saved, i), MapBlock(image, i)}
      BY Zenon, <2>2 DEF Layout, DeviceInv
    <3>2. QED
      BY Zenon, <3>1, <2>2, <1>1, DeviceStays DEF Layout
  <2>3. QED
    BY Zenon, <2>1, <2>2
<1>8. MemoryInv'
  <2>1. \A i : Home(sb, i)' = Home(sb, i) /\ MapBlock(map, i)' = MapBlock(map, i)
    BY Zenon, <1>1 DEF Home, MapBlock
  <2>2. QED
    BY Zenon, <2>1, <1>1, <1>7 DEF Layout, MemoryInv
<1>9. CarrierInv'
  BY Zenon, <1>1 DEF Layout, CarrierInv, HoldsOwnData
<1>10. ExactInv'
  <2>1. Current' = Current
    BY Zenon, <1>1 DEF Current
  <2>2. QED
    BY Zenon, <2>1, <1>1 DEF Layout, ExactInv, Data
<1>11. PassiveInv'
  BY Zenon, <1>1 DEF Layout, PassiveInv
<1>12. QED
  BY Zenon, <1>2, <1>3, <1>5, <1>6, <1>7, <1>8, <1>9, <1>10, <1>11 DEF Layout

LEMMA LayoutNext ==
  ASSUME Setting, TypeInv, LayoutInv, [Next]_vars
  PROVE  LayoutInv'
<1>1. passive' = 0 => passive = 0 /\ free' = free
  <2>1. passive \in Nat
    BY Zenon, Typed
  <2>2. CASE \E n \in free : PassiveAllocate(n)
    BY <2>1, <2>2 DEF PassiveAllocate
  <2>3. CASE ~ \E n \in free : PassiveAllocate(n)
    BY Zenon, <2>3 DEF Next, vars, world, CreateStart, CreateMapBlock, CreatePtrBlock,
       CreateNoSpace, CreateSuperBlock, Mount, WriteNew, WriteOld, UnmountStart,
       SaveMapBlock, Crash
  <2>4. QED
    BY Zenon, <2>2, <2>3
<1>2. ~ remapped' => ~ remapped
  BY Zenon DEF Next, vars, history, CreateStart, CreateMapBlock, CreatePtrBlock,
     CreateNoSpace, CreateSuperBlock, Mount, WriteNew, WriteOld, UnmountStart,
     SaveMapBlock, Crash, PassiveAllocate
<1>3. passive' = 0 => free' = Free
  BY Zenon, <1>1 DEF LayoutInv
<1>4. ASSUME Undisturbed' PROVE Layout'
  <2>1. passive' = 0 /\ ~ remapped' /\ passive = 0 /\ ~ remapped /\ free = Free /\ Layout
    BY Zenon, <1>1, <1>2, <1>4 DEF Undisturbed, LayoutInv
  <2>2. CASE UNCHANGED vars
    BY Zenon, <2>1, <2>2, StutterKeeps
  <2>3. CASE CreateStart
    BY Zenon, <2>1, <2>3, StartKeeps
  <2>4. CASE \E k \in DOMAIN list : CreateMapBlock(k) \/ CreatePtrBlock(k)
    BY Zenon, <2>1, <2>4, MapBlockKeeps, PtrBlockKeeps
  <2>5. CASE CreateNoSpace
    BY Zenon, <2>1, <2>5, ForgetKeeps DEF CreateNoSpace, world
  <2>6. CASE \E u \in Arbitrary : CreateSuperBlock(u) \/ Mount(u)
    BY Zenon, <2>1, <2>6, SuperBlockKeeps, MountKeeps
  <2>7. CASE \E b \in Blocks, k \in DOMAIN list : WriteNew(b, k)
    <3>1. PICK b \in Blocks, k \in DOMAIN list : WriteNew(b, k)
      BY Zenon, <2>7
    <3>2. type = "create"
      BY Zenon, <3>1, <2>1, Typed DEF WriteNew
    <3>3. QED
      BY Zenon, <3>1, <3>2, <2>1, WriteNewKeeps
  <2>8. CASE \E b \in Blocks : WriteOld(b)
    BY Zenon, <2>1, <2>8, WriteOldKeeps
  <2>9. CASE UnmountStart \/ SaveMapBlock
    BY Zenon, <2>1, <2>9, UnmountKeeps, SaveKeeps
  <2>10. CASE Crash
    <3>1. crashes \in Nat /\ crashes' = crashes + 1 /\ Forget /\ UNCHANGED <<disk, history>>
      BY Zenon, <2>10, Typed DEF Crash
    <3>2. crashes' # 0
      BY <3>1
    <3>3. QED
      BY Zenon, <3>1, <3>2, <2>1, ForgetKeeps
  <2>11. CASE \E n \in free : PassiveAllocate(n)
    <3>1. passive \in Nat /\ passive' = passive + 1
      BY Zenon, <2>11, Typed DEF PassiveAllocate
    <3>2. QED
      BY <3>1, <2>1
  <2>12. QED
    BY Zenon, <2>2, <2>3, <2>4, <2>5, <2>6, <2>7, <2>8, <2>9, <2>10, <2>11 DEF Next
<1>5. QED
  BY Zenon, <1>3, <1>4 DEF LayoutInv

\* The state is of its type and everything is where it belongs.
LEMMA LayoutHolds == Setting /\ Spec => [](TypeInv /\ LayoutInv)
<1>1. Setting /\ Init => TypeInv /\ LayoutInv
  BY Zenon, InitTyped, LayoutInit
<1>2. Setting /\ TypeInv /\ LayoutInv /\ [Next]_vars => TypeInv' /\ LayoutInv'
  BY Zenon, NextTyped, LayoutNext DEF Setting
<1>3. Setting => []Setting
  BY Zenon
<1>4. QED
  BY <1>1, <1>2, <1>3, PTL DEF Spec

\* What the next session reads, as the invariants below say it.
LEMMA NextSession ==
  ASSUME Setting, TypeInv, Layout, free = Free, formatted
  PROVE  LET lst == BlockList(free)
             content == read_page(ListAt(lst, SbBlock(lst, 0), AFS_INVALID_BLOCK))
         IN /\ IsKind(content, "sb")
            /\ \A b \in Blocks : afs_fill_map(content.sb, 0)[b] \in {saved[b], image[b]}
<1>1. read_page(ListAt(BlockList(free), SbBlock(BlockList(free), 0), AFS_INVALID_BLOCK))
        = disk[Place(0)]
  BY Zenon, MountReads DEF FullList
<1>2. IsKind(disk[Place(0)], "sb")
  BY Zenon DEF Layout, DeviceInv
<1>3. \A b \in Blocks : afs_fill_map(disk[Place(0)].sb, 0)[b] \in {saved[b], image[b]}
  BY Zenon, Loads DEF Layout, DiskSb
<1>4. QED
  BY Zenon, <1>1, <1>2, <1>3

=============================================================================
