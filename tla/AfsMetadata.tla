---------------------------- MODULE AfsMetadata ----------------------------
(***************************************************************************)
(* The metadata of an Artifice device across sessions: creating it         *)
(* (write_super_block), saving the map when it is taken down (afs_dtr) and *)
(* finding it again (find_super_block), from src/dm_afs_metadata.c.        *)
(*                                                                         *)
(* The machine may crash between any two writes: what was in memory is     *)
(* lost, write_page is synchronous and what it has written stays.  Between *)
(* sessions the passive file system may use a block that was free.         *)
(*                                                                         *)
(* Data.  The disk holds, per block, a superblock, pointer block, map      *)
(* block, the data of a data block, or neither.  A map entry is one        *)
(* carrier pointer and the version of the data its checksum was computed   *)
(* from.  Chain is the chain of passphrase hashes modulo the device size.  *)
(* A write of the engine is one step here: AfsEngine models it.  A map     *)
(* block or pointer block that the passive file system has overwritten is  *)
(* read as if it were one: the hashes are stored and never verified.       *)
(*                                                                         *)
(* create runs once, and again after a crash that left no superblock.      *)
(***************************************************************************)
EXTENDS Integers, FiniteSets

CONSTANTS
  NumBlocks,                \* config->num_blocks
  EntriesPerBlock,          \* config->num_map_entries_per_block
  NUM_MAP_BLKS_IN_SB,
  NUM_MAP_BLKS_IN_PB,
  NUM_SUPERBLOCK_REPLICAS,
  DeviceSize,               \* block_device_size
  WrapBlocks,               \* 2^32 / AFS_BLOCK_SIZE
  Free,                     \* free blocks of the passive file system at first
  ChainLen, Chain,          \* locations the passphrase hashes to, repeating
  AFS_INVALID_BLOCK,
  Arbitrary,                \* numbers that memory or bytes of others may hold
  Junk, Passive,            \* contents: anything, or data of the passive system
  MaxVersion, MaxPassive, MaxCrashes

Blocks == 0 .. NumBlocks - 1

Device == 0 .. DeviceSize - 1

Numbers == Device \cup {AFS_INVALID_BLOCK}

RoundUp(n, m) == n \div m + (IF n % m # 0 THEN 1 ELSE 0)

\* build_configuration.
NumMapBlocks == RoundUp(NumBlocks, EntriesPerBlock)

NumPtrBlocks ==
  IF NumMapBlocks < NUM_MAP_BLKS_IN_SB THEN 0
  ELSE RoundUp(NumMapBlocks - NUM_MAP_BLKS_IN_SB, NUM_MAP_BLKS_IN_PB)

MapBlocks == 0 .. NumMapBlocks - 1

Offsets == 0 .. EntriesPerBlock - 1

SbSlots == 0 .. NUM_MAP_BLKS_IN_SB - 1

PbSlots == 0 .. NUM_MAP_BLKS_IN_PB - 1

PtrIndices == 0 .. NumPtrBlocks - 1

Replicas == 0 .. NUM_SUPERBLOCK_REPLICAS - 1

Entry == [ptr : Numbers, sum : 0 .. MaxVersion]

NoEntry == [ptr |-> AFS_INVALID_BLOCK, sum |-> 0]

SuperBlock == [map_block_ptrs : [SbSlots -> Numbers], first_ptr_block : Numbers]

PtrBlock == [map_block_ptrs : [PbSlots -> Numbers], next_ptr_block : Numbers]

Own ==
  [kind : {"sb"}, sb : SuperBlock]
    \cup [kind : {"ptr"}, ptr : PtrBlock]
    \cup [kind : {"map"}, entries : [Offsets -> Entry]]
    \cup [kind : {"data"}, block : Blocks, version : 0 .. MaxVersion]

Content == {Junk, Passive} \cup Own

ASSUME SizesAssumption ==
  /\ {NumBlocks, EntriesPerBlock, NUM_MAP_BLKS_IN_SB, NUM_MAP_BLKS_IN_PB,
      NUM_SUPERBLOCK_REPLICAS, DeviceSize, WrapBlocks, ChainLen,
      MaxVersion} \subseteq Nat \ {0}
  /\ {MaxPassive, MaxCrashes} \subseteq Nat

ASSUME DeviceAssumption ==
  /\ Free \subseteq Device
  /\ AFS_INVALID_BLOCK \in Nat \ Device
  /\ Arbitrary \subseteq Numbers /\ Arbitrary # {}
  /\ Chain \in [0 .. ChainLen - 1 -> Device]

ASSUME ContentAssumption == Junk \notin Own /\ Passive \notin Own

VARIABLES
  free,       \* blocks the passive file system does not use
  disk,       \* contents of the passive device
  phase,      \* where afs_ctr or afs_dtr is
  type,       \* args->instance_type
  list,       \* fs->block_list
  vector,     \* set bits of the allocation vector
  map,        \* context->afs_map
  sb,         \* context->super_block
  ptrblocks,  \* context->afs_ptr_blocks
  written,    \* the loop counter of the writing functions
  formatted,  \* history: a device has been created
  saved,      \* history: the map on disk
  image,      \* history: the map that is being, or was last, saved
  remapped,   \* history: a block was mapped in a session that mounted the device
  passive,    \* blocks the passive file system has taken
  crashes     \* crashes so far

context == <<type, list, vector, map, sb, ptrblocks>>

history == <<formatted, saved, image, remapped>>

world == <<free, passive, crashes>>

vars == <<disk, phase, written, context, history, world>>

Phases == {"down", "mapblocks", "ptrblocks", "superblock", "up", "saving"}

ZeroPtrs == [i \in PtrIndices |->
               [map_block_ptrs |-> [j \in PbSlots |-> 0], next_ptr_block |-> 0]]

ZeroSb == [map_block_ptrs |-> [i \in SbSlots |-> 0], first_ptr_block |-> 0]

NoMap == [b \in Blocks |-> NoEntry]

NoList == [k \in {} |-> 0]

TypeOK ==
  /\ free \subseteq Free
  /\ disk \in [Device -> Content]
  /\ phase \in Phases
  /\ type \in {"create", "mount"}
  /\ DOMAIN list \subseteq Device
  /\ \A k \in DOMAIN list : list[k] \in Free
  /\ vector \in SUBSET Numbers
  /\ map \in [Blocks -> Entry]
  /\ sb \in SuperBlock
  /\ ptrblocks \in [PtrIndices -> PtrBlock]
  /\ written \in 0 .. NumMapBlocks + NumPtrBlocks + NUM_SUPERBLOCK_REPLICAS
  /\ formatted \in BOOLEAN
  /\ saved \in [Blocks -> Entry]
  /\ image \in [Blocks -> Entry]
  /\ remapped \in BOOLEAN
  /\ passive \in 0 .. MaxPassive
  /\ crashes \in 0 .. MaxCrashes

-----------------------------------------------------------------------------

Init ==
  /\ free = Free
  /\ disk = [n \in Device |-> IF n \in Free THEN Junk ELSE Passive]
  /\ phase = "down"
  /\ type = "create"
  /\ list = NoList
  /\ vector = {}
  /\ map = NoMap
  /\ sb = ZeroSb
  /\ ptrblocks = ZeroPtrs
  /\ written = 0
  /\ formatted = FALSE
  /\ saved = NoMap
  /\ image = NoMap
  /\ remapped = FALSE
  /\ passive = 0
  /\ crashes = 0

\* The detection modules list the free blocks in ascending order.
BlockList(S) ==
  [k \in 0 .. Cardinality(S) - 1 |->
     CHOOSE n \in S : Cardinality({m \in S : m < n}) = k]

\* The index of value in the first length elements of a sorted array, or -1.
binary_search(array, value, length) ==
  LET search[range \in (0 .. length) \X (-1 .. length - 1)] ==
        LET first  == range[1]
            last   == range[2]
            middle == (first + last) \div 2
        IN IF first > last THEN -1
           ELSE IF array[middle] = value THEN middle
           ELSE IF array[middle] < value THEN search[<<middle + 1, last>>]
           ELSE search[<<first, middle - 1>>]
  IN search[<<0, length - 1>>]

Found(lst, n) == binary_search(lst, n, Cardinality(DOMAIN lst)) # -1

\* Rehash from position p on until the location is in the list.
NextListed(lst, p) ==
  LET at(q) == Chain[q % ChainLen]
  IN CHOOSE q \in p .. p + ChainLen - 1 :
       Found(lst, at(q)) /\ \A r \in p .. q - 1 : ~ Found(lst, at(r))

\* The loops of write_super_block and find_super_block end.
SomeListed(lst) == \E q \in DOMAIN Chain : Found(lst, Chain[q])

\* sb_block[j]: the location of replica j.
SbBlock(lst, j) ==
  LET position[i \in Replicas] ==
        NextListed(lst, IF i = 0 THEN 0 ELSE position[i - 1] + 1)
  IN Chain[position[j] % ChainLen]

\* block_list[k]; u is what memory holds beyond the list.
ListAt(lst, k, u) == IF k \in DOMAIN lst THEN lst[k] ELSE u

-----------------------------------------------------------------------------

\* The block that read_page and write_page access for block_num: the product
\* block_num * AFS_BLOCK_SIZE is computed with 32 bits.
Address(n) == n % WrapBlocks

\* write_page.  A write beyond the device fails; nobody looks at the error.
write_page(n, content) ==
  disk' = IF Address(n) \in Device THEN [disk EXCEPT ![Address(n)] = content]
          ELSE disk

\* read_page.
read_page(n) == IF Address(n) \in Device THEN disk[Address(n)] ELSE Junk

IsKind(content, kind) == content \notin {Junk, Passive} /\ content.kind = kind

\* What is read where a map block or pointer block was expected.  Bytes that are
\* none of ours decode to some number u and a checksum that fits no data.
AsEntries(content, u) ==
  IF IsKind(content, "map") THEN content.entries
  ELSE [o \in Offsets |-> [ptr |-> u, sum |-> 0]]

AsPtrBlock(content, u) ==
  IF IsKind(content, "ptr") THEN content.ptr
  ELSE [map_block_ptrs |-> [j \in PbSlots |-> u], next_ptr_block |-> u]

\* afs_create_map_blocks: map block i, zero where the map ends.
MapBlock(m, i) ==
  [kind |-> "map",
   entries |-> [o \in Offsets |->
                  LET b == i * EntriesPerBlock + o
                  IN IF b \in Blocks THEN m[b] ELSE [ptr |-> 0, sum |-> 0]]]

\* Mutant of Acquire: the bit is tested and not set.
AcquireUnset(k) ==
  /\ k \in DOMAIN list
  /\ k \notin vector
  /\ UNCHANGED vector

\* acquire_block finds index k free; AfsAllocation models it.
Acquire(k) ==
  /\ k \in DOMAIN list
  /\ k \notin vector
  /\ vector' = vector \cup {k}

\* What was in memory is gone.
Forget ==
  /\ phase' = "down"
  /\ type' = "create"
  /\ list' = NoList
  /\ vector' = {}
  /\ map' = NoMap
  /\ sb' = ZeroSb
  /\ ptrblocks' = ZeroPtrs
  /\ written' = 0

-----------------------------------------------------------------------------

(***************************************************************************)
(* afs_ctr create: write_super_block.                                      *)
(***************************************************************************)

\* Mutants of Locations: the bit of the first replica only; the loop that marks
\* the locations starts at the second one.
LocationsOne(lst) == {SbBlock(lst, 0)}

LocationsLater(lst) == {SbBlock(lst, j) : j \in Replicas \ {0}}

\* The bits set for the locations of the superblock.
Locations(lst) == {SbBlock(lst, j) : j \in Replicas}

\* Reserve the locations of the superblock, set up an empty map.
CreateStart ==
  /\ phase = "down"
  /\ ~ formatted
  /\ type' = "create"
  /\ list' = BlockList(free)
  /\ SomeListed(list')
  /\ vector' = {AFS_INVALID_BLOCK} \cup Locations(list')
  /\ map' = NoMap
  /\ sb' = [ZeroSb EXCEPT !.first_ptr_block = AFS_INVALID_BLOCK]
  /\ ptrblocks' = ZeroPtrs
  /\ phase' = "mapblocks"
  /\ UNCHANGED <<disk, written, history, world>>

\* The pointer block and the slot in it that name map block i, where the
\* superblock has no room.
PtrIndex(i) == (i - NUM_MAP_BLKS_IN_SB) \div NUM_MAP_BLKS_IN_PB

PtrSlot(i) == (i - NUM_MAP_BLKS_IN_SB) % NUM_MAP_BLKS_IN_PB

\* write_map_blocks(false), one map block: acquire, note and write.
CreateMapBlock(k) ==
  LET last == written = NumMapBlocks - 1
  IN /\ phase = "mapblocks"
     /\ Acquire(k)
     /\ IF written \in SbSlots
        THEN /\ sb' = [sb EXCEPT !.map_block_ptrs[written] = list[k]]
             /\ UNCHANGED ptrblocks
        ELSE /\ ptrblocks' =
                  [ptrblocks EXCEPT
                     ![PtrIndex(written)].map_block_ptrs[PtrSlot(written)] = list[k]]
             /\ UNCHANGED sb
     /\ write_page(list[k], MapBlock(map, written))
     /\ written' = IF last THEN 0 ELSE written + 1
     /\ phase' = IF ~ last THEN phase
                 ELSE IF NumPtrBlocks = 0 THEN "superblock" ELSE "ptrblocks"
     /\ UNCHANGED <<type, list, map, history, world>>

\* write_ptr_blocks, one pointer block, the last one first: each names the next.
CreatePtrBlock(k) ==
  LET i == NumPtrBlocks - 1 - written
      block == IF written = 0
               THEN [ptrblocks[i] EXCEPT !.next_ptr_block = AFS_INVALID_BLOCK]
               ELSE ptrblocks[i]
  IN /\ phase = "ptrblocks"
     /\ Acquire(k)
     /\ write_page(list[k], [kind |-> "ptr", ptr |-> block])
     /\ ptrblocks' = [j \in PtrIndices |->
                        IF j = i THEN block
                        ELSE IF j = i - 1
                             THEN [ptrblocks[j] EXCEPT !.next_ptr_block = list[k]]
                        ELSE ptrblocks[j]]
     /\ sb' = IF i = 0 THEN [sb EXCEPT !.first_ptr_block = list[k]] ELSE sb
     /\ written' = IF i = 0 THEN 0 ELSE written + 1
     /\ phase' = IF i = 0 THEN "superblock" ELSE phase
     /\ UNCHANGED <<type, list, map, history, world>>

\* acquire_block found no block: afs_ctr fails and frees everything.
CreateNoSpace ==
  /\ phase \in {"mapblocks", "ptrblocks"}
  /\ \E k \in DOMAIN list : k \in vector
  /\ Forget
  /\ UNCHANGED <<disk, history, world>>

\* One replica of the superblock.  Its location, the number of a listed block,
\* is used as an index of the list.
CreateSuperBlock(u) ==
  LET last == written = NUM_SUPERBLOCK_REPLICAS - 1
  IN /\ phase = "superblock"
     /\ write_page(ListAt(list, SbBlock(list, written), u), [kind |-> "sb", sb |-> sb])
     /\ formatted' = TRUE
     /\ written' = IF last THEN 0 ELSE written + 1
     /\ phase' = IF last THEN "up" ELSE phase
     /\ UNCHANGED <<context, saved, image, remapped, world>>

(***************************************************************************)
(* afs_ctr mount: find_super_block.                                        *)
(***************************************************************************)

\* The block that afs_fill_map reads for map block i.  In a pointer block it
\* reads the first map block again and again: the loop over j increments i.
MapBlockOf(s, i, u) ==
  IF i \in SbSlots THEN s.map_block_ptrs[i]
  ELSE AsPtrBlock(read_page(s.first_ptr_block), u).map_block_ptrs[0]

\* Mutant of afs_fill_map: the loop fills one entry too many.
FillOneMore(s, u) ==
  [b \in 0 .. NumBlocks |->
     AsEntries(read_page(MapBlockOf(s, b \div EntriesPerBlock, u)), u)
       [b % EntriesPerBlock]]

afs_fill_map(s, u) ==
  [b \in Blocks |->
     AsEntries(read_page(MapBlockOf(s, b \div EntriesPerBlock, u)), u)
       [b % EntriesPerBlock]]

\* The bits afs_ctr, find_super_block, afs_fill_map and rebuild_allocation_vector
\* set, by the NUMBERS of the blocks.  Of the replicas only the first is marked.
MountVector(location, s, m, u) ==
  {AFS_INVALID_BLOCK, location}
    \cup {MapBlockOf(s, i, u) : i \in MapBlocks}
    \cup (IF NumPtrBlocks = 0 THEN {} ELSE {s.first_ptr_block})
    \cup {m[b].ptr : b \in Blocks}

\* rebuild_ptr_blocks.  From the second one on the number is taken from the
\* element that is about to be read, which is not initialised.
RebuildPtrBlocks(s, u) ==
  [i \in PtrIndices |->
     AsPtrBlock(read_page(IF i = 0 THEN s.first_ptr_block ELSE u), u)]

\* Read the superblock at the first listed location; the 32 tries are for that
\* one.  When it is not there mounting fails and nothing has changed.
Mount(u) ==
  LET lst == BlockList(free)
      location == SbBlock(lst, 0)
      content == read_page(ListAt(lst, location, u))
  IN /\ phase = "down"
     /\ SomeListed(lst)
     /\ IsKind(content, "sb")
     /\ phase' = "up"
     /\ type' = "mount"
     /\ list' = lst
     /\ sb' = content.sb
     /\ map' = afs_fill_map(content.sb, u)
     /\ vector' = MountVector(location, content.sb, map', u)
     /\ ptrblocks' = RebuildPtrBlocks(content.sb, u)
     /\ saved' = map'
     /\ image' = map'
     /\ UNCHANGED <<disk, written, formatted, remapped, world>>

(***************************************************************************)
(* While the device is up: writes of the engine.                           *)
(***************************************************************************)

Data(b, version) == [kind |-> "data", block |-> b, version |-> version]

\* Mutant of WriteNew: the index of the carrier block is taken for its number.
WriteNewIndex(b, k) ==
  /\ phase = "up"
  /\ map[b].ptr = AFS_INVALID_BLOCK
  /\ Acquire(k)
  /\ disk' = [disk EXCEPT ![k] = Data(b, 1)]
  /\ map' = [map EXCEPT ![b] = [ptr |-> k, sum |-> 1]]
  /\ remapped' = (remapped \/ type = "mount")
  /\ UNCHANGED <<phase, written, type, list, sb, ptrblocks, formatted, saved,
                 image, world>>

\* The first write to a block acquires a carrier block.
WriteNew(b, k) ==
  /\ phase = "up"
  /\ map[b].ptr = AFS_INVALID_BLOCK
  /\ Acquire(k)
  /\ disk' = [disk EXCEPT ![list[k]] = Data(b, 1)]
  /\ map' = [map EXCEPT ![b] = [ptr |-> list[k], sum |-> 1]]
  /\ remapped' = (remapped \/ type = "mount")
  /\ UNCHANGED <<phase, written, type, list, sb, ptrblocks, formatted, saved,
                 image, world>>

\* A later one goes to the same carrier block.
WriteOld(b) ==
  /\ phase = "up"
  /\ map[b].ptr # AFS_INVALID_BLOCK
  /\ map[b].sum < MaxVersion
  /\ map' = [map EXCEPT ![b].sum = @ + 1]
  /\ disk' = [disk EXCEPT ![map[b].ptr] = Data(b, map'[b].sum)]
  /\ UNCHANGED <<phase, written, type, list, vector, sb, ptrblocks, history,
                 world>>

(***************************************************************************)
(* afs_dtr: write_map_blocks(true) rewrites the map blocks in place.       *)
(***************************************************************************)

UnmountStart ==
  /\ phase = "up"
  /\ phase' = "saving"
  /\ image' = map
  /\ UNCHANGED <<disk, written, context, formatted, saved, remapped, world>>

\* Where the memory of the device says map block i is.
SavePtr(i) ==
  IF i \in SbSlots THEN sb.map_block_ptrs[i]
  ELSE ptrblocks[PtrIndex(i)].map_block_ptrs[PtrSlot(i)]

\* Mutant of SaveMapBlock: the loop ends one map block early.
SaveOneLess ==
  /\ phase = "saving"
  /\ IF written = NumMapBlocks - 1
     THEN Forget /\ saved' = map /\ UNCHANGED disk
     ELSE /\ written' = written + 1
          /\ write_page(SavePtr(written), MapBlock(map, written))
          /\ UNCHANGED <<phase, context, saved>>
  /\ UNCHANGED <<formatted, image, remapped, world>>

SaveMapBlock ==
  /\ phase = "saving"
  /\ write_page(SavePtr(written), MapBlock(map, written))
  /\ IF written = NumMapBlocks - 1
     THEN Forget /\ saved' = map
     ELSE /\ written' = written + 1
          /\ UNCHANGED <<phase, context, saved>>
  /\ UNCHANGED <<formatted, image, remapped, world>>

(***************************************************************************)
(* The world.                                                              *)
(***************************************************************************)

\* The machine crashes.  In phase "up" the step also stands for an afs_dtr that
\* has no memory for the map blocks and leaves the old ones.
Crash ==
  /\ phase # "down"
  /\ crashes < MaxCrashes
  /\ crashes' = crashes + 1
  /\ Forget
  /\ UNCHANGED <<disk, history, free, passive>>

\* Between sessions the passive file system writes a file to a free block.
PassiveAllocate(n) ==
  /\ phase = "down"
  /\ passive < MaxPassive
  /\ passive' = passive + 1
  /\ free' = free \ {n}
  /\ disk' = [disk EXCEPT ![n] = Passive]
  /\ UNCHANGED <<phase, written, context, history, crashes>>

Next ==
  \/ CreateStart
  \/ \E k \in DOMAIN list : CreateMapBlock(k)
  \/ \E k \in DOMAIN list : CreatePtrBlock(k)
  \/ CreateNoSpace
  \/ \E u \in Arbitrary : CreateSuperBlock(u)
  \/ \E u \in Arbitrary : Mount(u)
  \/ \E b \in Blocks, k \in DOMAIN list : WriteNew(b, k)
  \/ \E b \in Blocks : WriteOld(b)
  \/ UnmountStart
  \/ SaveMapBlock
  \/ Crash
  \/ \E n \in free : PassiveAllocate(n)

Spec == Init /\ [][Next]_vars

-----------------------------------------------------------------------------

(***************************************************************************)
(* Safety, as long as the passive file system takes none of the blocks and *)
(* no block is mapped for the first time after a mount: mounting marks     *)
(* block numbers where acquire_block tests indices (see VectorRebuilt).    *)
(***************************************************************************)

Undisturbed == passive = 0 /\ ~ remapped

\* The device ends below 4 GB, where byte addresses wrap.
SmallDevice == DeviceSize <= WrapBlocks

\* The numbers of the superblock's locations are indices of the list, too.
LocationsListed ==
  LET lst == BlockList(Free)
  IN \A j \in Replicas : SbBlock(lst, j) \in DOMAIN lst

\* At most one map block lies behind a pointer block: afs_fill_map reads no other.
OneIndirect == NumMapBlocks <= NUM_MAP_BLKS_IN_SB + 1

\* From the moment the first replica of the superblock is written, and wherever
\* a crash interrupts write_super_block, a session or the write_map_blocks of
\* afs_dtr, mounting succeeds (find_super_block) and loads, for each block, the
\* entry of the last map saved or of the one whose saving was interrupted.
Mountable ==
  formatted /\ Undisturbed =>
    LET lst == BlockList(free)
        content == read_page(ListAt(lst, SbBlock(lst, 0), AFS_INVALID_BLOCK))
    IN /\ IsKind(content, "sb")
       /\ \A b \in Blocks : afs_fill_map(content.sb, 0)[b] \in {saved[b], image[b]}

HoldsOwnData(m) ==
  \A b \in Blocks :
    m[b].ptr # AFS_INVALID_BLOCK =>
      /\ IsKind(disk[m[b].ptr], "data")
      /\ disk[m[b].ptr].block = b

\* A carrier block named in the map, or in the map on disk that the next session
\* would load, holds data of its own block: neither metadata nor data of another
\* block goes there (acquire_block), and the saving of the map by afs_dtr, whole
\* or interrupted, hits map blocks only.
CarriersKept == Undisturbed => HoldsOwnData(map) /\ HoldsOwnData(saved)

\* When no session was interrupted, the map that the next session loads names
\* every carrier block that holds data and no other, with the checksum of the
\* data that is there: afs_dtr saves every change.
ChecksumsAgree ==
  phase = "down" /\ formatted /\ Undisturbed /\ crashes = 0 =>
    LET lst == BlockList(free)
        content == read_page(ListAt(lst, SbBlock(lst, 0), AFS_INVALID_BLOCK))
        loaded == afs_fill_map(content.sb, 0)
    IN \A b \in Blocks, n \in Device :
         \/ loaded[b].ptr = n
         \/ IsKind(disk[n], "data") /\ disk[n].block = b
         => loaded[b].ptr = n /\ disk[n] = Data(b, loaded[b].sum)

\* Where write_super_block puts the first replica on the device as it was.
FirstReplica ==
  LET lst == BlockList(Free)
  IN ListAt(lst, SbBlock(lst, 0), AFS_INVALID_BLOCK)

\* The location of the superblock is a position in the list of free blocks, which
\* the passive file system changes between two sessions.  When it takes a block
\* behind the first replica, find_super_block still finds the superblock, whatever
\* sessions and crashes came before; one taken in front of it moves the list.
SuperblockStays ==
  [][/\ free' # free
     /\ formatted /\ Undisturbed
     /\ \A n \in free \ free' : n > FirstReplica
     => LET lst   == BlockList(free')
            place == ListAt(lst, SbBlock(lst, 0), AFS_INVALID_BLOCK)
        IN place \in Device /\ IsKind(disk'[Address(place)], "sb")]_vars

(***************************************************************************)
(* What comments and documentation say of the metadata.  The first holds   *)
(* on devices of up to 4 GB, the second is refuted by a run of its own.    *)
(***************************************************************************)

\* "we will only utilize the free blocks in the file system" (README.md:64): no
\* block that the passive file system uses is ever written.
PassiveDataUntouched ==
  Undisturbed => \A n \in Device \ Free : disk[n] = Passive

\* "Traverse through the Artifice map and rebuild the allocation vector"
\* (dm_afs_metadata.c:547): after a mount, too, no write takes a carrier block
\* that the map already names.
VectorRebuilt == passive = 0 => HoldsOwnData(map)
=============================================================================
