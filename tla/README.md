# A TLA+ model of Artifice

Artifice is a Linux device-mapper target that hides a block device in the free
blocks of another, *passive*, file system. A data block is encoded into several
*carrier blocks*; a map, kept in memory and saved in *map blocks*, says where
they are. This directory models the parts of it in which several actors, or
several sessions, meet, the parsing of passive file systems and the codecs: TLA+
modules, TLC instances of them, and TLAPS proofs.
Paths below are relative to `src/` of the repository; `engine.c`, `metadata.c`
and `allocation.c` abbreviate `src/dm_afs_engine.c` and so on.

## 1. Inventory

| Part | Source | State | Operations | What is hard |
|---|---|---|---|---|
| allocator | `allocation.c`, `lib/bit_vector.c` | bit vector, its lock, the static `block_num` | `acquire_block`, `allocation_set/get/free` | several workers, frees without the lock, termination by random draws |
| request engine | `engine.c`, `dm_afs.c` (`afs_map`, queues) | requests, map entries, carrier blocks | read, write, rebuild, bio completions, error paths | unbound work queues, bios in any order, space running out midway, carrier blocks overwritten by the passive system |
| metadata | `metadata.c`, `dm_afs_io.c` | superblock replicas, map and pointer blocks | create, mount, save | crashes between page writes, a free list that changes between sessions, 32-bit addresses |
| target | `dm_afs.c` | resources of a device, work queues | `afs_ctr`, `afs_dtr`, `afs_map`, `afs_rebuild` | every step can fail, `afs_dtr` against work still queued |
| detection | `modules/*.c`, `detect_fs` | the passive file system structure with the free list | FAT32, ext4, NTFS, shadow | on-disk formats with fields of any value, tables over several pages, counts made in one pass and used in another, allocations that fail, a static flag |
| Reed-Solomon | `lib/cauchy_rs.c` | multiplication tables | encode, decode | losses in any combination, packed triangular factors, vector code for three kinds of processor |
| AONT package, Speck | `lib/aont.c`, `lib/speck.c` | none | encode, decode, counter mode | what one direction does the other must undo |
| Shamir | `lib/libgfshare.c` | a context | share, recombine | which shares take part |
| `rs.c`, hashes | `lib/rs.c`, `city.c`, `sha3.c`, `dm_afs_crypto.c` | none | | not called, or byte arithmetic only |
| entropy, repair | `dm_afs_entropy.c`, `dm_afs_repair.c` | | | the one is used with Shamir encoding only, the other is empty |

How they interact. `afs_ctr` runs a detection module, which yields the list of
free blocks; then it creates the metadata or looks for it. From then on
`afs_map` queues each bio on the flight queue. The handlers of the engine look
up or fill the map entry of the block, acquiring carrier blocks from the
allocator, and submit one bio per carrier block. The completion of the last bio
ends a write, or queues a read for decoding on the crypto queue; a decoding that
finds a wrong checksum rebuilds the block. `afs_dtr` saves the map and releases
everything. The map on disk is written at no other time.

`PROJECT.json` lists the hazards of this code, line by line, with the properties
that would catch each.

## 2. Modules

    BlockAllocator  <-- implements --  AfsAllocation   AfsAllocationProofs   MCAllocation
    BlockDevice     <-- implements --  AfsEngine       AfsEngineProofs       MCEngine
                                       AfsMetadata     AfsLayoutProofs       MCMetadata
                                                       <- AfsMetadataProofs
                                       AfsTarget       AfsTargetProofs       MCTarget
    AfsPassiveFs <- AfsFat32, AfsExt4, AfsNtfs <-
                                       AfsDetect       AfsDetectProofs       MCDetect
                                                       <- AfsNtfsProofs
    ExclusiveOr <- GaloisField <- CauchyRs (with GfMemory), Speck <- AontPackage,
                   GaloisField <- Shamir <-
                                       AfsCodec        AfsCodecProofs        MCCodec

An arrow `A <- B` reads "B extends A".

Each module keeps the names of the source. What one models in detail is one step
in the next: `acquire_block` is seven actions in AfsAllocation, which is shown to
implement the atomic `Take` of BlockAllocator, and is the one step `AcquireInto`
in AfsEngine and `Acquire` in AfsMetadata; a write is some ten steps in
AfsEngine and one in AfsMetadata; AfsTarget reduces requests to the queue they
are on. `afs_fat32_detect` is AfsFat32, its result is the operator `BlockList` in
AfsMetadata, and `detect_fs` is one step in AfsTarget. Encoding a block is AfsCodec
in detail and the operators `Encode` and `Decode` in AfsEngine.

**AfsAllocation.** `vector` is the set of bits set, `lock` is `vector->lock`, and
`block_num` the static local that all calls share. The steps of a call are those
between which another worker can run: take the lock and draw, test, set, read
the list and return, redraw, compare. `reset_entry` frees a worker's blocks one by
one and without the lock, as the engine does. `acquire_block` sets bits by list
*index* and returns block *numbers*; `allocation_free` clears the bit of a number.
The model keeps this.

**AfsEngine.** One record of variables per request (`state`, its pages, its loop
counter `slot`, the bios `pending`), the map (`ptr`, `sum`), the vector, the
`disk`. The loops over the carrier blocks are one step per carrier block, since
every turn touches the shared map or vector, and each bio completes by itself.
Pages are shares of an encoding, known by the request that encoded them (the key
is random) and their index, or plain data. A checksum stands for the page it was
computed from. `Decode` uses the data shares only: `num_erasures` is always 0.
`decode_aont_package` takes the key difference from the shares, not from the map,
so the map entry does not hold it here. `PassiveOverwrite` is the passive file
system using a block it considers free.

**BlockDevice** is the abstract device: each whole-block request takes effect at
one instant between submission and end; only a first write may be dropped.

**AfsMetadata.** `disk` holds contents by kind. The actions are the page writes
of `write_super_block` and `write_map_blocks`, one each, so that `Crash` can come
between any two; `Mount` is one step, since it writes nothing. `binary_search`,
the chain of passphrase hashes, the list index used for a block number and the
32-bit byte address are as in the code. A device is created again only if a crash
left no superblock. A mount that finds none changes nothing and is no step.
History variables record what was last saved (`saved`, `image`), whether there
is a superblock (`formatted`) and whether a block was mapped after a mount
(`remapped`).

**AfsTarget.** `res` says of each resource of a device whether it is allocated;
`afs_ctr` goes through its steps, any of which may fail through the labels of
`afs_ctr` and of the function called; requests move between queues; `afs_dtr`
releases in its order. A step that dereferences a NULL queue or map leads to
`oops`, an endless search to `spinning`.

**AfsDetect** is `detect_fs`: the four modules one after another on one structure
`fs`, twice in a row with any two devices. A device is a record of the fields the
modules read (boot sector, table, superblock, descriptors, bitmaps, MFT); the
modules are parsers, whose steps are an entry, a group, a cluster of a run or a
pass. `AfsPassiveFs` holds what they share: the structure, pages, sectors and
the 32-bit arithmetic. A division by zero or a NULL dereference leads to `oops`.
**AfsFat32** is the boot sector, the geometry and the scan of the table.
**AfsExt4** keeps the static `is_64bit` and the one bit vector that serves all groups:
it takes the bits of a group's bitmap and those of the backups of superblock and
descriptors, and is cleared bit by bit while the list is written.
**AfsNtfs** follows the attributes and runs of `$Bitmap` and its two passes.
The allocations that the code checks may fail, the others succeed.

**GaloisField** builds the tables of `gf_init` from the polynomial, with the split
tables of the vector code, and has the arithmetic of polynomials as a reference;
**ExclusiveOr** tabulates the operator `^` on bytes. **GfMemory** describes how each
bulk operation walks over a buffer, as a record of bytes done and left: the loops
differ by operation and processor. **CauchyRs** is the encoder, a recovery block a
step, and the decoder, a pass a step: original data eliminated, the packed factors
generated in place, the two triangles and the diagonal. The bytes are real, and go
through the walks and tables. **Speck** takes the word width and the number of
rounds as constants. **AontPackage** composes the two with an arbitrary hash:
`EncodePackage`, the code with losses, `DecodePackage`. **Shamir** has the shares by
Horner's rule and the interpolation share by share. **AfsCodec** is the choice the
engine makes by `encoding_type`.

Every definition that models code is listed in the `map` of `PROJECT.json` with
its lines. Definitions that a comment calls a mutant are variants with a plausible
mistake, used to see that a property can fail.

## 3. What TLC checks

| Run | Question | Instance |
|---|---|---|
| `allocation` | Is `acquire_block` atomic, is no block handed out twice, does every call return? | 2 workers, 2 carrier blocks each, 3 blocks of which 1 is reserved |
| `engine` | Does the engine behave like BlockDevice, is a block at rest intact, does every request end? | 3 requests, 2 blocks, 2 carriers, 4 free blocks, any acquisition may fail |
| `engine_rebuild` | With rebuilding, are carrier blocks kept apart and do bios go only to the request's own blocks, never to metadata? | the same, 1 overwrite |
| `metadata` | Can the device be mounted after a crash anywhere, with the right map? | 2 map blocks, one behind a pointer block, 2 replicas, 7 free blocks, 2 crashes |
| `detection` | Is the list the free space, are buffers kept, is no device mistaken, does every call end? | 2 calls, regular and odd devices of each kind, pages of 64 bytes, 32-bit numbers wrapping at 8192 |
| `codec` | Is every block and secret recovered, are tables, factors and walks right? | 1 to 5 data and 1 to 4 parity blocks, any losses, 3 processors, blocks of 2 to 87 bytes |
| `target` | Is every resource released once on every exit, is no client disturbed, do the calls return? | 2 clients, 2 rebuild requests, 2 sessions |

Bounds. Two workers are enough for every pair of steps to interleave, and four
carrier blocks wanted of two make both fail in the middle. Three requests let two
conflict over space while a third reads or waits; two carriers are the least with
a first, a last and a half-done state. Four free blocks are all that the two
blocks need, and acquisition may fail with blocks left, as in the code, whose
loop can end early. In `metadata` two crashes allow one while creating and one in
a later session; the exploration stops where the passive file system takes a
block or a block is mapped after a mount, since the invariants speak of the
states before it. The device lies below the wrap and the locations are indices of the list, the
hypotheses of the proofs in section 4. In `target` the second session starts from whatever the first
left behind. `CHECK_DEADLOCK FALSE` is set throughout: the requests, versions,
crashes and sessions of an instance are used up and the system may then rest.
TLC uses the symmetry of requests in runs without liveness properties.

The devices of `detection` include every FAT over six clusters, tables that reach
into a second page, ext4 groups with and without backups, whose bitmaps mark them or not, descriptors on
a second page, `$Bitmap` in one or several attributes and clusters, and devices that a
module refuses at each of its tests. Page and word are small so that boundaries
are met by small devices. In `codec` the field is the real one, GF(256) with the
polynomial of the code, and all rows of its tables are compared with the reference. The shapes
include the engine's two and two, with blocks of 31 and 87 bytes that take every
chunk width below 128 (the proof covers every length); every list of lost blocks up to
the number of parity blocks is taken. Words of 8 bits
and 3 rounds keep the rotations of Speck meaningful, and the nonce stands one below a
carry. Shamir's lists are the engine's own, `'0'` to `'3'`, one with the largest number
and one that is refused.

`SuperblockStays` speaks of blocks taken behind the first replica.

The lists. Allocator and engine are checked on lists whose block numbers all lie
beyond the length of the list, as on a passive file system whose first half is
full: `NumbersBeyondIndices`. Metadata is checked on a list shifted by two used
blocks, as FAT32 yields it on an otherwise empty volume. No list suits all parts,
see section 5.

Fairness. Work queues run what is queued and bios complete (weak fairness of the
handlers). A detection module runs in the constructor's thread and goes on
(weak fairness of its steps). `spin_lock` is a queued lock (strong fairness of taking it).
`get_random_bytes` draws each index again and again (strong fairness of drawing
the first one). In AfsTarget a handler that can finish a request again and again
does (strong fairness): the detailed engine rewrites carrier blocks once per
request. Nothing is assumed of clients, crashes or the passive system.
Two assumptions on clients are explicit: `Serialised`, at most one request per
block outstanding, and, in the instances, whole blocks.

## 4. What is proved

TLAPS checks the following for every value of the constants.

*AfsAllocationProofs.* `TypeCorrect`; `AllocationIsExclusive`, `ReservedIsSafe`
and `AllocationIsAtomic` from the hypotheses `OneInstance` (one device, because
`block_num` is shared) and `NumbersBeyondIndices`. `NoDoubleAllocation` is not
inductive: that a bit is clear says nothing of the pointers unless every block
held has its bit set (`HeldInv`), which needs that the bit stays clear between
test and set (`ClearInv`) although others free, that nobody holds the block
between set and return (`ReturnInv`), that the static variable keeps its value
(`StaticInv`), which needs the lock (`LockInv`). The refinement takes a block in
the step that returns it.

*AfsEngineProofs.* `TypeCorrect` for all interleavings; `CarriersAreExclusive` and
`MetadataIsSafe` from `NumbersBeyondIndices`, with a counterpart of `HeldInv`;
conflicting requests and overwritten carrier blocks are included.
`WritesAreAtHome` from `Serialised`: the invariant relates the loop counter, the
numbers copied so far and the map entry, and says that two active requests never
concern one block.

In the same module, `BlocksRestIntact`, from `Serialised`, `NumbersBeyondIndices` and
`MaxOverwrites = 0` (the passive file system leaves the carrier blocks alone).
`RestingBlocksIntact` speaks only of blocks without a request; the invariant
`IntactInv` says for each state of a request how much of its block has been looked
up, acquired, written or reset, and that no rebuild ever starts. A step of another
request keeps all this because it writes only to carrier blocks of its own block
(`HomeInv`), which are nobody else's (`CarriersExclusive`).

And `EngineIsDevice`, from the same hypotheses and
`[]WholeBlocks` (every request covers its block): the engine implements
BlockDevice. A write takes effect in the step that submits its bios; until then
the old content, if there was any, is intact; when the last bio completes, the shares
on the disk decode to what the request wrote. `WholeBlocks` is needed because a write of
a part stores uninitialised memory in the rest.

*AfsMetadataProofs.* `TypeCorrect` for every device, with crashes and a passive file
system that takes any block at any time: whatever is read back from a block that is no
longer ours is a number or an entry, and every index that `write_map_blocks` computes is
within its pointer block. `BinarySearchRight`: on every ascending list the recursion of
`binary_search` ends, and finds a number exactly when it is there. Then, from three
hypotheses, `CrashSafe`, `CarriersAreKept`, `SavedMapExact`, `PassiveDataSafe` and
`SuperblockStaysInPlace`. The hypotheses are what the code needs and does not check:
`SmallDevice` (byte addresses do not wrap), `LocationsListed` (the superblock's
locations, numbers that the code uses as indices, are indices of the list) and
`OneIndirect` (`afs_fill_map` reads only the first map block behind a pointer block).
The instance of the run satisfies them, which TLC evaluates (`ProvedAssumption`).

`Mountable` speaks of what the next session would compute; the inductive invariant
`LayoutInv` of AfsLayoutProofs speaks of what is on the disk. Its conjuncts: before the
first replica is written there is no superblock and no data (`NothingYet`); while the
device is created, what the session has acquired covers the reserved places and the
pages written so far, and the blank map is there before the superblock (`CreatingInv`,
`BlankInv`); from then on the superblock leads to all map blocks, each at a block of its
own, each holding its part of the map last saved or of the one being saved
(`DeviceInv`), and the session works on that superblock (`MemoryInv`); each map names
blocks that hold data of its own (`CarrierInv`); without a crash the carrier blocks are
exactly those named (`ExactInv`). A page write keeps this because the kinds of content
tell what a block is used for: it hits a block just acquired, the own carrier block of
the data, or a map block of the same number.

AfsLayoutProofs takes what it needs of the lists as `ListRight`; AfsMetadataProofs proves
it. The list of free blocks, a `CHOOSE` in the model, is characterised by ranks (the
entry at k has k free blocks below it), with the cardinality theorems of the library;
the recursion of `binary_search` and the replicas' chain of locations are unfolded by
the existence of a solution of their defining equation, found by induction in the form
"a set of naturals that is not empty has a least element".

*AfsTargetProofs.* `TypeCorrect`, `ReleasedOnce`, `OnlyPtrBlocksLeft`,
`ClientsAreSafe`. The invariant says which resources are held at each step of
`afs_ctr` (`CtrHeld`), that nothing is freed while the target is up
(`NotFreed`), and that what `afs_dtr` has released is a prefix of its order
(`DtrProgress`).

*AfsDetectProofs.* For any set of devices, from the types of their fields alone.
`FatListAlwaysExact` and `FatAlwaysInBounds`: the list is exact because after `cluster`
entries it holds exactly the zero ones below, in order, and the word the scan reads is
that entry of the table, which needs the buffer to begin where the table does.
`NothingEverLeftOver` needs that no module touches the structure before it is certain to
accept.

`Ext4ListAlwaysExact` and `Ext4AlwaysFits`. `Ext4Inv` says of each step what the summary
and the descriptors are, of the start of a group that the list has come to its first
block and that the vector is clean again (`Ext4GroupInv`), and within a group that the bits
behind the current one say which blocks are not free (`Ext4BitsInv`). "The list has come
to x" is `Listed`: ascending, and its elements are the free blocks below x; a step past a
free block appends it, a step past another leaves the list alone. The array is large
enough because an ascending list is no longer than the set it lists. Both are about
volumes that `Ext4Regular` describes, which is what the code takes for granted: blocks of
a page, whole descriptors in a page, a number of groups that the rounding by the free
count gets right, bitmaps below 2 TB, and an `is_64bit` that fits the device.

*AfsNtfsProofs.* `NtfsPassesAlwaysAgree`, for every volume: with `NtfsInv`, the first pass
counts the clear bits of the buffer and the list holds the blocks of those seen so far.
`NtfsListAlwaysUnused`, for volumes where a cluster is a block and `$Bitmap` is one run that
covers the volume, in the reach of `read_page` (`NtfsRegular`): `NtfsExact` says what part of
`$Bitmap` is in the buffer at each cluster `read_file` has copied, whatever attributes come
before and after, and then that the list has come to the current bit.

*AfsCodecProofs.* `EveryWalkExact`: for every length and processor each of the six bulk
operations treats every byte once, from lemmas on what a loop, a single chunk
and the two tails leave; hence `WalksStayExact`, the invariant of the run.

For words of up to nine bits, any number of rounds and any nonce, `RoundUndone`:
`dec_round` undoes `enc_round`, because the exclusive or with the same word is undone
(digit by digit, on the table of nibbles), addition modulo a power of two is, and
a rotation is a swap of the two digits of a number in base 2^k, undone by the rotation back;
hence `RoundsAlwaysUndone`. `CtrIsItsOwnInverse`: encrypting twice in counter mode gives the
data back, for any length; the pad has to be made of words, which takes the
recursions of the key schedule and of the rounds, each unfolded by the existence of
a solution of its equation. Then the package: ciphertext and difference cut into slices
and joined are what they were, the hash gives the key back, and the pad the data.
`IntactAlwaysReadBack`: with nothing lost, a block is read back as it was stored, for every
geometry, content, key and hash. `PackageRoundTrip`: with losses, `RoundTrip` holds in
every behaviour in which `Recovered` does, so that what is left to TLC of the way of a
block is the Reed-Solomon code. The invariant `PackageInv` says that the blocks encoded are
the slices of a package of the data, that they are untouched before a loss, and that the
passes of the decoder run only with a loss. The assumption on the constants,
`ContentsAssumption`, is that data are bytes and that keys, nonce and hashes are words.

Only model-checked: all liveness properties (fairness and ENABLED are beyond the
prover); `Recognised`, a statement about the devices of the instance, which for all devices
would have to assume that no device has the marks of two formats; `TablesRight`, about one
fixed field, which the run goes through completely; `ParityRight`, `FactorsRight`, `Recovered`
and `SecretRecovered`, which are identities of sums and products over the field with as many
terms as there are blocks or shares, and take an induction over data that the prover does not
support.

## 5. Where code and documentation disagree

Each of these has a run in which TLC finds the stated property violated.

- `engine_conflict`: two writes to one block at the same time mix their carrier
  blocks (`dm_afs.c:443`); `dm_afs.h:57` describes a queue that would skip the second.
- `engine_loss`: one lost data share makes a read return garbage: the decoder is
  never told of erasures (`engine.c:211`).
- `metadata_remount`: mounting marks block numbers in a vector that is indexed by
  list position (`metadata.c:569`), so that a later write takes a block in use.
- `target_waits`: the loop of `afs_dtr` waits for queues that are never filled
  (`dm_afs.c:653`), and rebuild requests use freed memory.
- `detection_fat32`: the list holds cluster numbers, and blocks count from the start of
  the data, where cluster 2 lies (`dm_afs_fat32.c:352`): each listed block is the
  second cluster behind a free one.

Met while modelling, without a run:

- A read whose rebuild finds no space never ends (`engine.c:239`): the state `stuck`.
- The superblock's location is a position in the free list (`metadata.c:634`), which
  moves when the passive system takes a block in front of it.
- Byte addresses wrap at 4 GB (`dm_afs_io.c:127`): beyond, `write_page` writes to the start
  of the device. The instance of `metadata` lies below (`WrapBlocks`).
- FAT32: a table that does not begin at a page is read from the wrong entry; one
  that ends in the first page leaves the buffer NULL; the clusters are not compared with the
  size of the table; clusters of other than eight sectors are not refused.
- ext4: `is_64bit` is never reset, so that a 32-bit device after a 64-bit one divides by a
  descriptor size of zero; the number of groups is rounded by the free count
  (`dm_afs_ext4.c:763`); `true` is returned without a list when its allocation fails;
  blocks of 4096 bytes are taken for granted.
- NTFS: `clusters_per_record` is unsigned where the format has it signed
  (`dm_afs_ntfs.c:189`, a division by zero on usual volumes); run offsets are taken as absolute; only the
  first page of a cluster is read; bits behind the last cluster are listed.
- `cauchy_rs.c`: with one parity block the recovered block is left in the parity buffer; parity
  block i always stands in for erasure i, so an intact later one cannot replace a lost earlier one.
- `speck_decrypt` applies the round keys in the order of encryption; nobody calls it.
- A corrupted Shamir share is numbered `'0'` (`engine.c:202`) where the decoder skips 0.
- On a list with a number that is the index of another block, `allocation_free`
  clears the wrong bit. With the list 1, 2, 3 a worker that holds block 1 (index 0)
  and fails clears the bit of index 1, whose block another worker holds and a
  third may now get. `NumbersBeyondIndices` excludes it. FAT32 lists of volumes with
  few files have such numbers.
- On a list that satisfies `NumbersBeyondIndices` the superblock's location, a
  number used as an index, lies outside the list, where memory holds anything.
- With two devices up, `block_num` is shared under two different locks: one
  device's call may set one bit and return the block of another.
- A write of part of a block stores uninitialised memory in the rest: the read of
  read-modify-write is commented out (`engine.c:518`).
- `rebuild_blocks` encodes the block and then copies the plain data block over every
  share (`engine.c:371`), so that the next read decodes garbage; it does not free
  the carrier blocks it replaces.
- `afs_fill_map` increments the wrong variable (`metadata.c:193`) and reads the
  first map block of a pointer block again and again. The instance has one map
  block behind a pointer block, where this has no effect.
- `rebuild_ptr_blocks` finds the second pointer block through uninitialised memory.
- `ptr_block_err` does not free the pointer blocks (hence the exception in
  `NothingLeft`); `alloc_workqueue` returns NULL, which `IS_ERR` does not recognise.

## 6. What is not modelled

Flush and unknown operations of `afs_map` (the first waits on an empty queue, the
second ends its bio twice); allocations that fail unchecked, inside
`init_request`, the codecs and the modules; the moment in which two codec calls for one block share the difference
field of the map entry (`aont.c:72`, `aont.c:122`); errors of page I/O, which the
code does not report; collisions of checksums; `afs_rebuild_request` in detail; the
queue functions `afs_eq_*`, as nothing is ever added to a queue; entropy blocks, which no
path selects; `rs.c` and the functions of `libgfshare.c` that nobody calls; the ARM and
big-endian code and the self test of `cauchy_rs.c`; hashes, which
are byte computations that no property tells apart from any other function; print
functions; module load and unload except for the tables; the programs under
`scripts/` and `experimentation/`, which are no part of the target. A
rebuild request that outlives its target is followed to the end of `afs_dtr` only.

The models of detection and codec are sequential, as the code is. They are not
composed with AfsEngine and AfsMetadata state by state: the interface is the list of
free blocks on the one side and `Encode` and `Decode` on the other.

## 7. Plan

1. The engine on shifted lists, as long as no acquisition fails; reads and writes of
   parts of blocks; flush and unknown operations; `afs_rebuild_request` in the engine.
2. The engine queue `afs_eq_*` as the list it would be.
3. Proofs: the engine with overwritten carrier blocks; `Recovered` for one lost block, where
   the factors are a single element.
