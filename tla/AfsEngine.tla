----------------------------- MODULE AfsEngine -----------------------------
(***************************************************************************)
(* The request engine of a mounted Artifice device: afs_map, the flight    *)
(* and crypto work queues (src/dm_afs.c) and the handlers they run         *)
(* (src/dm_afs_engine.c).                                                  *)
(*                                                                         *)
(* A data block is encoded into NumCarriers carrier pages, written to      *)
(* blocks that acquire_block picks from the free list of the passive file  *)
(* system; the block's map entry holds their numbers and checksums.  The   *)
(* work queues are unbound and concurrent, and every carrier block is read *)
(* or written by a bio of its own, so requests interleave at every access  *)
(* to the map, the allocation vector and the disk.                         *)
(*                                                                         *)
(* Data.  A sector holds Zero, Junk (memory nobody initialised, or the     *)
(* decoding of shares that do not belong together) or the name of the      *)
(* request that wrote it.  A page is a share of one encoding or plain      *)
(* data; encode_aont_package draws a fresh key for each encoding, so       *)
(* shares of two encodings never decode together.  A checksum stands for   *)
(* the page it was computed from: collisions of the 16-bit hash are left   *)
(* out.  The encoding is AONT_RS, which afs_ctr hard-codes (dm_afs.c:521). *)
(*                                                                         *)
(* acquire_block is one step here, as AfsAllocation shows it to be.        *)
(***************************************************************************)
EXTENDS Integers, FiniteSets

CONSTANTS
  Reqs,               \* requests; also the values they write
  NoReq,              \* the writer of a page that is not a share
  Zero, Junk,         \* values of sectors that no request wrote
  NumBlocks,          \* config->num_blocks
  SectorsPerBlock,    \* AFS_SECTORS_PER_BLOCK
  NumCarriers,        \* config->num_carrier_blocks
  ListLen,            \* fs->list_len
  BlockList,          \* fs->block_list
  Reserved,           \* indices of the blocks write_super_block took
  AFS_INVALID_BLOCK,  \* U32_MAX
  Serialised,         \* clients have at most one request per block outstanding
  MaxOverwrites       \* writes of the passive file system to listed blocks

Blocks == 0 .. NumBlocks - 1

Sectors == 0 .. SectorsPerBlock - 1

Slots == 0 .. NumCarriers - 1

Indices == 0 .. ListLen - 1

Values == Reqs \cup {Zero, Junk}

DataBlock == [Sectors -> Values]

\* Blocks of the passive device that the free list names.
Listed == {BlockList[k] : k \in Indices}

Numbers == Listed \cup {AFS_INVALID_BLOCK}

Page == [by : Reqs \cup {NoReq}, data : DataBlock, share : Slots]

ASSUME SizesAssumption ==
  /\ NumBlocks \in Nat \ {0}
  /\ SectorsPerBlock \in Nat \ {0}
  /\ NumCarriers \in Nat \ {0, 1}
  /\ ListLen \in Nat \ {0}
  /\ AFS_INVALID_BLOCK \in Nat
  /\ MaxOverwrites \in Nat

ASSUME NamesAssumption ==
  /\ NoReq \notin Reqs
  /\ Zero \notin Reqs
  /\ Junk \notin Reqs
  /\ Zero # Junk

\* NoReq also stands for the content of a block that has none.
ASSUME NoContentAssumption == NoReq \notin DataBlock

\* The detection modules list each free block once.
ASSUME BlockListAssumption ==
  /\ ListLen <= AFS_INVALID_BLOCK
  /\ BlockList \in [Indices -> 0 .. AFS_INVALID_BLOCK - 1]
  /\ \A j, k \in Indices : BlockList[j] = BlockList[k] => j = k

ASSUME ReservedAssumption == Reserved \subseteq Indices

ASSUME SerialisedAssumption == Serialised \in BOOLEAN

VARIABLES
  state,         \* where each request is
  op, block,     \* bio_op of the request's bio, and its data block
  sectors,       \* the sectors of the block the bio covers
  data,          \* req->data_block
  carriers,      \* req->carrier_blocks
  nums,          \* req->block_nums
  modification,  \* the local of afs_write_request
  slot,          \* the loop counter i of the handler
  pending,       \* carrier bios submitted and not completed
  out,           \* the data a read has put into its bio
  ptr,           \* carrier_block_ptr of the map entries
  sum,           \* checksum of the map entries
  vector,        \* set bits of the allocation vector
  disk,          \* contents of the listed blocks of the passive device
  overwrites     \* writes of the passive file system so far

reqVars == <<op, block, sectors>>

memVars == <<data, carriers, nums, modification>>

vars == <<state, reqVars, memVars, slot, pending, out, ptr, sum, vector,
          disk, overwrites>>

States == {"new", "flightq", "lookup", "reading", "cryptoq", "rebuild",
           "rebuildreset", "mapping", "writing", "writereset", "stuck", "done"}

\* Requests that init_request has allocated and afs_req_clean has not freed.
Active == States \ {"new", "done"}

TypeOK ==
  /\ state \in [Reqs -> States]
  /\ op \in [Reqs -> {"read", "write"}]
  /\ block \in [Reqs -> Blocks]
  /\ sectors \in [Reqs -> SUBSET Sectors]
  /\ data \in [Reqs -> DataBlock]
  /\ carriers \in [Reqs -> [Slots -> Page]]
  /\ nums \in [Reqs -> [Slots -> Numbers]]
  /\ modification \in [Reqs -> BOOLEAN]
  /\ slot \in [Reqs -> Slots]
  /\ pending \in [Reqs -> SUBSET Slots]
  /\ out \in [Reqs -> DataBlock]
  /\ ptr \in [Blocks -> [Slots -> Numbers]]
  /\ sum \in [Blocks -> [Slots -> Page]]
  /\ vector \in SUBSET (0 .. AFS_INVALID_BLOCK)
  /\ disk \in [Listed -> Page]
  /\ overwrites \in 0 .. MaxOverwrites

-----------------------------------------------------------------------------

ZeroBlock == [s \in Sectors |-> Zero]

JunkBlock == [s \in Sectors |-> Junk]

\* A page with a copy of a data block, or with anything that is no share.
Plain(d) == [by |-> NoReq, data |-> d, share |-> 0]

JunkPage == Plain(JunkBlock)

JunkPages == [i \in Slots |-> JunkPage]

NoNums == [i \in Slots |-> AFS_INVALID_BLOCK]

\* encode_aont_package for request r.
Encode(r, d) == [i \in Slots |-> [by |-> r, data |-> d, share |-> i]]

\* decode_aont_package with num_erasures = 0, as init_request leaves it: the
\* two data shares are decrypted, the parity shares are not looked at.
Decode(pages) ==
  IF /\ pages[0].by # NoReq
     /\ pages[0].by = pages[1].by
     /\ pages[0].share = 0
     /\ pages[1].share = 1
  THEN pages[0].data
  ELSE JunkBlock

\* Copying sectors of a data block into a bio.
Copy(r, d) == [s \in Sectors |-> IF s \in sectors[r] THEN d[s] ELSE Junk]

-----------------------------------------------------------------------------

Init ==
  /\ state = [r \in Reqs |-> "new"]
  /\ op = [r \in Reqs |-> "read"]
  /\ block = [r \in Reqs |-> 0]
  /\ sectors = [r \in Reqs |-> {}]
  /\ data = [r \in Reqs |-> JunkBlock]
  /\ carriers = [r \in Reqs |-> JunkPages]
  /\ nums = [r \in Reqs |-> NoNums]
  /\ modification = [r \in Reqs |-> FALSE]
  /\ slot = [r \in Reqs |-> 0]
  /\ pending = [r \in Reqs |-> {}]
  /\ out = [r \in Reqs |-> JunkBlock]
  /\ ptr = [b \in Blocks |-> NoNums]
  /\ sum = [b \in Blocks |-> JunkPages]
  /\ vector = Reserved \cup {AFS_INVALID_BLOCK}
  /\ disk = [n \in Listed |-> JunkPage]
  /\ overwrites = 0

Mapped(b) == ptr[b][0] # AFS_INVALID_BLOCK

Goto(r, from, to) ==
  /\ state[r] = from
  /\ state' = [state EXCEPT ![r] = to]

\* Advance the loop over the carrier blocks; after the last one go to next.
Step(r, here, next) ==
  /\ state[r] = here
  /\ state' = [state EXCEPT ![r] =
                 IF slot[r] = NumCarriers - 1 THEN next ELSE here]
  /\ slot' = [slot EXCEPT ![r] = IF @ = NumCarriers - 1 THEN 0 ELSE @ + 1]

\* afs_req_clean ends the bio and frees the request with its pages.
Clean(r) ==
  /\ state' = [state EXCEPT ![r] = "done"]
  /\ data' = [data EXCEPT ![r] = JunkBlock]
  /\ carriers' = [carriers EXCEPT ![r] = JunkPages]
  /\ nums' = [nums EXCEPT ![r] = NoNums]
  /\ modification' = [modification EXCEPT ![r] = FALSE]

\* Mutant of SubmitBios: one bio too many.
SubmitOneMore(r) ==
  pending' = [pending EXCEPT ![r] =
                IF slot[r] = NumCarriers - 1 THEN 0 .. NumCarriers ELSE @]

\* read_pages and write_pages submit one bio per carrier block when the loop
\* over the map entry is through.
SubmitBios(r) ==
  pending' = [pending EXCEPT ![r] =
                IF slot[r] = NumCarriers - 1 THEN Slots ELSE @]

\* The sectors left of a bio of count sectors that starts at sector offset of its
\* block: dm_accept_partial_bio cuts it off at the end of the block.
Covered(offset, count) ==
  LET max == SectorsPerBlock - offset
  IN offset .. offset + (IF count > max THEN max ELSE count) - 1

\* afs_map: set up a request and queue it.  The data block of the request is not
\* initialised.
afs_map(r, o, b, offset, count) ==
  /\ Goto(r, "new", "flightq")
  /\ Serialised => \A q \in Reqs : state[q] \in Active => block[q] # b
  /\ op' = [op EXCEPT ![r] = o]
  /\ block' = [block EXCEPT ![r] = b]
  /\ sectors' = [sectors EXCEPT ![r] = Covered(offset, count)]
  /\ UNCHANGED <<memVars, slot, pending, out, ptr, sum, vector, disk, overwrites>>

(***************************************************************************)
(* Reads.                                                                  *)
(***************************************************************************)

\* Mutant of ReadUnmapped: without the memset, the bio gets the request's data
\* block as it was allocated.
ReadUnmappedJunk(r) ==
  /\ state[r] = "flightq"
  /\ op[r] = "read"
  /\ ~ Mapped(block[r])
  /\ out' = [out EXCEPT ![r] = Copy(r, data[r])]
  /\ Clean(r)
  /\ UNCHANGED <<reqVars, slot, pending, ptr, sum, vector, disk, overwrites>>

\* afs_read_request of a block that is not mapped: zeros.
ReadUnmapped(r) ==
  /\ state[r] = "flightq"
  /\ op[r] = "read"
  /\ ~ Mapped(block[r])
  /\ out' = [out EXCEPT ![r] = Copy(r, ZeroBlock)]
  /\ Clean(r)
  /\ UNCHANGED <<reqVars, slot, pending, ptr, sum, vector, disk, overwrites>>

\* afs_read_request of a mapped block.
ReadMapped(r) ==
  /\ Goto(r, "flightq", "lookup")
  /\ op[r] = "read"
  /\ Mapped(block[r])
  /\ UNCHANGED <<reqVars, memVars, slot, pending, out, ptr, sum, vector, disk,
                 overwrites>>

\* block_nums[i] = carrier_block_ptr; after the last one read_pages.
Lookup(r) ==
  /\ Step(r, "lookup", "reading")
  /\ nums' = [nums EXCEPT ![r][slot[r]] = ptr[block[r]][slot[r]]]
  /\ SubmitBios(r)
  /\ UNCHANGED <<reqVars, data, carriers, modification, out, ptr, sum, vector,
                 disk, overwrites>>

\* A carrier block has been read: afs_read_endio, which queues the request on
\* the crypto queue after the last one.  A read of AFS_INVALID_BLOCK is beyond
\* the device and leaves the page as it was; nobody looks at the error.
ReadBio(r, i) ==
  /\ state[r] = "reading"
  /\ i \in pending[r]
  /\ carriers' = [carriers EXCEPT ![r][i] =
                    IF nums[r][i] = AFS_INVALID_BLOCK THEN @
                    ELSE disk[nums[r][i]]]
  /\ pending' = [pending EXCEPT ![r] = @ \ {i}]
  /\ state' = [state EXCEPT ![r] = IF pending[r] = {i} THEN "cryptoq" ELSE @]
  /\ UNCHANGED <<reqVars, data, nums, modification, slot, out, ptr, sum, vector,
                 disk, overwrites>>

Corrupted(r) == {i \in Slots : sum[block[r]][i] # carriers[r][i]}

\* afs_read_decode, all checksums match.
DecodeIntact(r) ==
  /\ state[r] = "cryptoq"
  /\ Corrupted(r) = {}
  /\ out' = [out EXCEPT ![r] = Copy(r, Decode(carriers[r]))]
  /\ Clean(r)
  /\ UNCHANGED <<reqVars, slot, pending, ptr, sum, vector, disk, overwrites>>

\* afs_read_decode, some checksum differs: the data is copied to the bio all the
\* same, then rebuild_blocks starts and encodes it afresh.
DecodeCorrupted(r) ==
  /\ Goto(r, "cryptoq", "rebuild")
  /\ Corrupted(r) # {}
  /\ data' = [data EXCEPT ![r] = Decode(carriers[r])]
  /\ out' = [out EXCEPT ![r] = Copy(r, data'[r])]
  /\ carriers' = [carriers EXCEPT ![r] = Encode(r, data'[r])]
  /\ UNCHANGED <<reqVars, nums, modification, slot, pending, ptr, sum, vector,
                 disk, overwrites>>

(***************************************************************************)
(* Allocation, as BlockAllocator specifies it.                             *)
(***************************************************************************)

\* Mutants of AcquireInto: the bit of the vector is not set; the bit is not
\* tested; the block is entered in the map but not in block_nums.
AcquireUnset(r, k) ==
  /\ k \notin vector
  /\ ptr' = [ptr EXCEPT ![block[r]][slot[r]] = BlockList[k]]
  /\ nums' = [nums EXCEPT ![r][slot[r]] = BlockList[k]]
  /\ UNCHANGED vector

AcquireUntested(r, k) ==
  /\ vector' = vector \cup {k}
  /\ ptr' = [ptr EXCEPT ![block[r]][slot[r]] = BlockList[k]]
  /\ nums' = [nums EXCEPT ![r][slot[r]] = BlockList[k]]

AcquireUnnoted(r, k) ==
  /\ k \notin vector
  /\ vector' = vector \cup {k}
  /\ ptr' = [ptr EXCEPT ![block[r]][slot[r]] = BlockList[k]]
  /\ UNCHANGED nums

\* acquire_block finds index k free; the caller stores the block.
AcquireInto(r, k) ==
  /\ k \notin vector
  /\ vector' = vector \cup {k}
  /\ ptr' = [ptr EXCEPT ![block[r]][slot[r]] = BlockList[k]]
  /\ nums' = [nums EXCEPT ![r][slot[r]] = BlockList[k]]

\* acquire_block gives up when it draws its first index again, and that index
\* has been found taken: any taken index of the list will do.
AcquireMayFail == \E k \in Indices : k \in vector

\* reset_entry, one carrier pointer: allocation_free clears the bit whose index
\* is the block number.
FreeEntry(r) ==
  LET n == ptr[block[r]][slot[r]]
  IN /\ vector' = IF n = AFS_INVALID_BLOCK THEN vector ELSE vector \ {n}
     /\ ptr' = [ptr EXCEPT ![block[r]][slot[r]] = AFS_INVALID_BLOCK]

(***************************************************************************)
(* Rebuilding: every carrier block of the entry is replaced.               *)
(***************************************************************************)

\* rebuild_blocks, one carrier block: acquire a block and put a copy of the data
\* block into the page, over the share.  After the last one write_pages.
RebuildMap(r, k) ==
  /\ Step(r, "rebuild", "writing")
  /\ AcquireInto(r, k)
  /\ carriers' = [carriers EXCEPT ![r][slot[r]] = Plain(data[r])]
  /\ SubmitBios(r)
  /\ UNCHANGED <<reqVars, data, modification, out, sum, disk, overwrites>>

RebuildNoSpace(r) ==
  /\ Goto(r, "rebuild", "rebuildreset")
  /\ AcquireMayFail
  /\ slot' = [slot EXCEPT ![r] = 0]
  /\ UNCHANGED <<reqVars, memVars, pending, out, ptr, sum, vector, disk,
                 overwrites>>

\* reset_entry of rebuild_blocks.  afs_read_decode ignores the error and returns
\* 0, so nobody cleans the request up.
RebuildReset(r) ==
  /\ Step(r, "rebuildreset", "stuck")
  /\ FreeEntry(r)
  /\ UNCHANGED <<reqVars, memVars, pending, out, sum, disk, overwrites>>

(***************************************************************************)
(* Writes.                                                                 *)
(***************************************************************************)

\* afs_write_request: copy the bio into the data block, whose other sectors are
\* uninitialised memory (the read of read-modify-write is commented out), and
\* encode it.
WriteStart(r) ==
  /\ Goto(r, "flightq", "mapping")
  /\ op[r] = "write"
  /\ modification' = [modification EXCEPT ![r] = Mapped(block[r])]
  /\ data' = [data EXCEPT ![r] = [s \in Sectors |-> IF s \in sectors[r] THEN r ELSE @[s]]]
  /\ carriers' = [carriers EXCEPT ![r] = Encode(r, data'[r])]
  /\ UNCHANGED <<reqVars, nums, slot, pending, out, ptr, sum, vector, disk,
                 overwrites>>

\* The loop over the carrier blocks, for a block that was mapped.
WriteMapOld(r) ==
  /\ Step(r, "mapping", "writing")
  /\ modification[r]
  /\ ptr[block[r]][slot[r]] # AFS_INVALID_BLOCK
  /\ nums' = [nums EXCEPT ![r][slot[r]] = ptr[block[r]][slot[r]]]
  /\ SubmitBios(r)
  /\ UNCHANGED <<reqVars, data, carriers, modification, out, ptr, sum, vector,
                 disk, overwrites>>

\* The loop, for a block that was not mapped.
WriteMapNew(r, k) ==
  /\ Step(r, "mapping", "writing")
  /\ ~ modification[r]
  /\ AcquireInto(r, k)
  /\ SubmitBios(r)
  /\ UNCHANGED <<reqVars, data, carriers, modification, out, sum, disk,
                 overwrites>>

WriteNoSpace(r) ==
  /\ Goto(r, "mapping", "writereset")
  /\ IF modification[r] THEN ptr[block[r]][slot[r]] = AFS_INVALID_BLOCK
                        ELSE AcquireMayFail
  /\ slot' = [slot EXCEPT ![r] = 0]
  /\ UNCHANGED <<reqVars, memVars, pending, out, ptr, sum, vector, disk,
                 overwrites>>

\* reset_entry of afs_write_request.
WriteReset(r) ==
  /\ state[r] = "writereset"
  /\ slot[r] < NumCarriers - 1
  /\ FreeEntry(r)
  /\ slot' = [slot EXCEPT ![r] = @ + 1]
  /\ UNCHANGED <<state, reqVars, memVars, pending, out, sum, disk, overwrites>>

\* Mutant of WriteResetLast: nobody cleans up after the error.
WriteResetStuck(r) ==
  /\ Goto(r, "writereset", "stuck")
  /\ slot[r] = NumCarriers - 1
  /\ FreeEntry(r)
  /\ slot' = [slot EXCEPT ![r] = 0]
  /\ UNCHANGED <<reqVars, memVars, pending, out, sum, disk, overwrites>>

\* The last carrier pointer; afs_flightq sees the error and cleans up, which
\* ends the bio without an error.
WriteResetLast(r) ==
  /\ state[r] = "writereset"
  /\ slot[r] = NumCarriers - 1
  /\ FreeEntry(r)
  /\ slot' = [slot EXCEPT ![r] = 0]
  /\ Clean(r)
  /\ UNCHANGED <<reqVars, pending, out, sum, disk, overwrites>>

\* A carrier block has been written: afs_write_endio.
WriteBio(r, i) ==
  /\ state[r] = "writing"
  /\ i \in pending[r]
  /\ pending[r] # {i}
  /\ disk' = [disk EXCEPT ![nums[r][i]] = carriers[r][i]]
  /\ pending' = [pending EXCEPT ![r] = @ \ {i}]
  /\ UNCHANGED <<state, reqVars, memVars, slot, out, ptr, sum, vector,
                 overwrites>>

\* Mutant of WriteBioLast: the checksums in the map entry stay the old ones.
WriteBioUnsummed(r, i) ==
  /\ state[r] = "writing"
  /\ pending[r] = {i}
  /\ disk' = [disk EXCEPT ![nums[r][i]] = carriers[r][i]]
  /\ pending' = [pending EXCEPT ![r] = {}]
  /\ Clean(r)
  /\ UNCHANGED <<reqVars, slot, out, ptr, sum, vector, overwrites>>

\* The last one also stores the checksums of all pages and cleans up.
WriteBioLast(r, i) ==
  /\ state[r] = "writing"
  /\ pending[r] = {i}
  /\ disk' = [disk EXCEPT ![nums[r][i]] = carriers[r][i]]
  /\ pending' = [pending EXCEPT ![r] = {}]
  /\ sum' = [sum EXCEPT ![block[r]] = carriers[r]]
  /\ Clean(r)
  /\ UNCHANGED <<reqVars, slot, out, ptr, vector, overwrites>>

-----------------------------------------------------------------------------

\* The passive file system, which knows the listed blocks as free, uses one.
PassiveOverwrite(k) ==
  /\ overwrites < MaxOverwrites
  /\ overwrites' = overwrites + 1
  /\ disk' = [disk EXCEPT ![BlockList[k]] = JunkPage]
  /\ UNCHANGED <<state, reqVars, memVars, slot, pending, out, ptr, sum, vector>>

Submit(r) ==
  \E o \in {"read", "write"}, b \in Blocks, offset \in Sectors :
    \E count \in 1 .. SectorsPerBlock : afs_map(r, o, b, offset, count)

Handle(r) ==
  \/ ReadUnmapped(r)
  \/ ReadMapped(r)
  \/ Lookup(r)
  \/ \E i \in Slots : ReadBio(r, i)
  \/ DecodeIntact(r)
  \/ DecodeCorrupted(r)
  \/ \E k \in Indices : RebuildMap(r, k)
  \/ RebuildNoSpace(r)
  \/ RebuildReset(r)
  \/ WriteStart(r)
  \/ WriteMapOld(r)
  \/ \E k \in Indices : WriteMapNew(r, k)
  \/ WriteNoSpace(r)
  \/ WriteReset(r)
  \/ WriteResetLast(r)
  \/ \E i \in Slots : WriteBio(r, i)
  \/ \E i \in Slots : WriteBioLast(r, i)

Next ==
  \/ \E r \in Reqs : Submit(r) \/ Handle(r)
  \/ \E k \in Indices : PassiveOverwrite(k)

Spec == Init /\ [][Next]_vars

\* Work items run and bios complete.
FairSpec == Spec /\ \A r \in Reqs : WF_vars(Handle(r))

-----------------------------------------------------------------------------

(***************************************************************************)
(* Safety.                                                                 *)
(***************************************************************************)

\* No block number is the list index of another block.  It is so when every free
\* block of the passive file system lies beyond block ListLen.
NumbersBeyondIndices ==
  \A k \in Indices : BlockList[k] = k \/ BlockList[k] >= ListLen

\* No carrier block belongs to two map entries, or twice to one, although
\* afs_write_request and rebuild_blocks store the pointers one by one while
\* other requests acquire and free blocks, and reset_entry frees by number.
CarriersExclusive ==
  \A b, c \in Blocks : \A i, j \in Slots :
    ptr[b][i] # AFS_INVALID_BLOCK /\ ptr[b][i] = ptr[c][j] => b = c /\ i = j

\* The blocks write_super_block took for the metadata never become carriers.
MetadataUntouched ==
  \A b \in Blocks : \A i \in Slots : \A k \in Reserved : ptr[b][i] # BlockList[k]

\* A carrier bio in flight (write_pages) goes to a block that the request's own
\* map entry still names: it cannot land in what another request has acquired
\* meanwhile.
WritesStayHome ==
  \A r \in Reqs : state[r] = "writing" =>
    \A i \in pending[r] : nums[r][i] = ptr[block[r]][i]

\* No request for block b is being processed.
Quiet(b) == \A r \in Reqs : state[r] \in Active => block[r] # b

OnDisk(b) == [i \in Slots |-> disk[ptr[b][i]]]

\* Whatever requests have come to an end, and with or without space: a block at
\* rest has no carrier block or all of them, and then its carrier blocks are the
\* shares of one encoding and agree with the checksums (afs_write_endio).
RestingBlocksIntact ==
  \A b \in Blocks : Quiet(b) =>
    \/ \A i \in Slots : ptr[b][i] = AFS_INVALID_BLOCK
    \/ /\ \A i \in Slots : ptr[b][i] # AFS_INVALID_BLOCK
       /\ OnDisk(b) = sum[b]
       /\ \E r \in Reqs : sum[b] = Encode(r, sum[b][0].data)

(***************************************************************************)
(* What comments and documentation say of the engine and the code does not *)
(* do.  Each is refuted by a run of its own.                               *)
(***************************************************************************)

\* "This provides us with m-n redundant blocks" (README.md:98): a read whose
\* checksums show that no more than the redundant shares are lost decodes to the
\* data that was written.
LossTolerated ==
  \A r \in Reqs :
    /\ state[r] = "cryptoq"
    /\ Cardinality(Corrupted(r)) <= NumCarriers - 2
    /\ sum[block[r]][0].by # NoReq
    => Decode(carriers[r]) = sum[block[r]][0].data

(***************************************************************************)
(* Refinement.  A write takes effect when its carrier bios are submitted;  *)
(* until the last pointer of a first write is stored, and while the        *)
(* pointers of a failed one are reset, the block counts as unmapped.       *)
(***************************************************************************)

Writer(b) == {r \in Reqs : block[r] = b /\ state[r] = "writing"}

Unfinished(b) ==
  \E r \in Reqs :
    /\ block[r] = b
    /\ \/ state[r] = "mapping" /\ ~ modification[r]
       \/ state[r] = "writereset"

Store(b) ==
  IF Writer(b) # {} THEN data[CHOOSE r \in Writer(b) : TRUE]
  ELSE IF Unfinished(b) \/ ~ Mapped(b) THEN NoReq
  ELSE Decode(OnDisk(b))

Phase(r) ==
  IF state[r] \in {"new", "done"} THEN state[r]
  ELSE IF state[r] = "writing" THEN "effective" ELSE "pending"

Device == INSTANCE BlockDevice
            WITH Unmapped <- NoReq,
                 phase <- [r \in Reqs |-> Phase(r)],
                 store <- [b \in Blocks |-> Store(b)]

\* Reads and writes of whole blocks are atomic: a read returns what the last
\* write stored, in whatever order carrier bios complete and acquisitions of
\* several requests interleave; only a first write can be lost.
DeviceSpec == Device!Spec

(***************************************************************************)
(* Liveness.                                                               *)
(***************************************************************************)

\* Every request that afs_map has queued is cleaned up, which ends its bio.
RequestsEnd == \A r \in Reqs : state[r] = "flightq" ~> state[r] = "done"
=============================================================================
