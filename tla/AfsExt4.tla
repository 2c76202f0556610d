------------------------------ MODULE AfsExt4 -------------------------------
(***************************************************************************)
(* ext4 detection, src/modules/dm_afs_ext4.c: read the superblock and the  *)
(* group descriptors, then, group by group, the bitmap of the group into a *)
(* bit vector, and list the blocks whose bit is clear.                     *)
(*                                                                         *)
(* The static variable is_64bit outlives a detection.  Of the allocations, *)
(* the code checks those of the bit vector and of the list, which may fail *)
(* here; the others test IS_ERR where NULL is returned, and succeed.       *)
(***************************************************************************)
EXTENDS AfsPassiveFs, FiniteSets

\* The fields of the superblock and of a group descriptor that the module reads;
\* magic and the two features stand for the tests on them.
Superblock ==
  [magic : BOOLEAN, incompat_64bit : BOOLEAN, sparse_super : BOOLEAN,
   first_data_block : Nat, blocks_count : Nat, free_blocks_count : Nat,
   reserved_gdt_blocks : Nat, blk_sz : Nat \ {0}, blocks_per_group : Nat,
   desc_size : Nat]

GroupDesc == [lo : Nat, hi : Nat]

ASSUME SuperblockAssumption ==
  \A d \in Devices :
    d.sb \in Superblock /\ \A g \in DOMAIN d.gdt : d.gdt[g] \in GroupDesc

VARIABLES
  ext4pc,    \* where afs_ext4_detect is; "yes", "no" or "oops" when it is done
  is_64bit,  \* static, never reset
  sum,       \* struct ext4_disk
  gd_arr,    \* the bitmap blocks of the group descriptors
  grp,       \* i of read_bitmaps
  bit,       \* j of read_bitmaps
  bvec,      \* the bits set in the bit vector
  blocks     \* block_list, a local variable of read_bitmaps

ext4vars == <<ext4pc, sum, gd_arr, grp, bit, bvec, blocks>>

NoSummary == [first_data_block |-> 0, free_block_count |-> 0,
              reserved_gdt_blocks |-> 0, blk_sz |-> 1, num_grp_descs |-> 0,
              grp_desc_sz |-> 1, blks_per_grp |-> 0, is_sparse_super |-> FALSE]

NoDesc == [lo |-> 0, hi |-> 0]

-----------------------------------------------------------------------------
Ext4Reject ==
  /\ ext4pc = "super"
  /\ ~ disk.sb.magic
  /\ ext4pc' = "no"
  /\ UNCHANGED <<disk, fs, is_64bit, sum, gd_arr, grp, bit, bvec, blocks>>

\* read_superblock: is_64bit is set for a 64-bit device and left alone otherwise.
Ext4ReadSuperblock ==
  /\ ext4pc = "super"
  /\ disk.sb.magic
  /\ is_64bit' = (is_64bit \/ disk.sb.incompat_64bit)
  /\ ext4pc' = "disk"
  /\ UNCHANGED <<disk, fs, sum, gd_arr, grp, bit, bvec, blocks>>

\* The number of groups is rounded up by the count of free blocks.
Ext4NumGrpDescs(sb) ==
  sb.blocks_count \div sb.blocks_per_group
    + (IF sb.free_blocks_count % sb.blocks_per_group = 0 THEN 0 ELSE 1)

\* new_disk divides by the group size, whatever it is.
Ext4NewDisk ==
  /\ ext4pc = "disk"
  /\ LET sb == disk.sb
     IN  IF sb.blocks_per_group = 0
         THEN ext4pc' = "oops" /\ UNCHANGED sum
         ELSE /\ sum' = [first_data_block |-> sb.first_data_block,
                         free_block_count |-> sb.free_blocks_count,
                         reserved_gdt_blocks |-> sb.reserved_gdt_blocks,
                         blk_sz |-> sb.blk_sz,
                         num_grp_descs |-> Ext4NumGrpDescs(sb),
                         grp_desc_sz |-> IF is_64bit THEN sb.desc_size ELSE 32,
                         blks_per_grp |-> sb.blocks_per_group,
                         is_sparse_super |-> sb.sparse_super]
              /\ ext4pc' = "descs"
  /\ UNCHANGED <<disk, fs, is_64bit, gd_arr, grp, bit, bvec, blocks>>

\* The descriptor at a byte of the device; the rest of the table is zeros.
Ext4DescAt(byte) ==
  LET size == IF disk.sb.incompat_64bit THEN disk.sb.desc_size ELSE 32
      at   == byte - disk.sb.blk_sz
  IN  IF at >= 0 /\ at % size = 0 /\ at \div size \in DOMAIN disk.gdt
      THEN disk.gdt[at \div size] ELSE NoDesc

\* Mutant of Ext4DescByte: the sector offset does not move on with the pages.
Ext4DescByteFirst(c) ==
  PageBytes + sum.grp_desc_sz * (c % (sum.blk_sz \div sum.grp_desc_sz))

\* read_group_descs takes descriptor c from the page after the first one and
\* the pages behind it, as many from each as fit into a block.
Ext4DescByte(c) ==
  LET per == sum.blk_sz \div sum.grp_desc_sz   \* num_gds_per_blk
  IN  PageBytes * (1 + c \div per) + sum.grp_desc_sz * (c % per)

\* A size of 0 is divided by.
Ext4ReadGroupDescs ==
  /\ ext4pc = "descs"
  /\ IF sum.grp_desc_sz = 0
     THEN ext4pc' = "oops" /\ UNCHANGED gd_arr
     ELSE /\ gd_arr' = [c \in 0 .. sum.num_grp_descs - 1 |->
                           Ext4DescAt(Ext4DescByte(c))]
          /\ ext4pc' = "bitmaps"
  /\ UNCHANGED <<disk, fs, is_64bit, sum, grp, bit, bvec, blocks>>

-----------------------------------------------------------------------------
\* read_bitmaps allocates the bit vector and a list of free_block_count entries
\* (vmalloc of nothing fails).
Ext4Allocate ==
  /\ ext4pc = "bitmaps"
  /\ sum.free_block_count > 0
  /\ bvec' = {}
  /\ blocks' = <<>>
  /\ grp' = 0
  /\ ext4pc' = "group"
  /\ UNCHANGED <<disk, fs, is_64bit, sum, gd_arr, bit>>

\* An allocation fails: the answer is still that this is ext4.
Ext4NoMemory ==
  /\ ext4pc = "bitmaps"
  /\ ext4pc' = "yes"
  /\ UNCHANGED <<disk, fs, is_64bit, sum, gd_arr, grp, bit, bvec, blocks>>

\* is_pow_n holds for 1, since 1 is divided by nothing.
Ext4IsPowN(num, n) == \E e \in 0 .. num : num = n^e

Ext4HasBackups(g) == g = 0 \/ \E n \in {3, 5, 7} : Ext4IsPowN(g, n)

\* The blocks the table of group descriptors takes; what remains of the last
\* one counts if a whole descriptor is in it.
Ext4GdBlks ==
  LET bytes == sum.num_grp_descs * sum.grp_desc_sz
  IN  bytes \div sum.blk_sz
        + (IF (bytes % sum.blk_sz) \div sum.grp_desc_sz # 0 THEN 1 ELSE 0)

\* bit_vector_set refuses an index above the length only.
Ext4Settable == 0 .. sum.blks_per_grp

\* Mutant of Ext4BackupBits: the reserved blocks are not set as in use.
Ext4BackupBitsNoReserve(g) ==
  IF sum.is_sparse_super /\ Ext4HasBackups(g)
  THEN 0 .. Ext4GdBlks ELSE {}

\* The superblock, the descriptors and the reserved blocks behind them.
Ext4BackupBits(g) ==
  IF sum.is_sparse_super /\ Ext4HasBackups(g)
  THEN 0 .. Ext4GdBlks + sum.reserved_gdt_blocks ELSE {}

Ext4BitmapBlock(g) == gd_arr[g].lo + (IF is_64bit THEN gd_arr[g].hi * U32 ELSE 0)

\* read_bitmap adds the bits of the group to the vector.
Ext4ReadBitmap ==
  /\ ext4pc = "group"
  /\ grp < sum.num_grp_descs
  /\ bvec' = bvec
       \cup (ReadPage(0, Ext4BitmapBlock(grp) * SectorsPerBlock)
               \cap (0 .. sum.blks_per_grp - 1))
       \cup (Ext4BackupBits(grp) \cap Ext4Settable)
  /\ bit' = 0
  /\ ext4pc' = "bits"
  /\ UNCHANGED <<disk, fs, is_64bit, sum, gd_arr, grp, blocks>>

\* The number listed for a bit of a group; the product is a uint32_t.
Ext4Block(g, j) == ((sum.blks_per_grp * g) % U32) + j + sum.first_data_block

\* One turn of the inner loop: list the block if its bit is clear, and clear it.
Ext4Bit ==
  /\ ext4pc = "bits"
  /\ bit < sum.blks_per_grp
  /\ blocks' = IF bit \notin bvec /\ Ext4Block(grp, bit) < U32
               THEN Append(blocks, Ext4Block(grp, bit)) ELSE blocks
  /\ bvec' = bvec \ {bit}
  /\ bit' = bit + 1
  /\ UNCHANGED <<disk, fs, ext4pc, is_64bit, sum, gd_arr, grp>>

Ext4NextGroup ==
  /\ ext4pc = "bits"
  /\ bit >= sum.blks_per_grp
  /\ grp' = grp + 1
  /\ ext4pc' = "group"
  /\ UNCHANGED <<disk, fs, is_64bit, sum, gd_arr, bit, bvec, blocks>>

\* The end of read_bitmaps.  A second list is allocated only to be replaced by
\* the first; if that fails, fs has a length and no list.
Ext4Fill ==
  /\ ext4pc = "group"
  /\ grp >= sum.num_grp_descs
  /\ \E ok \in BOOLEAN :
       /\ ok => Len(blocks) > 0
       /\ fs' = [fs EXCEPT !.list_len = Len(blocks),
                           !.block_list = IF ok THEN blocks ELSE <<>>]
  /\ ext4pc' = "yes"
  /\ UNCHANGED <<disk, is_64bit, sum, gd_arr, grp, bit, bvec, blocks>>

Ext4Init ==
  /\ ext4pc = "super"
  /\ sum = NoSummary
  /\ gd_arr = <<>>
  /\ grp = 0
  /\ bit = 0
  /\ bvec = {}
  /\ blocks = <<>>

\* A call of afs_ext4_detect begins.
Ext4Start ==
  /\ ext4pc' = "super"
  /\ sum' = NoSummary
  /\ gd_arr' = <<>>
  /\ grp' = 0
  /\ bit' = 0
  /\ bvec' = {}
  /\ blocks' = <<>>

Ext4Next ==
  \/ Ext4Reject \/ Ext4ReadSuperblock \/ Ext4NewDisk \/ Ext4ReadGroupDescs
  \/ Ext4Allocate \/ Ext4NoMemory \/ Ext4ReadBitmap \/ Ext4Bit \/ Ext4NextGroup
  \/ Ext4Fill

-----------------------------------------------------------------------------
\* What ext4 itself says of a device d: its groups, and the blocks of a group that
\* are neither marked in its bitmap nor part of a backup.
Ext4Groups(d) ==
  (d.sb.blocks_count + d.sb.blocks_per_group - 1) \div d.sb.blocks_per_group

Ext4DescBytes(d) == IF d.sb.incompat_64bit THEN d.sb.desc_size ELSE 32

Ext4TableBlocks(d) ==
  (Ext4Groups(d) * Ext4DescBytes(d) + d.sb.blk_sz - 1) \div d.sb.blk_sz

Ext4Backups(upto) == {0} \cup {n^e : n \in {3, 5, 7}, e \in 0 .. upto}

Ext4Free(d, g) ==
  {j \in 0 .. d.sb.blocks_per_group - 1 :
     /\ j \notin d.pages[d.gdt[g].lo]
     /\ d.sb.sparse_super /\ g \in Ext4Backups(g) =>
          j > Ext4TableBlocks(d) + d.sb.reserved_gdt_blocks}

Ext4FreeBlocks(d) ==
  {d.sb.blocks_per_group * x[1] + x[2] + d.sb.first_data_block :
     x \in {y \in (0 .. Ext4Groups(d) - 1) \X (0 .. d.sb.blocks_per_group - 1) :
             y[2] \in Ext4Free(d, y[1])}}

\* The devices the list can be right for.  Blocks are as large as a page and hold
\* a whole number of descriptors, as the comments of read_group_descs take for
\* granted.  The number of groups comes out right only if the last group is
\* partial exactly when the count of free blocks is not a multiple of the group
\* size.  Every group has a descriptor and a bitmap, below the sector numbers
\* that wrap (2 TB), and the number of every block is a uint32_t.  The static
\* flag agrees with the width of this device.
Ext4Regular ==
  /\ disk.sb.blk_sz = PageBytes
  /\ PageBytes % Ext4DescBytes(disk) = 0
  /\ Ext4NumGrpDescs(disk.sb) = Ext4Groups(disk)
  /\ \A g \in 0 .. Ext4Groups(disk) - 1 :
       /\ g \in DOMAIN disk.gdt
       /\ disk.gdt[g].hi = 0 /\ disk.gdt[g].lo * SectorsPerBlock < U32
       /\ disk.gdt[g].lo \in DOMAIN disk.pages
  /\ disk.sb.blocks_per_group * Ext4Groups(disk) + disk.sb.first_data_block <= U32
  /\ is_64bit = disk.sb.incompat_64bit

\* If afs_ext4_detect hands over a list, it is exactly the free blocks of all
\* groups, in order and without repetition: the one bit vector that serves all
\* groups is clean at the start of each, descriptors on a later page of the
\* table are found, and no copy of the superblock, of the table or of its
\* reserve is listed.
Ext4ListExact ==
  ext4pc = "yes" /\ fs.block_list # <<>> /\ Ext4Regular =>
    /\ fs.list_len = Len(fs.block_list)
    /\ Ascending(fs.block_list)
    /\ Elements(fs.block_list) = Ext4FreeBlocks(disk)

\* The list read_bitmaps writes never outgrows the array it allocated from the
\* free count of the superblock, in any group, when that count is right.
Ext4Fits ==
  /\ ext4pc \in {"group", "bits", "yes"}
  /\ Ext4Regular
  /\ disk.sb.free_blocks_count = Cardinality(Ext4FreeBlocks(disk))
  => Len(blocks) <= sum.free_block_count

=============================================================================
