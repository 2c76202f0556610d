------------------------------ MODULE MCDetect ------------------------------
(***************************************************************************)
(* Devices for AfsDetect.  A page has 64 bytes and a sector 32; uint32_t   *)
(* wraps at 8192.  A table of file allocation has 16 entries in a page, a  *)
(* table of group descriptors one or two, a page of $Bitmap 512 bits.      *)
(***************************************************************************)
EXTENDS AfsDetect

Page == 64
Sector == 32
Wrap == 8192

\* A device with nothing on it.
Blank ==
  [kind |-> "none",
   boot |-> [bytes_sec |-> 0, sec_cluster |-> 0, res_sec |-> 0, num_tables |-> 0,
             max_root_ent |-> 0, total_sectors |-> 0, total_sec_32 |-> 0,
             sec_fat |-> 0, sec_fat_32 |-> 0, version |-> 0,
             root_start_clust |-> 0, fs_info_sec |-> 0, ntfs_oem |-> FALSE,
             sectors_64 |-> 0, clusters_per_record |-> 0],
   fat |-> <<>>, front |-> 1,
   sb |-> [magic |-> FALSE, incompat_64bit |-> FALSE, sparse_super |-> FALSE,
           first_data_block |-> 0, blocks_count |-> 0, free_blocks_count |-> 0,
           reserved_gdt_blocks |-> 0, blk_sz |-> 64, blocks_per_group |-> 8,
           desc_size |-> 0],
   gdt |-> <<>>, pages |-> <<>>, mft |-> <<>>]

-----------------------------------------------------------------------------
\* FAT32: clusters of two sectors; used is the set of used cluster numbers.
Fat(reserved, tables, sectors, clusters, used) ==
  [Blank EXCEPT
    !.kind = "FS_FAT32",
    !.boot.bytes_sec = 32, !.boot.sec_cluster = 2, !.boot.res_sec = reserved,
    !.boot.num_tables = tables, !.boot.sec_fat_32 = sectors,
    !.boot.total_sec_32 = reserved + tables * sectors + 2 * clusters,
    !.boot.root_start_clust = 2,
    !.fat = [c \in 0 .. 8 * sectors - 1 |-> IF c < 2 \/ c \in used THEN 1 ELSE 0]]

\* Every table over six clusters, and tables of three sectors, the second page of
\* which begins at entry 16; two copies of the table or one.
FatAligned ==
  {Fat(2, t, 1, 6, used) : t \in {1, 2}, used \in SUBSET (2 .. 7)}
    \cup {Fat(4, 2, 3, 21, used) : used \in {{}, {2, 15, 16, 22}, 2 .. 22}}

\* Tables that begin within a page, end within the first one, or are too short;
\* more sectors reserved than there are; a boot sector with a wrong field; and
\* a FAT32 volume made where an ext4 file system was.
FatOther ==
  {Fat(3, 2, 1, 6, {2, 5}), Fat(3, 1, 3, 21, {2, 15, 16}), Fat(1, 1, 1, 6, {2}),
   Fat(2, 1, 1, 30, {2}),
   [Fat(2, 2, 1, 6, {2, 4}) EXCEPT !.boot.total_sec_32 = 3],
   [Fat(2, 2, 1, 6, {2, 4}) EXCEPT !.boot.version = 1],
   [Fat(2, 2, 1, 6, {2, 4}) EXCEPT !.boot.fs_info_sec = 1],
   [Fat(2, 2, 1, 6, {2, 4}) EXCEPT !.boot.total_sectors = 16, !.boot.total_sec_32 = 0,
                                   !.boot.sec_fat = 1, !.boot.sec_fat_32 = 0],
   [Fat(2, 2, 1, 6, {2, 4}) EXCEPT !.sb.magic = TRUE]}

-----------------------------------------------------------------------------
\* ext4: the bitmap of group g is in block 40 + g, bits[g + 1] its bits.  The free
\* count of the superblock is right.
Ext4(wide, sparse, count, reserve, bits) ==
  LET d == [Blank EXCEPT
             !.kind = "FS_EXT4", !.sb.magic = TRUE,
             !.sb.incompat_64bit = wide, !.sb.desc_size = IF wide THEN 64 ELSE 0,
             !.sb.sparse_super = sparse, !.sb.blocks_count = count,
             !.sb.reserved_gdt_blocks = reserve,
             !.gdt = [g \in 0 .. Len(bits) - 1 |-> [lo |-> 40 + g, hi |-> 0]],
             !.pages = [b \in 40 .. 39 + Len(bits) |-> bits[b - 39]]]
  IN  [d EXCEPT !.sb.free_blocks_count = Cardinality(Ext4FreeBlocks(d))]

\* Three groups of eight blocks, the last one partial or whole; the bitmaps may
\* or may not mark the backups themselves.
Ext4Small ==
  {Ext4(wide, sparse, 20, 1, <<0 .. 6, one, {2} \cup two \cup (4 .. 7)>>) :
     wide \in BOOLEAN, sparse \in BOOLEAN, one \in SUBSET {0, 1, 6},
     two \in SUBSET {0, 3}}
    \cup {Ext4(FALSE, TRUE, 24, 1, <<0 .. 6, {0, 7}, two>>) : two \in {{}, 1 .. 4, {7}}}

\* Ten groups, which take in the groups 3, 5, 7 and 9.
Ext4Large ==
  {Ext4(FALSE, TRUE, 79, 0, <<0 .. 6, {}, {1}, {7}, {}, {6}, {0, 1}, {}, {}, {7}>>)}

\* A free count of 0, groups without blocks, a bitmap out of reach, and a free
\* count that is too small.
Ext4Other ==
  LET d == Ext4(FALSE, TRUE, 20, 1, <<0 .. 6, {1}, 4 .. 7>>)
  IN  {[d EXCEPT !.sb.free_blocks_count = 0],
       [d EXCEPT !.sb.blocks_per_group = 0],
       [d EXCEPT !.gdt[1].lo = 4100],
       [d EXCEPT !.sb.free_blocks_count = 1],
       Ext4(FALSE, TRUE, 20, 1, <<0 .. 7, 0 .. 7, 0 .. 7>>)}

-----------------------------------------------------------------------------
Data(actual, runs) ==
  [type |-> "data", length |-> 72, nonresident |-> TRUE, start_vcn |-> 0,
   actual_size |-> actual, runs |-> runs, bits |-> {}]

Resident(length, bits) ==
  [type |-> "data", length |-> length, nonresident |-> FALSE, start_vcn |-> 0,
   actual_size |-> 0, runs |-> <<>>, bits |-> bits]

Other(length) == [Resident(length, {}) EXCEPT !.type = "other"]

End == [Other(0) EXCEPT !.type = "done"]

\* NTFS: clusters of the given number of sectors; $Bitmap in clusters 5 and on.
\* The high words of the sector count are where FAT32 has its root cluster.
Ntfs(clusters, sectors, attrs, used) ==
  [Blank EXCEPT
    !.kind = "FS_NTFS",
    !.boot.bytes_sec = 32, !.boot.sec_cluster = sectors, !.boot.ntfs_oem = TRUE,
    !.boot.sectors_64 = clusters * sectors, !.boot.root_start_clust = 1,
    !.boot.sec_fat_32 = 1, !.boot.clusters_per_record = 1,
    !.mft = [n \in {0, 6} |->
               [allocated_size |-> 32 * sectors,
                attrs |-> IF n = 6 THEN attrs ELSE <<End>>]],
    !.pages = [b \in {5 * (sectors \div 2), 6 * (sectors \div 2)} |->
                 {c % 512 : c \in {u \in used :
                    u \div 512 = b \div (sectors \div 2) - 5}}]]

NtfsSmall ==
  {Ntfs(20, 2, <<Other(24), Data(8, <<<<5, 1>>>>), Other(24), End>>, used \cup (24 .. 511)) :
     used \in {{}, {0, 7, 8, 19}, 0 .. 15}}

\* Slack that is not marked; two clusters of bitmap, in one run or in two, or in
\* two attributes; clusters of two blocks, with a buffer of one page and of two.
NtfsLarge ==
  {Ntfs(20, 2, <<Data(8, <<<<5, 1>>>>)>>, {0, 3} \cup (64 .. 511)),
   Ntfs(528, 2, <<Data(72, <<<<5, 2>>>>), End>>, {0} \cup (9 .. 518) \cup (530 .. 1023)),
   Ntfs(528, 2, <<Data(72, <<<<5, 1>>, <<1, 1>>>>), End>>, 3 .. 1023),
   Ntfs(528, 2, <<Data(64, <<<<5, 1>>>>), Data(64, <<<<6, 1>>>>), End>>, 3 .. 1023),
   Ntfs(20, 4, <<Data(8, <<<<5, 1>>>>), End>>, {0}),
   Ntfs(528, 4, <<Data(72, <<<<5, 1>>>>), End>>, 2 .. 511)}

\* Data in the record; no data; a run list that does not begin the file; records
\* of 2^10 bytes; a record size the table does not confirm; a cluster of half a
\* block or of no sector; and an attribute without length.
NtfsOther ==
  {Ntfs(16, 2, <<Resident(24, 3 .. 100), End>>, {}),
   Ntfs(16, 2, <<Other(24)>>, {}),
   Ntfs(16, 2, <<Other(0), Data(8, <<<<5, 1>>>>)>>, {}),
   Ntfs(16, 2, <<[Data(8, <<<<5, 1>>>>) EXCEPT !.start_vcn = 1], End>>, {}),
   [Ntfs(16, 2, <<End>>, {}) EXCEPT !.boot.clusters_per_record = 246],
   [Ntfs(16, 2, <<End>>, {}) EXCEPT !.mft[0].allocated_size = 1024],
   [Ntfs(16, 2, <<End>>, {}) EXCEPT !.boot.sec_cluster = 1],
   [Ntfs(16, 2, <<End>>, {}) EXCEPT !.boot.sec_cluster = 0]}

MCDevices ==
  {Blank} \cup FatAligned \cup FatOther \cup Ext4Small \cup Ext4Large \cup Ext4Other
    \cup NtfsSmall \cup NtfsLarge \cup NtfsOther

=============================================================================
