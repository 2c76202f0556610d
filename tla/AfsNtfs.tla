------------------------------ MODULE AfsNtfs -------------------------------
(***************************************************************************)
(* NTFS detection, src/modules/dm_afs_ntfs.c: parse the boot sector, read  *)
(* the first records of the master file table, read the data of $Bitmap    *)
(* through the run lists of its attributes, and list the blocks of the     *)
(* clusters whose bit is clear.                                            *)
(*                                                                         *)
(* A run is a pair of an offset and a length as they are stored.  Buffers  *)
(* come from vmalloc, so they end at a page and an access behind them      *)
(* faults; what has not been read into them is arbitrary.  The allocation  *)
(* of the list is checked and may fail, the others succeed.                *)
(***************************************************************************)
EXTENDS AfsPassiveFs, FiniteSets

\* A file record of the master file table: its size, and its attributes.  The data
\* of an attribute are in the record (bits are the bits set in them) or in runs
\* of clusters, each a first cluster and a length.
Attribute ==
  [type : {"data", "other", "done"}, length : Nat, nonresident : BOOLEAN,
   start_vcn : Nat, actual_size : Nat, runs : Seq(Nat \X Nat), bits : SUBSET Nat]

FileRecord == [allocated_size : Nat, attrs : Seq(Attribute)]

ASSUME RecordsAssumption ==
  \A d \in Devices :
    /\ \A n \in DOMAIN d.mft : d.mft[n] \in FileRecord
    /\ d.boot.ntfs_oem => {0, 6} \subseteq DOMAIN d.mft

VARIABLES
  ntfspc,   \* where afs_ntfs_detect is; "yes", "no" or "oops" when it is done
  nvol,     \* struct ntfs_volume
  attr,     \* the attribute of $Bitmap that read_file looks at
  run,      \* the run of that attribute
  lcn,      \* how many clusters of the run have been read
  written,  \* amt_written of read_nonresident_data
  got,      \* buffer_offset of read_file: the bytes read before this attribute
  bitmap,   \* the bits set in the buffer
  unused,   \* total_unused_clusters
  pos,      \* the bit the last loop of extract_bitmap looks at
  found     \* empty_blocks

ntfsvars == <<ntfspc, nvol, attr, run, lcn, written, got, bitmap, unused, pos, found>>

NtfsNoVolume == [bytes_per_cluster |-> 1, cluster_count |-> 0,
                 mft_record_size |-> 0, blocks_per_cluster |-> 0,
                 records_per_cluster |-> 0]

Smaller(x, y) == IF x < y THEN x ELSE y

-----------------------------------------------------------------------------
\* The field is a __u8: every value but 0 is positive.
NtfsRecordSize(b) ==
  IF b.clusters_per_record > 0
  THEN (b.bytes_sec * b.sec_cluster * b.clusters_per_record) % U32
  ELSE 1

\* The assertions on the boot sector of read_boot_sector.
NtfsBootValid(b) ==
  /\ b.ntfs_oem
  /\ b.num_tables = 0 /\ b.max_root_ent = 0
  /\ b.total_sectors = 0 /\ b.sec_fat = 0
  /\ (b.bytes_sec * b.sec_cluster) % PageBytes = 0

NtfsReject ==
  /\ ntfspc = "boot"
  /\ ~ NtfsBootValid(disk.boot)
  /\ ntfspc' = "no"
  /\ UNCHANGED <<disk, fs, nvol, attr, run, lcn, written, got, bitmap, unused, pos, found>>

\* read_boot_sector divides by the sectors of a cluster and by the record size.
NtfsReadBootSector ==
  /\ ntfspc = "boot"
  /\ NtfsBootValid(disk.boot)
  /\ LET b     == disk.boot
         bytes == b.bytes_sec * b.sec_cluster
     IN  IF b.sec_cluster = 0 \/ NtfsRecordSize(b) = 0
         THEN ntfspc' = "oops" /\ UNCHANGED nvol
         ELSE /\ nvol' = [bytes_per_cluster |-> bytes,
                          cluster_count |-> b.sectors_64 \div b.sec_cluster,
                          mft_record_size |-> NtfsRecordSize(b),
                          blocks_per_cluster |-> (bytes \div PageBytes) % 256,
                          records_per_cluster |-> (bytes \div NtfsRecordSize(b)) % 256]
              /\ ntfspc' = "mft"
  /\ UNCHANGED <<disk, fs, attr, run, lcn, written, got, bitmap, unused, pos, found>>

\* The first half of ntfs_map: read the records and compare the record size with
\* the one the first record states.  read_mft_records divides by the records
\* per cluster.
NtfsMap ==
  /\ ntfspc = "mft"
  /\ ntfspc' = CASE nvol.records_per_cluster = 0 -> "oops"
                 [] nvol.records_per_cluster # 0
                    /\ disk.mft[0].allocated_size # nvol.mft_record_size -> "no"
                 [] OTHER -> "file"
  /\ attr' = 1 /\ run' = 1 /\ lcn' = 0
  /\ written' = 0 /\ got' = 0
  /\ bitmap' = {}
  /\ UNCHANGED <<disk, fs, nvol, unused, pos, found>>

-----------------------------------------------------------------------------
\* The buffer of extract_bitmap, as asked for and as vmalloc rounds it.
NtfsMax == nvol.cluster_count \div 8

NtfsBuffer == ((NtfsMax + PageBytes - 1) \div PageBytes) * PageBytes

NtfsAttrs == disk.mft[6].attrs

\* read_file is at a $DATA attribute whose data are in clusters.
NtfsAtRuns ==
  /\ attr <= Len(NtfsAttrs)
  /\ NtfsAttrs[attr].type = "data" /\ NtfsAttrs[attr].nonresident

\* amt_to_read; max - buffer_offset is unsigned there.
NtfsToRead ==
  IF got > NtfsMax THEN NtfsAttrs[attr].actual_size
  ELSE Smaller(NtfsMax - got, NtfsAttrs[attr].actual_size)

\* Mutant of NtfsRunsLeft: a run list is left after its first cluster.
NtfsRunsLeftOne ==
  /\ NtfsAttrs[attr].start_vcn = 0
  /\ run <= Len(NtfsAttrs[attr].runs)
  /\ written = 0

\* read_nonresident_data refuses a run list that does not begin the file.
NtfsRunsLeft ==
  /\ NtfsAttrs[attr].start_vcn = 0
  /\ run <= Len(NtfsAttrs[attr].runs)
  /\ written = 0 \/ written < NtfsToRead

\* read_ntfs_cluster: the block a cluster begins at.
NtfsClusterBlock(c) == (c * nvol.blocks_per_cluster) % U32

\* The next cluster of a run.  The loop of read_ntfs_cluster counts bytes against
\* blocks and stops after the first page; what lies behind it in the buffer
\* is arbitrary.  The offset of every run is taken as a cluster number.
NtfsReadCluster ==
  /\ ntfspc = "file"
  /\ NtfsAtRuns /\ NtfsRunsLeft
  /\ lcn < NtfsAttrs[attr].runs[run][2]
  /\ LET at   == got + written
         page == ReadPage(NtfsClusterBlock(NtfsAttrs[attr].runs[run][1] + lcn), 0)
     IN  IF at + PageBytes > NtfsBuffer
         THEN ntfspc' = "oops" /\ UNCHANGED bitmap
         ELSE /\ \E junk \in BOOLEAN :
                   bitmap' = bitmap
                     \cup {8 * at + x : x \in page}
                     \cup (IF junk THEN 8 * (at + PageBytes)
                                        .. 8 * (at + nvol.bytes_per_cluster) - 1
                                   ELSE {})
              /\ UNCHANGED ntfspc
  /\ lcn' = lcn + 1
  /\ written' = written + nvol.bytes_per_cluster
  /\ UNCHANGED <<disk, fs, nvol, attr, run, got, unused, pos, found>>

NtfsNextRun ==
  /\ ntfspc = "file"
  /\ NtfsAtRuns /\ NtfsRunsLeft
  /\ lcn >= NtfsAttrs[attr].runs[run][2]
  /\ run' = run + 1
  /\ lcn' = 0
  /\ UNCHANGED <<disk, fs, ntfspc, nvol, attr, written, got, bitmap, unused, pos, found>>

\* What read_file adds to buffer_offset for the attribute it leaves: the bytes of
\* a run list, or, for data in the record, what follows the header, up to the
\* length of the whole attribute.
NtfsAdded ==
  LET a == NtfsAttrs[attr]
  IN  CASE NtfsAtRuns -> written
        [] a.type = "data" /\ ~ a.nonresident -> Smaller(NtfsMax - got, a.length)
        [] OTHER -> 0

\* read_file is behind the last attribute, at the end mark, or has no room for
\* data in the record.
NtfsFileEnds ==
  attr <= Len(NtfsAttrs) =>
    \/ NtfsAttrs[attr].type = "done"
    \/ ~ (NtfsAtRuns /\ NtfsRunsLeft) /\ NtfsAdded < 0

\* Mutant of NtfsAttrAfter: a length of 0 is added to the offset like any other.
NtfsAttrAfterStuck == IF NtfsAttrs[attr].length = 0 THEN attr ELSE attr + 1

\* An attribute without length ends the loop of read_file.
NtfsAttrAfter ==
  IF NtfsAttrs[attr].length = 0 THEN Len(NtfsAttrs) + 1 ELSE attr + 1

\* read_file goes on with the next attribute, over those it does not know.
NtfsNextAttr ==
  /\ ntfspc = "file"
  /\ ~ NtfsFileEnds
  /\ ~ (NtfsAtRuns /\ NtfsRunsLeft)
  /\ got' = got + NtfsAdded
  /\ attr' = NtfsAttrAfter
  /\ run' = 1 /\ lcn' = 0 /\ written' = 0
  /\ bitmap' = IF NtfsAtRuns THEN bitmap
               ELSE bitmap \cup {8 * got + x : x \in {y \in NtfsAttrs[attr].bits :
                                                       y < 8 * NtfsAdded}}
  /\ UNCHANGED <<disk, fs, ntfspc, nvol, unused, pos, found>>

\* Mutant of NtfsClearBits: the bits that are set are counted.
NtfsSetBits == Cardinality(bitmap \cap (0 .. 8 * got - 1))

\* The first loop of extract_bitmap.
NtfsClearBits == 8 * got - Cardinality(bitmap \cap (0 .. 8 * got - 1))

\* The end of read_file, and the count of the clear bits in extract_bitmap.
NtfsCount ==
  /\ ntfspc = "file"
  /\ NtfsFileEnds
  /\ unused' = NtfsClearBits
  /\ pos' = 0
  /\ found' = <<>>
  /\ ntfspc' = CASE got = 0 -> "no"
                 [] got > NtfsBuffer -> "oops"
                 [] OTHER -> "list"
  /\ UNCHANGED <<disk, fs, nvol, attr, run, lcn, written, got, bitmap>>

\* Mutant of NtfsNoMemory: fs is filled in before the list is there.
NtfsNoMemoryFilled ==
  /\ ntfspc = "list"
  /\ pos = 0
  /\ ntfspc' = "no"
  /\ fs' = [fs EXCEPT !.list_len = unused]
  /\ UNCHANGED <<disk, nvol, attr, run, lcn, written, got, bitmap, unused, pos, found>>

\* The list cannot be allocated; without an unused cluster it has no size.
NtfsNoMemory ==
  /\ ntfspc = "list"
  /\ pos = 0
  /\ ntfspc' = "no"
  /\ UNCHANGED <<disk, fs, nvol, attr, run, lcn, written, got, bitmap, unused, pos, found>>

\* One cluster in the last loop of extract_bitmap; its blocks are appended if
\* its bit is clear.  The list is given up if the count above was wrong.
NtfsScan ==
  /\ ntfspc = "list"
  /\ unused > 0
  /\ pos < 8 * got
  /\ LET n    == nvol.blocks_per_cluster
         more == IF pos \in bitmap THEN <<>>
                 ELSE [k \in 1 .. n |-> (pos * n + k - 1) % U32]
     IN  IF Len(found) + Len(more) > unused * n
         THEN ntfspc' = "no" /\ UNCHANGED found
         ELSE found' = found \o more /\ UNCHANGED ntfspc
  /\ pos' = pos + 1
  /\ UNCHANGED <<disk, fs, nvol, attr, run, lcn, written, got, bitmap, unused>>

\* The length handed over counts clusters.
NtfsFill ==
  /\ ntfspc = "list"
  /\ unused > 0
  /\ pos >= 8 * got
  /\ fs' = [block_list |-> found, list_len |-> unused % U32,
            total_blocks |-> (nvol.cluster_count * nvol.blocks_per_cluster) % U32,
            sectors_per_block |-> SectorsPerBlock, data_start_off |-> 0]
  /\ ntfspc' = "yes"
  /\ UNCHANGED <<disk, nvol, attr, run, lcn, written, got, bitmap, unused, pos, found>>

NtfsInit ==
  /\ ntfspc = "boot"
  /\ nvol = NtfsNoVolume
  /\ attr = 1 /\ run = 1 /\ lcn = 0
  /\ written = 0 /\ got = 0
  /\ bitmap = {}
  /\ unused = 0 /\ pos = 0
  /\ found = <<>>

\* A call of afs_ntfs_detect begins.
NtfsStart ==
  /\ ntfspc' = "boot"
  /\ nvol' = NtfsNoVolume
  /\ attr' = 1 /\ run' = 1 /\ lcn' = 0
  /\ written' = 0 /\ got' = 0
  /\ bitmap' = {}
  /\ unused' = 0 /\ pos' = 0
  /\ found' = <<>>

NtfsNext ==
  \/ NtfsReject \/ NtfsReadBootSector \/ NtfsMap \/ NtfsReadCluster \/ NtfsNextRun
  \/ NtfsNextAttr \/ NtfsCount \/ NtfsNoMemory \/ NtfsScan \/ NtfsFill

-----------------------------------------------------------------------------
\* A volume the module can read: a cluster is one block, and $Bitmap is one run
\* of clusters that covers the volume, in the part of the device read_page
\* reaches (4 GB); the number of every cluster is a uint32_t, of those the last
\* page of $Bitmap has bits for as well.
NtfsWholeBitmap(n) ==
  LET a == NtfsAttrs[n]
  IN  /\ a.type = "data" /\ a.nonresident
      /\ a.start_vcn = 0
      /\ Len(a.runs) = 1
      /\ a.actual_size >= nvol.cluster_count \div 8
      /\ 8 * PageBytes * a.runs[1][2] >= nvol.cluster_count
      /\ (a.runs[1][1] + a.runs[1][2]) * PageBytes <= U32
      /\ \A k \in (1 .. Len(NtfsAttrs)) \ {n} : NtfsAttrs[k].type # "data"
      /\ \A k \in 1 .. n : NtfsAttrs[k].type # "done" /\ NtfsAttrs[k].length # 0

NtfsRegular ==
  /\ disk.boot.bytes_sec * disk.boot.sec_cluster = PageBytes
  /\ nvol.cluster_count + 8 * PageBytes <= U32
  /\ \E n \in 1 .. Len(NtfsAttrs) : NtfsWholeBitmap(n)

NtfsBitmapRun ==
  (CHOOSE n \in 1 .. Len(NtfsAttrs) : NtfsAttrs[n].type = "data")

\* What $Bitmap says of a cluster.
NtfsUsed(c) ==
  LET first == NtfsAttrs[NtfsBitmapRun].runs[1][1]
      block == first + c \div (8 * PageBytes)
  IN  block \in DOMAIN disk.pages /\ c % (8 * PageBytes) \in disk.pages[block]

\* On such a volume the list names each cluster below a multiple of eight that
\* $Bitmap says is unused, no cluster of the volume that it says is used, and
\* none twice, however many clusters $Bitmap takes and whatever attributes its
\* record has besides.
NtfsListUnused ==
  ntfspc = "yes" /\ NtfsRegular =>
    /\ fs.list_len = Len(fs.block_list)
    /\ Ascending(fs.block_list)
    /\ \A c \in 0 .. 8 * (nvol.cluster_count \div 8) - 1 :
         c \in Elements(fs.block_list) <=> ~ NtfsUsed(c)

\* The two passes of extract_bitmap agree: the second one never gives up because
\* of the first one's count, and fills the list to the last entry, whatever
\* lies in the buffer and however many blocks a cluster has.
NtfsPassesAgree ==
  /\ ntfspc = "no" => pos = 0
  /\ ntfspc = "yes" => Len(found) = unused * nvol.blocks_per_cluster

=============================================================================
