------------------------------ MODULE AfsFat32 ------------------------------
(***************************************************************************)
(* FAT32 detection, src/modules/dm_afs_fat32.c: parse the boot sector,     *)
(* read the pages that hold the first file allocation table, and list the  *)
(* clusters whose entry is 0.                                              *)
(*                                                                         *)
(* The kmallocs of this module are not checked (IS_ERR is tested where     *)
(* NULL is returned); they succeed here.                                   *)
(***************************************************************************)
EXTENDS AfsPassiveFs

VARIABLES
  fatpc,   \* where afs_fat32_detect is; "yes", "no" or "oops" when it is done
  vol,     \* struct fat_volume
  words,   \* how many words fat_data holds, 0 while it is NULL
  cluster, \* i of the loop in fat_map
  empty    \* empty_clusters

fatvars == <<fatpc, vol, words, cluster, empty>>

NoVolume == [bytes_sector |-> 0, sec_cluster |-> 1, reserved |-> 0, tables |-> 0,
             sec_fat |-> 0, num_data_clusters |-> 0]

-----------------------------------------------------------------------------
\* Mutant of FatReadDos20Bpb: the number of tables is not checked.
FatReadDos20BpbTables(b) ==
  /\ b.bytes_sec \in {32, 64, 128, 256, 512, 1024, 2048, 4096}
  /\ b.sec_cluster \in {1, 2, 4, 8, 16, 32, 64, 128}

\* fat_read_dos_2_0_bpb: powers of two within bounds, one or two tables.
FatReadDos20Bpb(b) ==
  /\ b.bytes_sec \in {32, 64, 128, 256, 512, 1024, 2048, 4096}
  /\ b.sec_cluster \in {1, 2, 4, 8, 16, 32, 64, 128}
  /\ b.num_tables \in {1, 2}

\* fat_read_fat32_ebpb; 16#ffff stands for no information sector.
FatReadFat32Ebpb(b) ==
  /\ b.version = 0
  /\ b.root_start_clust # 0
  /\ b.fs_info_sec \notin {0, 65535} => b.bytes_sec >= 512

\* fat_read_dos_3_31_bpb: the 32-bit count is used where the 16-bit one is 0.
FatTotalSec(b) == IF b.total_sectors = 0 THEN b.total_sec_32 ELSE b.total_sectors

FatSecFat(b) == IF b.sec_fat_32 # 0 THEN b.sec_fat_32 ELSE b.sec_fat

\* Mutant of FatDataSectors: the copies of the table are not counted.
FatDataSectorsOneTable(b) ==
  (FatTotalSec(b) - b.res_sec - FatSecFat(b)
     - (b.max_root_ent * 32) \div b.bytes_sec) % U32

\* num_data_sectors, a uint32_t.
FatDataSectors(b) ==
  (FatTotalSec(b) - b.res_sec - FatSecFat(b) * b.num_tables
     - (b.max_root_ent * 32) \div b.bytes_sec) % U32

FatVolume(b) ==
  [bytes_sector |-> b.bytes_sec, sec_cluster |-> b.sec_cluster,
   reserved |-> b.res_sec, tables |-> b.num_tables, sec_fat |-> FatSecFat(b),
   num_data_clusters |-> FatDataSectors(b) \div b.sec_cluster]

FatReadBootSector ==
  /\ fatpc = "boot"
  /\ FatReadDos20Bpb(disk.boot) /\ FatReadFat32Ebpb(disk.boot)
  /\ vol' = FatVolume(disk.boot)
  /\ fatpc' = "map"
  /\ UNCHANGED <<disk, fs, words, cluster, empty>>

FatReject ==
  /\ fatpc = "boot"
  /\ ~ (FatReadDos20Bpb(disk.boot) /\ FatReadFat32Ebpb(disk.boot))
  /\ fatpc' = "no"
  /\ UNCHANGED <<disk, fs, vol, words, cluster, empty>>

-----------------------------------------------------------------------------
FatOffset == vol.reserved * vol.bytes_sector

FatLead == FatOffset % PageBytes   \* fat_offset - fat_aligned_offset

FatSizeBytes == (vol.sec_fat * vol.bytes_sector) % U32

\* Mutant of FatPageNumber: the page the table ends in is not counted.
FatPageNumberFloor == (FatSizeBytes + FatLead) \div PageBytes

FatPageNumber == (FatSizeBytes + FatLead) \div PageBytes + 1

\* The first half of fat_map.  The pages are read only if the table does not
\* end within the first one; otherwise fat_data stays NULL.
FatMap ==
  /\ fatpc = "map"
  /\ words' = IF FatOffset + FatSizeBytes > PageBytes
              THEN FatPageNumber * (PageBytes \div 4) ELSE 0
  /\ cluster' = 0
  /\ empty' = <<>>
  /\ fatpc' = "scan"
  /\ UNCHANGED <<disk, fs, vol>>

\* p[i]: fat_data begins at the page that holds the first word of the table.
FatWord(i) ==
  LET w == i - FatLead \div 4
  IN  IF w < 0 THEN disk.front
      ELSE IF w \in DOMAIN disk.fat THEN disk.fat[w] ELSE disk.front

\* One turn of the loop of fat_map.  Nothing compares the number of clusters
\* with the size of the table: a read behind the pages is a fault.
FatScan ==
  /\ fatpc = "scan"
  /\ cluster < vol.num_data_clusters
  /\ IF cluster < words
     THEN /\ empty' = IF FatWord(cluster) = 0 THEN Append(empty, cluster) ELSE empty
          /\ cluster' = cluster + 1
          /\ UNCHANGED fatpc
     ELSE fatpc' = "oops" /\ UNCHANGED <<cluster, empty>>
  /\ UNCHANGED <<disk, fs, vol, words>>

\* The loop is over, and afs_fat32_detect fills in fs.
FatFill ==
  /\ fatpc = "scan"
  /\ cluster >= vol.num_data_clusters
  /\ fs' = [block_list |-> empty, list_len |-> Len(empty),
            total_blocks |-> vol.num_data_clusters,
            sectors_per_block |-> vol.sec_cluster,
            data_start_off |-> vol.tables * vol.sec_fat + vol.reserved]
  /\ fatpc' = "yes"
  /\ UNCHANGED <<disk, vol, words, cluster, empty>>

FatInit ==
  /\ fatpc = "boot"
  /\ vol = NoVolume
  /\ words = 0
  /\ cluster = 0
  /\ empty = <<>>

\* A call of afs_fat32_detect begins.
FatStart ==
  /\ fatpc' = "boot"
  /\ vol' = NoVolume
  /\ words' = 0
  /\ cluster' = 0
  /\ empty' = <<>>

FatNext == FatReadBootSector \/ FatReject \/ FatMap \/ FatScan \/ FatFill

-----------------------------------------------------------------------------
\* The data sectors and the clusters of a volume d, and whether its table has an
\* entry for each of them and for the two numbers before the first cluster.
FatSectors(d) ==
  FatTotalSec(d.boot) - d.boot.res_sec - FatSecFat(d.boot) * d.boot.num_tables

FatClusters(d) == FatSectors(d) \div d.boot.sec_cluster

FatTableCovers(d) ==
  /\ d.boot.max_root_ent = 0
  /\ FatSectors(d) >= 0
  /\ FatClusters(d) + 2 <= (FatSecFat(d.boot) * d.boot.bytes_sec) \div 4
  /\ 0 .. FatClusters(d) + 1 \subseteq DOMAIN d.fat
  /\ FatSecFat(d.boot) * d.boot.bytes_sec < U32
  /\ FatTotalSec(d.boot) < U32

\* Where the table begins at a page, the list afs_fat32_detect hands over is
\* exactly the numbers below num_data_clusters whose entry is 0, in order and
\* without repetition: no free cluster is missed and no used one is listed,
\* whichever page of the table an entry lies in.
FatListExact ==
  fatpc = "yes" /\ FatTableCovers(disk)
  /\ (disk.boot.res_sec * disk.boot.bytes_sec) % PageBytes = 0 =>
    /\ fs.list_len = Len(fs.block_list)
    /\ Ascending(fs.block_list)
    /\ Elements(fs.block_list) = {c \in 0 .. FatClusters(disk) - 1 : disk.fat[c] = 0}

\* fat_map reads no word behind the pages it mapped and writes no entry behind
\* empty_clusters, which has the size of the table, provided the table covers
\* the clusters and does not end within the first page, wherever it begins.
FatInBounds ==
  fatpc \in {"scan", "yes", "oops"} /\ FatTableCovers(disk)
  /\ (disk.boot.res_sec + FatSecFat(disk.boot)) * disk.boot.bytes_sec > PageBytes =>
    /\ fatpc # "oops"
    /\ Len(empty) <= FatSizeBytes \div 4

=============================================================================
