-------------------------- MODULE AfsDetectProofs ---------------------------
(***************************************************************************)
(* Proofs about detect_fs for every device: the lists of the FAT32 and the *)
(* ext4 module, the bounds of their accesses and allocations, and what a   *)
(* module that refuses a device leaves behind.  AfsNtfsProofs has the NTFS *)
(* module.                                                                 *)
(***************************************************************************)
EXTENDS AfsDetect, FiniteSetTheorems, TLAPS

\* Quotient and remainder.
LEMMA DivisionFacts ==
  ASSUME NEW x \in Nat, NEW b \in Nat \ {0}
  PROVE  /\ x \div b \in Nat
         /\ x < (x \div b + 1) * b
         /\ (x \div b) * b <= x
         /\ x % b \in 0 .. b - 1
OBVIOUS

\* A number below the modulus is its own remainder.
LEMMA SmallModulo ==
  ASSUME NEW x \in Nat, NEW b \in Nat \ {0}, x < b
  PROVE  x % b = x
OBVIOUS

\* The words of the pages that fat_map maps reach behind the last cluster.
LEMMA WordsCover ==
  ASSUME NEW size \in Nat, NEW lead \in Nat, NEW clusters \in Nat,
         clusters + 2 <= size \div 4
  PROVE  clusters < ((size + lead) \div PageBytes + 1) * (PageBytes \div 4)
<1> DEFINE pages == (size + lead) \div PageBytes + 1
           words_in_page == PageBytes \div 4
<1>1. PageBytes \in Nat \ {0} /\ PageBytes = 4 * words_in_page /\ words_in_page \in Nat
  BY PageAssumption
<1> DEFINE end == size + lead
<1>0. end \in Nat
  OBVIOUS
<1> HIDE DEF end
<1>2. pages \in Nat /\ end < pages * PageBytes
  <2>1. end \div PageBytes \in Nat /\ end < (end \div PageBytes + 1) * PageBytes
    BY Zenon, <1>0, <1>1, DivisionFacts
  <2>2. QED
    BY <2>1 DEF end
<1>3. 4 * (clusters + 2) <= size
  OBVIOUS
<1> HIDE DEF pages, words_in_page
<1>4. pages * PageBytes = 4 * (pages * words_in_page)
  BY <1>1, <1>2
<1>5. pages * words_in_page \in Nat
  BY <1>1, <1>2
<1>6. clusters < pages * words_in_page
  <2>1. end = size + lead
    BY Zenon DEF end
  <2>2. QED
    BY <2>1, <1>2, <1>3, <1>4, <1>5
<1>7. QED
  BY Zenon, <1>6 DEF pages, words_in_page

\* The fields of the volume are numbers once read_boot_sector has run.
LEMMA VolumeTyped ==
  ASSUME NEW d \in Devices, FatReadDos20Bpb(d.boot)
  PROVE  /\ FatVolume(d.boot).num_data_clusters \in Nat
         /\ FatSecFat(d.boot) \in Nat /\ FatTotalSec(d.boot) \in Nat
         /\ d.boot.bytes_sec \in Nat \ {0} /\ d.boot.sec_cluster \in Nat \ {0}
         /\ d.boot.res_sec \in Nat /\ d.boot.num_tables \in Nat
<1>1. /\ FatSecFat(d.boot) \in Nat /\ FatTotalSec(d.boot) \in Nat
      /\ d.boot.res_sec \in Nat /\ d.boot.num_tables \in Nat
  BY Zenon, BootAssumption DEF BootSector, FatSecFat, FatTotalSec
<1>2. d.boot.bytes_sec \in Nat \ {0} /\ d.boot.sec_cluster \in Nat \ {0}
  BY DEF FatReadDos20Bpb
<1> DEFINE root == (d.boot.max_root_ent * 32) \div d.boot.bytes_sec
           sectors == FatTotalSec(d.boot) - d.boot.res_sec
                        - FatSecFat(d.boot) * d.boot.num_tables - root
<1>3. sectors % U32 \in Nat
  <2>1. d.boot.max_root_ent \in Nat
    BY Zenon, BootAssumption DEF BootSector
  <2>2. root \in Nat
    <3>1. d.boot.max_root_ent * 32 \in Nat
      BY <2>1
    <3>2. QED
      BY Zenon, <1>2, <3>1, DivisionFacts
  <2>3. FatSecFat(d.boot) * d.boot.num_tables \in Nat
    BY <1>1
  <2> HIDE DEF root
  <2>4. sectors \in Int
    BY <1>1, <2>2, <2>3
  <2> HIDE DEF sectors
  <2>5. QED
    BY <2>4, U32Assumption
<1>4. FatDataSectors(d.boot) \in Nat
  BY Zenon, <1>3 DEF FatDataSectors
<1>5. FatDataSectors(d.boot) \div d.boot.sec_cluster \in Nat
  BY Zenon, <1>2, <1>4, DivisionFacts
<1>6. QED
  BY Zenon, <1>1, <1>2, <1>5 DEF FatVolume

\* On a volume whose table covers its clusters fat_map stays within what it mapped.
LEMMA CoveredVolume ==
  ASSUME NEW d \in Devices, FatReadDos20Bpb(d.boot), FatTableCovers(d)
  PROVE  FatVolume(d.boot).num_data_clusters = FatClusters(d)
<1>1. /\ FatSecFat(d.boot) \in Nat /\ FatTotalSec(d.boot) \in Nat
      /\ d.boot.res_sec \in Nat /\ d.boot.num_tables \in Nat
      /\ d.boot.bytes_sec \in Nat \ {0}
  BY Zenon, VolumeTyped
<1>2. (d.boot.max_root_ent * 32) \div d.boot.bytes_sec = 0
  <2>1. d.boot.max_root_ent * 32 = 0
    BY DEF FatTableCovers
  <2>2. QED
    BY <1>1, <2>1
<1>3. FatSecFat(d.boot) * d.boot.num_tables \in Nat
  BY <1>1
<1>4. FatSectors(d) \in Nat /\ FatSectors(d) < U32
  BY <1>1, <1>3, U32Assumption DEF FatTableCovers, FatSectors
<1>5. FatDataSectors(d.boot) = FatSectors(d) % U32
  BY <1>1, <1>2, <1>3 DEF FatDataSectors, FatSectors
<1>6. FatDataSectors(d.boot) = FatSectors(d)
  BY Zenon, <1>4, <1>5, U32Assumption, SmallModulo
<1>7. QED
  BY Zenon, <1>6 DEF FatVolume, FatClusters

-----------------------------------------------------------------------------
(* The inductive invariant of the FAT32 module.  While it runs, and after,  *)
(* vol is what the boot sector says; the loop of fat_map has listed exactly *)
(* the entries below cluster that are 0; and no later module runs once the  *)
(* list was handed over.                                                    *)
FatListed ==
  /\ cluster \in Nat
  /\ cluster <= vol.num_data_clusters
  /\ empty \in Seq(Nat)
  /\ Len(empty) <= cluster
  /\ Ascending(empty)
  /\ Elements(empty) = {c \in 0 .. cluster - 1 : FatWord(c) = 0}

\* The words fat_map has mapped.
FatMapped == words = IF FatOffset + FatSizeBytes > PageBytes
                     THEN FatPageNumber * (PageBytes \div 4) ELSE 0

\* The inductive invariant of the FAT32 module.
FatInv ==
  /\ disk \in Devices
  /\ fatpc \in {"boot", "map", "scan", "yes", "no", "oops"}
  /\ fatpc \in {"map", "scan", "yes", "oops"} =>
        FatReadDos20Bpb(disk.boot) /\ vol = FatVolume(disk.boot)
  /\ fatpc \in {"scan", "yes", "oops"} => FatListed /\ FatMapped
  /\ fatpc = "oops" => words <= cluster /\ cluster < vol.num_data_clusters
  /\ fatpc = "yes" => /\ cluster = vol.num_data_clusters
                      /\ fs.block_list = empty /\ fs.list_len = Len(empty)
  /\ stage \in {"ext4", "ntfs"} => fatpc = "no"

\* No detection has begun.
LEMMA FatInvInit == Init => FatInv
BY Zenon DEF Init, FatInit, FatInv

\* Appending a number above all others keeps a list ascending.
LEMMA AppendListed ==
  ASSUME NEW n \in Nat, NEW list \in Seq(Nat), Ascending(list),
         Elements(list) \subseteq 0 .. n - 1
  PROVE  /\ Ascending(Append(list, n))
         /\ Elements(Append(list, n)) = Elements(list) \cup {n}
<1> DEFINE longer == Append(list, n)
<1>1. /\ Len(longer) = Len(list) + 1 /\ Len(list) \in Nat
      /\ \A k \in 1 .. Len(list) : longer[k] = list[k] /\ list[k] \in Nat
      /\ longer[Len(list) + 1] = n
  OBVIOUS
<1>2. \A k \in 1 .. Len(list) : list[k] < n
  BY <1>1 DEF Elements
<1> HIDE DEF longer
<1>3. Ascending(longer)
  <2> SUFFICES ASSUME NEW k \in 1 .. Len(longer) - 1 PROVE longer[k] < longer[k + 1]
    BY Zenon DEF Ascending
  <2>1. CASE k = Len(list)
    BY <1>1, <1>2, <2>1
  <2>2. CASE k # Len(list)
    <3>1. k \in 1 .. Len(list) - 1 /\ k + 1 \in 1 .. Len(list) /\ k \in 1 .. Len(list)
      BY <1>1, <2>2
    <3>2. QED
      BY Zenon, <1>1, <3>1 DEF Ascending
  <2>3. QED
    BY Zenon, <2>1, <2>2
<1>4. Elements(longer) = Elements(list) \cup {n}
  <2>1. 1 .. Len(longer) = (1 .. Len(list)) \cup {Len(list) + 1}
    BY <1>1
  <2>2. ASSUME NEW e \in Elements(longer) PROVE e \in Elements(list) \cup {n}
    BY Zenon, <1>1, <2>1 DEF Elements
  <2>3. ASSUME NEW e \in Elements(list) PROVE e \in Elements(longer)
    BY Zenon, <1>1, <2>1 DEF Elements
  <2>4. n \in Elements(longer)
    BY Zenon, <1>1, <2>1 DEF Elements
  <2>5. QED
    BY Zenon, <2>2, <2>3, <2>4
<1>5. QED
  BY Zenon, <1>3, <1>4 DEF longer

\* read_boot_sector, and what rejects a device.
LEMMA FatBootStep == ASSUME FatInv, stage = "fat32", UNCHANGED stage,
                            FatReadBootSector \/ FatReject PROVE FatInv'
BY Zenon DEF FatInv, FatReadBootSector, FatReject

\* fat_map maps the table.
LEMMA FatMapStep == ASSUME FatInv, stage = "fat32", UNCHANGED stage, FatMap PROVE FatInv'
<1>1. vol.num_data_clusters \in Nat
  BY Zenon, VolumeTyped DEF FatInv, FatMap
<1>2. FatListed'
  <2>1. cluster' = 0 /\ empty' = <<>> /\ vol' = vol
    BY Zenon DEF FatMap
  <2>2. Elements(empty)' = {} /\ Ascending(empty)'
    BY <2>1 DEF Elements, Ascending
  <2>3. {c \in 0 .. cluster - 1 : FatWord(c) = 0}' = {}
    BY <2>1
  <2>4. QED
    BY <1>1, <2>1, <2>2, <2>3 DEF FatListed
<1>3. FatMapped'
  BY Zenon DEF FatMap, FatMapped, FatOffset, FatSizeBytes, FatPageNumber, FatLead
<1>4. QED
  BY Zenon, <1>2, <1>3 DEF FatInv, FatMap

\* One turn of the loop of fat_map.
LEMMA FatScanStep == ASSUME FatInv, stage = "fat32", UNCHANGED stage, FatScan PROVE FatInv'
<1>1. /\ fatpc = "scan" /\ cluster < vol.num_data_clusters
      /\ disk' = disk /\ fs' = fs /\ vol' = vol /\ words' = words
      /\ FatListed /\ FatMapped /\ vol.num_data_clusters \in Nat
      /\ FatReadDos20Bpb(disk.boot) /\ vol = FatVolume(disk.boot) /\ disk \in Devices
  BY Zenon, VolumeTyped DEF FatInv, FatScan
<1>2. FatMapped'
  BY Zenon, <1>1 DEF FatMapped, FatOffset, FatSizeBytes, FatPageNumber, FatLead
<1>3. \A c : FatWord(c)' = FatWord(c)
  BY Zenon, <1>1 DEF FatWord, FatLead, FatOffset
<1>4. CASE cluster < words
  <2>1. /\ empty' = IF FatWord(cluster) = 0 THEN Append(empty, cluster) ELSE empty
        /\ cluster' = cluster + 1 /\ fatpc' = fatpc
    BY Zenon, <1>4 DEF FatScan
  <2>2. /\ cluster \in Nat /\ empty \in Seq(Nat) /\ Len(empty) <= cluster /\ Ascending(empty)
        /\ Elements(empty) = {c \in 0 .. cluster - 1 : FatWord(c) = 0}
    BY Zenon, <1>1 DEF FatListed
  <2> DEFINE Zero(n) == {c \in 0 .. n - 1 : FatWord(c) = 0}
  <2>3. Zero(cluster + 1) = IF FatWord(cluster) = 0 THEN Zero(cluster) \cup {cluster}
                                                    ELSE Zero(cluster)
    <3>1. 0 .. (cluster + 1) - 1 = (0 .. cluster - 1) \cup {cluster}
      BY <2>2
    <3>2. QED
      BY Zenon, <3>1
  <2>4. Zero(cluster)  \subseteq 0 .. cluster - 1
    BY Zenon
  <2>5. {c \in 0 .. cluster - 1 : FatWord(c) = 0}' = Zero(cluster + 1)
    BY Zenon, <1>3, <2>1
  <2> HIDE DEF Zero
  <2>6. Elements(empty) = Zero(cluster)
    BY Zenon, <2>2 DEF Zero
  <2>7. /\ Ascending(empty)' /\ Elements(empty)' = Zero(cluster + 1)
        /\ empty' \in Seq(Nat) /\ Len(empty') <= cluster + 1
    <3>1. CASE FatWord(cluster) = 0
      <4>1. /\ Ascending(Append(empty, cluster))
            /\ Elements(Append(empty, cluster)) = Elements(empty) \cup {cluster}
        BY Zenon, <2>2, <2>4, <2>6, AppendListed
      <4>2. /\ Append(empty, cluster) \in Seq(Nat)
            /\ Len(Append(empty, cluster)) <= cluster + 1
        BY <2>2
      <4>3. empty' = Append(empty, cluster)
        BY Zenon, <2>1, <3>1
      <4>4. Ascending(empty)' /\ Elements(empty)' = Elements(empty) \cup {cluster}
        BY Zenon, <4>1, <4>3 DEF Ascending, Elements
      <4>5. QED
        BY Zenon, <2>3, <2>6, <3>1, <4>2, <4>3, <4>4
    <3>2. CASE FatWord(cluster) # 0
      <4>1. empty' = empty
        BY Zenon, <2>1, <3>2
      <4>2. Ascending(empty)' /\ Elements(empty)' = Elements(empty)
        BY Zenon, <2>2, <4>1 DEF Ascending, Elements
      <4>3. Len(empty) \in Nat /\ Len(empty) <= cluster + 1
        BY <2>2
      <4>4. QED
        BY Zenon, <2>2, <2>3, <2>6, <3>2, <4>1, <4>2, <4>3
    <3>3. QED
      BY Zenon, <3>1, <3>2
  <2>8. FatListed'
    BY <1>1, <2>1, <2>2, <2>5, <2>7 DEF FatListed
  <2>9. QED
    BY Zenon, <1>1, <1>2, <2>1, <2>8 DEF FatInv
<1>5. CASE ~ (cluster < words)
  <2>1. fatpc' = "oops" /\ cluster' = cluster /\ empty' = empty
    BY Zenon, <1>5 DEF FatScan
  <2>2. FatListed'
    BY Zenon, <1>1, <1>3, <2>1 DEF FatListed, Ascending, Elements
  <2>3. words \in Int /\ cluster \in Nat
    <3>1. FatSecFat(disk.boot) \in Nat /\ disk.boot.res_sec \in Nat
          /\ disk.boot.bytes_sec \in Nat /\ PageBytes \in Nat \ {0}
      BY Zenon, <1>1, VolumeTyped, PageAssumption
    <3>2. vol.sec_fat \in Nat /\ vol.reserved \in Nat /\ vol.bytes_sector \in Nat
      BY Zenon, <1>1, <3>1 DEF FatVolume
    <3>3. FatOffset \in Nat /\ vol.sec_fat * vol.bytes_sector \in Nat
      BY <3>2 DEF FatOffset
    <3>4. FatSizeBytes \in Nat /\ FatLead \in Nat
      BY <3>1, <3>3, U32Assumption, DivisionFacts DEF FatSizeBytes, FatLead
    <3>5. FatPageNumber \in Nat
      <4>1. FatSizeBytes + FatLead \in Nat
        BY <3>4
      <4>2. (FatSizeBytes + FatLead) \div PageBytes \in Nat
        BY Zenon, <3>1, <4>1, DivisionFacts
      <4>3. QED
        BY <4>2 DEF FatPageNumber
    <3>6. FatPageNumber * (PageBytes \div 4) \in Int
      BY <3>1, <3>5
    <3>7. QED
      BY <1>1, <3>6 DEF FatMapped, FatListed
  <2>4. words <= cluster
    BY <1>5, <2>3
  <2>5. QED
    BY Zenon, <1>1, <1>2, <2>1, <2>2, <2>4 DEF FatInv
<1>6. QED
  BY Zenon, <1>4, <1>5

\* fat_map hands over its list.
LEMMA FatFillStep == ASSUME FatInv, stage = "fat32", UNCHANGED stage, FatFill PROVE FatInv'
<1>1. /\ disk' = disk /\ vol' = vol /\ words' = words /\ cluster' = cluster /\ empty' = empty
      /\ fatpc = "scan" /\ fatpc' = "yes" /\ cluster >= vol.num_data_clusters
      /\ fs'.block_list = empty /\ fs'.list_len = Len(empty)
  BY Zenon DEF FatFill
<1>2. FatListed /\ FatMapped /\ vol.num_data_clusters \in Nat
  BY Zenon, <1>1, VolumeTyped DEF FatInv
<1>3. cluster = vol.num_data_clusters
  BY <1>1, <1>2 DEF FatListed
<1>4. FatListed' /\ FatMapped'
  BY <1>1, <1>2 DEF FatListed, FatMapped, Ascending, Elements, FatWord, FatLead, FatOffset,
     FatSizeBytes, FatPageNumber
<1>5. QED
  BY Zenon, <1>1, <1>3, <1>4 DEF FatInv

(* A step outside the FAT32 module leaves its list and what it is about     *)
(* alone; fs may change only where the module refused the device.           *)
LEMMA FatFrame ==
  ASSUME FatInv, disk' = disk, UNCHANGED fatvars, fs' = fs \/ fatpc = "no",
         stage' \in {"ext4", "ntfs"} => fatpc = "no"
  PROVE  FatInv'
<1>1. /\ fatpc' = fatpc /\ vol' = vol /\ words' = words /\ cluster' = cluster
      /\ empty' = empty
  BY Zenon DEF fatvars
<1>2. FatListed => FatListed'
  BY Zenon, <1>1 DEF FatListed, Ascending, Elements, FatWord, FatLead, FatOffset
<1>3. FatMapped => FatMapped'
  BY Zenon, <1>1 DEF FatMapped, FatOffset, FatSizeBytes, FatPageNumber, FatLead
<1>4. QED
  BY Zenon, <1>1, <1>2, <1>3 DEF FatInv

\* The ext4 module reads only.
LEMMA Ext4KeepsDisk == ASSUME Ext4Next PROVE disk' = disk
<1>1. CASE Ext4Reject
  BY Zenon, <1>1 DEF Ext4Reject
<1>2. CASE Ext4ReadSuperblock
  BY Zenon, <1>2 DEF Ext4ReadSuperblock
<1>3. CASE Ext4NewDisk
  BY Zenon, <1>3 DEF Ext4NewDisk
<1>4. CASE Ext4ReadGroupDescs
  BY Zenon, <1>4 DEF Ext4ReadGroupDescs
<1>5. CASE Ext4Allocate
  BY Zenon, <1>5 DEF Ext4Allocate
<1>6. CASE Ext4NoMemory
  BY Zenon, <1>6 DEF Ext4NoMemory
<1>7. CASE Ext4ReadBitmap
  BY Zenon, <1>7 DEF Ext4ReadBitmap
<1>8. CASE Ext4Bit
  BY Zenon, <1>8 DEF Ext4Bit
<1>9. CASE Ext4NextGroup
  BY Zenon, <1>9 DEF Ext4NextGroup
<1>10. CASE Ext4Fill
  BY Zenon, <1>10 DEF Ext4Fill
<1>11. QED
  BY Zenon, <1>1, <1>2, <1>3, <1>4, <1>5, <1>6, <1>7, <1>8, <1>9, <1>10 DEF Ext4Next

\* The NTFS module reads only.
LEMMA NtfsKeepsDisk == ASSUME NtfsNext PROVE disk' = disk
<1>1. CASE NtfsReject
  BY Zenon, <1>1 DEF NtfsReject
<1>2. CASE NtfsReadBootSector
  BY Zenon, <1>2 DEF NtfsReadBootSector
<1>3. CASE NtfsMap
  BY Zenon, <1>3 DEF NtfsMap
<1>4. CASE NtfsReadCluster
  BY Zenon, <1>4 DEF NtfsReadCluster
<1>5. CASE NtfsNextRun
  BY Zenon, <1>5 DEF NtfsNextRun
<1>6. CASE NtfsNextAttr
  BY Zenon, <1>6 DEF NtfsNextAttr
<1>7. CASE NtfsCount
  BY Zenon, <1>7 DEF NtfsCount
<1>8. CASE NtfsNoMemory
  BY Zenon, <1>8 DEF NtfsNoMemory
<1>9. CASE NtfsScan
  BY Zenon, <1>9 DEF NtfsScan
<1>10. CASE NtfsFill
  BY Zenon, <1>10 DEF NtfsFill
<1>11. QED
  BY Zenon, <1>1, <1>2, <1>3, <1>4, <1>5, <1>6, <1>7, <1>8, <1>9, <1>10 DEF NtfsNext

\* Every step of detect_fs keeps the invariant of the FAT32 module.
LEMMA FatInvStep == ASSUME FatInv, [Next]_vars PROVE FatInv'
<1>1. ASSUME NEW d \in Devices, DetectFs(d) PROVE FatInv'
  BY Zenon, <1>1 DEF DetectFs, FatStart, FatInv
<1>2. CASE RunFat32
  BY Zenon, <1>2, FatBootStep, FatMapStep, FatScanStep, FatFillStep DEF RunFat32, FatNext
<1>3. CASE RunExt4
  <2>1. stage = "ext4" /\ stage' = stage /\ fatpc = "no" /\ UNCHANGED fatvars
    BY Zenon, <1>3 DEF RunExt4, FatInv
  <2>2. disk' = disk
    BY Zenon, <1>3, Ext4KeepsDisk DEF RunExt4
  <2>3. QED
    BY Zenon, <2>1, <2>2, FatFrame
<1>4. CASE RunNtfs
  <2>1. stage = "ntfs" /\ stage' = stage /\ fatpc = "no" /\ UNCHANGED fatvars
    BY Zenon, <1>4 DEF RunNtfs, FatInv
  <2>2. disk' = disk
    BY Zenon, <1>4, NtfsKeepsDisk DEF RunNtfs
  <2>3. QED
    BY Zenon, <2>1, <2>2, FatFrame
<1>5. CASE Detected
  BY Zenon, <1>5, FatFrame DEF Detected, Locals
<1>6. CASE NotDetected
  <2>1. disk' = disk /\ fs' = fs /\ UNCHANGED fatvars
    BY Zenon, <1>6 DEF NotDetected, Locals
  <2>2. stage \in {"fat32", "ext4", "ntfs"} /\ ModulePc[stage] = "no"
    BY Zenon, <1>6 DEF NotDetected, NextModule
  <2>3. stage = "fat32" => fatpc = "no"
    BY <2>2 DEF ModulePc
  <2>4. fatpc = "no"
    BY Zenon, <2>2, <2>3 DEF FatInv
  <2>5. QED
    BY Zenon, <2>1, <2>4, FatFrame
<1>7. CASE Fault
  BY Zenon, <1>7, FatFrame DEF Fault, Locals
<1>8. CASE UNCHANGED vars
  BY Zenon, <1>8, FatFrame DEF vars, FatInv
<1>9. QED
  BY Zenon, <1>1, <1>2, <1>3, <1>4, <1>5, <1>6, <1>7, <1>8 DEF Next

\* FatInv is an invariant.
LEMMA FatInvariant == Spec => []FatInv
BY FatInvInit, FatInvStep, PTL DEF Spec

(* The list of afs_fat32_detect is exact, for every volume whose table      *)
(* covers its clusters and begins at a page, whatever the page size, the    *)
(* number of clusters and the words of the table.                           *)
THEOREM FatListAlwaysExact == Spec => []FatListExact
<1>1. FatInv => FatListExact
  <2> SUFFICES ASSUME FatInv, fatpc = "yes", FatTableCovers(disk),
                      (disk.boot.res_sec * disk.boot.bytes_sec) % PageBytes = 0
               PROVE  /\ fs.list_len = Len(fs.block_list)
                      /\ Ascending(fs.block_list)
                      /\ Elements(fs.block_list)
                           = {c \in 0 .. FatClusters(disk) - 1 : disk.fat[c] = 0}
    BY Zenon DEF FatListExact
  <2>1. /\ FatListed /\ disk \in Devices /\ FatReadDos20Bpb(disk.boot)
        /\ vol = FatVolume(disk.boot) /\ cluster = vol.num_data_clusters
        /\ fs.block_list = empty /\ fs.list_len = Len(empty)
    BY Zenon DEF FatInv
  <2>2. cluster = FatClusters(disk) /\ cluster \in Nat
    BY Zenon, <2>1, CoveredVolume DEF FatListed
  <2>3. FatLead = 0
    BY Zenon, <2>1 DEF FatLead, FatOffset, FatVolume
  <2>4. \A c \in 0 .. cluster - 1 : FatWord(c) = disk.fat[c]
    BY <2>2, <2>3 DEF FatWord, FatTableCovers
  <2>5. QED
    BY Zenon, <2>1, <2>2, <2>4 DEF FatListed
<1>2. QED
  BY <1>1, FatInvariant, PTL

(* fat_map stays within the pages it mapped and within empty_clusters, for  *)
(* every volume whose table covers its clusters and goes beyond the first   *)
(* page, wherever the table begins.                                         *)
THEOREM FatAlwaysInBounds == Spec => []FatInBounds
<1>1. FatInv => FatInBounds
  <2> SUFFICES ASSUME FatInv, fatpc \in {"scan", "yes", "oops"}, FatTableCovers(disk),
                      (disk.boot.res_sec + FatSecFat(disk.boot)) * disk.boot.bytes_sec > PageBytes
               PROVE  fatpc # "oops" /\ Len(empty) <= FatSizeBytes \div 4
    BY Zenon DEF FatInBounds
  <2>1. /\ FatListed /\ FatMapped /\ disk \in Devices /\ FatReadDos20Bpb(disk.boot)
        /\ vol = FatVolume(disk.boot)
    BY Zenon DEF FatInv
  <2>2. /\ FatSecFat(disk.boot) \in Nat /\ disk.boot.res_sec \in Nat
        /\ disk.boot.bytes_sec \in Nat /\ PageBytes \in Nat \ {0}
    BY Zenon, <2>1, VolumeTyped, PageAssumption
  <2> DEFINE size == FatSecFat(disk.boot) * disk.boot.bytes_sec
             start == disk.boot.res_sec * disk.boot.bytes_sec
             clusters == vol.num_data_clusters
  <2>3. size \in Nat /\ start \in Nat
    BY <2>2
  <2>4. start + size > PageBytes
    BY <2>2
  <2>5. clusters \in Nat /\ clusters + 2 <= size \div 4
    BY Zenon, <2>1, VolumeTyped, CoveredVolume DEF FatTableCovers
  <2>6. FatSizeBytes = size /\ FatOffset = start
    <3>1. size % U32 = size
      BY Zenon, <2>3, U32Assumption, SmallModulo DEF FatTableCovers
    <3>2. vol.sec_fat * vol.bytes_sector = size /\ vol.reserved * vol.bytes_sector = start
      BY Zenon, <2>1 DEF FatVolume
    <3>3. QED
      BY Zenon, <3>1, <3>2 DEF FatSizeBytes, FatOffset
  <2> HIDE DEF size, start, clusters
  <2>7. FatLead \in Nat
    <3>1. start % PageBytes \in 0 .. PageBytes - 1
      BY Zenon, <2>2, <2>3, DivisionFacts
    <3>2. QED
      BY <2>2, <2>6, <3>1 DEF FatLead
  <2>8. words = ((size + FatLead) \div PageBytes + 1) * (PageBytes \div 4)
    BY Zenon, <2>1, <2>4, <2>6 DEF FatMapped, FatPageNumber
  <2>9. clusters < words
    BY Zenon, <2>3, <2>5, <2>7, <2>8, WordsCover
  <2>10. fatpc # "oops"
    <3>1. ASSUME fatpc = "oops" PROVE words <= cluster /\ cluster < clusters
      BY Zenon, <3>1 DEF FatInv, clusters
    <3>2. cluster \in Nat
      BY Zenon, <2>1 DEF FatListed
    <3>3. words \in Int
      <4>1. size + FatLead \in Nat
        BY <2>3, <2>7
      <4>2. (size + FatLead) \div PageBytes \in Nat
        BY Zenon, <2>2, <4>1, DivisionFacts
      <4>3. QED
        BY <2>2, <2>8, <4>2
    <3>4. QED
      BY <2>5, <2>9, <3>1, <3>2, <3>3
  <2>11. Len(empty) <= FatSizeBytes \div 4
    <3>1. Len(empty) \in Nat /\ cluster \in Nat /\ Len(empty) <= cluster
          /\ cluster <= clusters
      BY <2>1 DEF FatListed, clusters
    <3>2. QED
      BY <2>3, <2>5, <2>6, <3>1
  <2>12. QED
    BY Zenon, <2>10, <2>11
<1>2. QED
  BY <1>1, FatInvariant, PTL

-----------------------------------------------------------------------------
(* No module writes fs before the step with which it says yes.              *)
CleanInv ==
  /\ stage = "fat32" /\ fatpc # "yes" => fs = NoFs
  /\ stage = "ext4" /\ ext4pc # "yes" => fs = NoFs
  /\ stage = "ntfs" /\ ntfspc # "yes" => fs = NoFs
  /\ stage = "idle" /\ detected = "FS_ERR" => fs = NoFs
  /\ stage # "idle" => detected = "none"

\* Only the step that accepts a device fills in fs: FAT32.
LEMMA FatLeavesFs == ASSUME FatNext PROVE fatpc # "yes" /\ (fs' = fs \/ fatpc' = "yes")
BY Zenon DEF FatNext, FatReadBootSector, FatReject, FatMap, FatScan, FatFill

\* The same for ext4.
LEMMA Ext4LeavesFs == ASSUME Ext4Next PROVE ext4pc # "yes" /\ (fs' = fs \/ ext4pc' = "yes")
<1>1. CASE Ext4Reject
  BY Zenon, <1>1 DEF Ext4Reject
<1>2. CASE Ext4ReadSuperblock
  BY Zenon, <1>2 DEF Ext4ReadSuperblock
<1>3. CASE Ext4NewDisk
  BY Zenon, <1>3 DEF Ext4NewDisk
<1>4. CASE Ext4ReadGroupDescs
  BY Zenon, <1>4 DEF Ext4ReadGroupDescs
<1>5. CASE Ext4Allocate
  BY Zenon, <1>5 DEF Ext4Allocate
<1>6. CASE Ext4NoMemory
  BY Zenon, <1>6 DEF Ext4NoMemory
<1>7. CASE Ext4ReadBitmap
  BY Zenon, <1>7 DEF Ext4ReadBitmap
<1>8. CASE Ext4Bit
  BY Zenon, <1>8 DEF Ext4Bit
<1>9. CASE Ext4NextGroup
  BY Zenon, <1>9 DEF Ext4NextGroup
<1>10. CASE Ext4Fill
  BY Zenon, <1>10 DEF Ext4Fill
<1>11. QED
  BY Zenon, <1>1, <1>2, <1>3, <1>4, <1>5, <1>6, <1>7, <1>8, <1>9, <1>10 DEF Ext4Next

\* The same for NTFS.
LEMMA NtfsLeavesFs == ASSUME NtfsNext PROVE ntfspc # "yes" /\ (fs' = fs \/ ntfspc' = "yes")
<1>1. CASE NtfsReject
  BY Zenon, <1>1 DEF NtfsReject
<1>2. CASE NtfsReadBootSector
  BY Zenon, <1>2 DEF NtfsReadBootSector
<1>3. CASE NtfsMap
  BY Zenon, <1>3 DEF NtfsMap
<1>4. CASE NtfsReadCluster
  BY Zenon, <1>4 DEF NtfsReadCluster
<1>5. CASE NtfsNextRun
  BY Zenon, <1>5 DEF NtfsNextRun
<1>6. CASE NtfsNextAttr
  BY Zenon, <1>6 DEF NtfsNextAttr
<1>7. CASE NtfsCount
  BY Zenon, <1>7 DEF NtfsCount
<1>8. CASE NtfsNoMemory
  BY Zenon, <1>8 DEF NtfsNoMemory
<1>9. CASE NtfsScan
  BY Zenon, <1>9 DEF NtfsScan
<1>10. CASE NtfsFill
  BY Zenon, <1>10 DEF NtfsFill
<1>11. QED
  BY Zenon, <1>1, <1>2, <1>3, <1>4, <1>5, <1>6, <1>7, <1>8, <1>9, <1>10 DEF NtfsNext

\* Every step keeps fs empty until a module accepts the device.
LEMMA CleanStep == ASSUME CleanInv, [Next]_vars PROVE CleanInv'
<1>1. ASSUME NEW d \in Devices, DetectFs(d) PROVE CleanInv'
  BY Zenon, <1>1 DEF DetectFs, CleanInv
<1>2. CASE RunFat32
  BY Zenon, <1>2, FatLeavesFs DEF RunFat32, CleanInv
<1>3. CASE RunExt4
  BY Zenon, <1>3, Ext4LeavesFs DEF RunExt4, CleanInv
<1>4. CASE RunNtfs
  BY Zenon, <1>4, NtfsLeavesFs DEF RunNtfs, CleanInv
<1>5. CASE Detected
  BY <1>5 DEF Detected, Verdict, CleanInv
<1>6. CASE NotDetected
  <2>1. /\ stage \in {"fat32", "ext4", "ntfs"} /\ ModulePc[stage] = "no"
        /\ stage' = NextModule[stage] /\ fs' = fs
        /\ detected' = IF NextModule[stage] = "idle" THEN "FS_ERR" ELSE detected
    BY Zenon, <1>6 DEF NotDetected, NextModule
  <2>2. CASE stage = "fat32"
    BY Zenon, <2>1, <2>2 DEF ModulePc, NextModule, CleanInv
  <2>3. CASE stage = "ext4"
    BY Zenon, <2>1, <2>3 DEF ModulePc, NextModule, CleanInv
  <2>4. CASE stage = "ntfs"
    BY Zenon, <2>1, <2>4 DEF ModulePc, NextModule, CleanInv
  <2>5. QED
    BY Zenon, <2>1, <2>2, <2>3, <2>4
<1>7. CASE Fault
  BY Zenon, <1>7 DEF Fault, NextModule, CleanInv
<1>8. CASE UNCHANGED vars
  BY Zenon, <1>8 DEF vars, fatvars, ext4vars, ntfsvars, CleanInv
<1>9. QED
  BY Zenon, <1>1, <1>2, <1>3, <1>4, <1>5, <1>6, <1>7, <1>8 DEF Next

(* Whatever is on the device, a module that refuses it leaves nothing in    *)
(* the structure the next module and afs_ctr read.                          *)
THEOREM NothingEverLeftOver == Spec => []NothingLeftOver
<1>1. Init => CleanInv
  BY Zenon DEF Init, CleanInv
<1>2. CleanInv => NothingLeftOver
  BY Zenon DEF CleanInv, NothingLeftOver
<1>3. QED
  BY <1>1, <1>2, CleanStep, PTL DEF Spec

\* Division with remainder.
LEMMA Divided ==
  ASSUME NEW x \in Nat, NEW b \in Nat \ {0}
  PROVE  x = (x \div b) * b + (x % b)
OBVIOUS

\* A quotient and a remainder below b are the only ones.
LEMMA Remainder ==
  ASSUME NEW b \in Nat \ {0}, NEW k \in Nat, NEW c \in 0 .. b - 1
  PROVE  (k * b + c) % b = c /\ (k * b + c) \div b = k
<1> DEFINE x == k * b + c
           e == x \div b
<1>1. x \in Nat /\ k * b \in Nat
  OBVIOUS
<1>2. e \in Nat /\ x < (e + 1) * b /\ e * b <= x /\ x = e * b + (x % b)
  <2> HIDE DEF x
  <2>1. QED
    BY Zenon, <1>1, DivisionFacts, Divided
<1> HIDE DEF e
<1>3. \A d \in Nat : d # 0 => d * b >= b
  <2> TAKE d \in Nat
  <2>1. d # 0 => (d - 1) * b \in Nat /\ d * b = (d - 1) * b + b
    OBVIOUS
  <2>2. QED
    BY <2>1
<1>4. e * b \in Nat /\ (e + 1) * b = e * b + b
      /\ (k > e => (k - e) * b = k * b - e * b)
      /\ (e > k => (e - k) * b = e * b - k * b)
  BY <1>2
<1>5. ~ (k > e)
  <2> SUFFICES ASSUME k > e PROVE FALSE
    BY Zenon
  <2>1. (k - e) * b >= b
    BY <1>2, <1>3
  <2>2. k * b - e * b >= b
    BY Zenon, <2>1, <1>4
  <2> HIDE DEF x
  <2>3. x = k * b + c
    BY Zenon DEF x
  <2>4. QED
    BY <2>2, <2>3, <1>1, <1>2, <1>4
<1>6. ~ (e > k)
  <2> SUFFICES ASSUME e > k PROVE FALSE
    BY Zenon
  <2>1. (e - k) * b >= b
    BY <1>2, <1>3
  <2>2. e * b - k * b >= b
    BY Zenon, <2>1, <1>4
  <2> HIDE DEF x
  <2>3. x = k * b + c
    BY Zenon DEF x
  <2>4. QED
    BY <2>2, <2>3, <1>1, <1>2, <1>4
<1>7. e = k
  BY <1>2, <1>5, <1>6
<1> HIDE DEF x
<1>8. x % b = x - k * b
  <2>1. x % b \in Int
    BY <1>1
  <2>2. QED
    BY <2>1, <1>1, <1>2, <1>7
<1>9. x % b = c
  BY <1>1, <1>8 DEF x
<1>10. QED
  BY Zenon, <1>7, <1>9 DEF e, x

\* Rounding up to whole pieces of size b.
LEMMA RoundedUp ==
  ASSUME NEW x \in Nat, NEW b \in Nat \ {0}
  PROVE  (x + b - 1) \div b = x \div b + (IF x % b = 0 THEN 0 ELSE 1)
<1> DEFINE e == x \div b
           d == x % b
<1>1. e \in Nat /\ d \in 0 .. b - 1 /\ x = e * b + d
  BY Zenon, DivisionFacts, Divided
<1> HIDE DEF e, d
<1>2. CASE d = 0
  <2>1. x + b - 1 = e * b + (b - 1) /\ b - 1 \in 0 .. b - 1
    BY <1>1, <1>2
  <2>2. (e * b + (b - 1)) \div b = e
    BY Zenon, <2>1, <1>1, Remainder
  <2>3. QED
    BY <2>1, <2>2, <1>1, <1>2 DEF e, d
<1>3. CASE d # 0
  <2>1. x + b - 1 = (e + 1) * b + (d - 1) /\ d - 1 \in 0 .. b - 1 /\ e + 1 \in Nat
    <3>1. (e + 1) * b = e * b + b /\ e * b \in Nat
      BY <1>1
    <3>2. QED
      BY <3>1, <1>1, <1>3
  <2>2. ((e + 1) * b + (d - 1)) \div b = e + 1
    BY Zenon, <2>1, Remainder
  <2>3. QED
    BY Zenon, <2>1, <2>2, <1>3 DEF e, d
<1>4. QED
  BY Zenon, <1>2, <1>3

\* In pages of m pieces of size z, a rest of n pieces has a piece if it has a byte.
LEMMA RestOfPieces ==
  ASSUME NEW n \in Nat, NEW m \in Nat \ {0}, NEW z \in Nat \ {0}
  PROVE  ((n * z) % (m * z)) \div z = 0 <=> (n * z) % (m * z) = 0
<1> DEFINE e == n \div m
           d == n % m
<1>1. e \in Nat /\ d \in 0 .. m - 1 /\ n = e * m + d
  BY Zenon, DivisionFacts, Divided
<1> HIDE DEF e, d
<1>2. n * z = e * (m * z) + d * z
  BY <1>1
<1>3. d * z \in 0 .. m * z - 1 /\ m * z \in Nat \ {0}
  <2>1. /\ (m - d - 1) * z \in Nat /\ (m - d - 1) * z = m * z - d * z - z
        /\ d * z \in Nat /\ m * z \in Nat
    BY <1>1
  <2>2. QED
    BY <2>1
<1>4. (n * z) % (m * z) = d * z
  <2> DEFINE M == m * z
             N == d * z
  <2>1. M \in Nat \ {0} /\ N \in 0 .. M - 1 /\ n * z = e * M + N
    BY Zenon, <1>2, <1>3
  <2> HIDE DEF M, N
  <2>2. (e * M + N) % M = N
    BY Zenon, <2>1, <1>1, Remainder
  <2>3. QED
    BY Zenon, <2>1, <2>2 DEF M, N
<1>5. (d * z) \div z = d
  <2>1. d \in Nat /\ 0 \in 0 .. z - 1 /\ d * z + 0 = d * z
    BY <1>1
  <2>2. QED
    BY Zenon, <2>1, Remainder
<1>6. d = 0 <=> d * z = 0
  BY <1>1, <1>3
<1>7. QED
  BY Zenon, <1>4, <1>5, <1>6

\* Piece n of size z lies in page n \div m, at place n % m of the page.
LEMMA PieceInPage ==
  ASSUME NEW n \in Nat, NEW m \in Nat \ {0}, NEW z \in Nat \ {0}
  PROVE  (m * z) * (1 + n \div m) + z * (n % m) - m * z = n * z
<1> DEFINE e == n \div m
           d == n % m
<1>1. e \in Nat /\ d \in 0 .. m - 1 /\ n = e * m + d
  BY Zenon, DivisionFacts, Divided
<1> HIDE DEF e, d
<1>2. (m * z) * (1 + e) + z * d - m * z = (e * m + d) * z
  BY <1>1
<1>3. QED
  BY Zenon, <1>1, <1>2 DEF e, d

(* A list that goes through a set of numbers in order, and has come to k.    *)
Listed(list, set, k) ==
  /\ list \in Seq(Nat)
  /\ Ascending(list)
  /\ Elements(list) = {b \in set : b < k}
  /\ Len(list) = Cardinality({b \in set : b < k})

\* Before the first number of the set the list is empty.
LEMMA ListedNothing ==
  ASSUME NEW set \in SUBSET Nat, NEW k \in Nat, \A b \in set : b >= k
  PROVE  Listed(<<>>, set, k)
<1>1. {b \in set : b < k} = {}
  <2>1. \A b \in set : b \in Nat /\ b >= k
    BY Zenon
  <2>2. \A b \in set : ~ (b < k)
    BY <2>1
  <2>3. QED
    BY Zenon, <2>2
<1>2. Cardinality({}) = 0
  BY Zenon, FS_EmptySet
<1>3. /\ <<>> \in Seq(Nat) /\ Len(<<>>) = 0 /\ Ascending(<<>>)
      /\ Elements(<<>>) = {}
  BY DEF Ascending, Elements
<1>4. QED
  BY Zenon, <1>1, <1>2, <1>3 DEF Listed

\* One more number is appended if it is in the set.
LEMMA ListedNext ==
  ASSUME NEW set \in SUBSET Nat, NEW k \in Nat, NEW list, Listed(list, set, k)
  PROVE  Listed(IF k \in set THEN Append(list, k) ELSE list, set, k + 1)
<1> DEFINE below == {b \in set : b < k}
           upto == {b \in set : b < k + 1}
<1>1. /\ list \in Seq(Nat) /\ Ascending(list) /\ Elements(list) = below
      /\ Len(list) = Cardinality(below)
  BY Zenon DEF Listed
<1>2. CASE k \notin set
  <2>1. upto = below
    <3>1. \A b \in set : b \in Nat /\ b # k
      BY Zenon, <1>2
    <3>2. \A b \in set : b < k + 1 <=> b < k
      BY <3>1
    <3>3. QED
      BY Zenon, <3>2
  <2>2. QED
    BY Zenon, <2>1, <1>1, <1>2 DEF Listed
<1>3. CASE k \in set
  <2>1. upto = below \cup {k} /\ k \notin below /\ below \subseteq 0 .. k - 1
    <3>1. \A b \in set : b \in Nat
      BY Zenon
    <3>2. /\ \A b \in set : b < k + 1 <=> b < k \/ b = k
          /\ \A b \in set : b < k => b \in 0 .. k - 1
          /\ ~ (k < k)
      BY <3>1
    <3>3. QED
      BY Zenon, <1>3, <3>2
  <2>2. IsFiniteSet(below)
    <3>1. IsFiniteSet(0 .. k - 1)
      BY FS_Interval
    <3>2. QED
      BY Zenon, <3>1, <2>1, FS_Subset
  <2> HIDE DEF below, upto
  <2>3. Cardinality(below \cup {k}) = Cardinality(below) + 1
    BY Zenon, <2>1, <2>2, FS_AddElement
  <2>4. /\ Ascending(Append(list, k))
        /\ Elements(Append(list, k)) = below \cup {k}
    BY Zenon, <1>1, <2>1, AppendListed
  <2>5. Append(list, k) \in Seq(Nat) /\ Len(Append(list, k)) = Len(list) + 1
    BY <1>1
  <2>6. Listed(Append(list, k), set, k + 1)
    BY Zenon, <2>1, <2>3, <2>4, <2>5, <1>1 DEF Listed, upto
  <2>7. QED
    BY Zenon, <2>6, <1>3
<1>4. QED
  BY Zenon, <1>2, <1>3

-----------------------------------------------------------------------------
\* struct ext4_disk as new_disk fills it in.
Ext4Summary(sb, wide) ==
  [first_data_block |-> sb.first_data_block,
   free_block_count |-> sb.free_blocks_count,
   reserved_gdt_blocks |-> sb.reserved_gdt_blocks,
   blk_sz |-> sb.blk_sz,
   num_grp_descs |-> Ext4NumGrpDescs(sb),
   grp_desc_sz |-> IF wide THEN sb.desc_size ELSE 32,
   blks_per_grp |-> sb.blocks_per_group,
   is_sparse_super |-> sb.sparse_super]

\* What the first steps of the module leave to read_bitmaps.
Ext4Ready ==
  /\ disk \in Devices
  /\ disk.sb.blocks_per_group # 0
  /\ sum = Ext4Summary(disk.sb, is_64bit)
  /\ sum.grp_desc_sz # 0
  /\ gd_arr = [c \in 0 .. sum.num_grp_descs - 1 |-> Ext4DescAt(Ext4DescByte(c))]

\* The fields of a superblock are numbers.
LEMMA SuperblockTyped ==
  ASSUME disk \in Devices
  PROVE  /\ disk.sb.first_data_block \in Nat /\ disk.sb.blocks_count \in Nat
         /\ disk.sb.free_blocks_count \in Nat /\ disk.sb.reserved_gdt_blocks \in Nat
         /\ disk.sb.blk_sz \in Nat \ {0} /\ disk.sb.blocks_per_group \in Nat
         /\ disk.sb.desc_size \in Nat
         /\ \A g \in DOMAIN disk.gdt : disk.gdt[g].lo \in Nat /\ disk.gdt[g].hi \in Nat
BY Zenon, SuperblockAssumption DEF Superblock, GroupDesc

\* On a regular device the summary says what ext4 says.
LEMMA Ext4Sizes ==
  ASSUME Ext4Ready, Ext4Regular
  PROVE  /\ Ext4Groups(disk) \in Nat /\ sum.num_grp_descs = Ext4Groups(disk)
         /\ sum.grp_desc_sz = Ext4DescBytes(disk) /\ sum.grp_desc_sz \in Nat \ {0}
         /\ sum.blk_sz = PageBytes /\ PageBytes \in Nat \ {0}
         /\ PageBytes \div sum.grp_desc_sz \in Nat \ {0}
         /\ PageBytes = (PageBytes \div sum.grp_desc_sz) * sum.grp_desc_sz
         /\ sum.blks_per_grp = disk.sb.blocks_per_group
         /\ sum.blks_per_grp \in Nat \ {0}
         /\ sum.first_data_block = disk.sb.first_data_block
         /\ sum.first_data_block \in Nat
         /\ sum.reserved_gdt_blocks = disk.sb.reserved_gdt_blocks
         /\ sum.is_sparse_super = disk.sb.sparse_super
<1>1. /\ disk.sb.first_data_block \in Nat /\ disk.sb.blocks_count \in Nat
      /\ disk.sb.blocks_per_group \in Nat \ {0} /\ disk.sb.desc_size \in Nat
  BY Zenon, SuperblockTyped DEF Ext4Ready
<1>2. Ext4Groups(disk) \in Nat
  <2> DEFINE x == disk.sb.blocks_count + disk.sb.blocks_per_group - 1
  <2>1. x \in Nat
    BY <1>1
  <2> HIDE DEF x
  <2>2. x \div disk.sb.blocks_per_group \in Nat
    BY Zenon, <1>1, <2>1, DivisionFacts
  <2>3. QED
    BY Zenon, <2>2 DEF Ext4Groups, x
<1>3. sum = Ext4Summary(disk.sb, is_64bit) /\ sum.grp_desc_sz # 0
  BY Zenon DEF Ext4Ready
<1>4. sum.grp_desc_sz = Ext4DescBytes(disk) /\ sum.grp_desc_sz \in Nat \ {0}
  BY Zenon, <1>1, <1>3 DEF Ext4Summary, Ext4DescBytes, Ext4Regular
<1>5. sum.blk_sz = PageBytes /\ PageBytes \in Nat \ {0} /\ PageBytes % sum.grp_desc_sz = 0
  BY Zenon, <1>3, <1>4, PageAssumption DEF Ext4Summary, Ext4Regular
<1>6. /\ PageBytes \div sum.grp_desc_sz \in Nat \ {0}
      /\ PageBytes = (PageBytes \div sum.grp_desc_sz) * sum.grp_desc_sz
  <2> DEFINE p == PageBytes
             z == sum.grp_desc_sz
             m == p \div z
  <2>1. p \in Nat \ {0} /\ z \in Nat \ {0} /\ p % z = 0
    BY Zenon, <1>4, <1>5
  <2> HIDE DEF p, z
  <2>2. m \in Nat /\ p = m * z + (p % z)
    BY Zenon, <2>1, DivisionFacts, Divided
  <2> HIDE DEF m
  <2>3. p = m * z /\ m # 0
    BY <2>1, <2>2
  <2>4. QED
    BY Zenon, <2>2, <2>3 DEF p, z, m
<1>7. /\ sum.num_grp_descs = Ext4NumGrpDescs(disk.sb)
      /\ sum.blks_per_grp = disk.sb.blocks_per_group
      /\ sum.first_data_block = disk.sb.first_data_block
      /\ sum.reserved_gdt_blocks = disk.sb.reserved_gdt_blocks
      /\ sum.is_sparse_super = disk.sb.sparse_super
  BY Zenon, <1>3 DEF Ext4Summary
<1>8. Ext4NumGrpDescs(disk.sb) = Ext4Groups(disk)
  BY Zenon DEF Ext4Regular
<1>9. QED
  BY Zenon, <1>1, <1>2, <1>4, <1>5, <1>6, <1>7, <1>8

\* read_group_descs finds the descriptor of every group.
LEMMA Ext4DescRight ==
  ASSUME Ext4Ready, Ext4Regular, NEW g \in 0 .. Ext4Groups(disk) - 1
  PROVE  gd_arr[g] = disk.gdt[g]
<1> DEFINE z == sum.grp_desc_sz
           m == PageBytes \div z
<1>1. /\ z \in Nat \ {0} /\ m \in Nat \ {0} /\ PageBytes = m * z
      /\ sum.blk_sz = PageBytes /\ disk.sb.blk_sz = PageBytes
      /\ z = Ext4DescBytes(disk) /\ sum.num_grp_descs = Ext4Groups(disk) /\ g \in Nat
  BY Ext4Sizes DEF Ext4Regular
<1>2. gd_arr[g] = Ext4DescAt(Ext4DescByte(g))
  BY Zenon, <1>1 DEF Ext4Ready
<1>3. Ext4DescByte(g) = PageBytes * (1 + g \div m) + z * (g % m)
  BY Zenon, <1>1 DEF Ext4DescByte
<1> HIDE DEF z, m
<1>4. Ext4DescByte(g) - PageBytes = g * z
  <2>1. (m * z) * (1 + g \div m) + z * (g % m) - m * z = g * z
    BY Zenon, <1>1, PieceInPage
  <2>2. QED
    BY <2>1, <1>1, <1>3
<1>5. (g * z) % z = 0 /\ (g * z) \div z = g /\ g * z >= 0
  <2>1. 0 \in 0 .. z - 1 /\ g * z + 0 = g * z /\ g * z \in Nat
    BY <1>1
  <2>2. (g * z + 0) % z = 0 /\ (g * z + 0) \div z = g
    BY Zenon, <2>1, <1>1, Remainder
  <2>3. QED
    BY <2>1, <2>2
<1>6. g \in DOMAIN disk.gdt
  BY Zenon DEF Ext4Regular
<1>7. Ext4DescAt(Ext4DescByte(g)) = disk.gdt[g]
  BY Zenon, <1>1, <1>4, <1>5, <1>6 DEF Ext4DescAt, Ext4DescBytes
<1>8. QED
  BY Zenon, <1>2, <1>7

\* A block is a whole number of sectors.
LEMMA SectorsInBlock == SectorsPerBlock \in Nat \ {0}
<1> DEFINE p == PageBytes
           s == SectorBytes
<1>1. p \in Nat \ {0} /\ s \in Nat \ {0} /\ p % s = 0
  BY Zenon, PageAssumption
<1> HIDE DEF p, s
<1>2. p \div s \in Nat /\ p = (p \div s) * s + (p % s)
  BY Zenon, <1>1, DivisionFacts, Divided
<1>3. p \div s # 0
  BY <1>1, <1>2
<1>4. QED
  BY Zenon, <1>2, <1>3 DEF SectorsPerBlock, p, s

\* read_page gets the bitmap of every group.
LEMMA Ext4PageRight ==
  ASSUME Ext4Ready, Ext4Regular, NEW g \in 0 .. Ext4Groups(disk) - 1
  PROVE  ReadPage(0, Ext4BitmapBlock(g) * SectorsPerBlock) = disk.pages[disk.gdt[g].lo]
<1> DEFINE b == disk.gdt[g].lo
           n == SectorsPerBlock
<1>1. /\ g \in DOMAIN disk.gdt /\ disk.gdt[g].hi = 0
      /\ b * n < U32 /\ b \in DOMAIN disk.pages
  BY Zenon DEF Ext4Regular
<1>2. b \in Nat /\ n \in Nat \ {0}
  BY Zenon, <1>1, SuperblockTyped, SectorsInBlock DEF Ext4Ready
<1>3. U32 \in Nat \ {0} /\ SectorBytes \in Nat \ {0} /\ PageBytes \in Nat
  BY Zenon, U32Assumption, PageAssumption
<1>4. Ext4BitmapBlock(g) = b
  BY <1>1, <1>2, <1>3, Ext4DescRight DEF Ext4BitmapBlock
<1> HIDE DEF b, n
<1>5. ((0 * PageBytes) % U32) \div SectorBytes = 0
  <2>1. 0 * PageBytes = 0
    BY <1>3
  <2>2. 0 % U32 = 0
    BY <1>3, SmallModulo
  <2>3. 0 \div SectorBytes = 0
    <3>1. 0 \in 0 .. SectorBytes - 1 /\ 0 * SectorBytes + 0 = 0
      BY <1>3
    <3>2. QED
      BY Zenon, <3>1, <1>3, Remainder
  <2>4. QED
    BY Zenon, <2>1, <2>2, <2>3
<1>6. b * n \in Nat /\ (b * n) % U32 = b * n
  BY <1>1, <1>2, <1>3, SmallModulo
<1>7. (b * n) % n = 0 /\ (b * n) \div n = b
  <2>1. 0 \in 0 .. n - 1 /\ b * n + 0 = b * n
    BY <1>2
  <2>2. QED
    BY Zenon, <2>1, <1>2, Remainder
<1>8. ((0 * PageBytes) % U32) \div SectorBytes + ((b * n) % U32) = b * n
  BY <1>5, <1>6
<1>9. ReadPage(0, b * n) = disk.pages[b]
  BY Zenon, <1>1, <1>7, <1>8 DEF ReadPage, n
<1>10. QED
  BY Zenon, <1>4, <1>9 DEF b, n

\* read_bitmap sets the blocks of the table of descriptors, all of them.
LEMMA Ext4TableRight ==
  ASSUME Ext4Ready, Ext4Regular
  PROVE  Ext4GdBlks = Ext4TableBlocks(disk) /\ Ext4GdBlks \in Nat
<1> DEFINE z == sum.grp_desc_sz
           m == PageBytes \div z
           n == Ext4Groups(disk)
           p == PageBytes
<1>1. /\ z \in Nat \ {0} /\ m \in Nat \ {0} /\ p = m * z /\ p \in Nat \ {0}
      /\ sum.blk_sz = p /\ disk.sb.blk_sz = p
      /\ z = Ext4DescBytes(disk) /\ sum.num_grp_descs = n /\ n \in Nat
  BY Zenon, Ext4Sizes DEF Ext4Regular
<1>2. Ext4GdBlks = (n * z) \div p + (IF ((n * z) % p) \div z # 0 THEN 1 ELSE 0)
  BY Zenon, <1>1 DEF Ext4GdBlks
<1>3. Ext4TableBlocks(disk) = (n * z + p - 1) \div p
  BY Zenon, <1>1 DEF Ext4TableBlocks
<1> HIDE DEF z, m, n, p
<1>4. ((n * z) % p) \div z = 0 <=> (n * z) % p = 0
  <2>1. ((n * z) % (m * z)) \div z = 0 <=> (n * z) % (m * z) = 0
    BY Zenon, <1>1, RestOfPieces
  <2>2. QED
    BY Zenon, <1>1, <2>1
<1>5. n * z \in Nat
  BY <1>1
<1>6. (n * z + p - 1) \div p = (n * z) \div p + (IF (n * z) % p = 0 THEN 0 ELSE 1)
  BY Zenon, <1>1, <1>5, RoundedUp
<1>7. (n * z) \div p \in Nat
  BY Zenon, <1>1, <1>5, DivisionFacts
<1>8. QED
  BY <1>2, <1>3, <1>4, <1>6, <1>7

\* read_bitmap: in a vector clean below the group size, exactly the blocks of the
\* group that are not free are set.
LEMMA Ext4BitsRight ==
  ASSUME Ext4Ready, Ext4Regular, NEW g \in 0 .. Ext4Groups(disk) - 1, NEW old,
         \A j \in 0 .. sum.blks_per_grp - 1 : j \notin old
  PROVE  \A j \in 0 .. sum.blks_per_grp - 1 :
           j \in old
                   \cup (ReadPage(0, Ext4BitmapBlock(g) * SectorsPerBlock)
                           \cap (0 .. sum.blks_per_grp - 1))
                   \cup (Ext4BackupBits(g) \cap Ext4Settable)
             <=> j \notin Ext4Free(disk, g)
<1> TAKE j \in 0 .. sum.blks_per_grp - 1
<1> DEFINE page == ReadPage(0, Ext4BitmapBlock(g) * SectorsPerBlock)
<1>1. /\ sum.blks_per_grp = disk.sb.blocks_per_group /\ sum.blks_per_grp \in Nat \ {0}
      /\ sum.is_sparse_super = disk.sb.sparse_super
      /\ sum.reserved_gdt_blocks = disk.sb.reserved_gdt_blocks
      /\ disk.sb.reserved_gdt_blocks \in Nat
  BY Zenon, Ext4Sizes, SuperblockTyped DEF Ext4Ready
<1>2. page = disk.pages[disk.gdt[g].lo]
  BY Zenon, Ext4PageRight
<1>3. Ext4HasBackups(g) <=> g \in Ext4Backups(g)
  BY DEF Ext4HasBackups, Ext4IsPowN, Ext4Backups
<1> DEFINE last == Ext4TableBlocks(disk) + disk.sb.reserved_gdt_blocks
<1>4. Ext4GdBlks + sum.reserved_gdt_blocks = last /\ last \in Nat
  BY <1>1, Ext4TableRight
<1>5. j \in Ext4Settable
  BY <1>1 DEF Ext4Settable
<1> HIDE DEF last, page
<1>6. j \in Ext4BackupBits(g) <=> disk.sb.sparse_super /\ g \in Ext4Backups(g) /\ ~ (j > last)
  <2>1. CASE disk.sb.sparse_super /\ g \in Ext4Backups(g)
    <3>1. Ext4BackupBits(g) = 0 .. last
      BY Zenon, <2>1, <1>1, <1>3, <1>4 DEF Ext4BackupBits
    <3>2. QED
      BY <3>1, <2>1, <1>1, <1>4
  <2>2. CASE ~ (disk.sb.sparse_super /\ g \in Ext4Backups(g))
    <3>1. Ext4BackupBits(g) = {}
      BY Zenon, <2>2, <1>1, <1>3 DEF Ext4BackupBits
    <3>2. QED
      BY Zenon, <3>1, <2>2
  <2>3. QED
    BY Zenon, <2>1, <2>2
<1>7. j \in Ext4Free(disk, g) <=>
        j \notin page /\ (disk.sb.sparse_super /\ g \in Ext4Backups(g) => j > last)
  BY Zenon, <1>1, <1>2 DEF Ext4Free, last
<1>8. j \notin old
  BY Zenon
<1>9. j \in old \cup (page \cap (0 .. sum.blks_per_grp - 1))
              \cup (Ext4BackupBits(g) \cap Ext4Settable)
        <=> j \in page \/ j \in Ext4BackupBits(g)
  BY Zenon, <1>5, <1>8
<1>10. QED
  BY Zenon, <1>6, <1>7, <1>9 DEF page

\* The number of block j of group g.
Ext4Number(d, g, j) == d.sb.blocks_per_group * g + j + d.sb.first_data_block

\* Numbers grow from block to block and from group to group, and stay below the
\* end of the last group.
LEMMA Ext4NumberFacts ==
  ASSUME disk \in Devices, disk.sb.blocks_per_group # 0,
         NEW n \in Nat, NEW g \in 0 .. n - 1, NEW j \in 0 .. disk.sb.blocks_per_group - 1
  PROVE  /\ Ext4Number(disk, g, j) \in Nat
         /\ Ext4Number(disk, g, j) >= Ext4Number(disk, 0, 0)
         /\ Ext4Number(disk, g, j) < Ext4Number(disk, n, 0)
         /\ Ext4Number(disk, g, j) + 1 = Ext4Number(disk, g, j + 1)
         /\ Ext4Number(disk, g, disk.sb.blocks_per_group) = Ext4Number(disk, g + 1, 0)
         /\ \A h \in Nat, i \in 0 .. disk.sb.blocks_per_group - 1 :
              Ext4Number(disk, h, i) = Ext4Number(disk, g, j) => h = g /\ i = j
<1> DEFINE s == disk.sb.blocks_per_group
           f == disk.sb.first_data_block
<1>1. s \in Nat \ {0} /\ f \in Nat /\ j \in 0 .. s - 1
  BY Zenon, SuperblockTyped
<1>2. \A h, i : Ext4Number(disk, h, i) = s * h + i + f
  BY Zenon DEF Ext4Number
<1> HIDE DEF s, f
<1>3. s * g \in Nat /\ s * (g + 1) = s * g + s /\ s * 0 = 0 /\ s * n \in Nat
  BY <1>1
<1>4. s * (g + 1) <= s * n
  <2>1. s * (n - g - 1) \in Nat /\ s * n = s * (n - g - 1) + s * (g + 1)
    BY <1>1
  <2>2. s * (g + 1) \in Nat
    BY <1>1
  <2>3. \A a, b, c \in Nat : c = a + b => b <= c
    OBVIOUS
  <2>4. QED
    BY Zenon, <2>1, <2>2, <2>3, <1>3
<1>5. ASSUME NEW h \in Nat, NEW i \in 0 .. s - 1, s * h + i + f = s * g + j + f
      PROVE  h = g /\ i = j
  <2>1. g * s + j = h * s + i
    <3>1. s * h \in Nat /\ s * h = h * s /\ s * g = g * s
      BY <1>1
    <3>2. QED
      BY <3>1, <1>1, <1>3, <1>5
  <2>2. (g * s + j) \div s = g /\ (g * s + j) % s = j
    BY <1>1, Remainder
  <2>3. (h * s + i) \div s = h /\ (h * s + i) % s = i
    BY Zenon, <1>1, <1>5, Remainder
  <2>4. QED
    BY Zenon, <2>1, <2>2, <2>3
<1>6. /\ s * g + j + f \in Nat /\ s * g + j + f >= s * 0 + 0 + f
      /\ s * g + j + f < s * n + 0 + f /\ s * g + j + f + 1 = s * g + (j + 1) + f
      /\ s * g + s + f = s * (g + 1) + 0 + f
  BY <1>1, <1>3, <1>4
<1>7. \A h \in Nat, i \in 0 .. s - 1 :
        Ext4Number(disk, h, i) = Ext4Number(disk, g, j) => h = g /\ i = j
  BY <1>2, <1>5
<1>8. QED
  BY <1>2, <1>6, <1>7 DEF s

\* The free blocks are numbered between the first block of the first group and
\* the end of the last, and the number of a block is free if the block is.
LEMMA Ext4FreeFacts ==
  ASSUME Ext4Ready, Ext4Regular
  PROVE  /\ Ext4FreeBlocks(disk) \in SUBSET Nat
         /\ \A b \in Ext4FreeBlocks(disk) : /\ b >= Ext4Number(disk, 0, 0)
                                            /\ b < Ext4Number(disk, Ext4Groups(disk), 0)
         /\ \A g \in 0 .. Ext4Groups(disk) - 1, j \in 0 .. disk.sb.blocks_per_group - 1 :
              Ext4Number(disk, g, j) \in Ext4FreeBlocks(disk) <=> j \in Ext4Free(disk, g)
<1> DEFINE pairs == (0 .. Ext4Groups(disk) - 1) \X (0 .. disk.sb.blocks_per_group - 1)
           free == {y \in pairs : y[2] \in Ext4Free(disk, y[1])}
<1>1. disk \in Devices /\ disk.sb.blocks_per_group # 0 /\ Ext4Groups(disk) \in Nat
  BY Zenon, Ext4Sizes DEF Ext4Ready
<1>2. Ext4FreeBlocks(disk) = {Ext4Number(disk, x[1], x[2]) : x \in free}
  BY Zenon DEF Ext4FreeBlocks, Ext4Number
<1>3. ASSUME NEW b \in Ext4FreeBlocks(disk)
      PROVE  \E g \in 0 .. Ext4Groups(disk) - 1, j \in 0 .. disk.sb.blocks_per_group - 1 :
               b = Ext4Number(disk, g, j) /\ j \in Ext4Free(disk, g)
  <2>1. PICK x \in free : b = Ext4Number(disk, x[1], x[2])
    BY Zenon, <1>2, <1>3
  <2>2. /\ x[1] \in 0 .. Ext4Groups(disk) - 1 /\ x[2] \in 0 .. disk.sb.blocks_per_group - 1
        /\ x[2] \in Ext4Free(disk, x[1])
    BY Zenon, <2>1
  <2>3. QED
    BY Zenon, <2>1, <2>2
<1>4. ASSUME NEW g \in 0 .. Ext4Groups(disk) - 1, NEW j \in 0 .. disk.sb.blocks_per_group - 1,
             j \in Ext4Free(disk, g)
      PROVE  Ext4Number(disk, g, j) \in Ext4FreeBlocks(disk)
  <2>1. <<g, j>> \in free /\ <<g, j>>[1] = g /\ <<g, j>>[2] = j
    BY Zenon, <1>4
  <2>2. QED
    BY Zenon, <2>1, <1>2
<1>5. ASSUME NEW g \in 0 .. Ext4Groups(disk) - 1, NEW j \in 0 .. disk.sb.blocks_per_group - 1,
             Ext4Number(disk, g, j) \in Ext4FreeBlocks(disk)
      PROVE  j \in Ext4Free(disk, g)
  <2>1. PICK h \in 0 .. Ext4Groups(disk) - 1, i \in 0 .. disk.sb.blocks_per_group - 1 :
               Ext4Number(disk, g, j) = Ext4Number(disk, h, i) /\ i \in Ext4Free(disk, h)
    BY Zenon, <1>3, <1>5
  <2>2. h = g /\ i = j
    <3>1. h \in Nat
      OBVIOUS
    <3>2. QED
      BY <3>1, <2>1, <1>1, Ext4NumberFacts
  <2>3. QED
    BY Zenon, <2>1, <2>2
<1> HIDE DEF pairs, free
<1>6. ASSUME NEW b \in Ext4FreeBlocks(disk)
      PROVE  b \in Nat /\ b >= Ext4Number(disk, 0, 0) /\ b < Ext4Number(disk, Ext4Groups(disk), 0)
  <2>1. PICK g \in 0 .. Ext4Groups(disk) - 1, j \in 0 .. disk.sb.blocks_per_group - 1 :
               b = Ext4Number(disk, g, j)
    BY Zenon, <1>3, <1>6
  <2>2. QED
    BY Zenon, <2>1, <1>1, Ext4NumberFacts
<1>7. QED
  BY Zenon, <1>4, <1>5, <1>6

-----------------------------------------------------------------------------
\* read_bitmaps between two groups: the list has come to the first block of
\* the next one, and the vector is clean again.
Ext4GroupInv ==
  /\ grp <= Ext4Groups(disk)
  /\ Listed(blocks, Ext4FreeBlocks(disk), Ext4Number(disk, grp, 0))
  /\ \A j \in 0 .. sum.blks_per_grp - 1 : j \notin bvec

\* read_bitmaps within a group: the list has come to the block whose bit is next,
\* the bits before it are cleared and the others say which blocks are not free.
Ext4BitsInv ==
  /\ Listed(blocks, Ext4FreeBlocks(disk), Ext4Number(disk, grp, bit))
  /\ \A j \in 0 .. bit - 1 : j \notin bvec
  /\ \A j \in bit .. sum.blks_per_grp - 1 : j \in bvec <=> j \notin Ext4Free(disk, grp)

\* The inductive invariant of the ext4 module.
Ext4Inv ==
  /\ disk \in Devices
  /\ ext4pc \in {"super", "disk", "descs", "bitmaps", "group", "bits", "yes", "no", "oops"}
  /\ stage = "fat32" => ext4pc = "super"
  /\ stage = "ntfs" => ext4pc = "no"
  /\ ext4pc \in {"super", "disk", "descs", "bitmaps"} => blocks = <<>>
  /\ ext4pc = "descs" => /\ disk.sb.blocks_per_group # 0
                         /\ sum = Ext4Summary(disk.sb, is_64bit)
  /\ ext4pc \in {"bitmaps", "group", "bits", "yes"} => Ext4Ready
  /\ ext4pc = "group" => grp \in Nat /\ (Ext4Regular => Ext4GroupInv)
  /\ ext4pc = "bits" => /\ grp \in Nat /\ grp < sum.num_grp_descs
                        /\ bit \in 0 .. sum.blks_per_grp
                        /\ Ext4Regular => Ext4BitsInv
  /\ ext4pc = "yes" =>
       \/ blocks = <<>> /\ fs.block_list = <<>>
       \/ /\ fs.list_len = Len(blocks)
          /\ fs.block_list # <<>> => fs.block_list = blocks
          /\ Ext4Regular =>
               Listed(blocks, Ext4FreeBlocks(disk), Ext4Number(disk, Ext4Groups(disk), 0))

\* The steps up to the bitmaps.
LEMMA Ext4ReadyStep ==
  ASSUME Ext4Inv, stage = "ext4", UNCHANGED stage,
         Ext4Reject \/ Ext4ReadSuperblock \/ Ext4NewDisk \/ Ext4ReadGroupDescs
  PROVE  Ext4Inv'
<1>1. CASE Ext4Reject
  BY Zenon, <1>1 DEF Ext4Reject, Ext4Inv
<1>2. CASE Ext4ReadSuperblock
  BY Zenon, <1>2 DEF Ext4ReadSuperblock, Ext4Inv
<1>3. CASE Ext4NewDisk
  <2>1. CASE disk.sb.blocks_per_group = 0
    BY Zenon, <1>3, <2>1 DEF Ext4NewDisk, Ext4Inv
  <2>2. CASE disk.sb.blocks_per_group # 0
    <3>1. /\ sum' = Ext4Summary(disk.sb, is_64bit) /\ ext4pc = "disk" /\ ext4pc' = "descs"
          /\ UNCHANGED <<disk, is_64bit, blocks>>
      BY Zenon, <1>3, <2>2 DEF Ext4NewDisk, Ext4Summary
    <3>2. (sum = Ext4Summary(disk.sb, is_64bit))'
      BY Zenon, <3>1
    <3>3. QED
      BY Zenon, <3>1, <3>2, <2>2 DEF Ext4Inv
  <2>3. QED
    BY Zenon, <2>1, <2>2
<1>4. CASE Ext4ReadGroupDescs
  <2>1. CASE sum.grp_desc_sz = 0
    BY Zenon, <1>4, <2>1 DEF Ext4ReadGroupDescs, Ext4Inv
  <2>2. CASE sum.grp_desc_sz # 0
    <3>1. /\ gd_arr' = [c \in 0 .. sum.num_grp_descs - 1 |-> Ext4DescAt(Ext4DescByte(c))]
          /\ ext4pc = "descs" /\ ext4pc' = "bitmaps"
          /\ UNCHANGED <<disk, is_64bit, sum, blocks>>
      BY Zenon, <1>4, <2>2 DEF Ext4ReadGroupDescs
    <3>2. (gd_arr = [c \in 0 .. sum.num_grp_descs - 1 |-> Ext4DescAt(Ext4DescByte(c))])'
      BY Zenon, <3>1 DEF Ext4DescAt, Ext4DescByte
    <3>3. Ext4Ready'
      BY Zenon, <3>1, <3>2, <2>2 DEF Ext4Ready, Ext4Inv
    <3>4. QED
      BY Zenon, <3>1, <3>3 DEF Ext4Inv
  <2>3. QED
    BY Zenon, <2>1, <2>2
<1>5. QED
  BY Zenon, <1>1, <1>2, <1>3, <1>4

\* What read_bitmaps leaves alone.
Ext4Fixed == UNCHANGED <<disk, is_64bit, sum, gd_arr>>

\* Steps that leave the tables alone keep them ready.
LEMMA Ext4ReadyKept == ASSUME Ext4Fixed PROVE Ext4Ready' <=> Ext4Ready
<1>1. (gd_arr = [c \in 0 .. sum.num_grp_descs - 1 |-> Ext4DescAt(Ext4DescByte(c))])'
        <=> gd_arr = [c \in 0 .. sum.num_grp_descs - 1 |-> Ext4DescAt(Ext4DescByte(c))]
  BY Zenon DEF Ext4Fixed, Ext4DescAt, Ext4DescByte
<1>2. QED
  BY Zenon, <1>1 DEF Ext4Fixed, Ext4Ready

\* Steps that leave the device and the static flag alone keep it regular.
LEMMA Ext4RegularKept ==
  ASSUME UNCHANGED <<disk, is_64bit>>
  PROVE  Ext4Regular' <=> Ext4Regular
BY Zenon DEF Ext4Regular

\* read_bitmaps allocates, or cannot.
LEMMA Ext4AllocateStep ==
  ASSUME Ext4Inv, stage = "ext4", UNCHANGED stage, Ext4Allocate
  PROVE  Ext4Inv'
<1>1. /\ ext4pc = "bitmaps" /\ ext4pc' = "group" /\ blocks' = <<>> /\ grp' = 0 /\ bvec' = {}
      /\ UNCHANGED <<disk, is_64bit, sum, gd_arr, stage>>
  BY Zenon DEF Ext4Allocate
<1>2. Ext4Ready /\ Ext4Ready'
  BY Zenon, <1>1, Ext4ReadyKept DEF Ext4Fixed, Ext4Inv
<1>3. ASSUME Ext4Regular' PROVE Ext4GroupInv'
  <2>1. Ext4Regular
    BY Zenon, <1>1, <1>3, Ext4RegularKept
  <2>2. /\ Ext4FreeBlocks(disk) \in SUBSET Nat /\ Ext4Groups(disk) \in Nat
        /\ \A b \in Ext4FreeBlocks(disk) : b >= Ext4Number(disk, 0, 0)
    BY Zenon, <1>2, <2>1, Ext4FreeFacts, Ext4Sizes
  <2>3. Ext4Number(disk, 0, 0) \in Nat
    BY <1>2, SuperblockTyped DEF Ext4Number, Ext4Ready
  <2>4. Listed(<<>>, Ext4FreeBlocks(disk), Ext4Number(disk, 0, 0))
    BY Zenon, <2>2, <2>3, ListedNothing
  <2>5. QED
    BY <1>1, <2>2, <2>4 DEF Ext4GroupInv
<1>4. QED
  BY Zenon, <1>1, <1>2, <1>3 DEF Ext4Inv

\* read_bitmap sets the bits of a group.
LEMMA Ext4ReadBitmapStep ==
  ASSUME Ext4Inv, stage = "ext4", UNCHANGED stage, Ext4ReadBitmap
  PROVE  Ext4Inv'
<1> DEFINE old == bvec
           new == bvec
              \cup (ReadPage(0, Ext4BitmapBlock(grp) * SectorsPerBlock)
                      \cap (0 .. sum.blks_per_grp - 1))
              \cup (Ext4BackupBits(grp) \cap Ext4Settable)
<1>1. /\ ext4pc = "group" /\ ext4pc' = "bits" /\ grp < sum.num_grp_descs
      /\ bvec' = new /\ bit' = 0
      /\ UNCHANGED <<disk, is_64bit, sum, gd_arr, grp, blocks, stage>>
  BY Zenon DEF Ext4ReadBitmap
<1>2. Ext4Ready /\ Ext4Ready' /\ grp \in Nat /\ (Ext4Regular => Ext4GroupInv)
  BY Zenon, <1>1, Ext4ReadyKept DEF Ext4Fixed, Ext4Inv
<1>3. sum.blks_per_grp \in Nat
  BY Zenon, <1>2, SuperblockTyped DEF Ext4Ready, Ext4Summary
<1>4. ASSUME Ext4Regular' PROVE Ext4BitsInv'
  <2>1. Ext4Regular
    BY Zenon, <1>1, <1>4, Ext4RegularKept
  <2>2. /\ Listed(blocks, Ext4FreeBlocks(disk), Ext4Number(disk, grp, 0))
        /\ \A j \in 0 .. sum.blks_per_grp - 1 : j \notin bvec
    BY Zenon, <1>2, <2>1 DEF Ext4GroupInv
  <2>3. grp \in 0 .. Ext4Groups(disk) - 1
    <3>1. sum.num_grp_descs = Ext4Groups(disk) /\ Ext4Groups(disk) \in Nat
      BY Zenon, <1>2, <2>1, Ext4Sizes
    <3>2. QED
      BY <3>1, <1>1, <1>2
  <2>4. \A j \in 0 .. sum.blks_per_grp - 1 : j \in new <=> j \notin Ext4Free(disk, grp)
    BY Zenon, <1>2, <2>1, <2>2, <2>3, Ext4BitsRight
  <2> HIDE DEF new
  <2>5. QED
    BY <1>1, <2>2, <2>4 DEF Ext4BitsInv
<1> HIDE DEF new
<1>5. bit' \in 0 .. sum'.blks_per_grp
  BY <1>1, <1>3
<1>6. QED
  BY Zenon, <1>1, <1>2, <1>4, <1>5 DEF Ext4Inv

\* One turn of the inner loop of read_bitmaps.
LEMMA Ext4BitStep ==
  ASSUME Ext4Inv, stage = "ext4", UNCHANGED stage, Ext4Bit
  PROVE  Ext4Inv'
<1>1. /\ ext4pc = "bits" /\ ext4pc' = "bits" /\ bit < sum.blks_per_grp
      /\ blocks' = IF bit \notin bvec /\ Ext4Block(grp, bit) < U32
                   THEN Append(blocks, Ext4Block(grp, bit)) ELSE blocks
      /\ bvec' = bvec \ {bit} /\ bit' = bit + 1
      /\ UNCHANGED <<disk, is_64bit, sum, gd_arr, grp, stage>>
  BY Zenon DEF Ext4Bit
<1>2. /\ Ext4Ready /\ Ext4Ready' /\ grp \in Nat /\ grp < sum.num_grp_descs
      /\ bit \in 0 .. sum.blks_per_grp /\ (Ext4Regular => Ext4BitsInv)
  BY Zenon, <1>1, Ext4ReadyKept DEF Ext4Fixed, Ext4Inv
<1>3. sum.blks_per_grp = disk.sb.blocks_per_group /\ sum.blks_per_grp \in Nat \ {0}
      /\ disk \in Devices /\ disk.sb.first_data_block \in Nat
      /\ sum.first_data_block = disk.sb.first_data_block
  BY Zenon, <1>2, SuperblockTyped DEF Ext4Ready, Ext4Summary
<1>4. bit \in Nat /\ bit \in 0 .. sum.blks_per_grp - 1 /\ bit' \in 0 .. sum.blks_per_grp
  BY <1>1, <1>2, <1>3
<1>5. ASSUME Ext4Regular' PROVE Ext4BitsInv'
  <2>1. Ext4Regular
    BY Zenon, <1>1, <1>5, Ext4RegularKept
  <2> DEFINE n == Ext4Groups(disk)
             free == Ext4FreeBlocks(disk)
             k == Ext4Number(disk, grp, bit)
  <2>2. /\ Listed(blocks, free, k)
        /\ \A j \in 0 .. bit - 1 : j \notin bvec
        /\ \A j \in bit .. sum.blks_per_grp - 1 : j \in bvec <=> j \notin Ext4Free(disk, grp)
    BY Zenon, <1>2, <2>1 DEF Ext4BitsInv
  <2>3. n \in Nat /\ grp \in 0 .. n - 1
    <3>1. sum.num_grp_descs = n /\ n \in Nat
      BY Zenon, <1>2, <2>1, Ext4Sizes
    <3>2. QED
      BY <3>1, <1>2
  <2>4. /\ k \in Nat /\ k < Ext4Number(disk, n, 0)
        /\ k + 1 = Ext4Number(disk, grp, bit + 1)
    BY <1>3, <1>4, <2>3, Ext4NumberFacts
  <2>5. free \in SUBSET Nat /\ (k \in free <=> bit \in Ext4Free(disk, grp))
    BY Zenon, <1>2, <1>3, <1>4, <2>1, <2>3, Ext4FreeFacts
  <2>6. Ext4Block(grp, bit) = k /\ k < U32
    <3> DEFINE s == disk.sb.blocks_per_group
               f == disk.sb.first_data_block
    <3>1. s * n + f <= U32 /\ U32 \in Nat \ {0}
      BY Zenon, <2>1, U32Assumption DEF Ext4Regular
    <3>2. k = s * grp + bit + f /\ Ext4Number(disk, n, 0) = s * n + 0 + f
      BY Zenon DEF Ext4Number
    <3>3. Ext4Block(grp, bit) = ((s * grp) % U32) + bit + f
      BY Zenon, <1>3 DEF Ext4Block
    <3>4. s \in Nat \ {0} /\ f \in Nat
      BY Zenon, <1>3
    <3> HIDE DEF s, f, n, k
    <3>5. s * grp \in Nat /\ s * n \in Nat
      BY <3>4, <2>3, <1>2
    <3>6. k < U32 /\ s * grp < U32
      BY <3>1, <3>2, <3>4, <3>5, <2>4, <1>4
    <3>7. (s * grp) % U32 = s * grp
      BY Zenon, <3>1, <3>5, <3>6, SmallModulo
    <3>8. QED
      BY Zenon, <3>2, <3>3, <3>6, <3>7
  <2>7. bit \notin bvec <=> k \in free
    <3>1. bit \in bit .. sum.blks_per_grp - 1
      BY <1>3, <1>4
    <3>2. QED
      BY Zenon, <3>1, <2>2, <2>5
  <2>8. blocks' = IF k \in free THEN Append(blocks, k) ELSE blocks
    BY Zenon, <1>1, <2>6, <2>7
  <2> HIDE DEF free, k
  <2>9. Listed(blocks', free, k + 1)
    BY Zenon, <2>2, <2>4, <2>5, <2>8, ListedNext
  <2>10. Listed(blocks, Ext4FreeBlocks(disk), Ext4Number(disk, grp, bit))'
    BY Zenon, <1>1, <2>4, <2>9 DEF free
  <2>11. (\A j \in 0 .. bit - 1 : j \notin bvec)'
    <3> SUFFICES ASSUME NEW j \in 0 .. bit, j \in bvec \ {bit} PROVE FALSE
      BY <1>1, <1>4
    <3>1. j \in 0 .. bit - 1
      BY <1>4
    <3>2. QED
      BY Zenon, <3>1, <2>2
  <2>12. (\A j \in bit .. sum.blks_per_grp - 1 : j \in bvec <=> j \notin Ext4Free(disk, grp))'
    <3> SUFFICES ASSUME NEW j \in bit + 1 .. sum.blks_per_grp - 1
                 PROVE  j \in bvec \ {bit} <=> j \notin Ext4Free(disk, grp)
      BY Zenon, <1>1
    <3>1. j \in bit .. sum.blks_per_grp - 1 /\ j # bit
      BY <1>3, <1>4
    <3>2. QED
      BY Zenon, <3>1, <2>2
  <2>13. QED
    BY Zenon, <2>10, <2>11, <2>12 DEF Ext4BitsInv
<1>6. QED
  BY Zenon, <1>1, <1>2, <1>4, <1>5 DEF Ext4Inv

\* The inner loop ends.
LEMMA Ext4NextGroupStep ==
  ASSUME Ext4Inv, stage = "ext4", UNCHANGED stage, Ext4NextGroup
  PROVE  Ext4Inv'
<1>1. /\ ext4pc = "bits" /\ ext4pc' = "group" /\ bit >= sum.blks_per_grp /\ grp' = grp + 1
      /\ UNCHANGED <<disk, is_64bit, sum, gd_arr, bvec, blocks, stage>>
  BY Zenon DEF Ext4NextGroup
<1>2. /\ Ext4Ready /\ Ext4Ready' /\ grp \in Nat /\ grp < sum.num_grp_descs
      /\ bit \in 0 .. sum.blks_per_grp /\ (Ext4Regular => Ext4BitsInv)
  BY Zenon, <1>1, Ext4ReadyKept DEF Ext4Fixed, Ext4Inv
<1>3. sum.blks_per_grp = disk.sb.blocks_per_group /\ sum.blks_per_grp \in Nat \ {0}
      /\ disk \in Devices
  BY Zenon, <1>2, SuperblockTyped DEF Ext4Ready, Ext4Summary
<1>4. bit = sum.blks_per_grp
  BY <1>1, <1>2, <1>3
<1>5. ASSUME Ext4Regular' PROVE Ext4GroupInv'
  <2>1. Ext4Regular
    BY Zenon, <1>1, <1>5, Ext4RegularKept
  <2>2. /\ Listed(blocks, Ext4FreeBlocks(disk), Ext4Number(disk, grp, bit))
        /\ \A j \in 0 .. bit - 1 : j \notin bvec
    BY Zenon, <1>2, <2>1 DEF Ext4BitsInv
  <2>3. Ext4Groups(disk) \in Nat /\ grp \in 0 .. Ext4Groups(disk) - 1
    <3>1. sum.num_grp_descs = Ext4Groups(disk) /\ Ext4Groups(disk) \in Nat
      BY Zenon, <1>2, <2>1, Ext4Sizes
    <3>2. QED
      BY <3>1, <1>2
  <2>4. Ext4Number(disk, grp, bit) = Ext4Number(disk, grp + 1, 0)
    <3>1. 0 \in 0 .. disk.sb.blocks_per_group - 1
      BY <1>3
    <3>2. QED
      BY Zenon, <3>1, <1>3, <1>4, <2>3, Ext4NumberFacts
  <2>5. grp + 1 <= Ext4Groups(disk)
    BY <2>3
  <2>6. QED
    BY Zenon, <1>1, <1>4, <2>2, <2>4, <2>5 DEF Ext4GroupInv
<1>6. QED
  BY <1>1, <1>2, <1>5 DEF Ext4Inv

\* The end of read_bitmaps, and the end without memory.
LEMMA Ext4EndStep ==
  ASSUME Ext4Inv, CleanInv, stage = "ext4", UNCHANGED stage, Ext4NoMemory \/ Ext4Fill
  PROVE  Ext4Inv'
<1>1. fs = NoFs
  BY Zenon DEF CleanInv, Ext4NoMemory, Ext4Fill
<1>2. CASE Ext4NoMemory
  <2>1. /\ ext4pc = "bitmaps" /\ ext4pc' = "yes"
        /\ UNCHANGED <<disk, fs, is_64bit, sum, gd_arr, blocks, stage>>
    BY Zenon, <1>2 DEF Ext4NoMemory
  <2>2. Ext4Ready' /\ blocks' = <<>> /\ fs'.block_list = <<>>
    BY Zenon, <1>1, <2>1, Ext4ReadyKept DEF Ext4Fixed, Ext4Inv, NoFs
  <2>3. QED
    BY Zenon, <2>1, <2>2 DEF Ext4Inv
<1>3. CASE Ext4Fill
  <2>1. /\ ext4pc = "group" /\ ext4pc' = "yes" /\ grp >= sum.num_grp_descs
        /\ UNCHANGED <<disk, is_64bit, sum, gd_arr, blocks, stage>>
    BY Zenon, <1>3 DEF Ext4Fill
  <2>2. fs'.list_len = Len(blocks) /\ (fs'.block_list # <<>> => fs'.block_list = blocks)
    BY Zenon, <1>1, <1>3 DEF Ext4Fill, NoFs
  <2>3. Ext4Ready /\ Ext4Ready' /\ grp \in Nat /\ (Ext4Regular => Ext4GroupInv)
    BY Zenon, <2>1, Ext4ReadyKept DEF Ext4Fixed, Ext4Inv
  <2>4. ASSUME Ext4Regular'
        PROVE  Listed(blocks, Ext4FreeBlocks(disk), Ext4Number(disk, Ext4Groups(disk), 0))
    <3>1. Ext4Regular
      BY Zenon, <2>1, <2>4, Ext4RegularKept
    <3>2. /\ Listed(blocks, Ext4FreeBlocks(disk), Ext4Number(disk, grp, 0))
          /\ grp <= Ext4Groups(disk)
      BY Zenon, <2>3, <3>1 DEF Ext4GroupInv
    <3>3. sum.num_grp_descs = Ext4Groups(disk) /\ Ext4Groups(disk) \in Nat
      BY Zenon, <2>3, <3>1, Ext4Sizes
    <3>4. grp = Ext4Groups(disk)
      BY <2>1, <2>3, <3>2, <3>3
    <3>5. QED
      BY Zenon, <3>2, <3>4
  <2>5. QED
    BY Zenon, <2>1, <2>2, <2>3, <2>4 DEF Ext4Inv
<1>4. QED
  BY Zenon, <1>2, <1>3

\* Steps of others leave the module's variables alone, and fs too once it said yes.
LEMMA Ext4Frame ==
  ASSUME Ext4Inv, UNCHANGED <<disk, is_64bit, ext4vars>>,
         ext4pc = "yes" => fs' = fs,
         stage' = "fat32" => ext4pc = "super", stage' = "ntfs" => ext4pc = "no"
  PROVE  Ext4Inv'
<1>1. /\ UNCHANGED <<disk, is_64bit, ext4pc, sum, gd_arr, grp, bit, bvec, blocks>>
  BY Zenon DEF ext4vars
<1>2. /\ Ext4Regular' <=> Ext4Regular
      /\ Ext4Ready' <=> Ext4Ready
  BY Zenon, <1>1, Ext4RegularKept, Ext4ReadyKept DEF Ext4Fixed
<1>3. (Ext4GroupInv' <=> Ext4GroupInv) /\ (Ext4BitsInv' <=> Ext4BitsInv)
  BY Zenon, <1>1 DEF Ext4GroupInv, Ext4BitsInv
<1>4. QED
  BY Zenon, <1>1, <1>2, <1>3 DEF Ext4Inv

\* The FAT32 module reads only.
LEMMA FatKeepsDisk == ASSUME FatNext PROVE disk' = disk
BY Zenon DEF FatNext, FatReadBootSector, FatReject, FatMap, FatScan, FatFill

\* Every step of detect_fs keeps the invariant of the ext4 module.
LEMMA Ext4InvStep == ASSUME Ext4Inv, CleanInv, [Next]_vars PROVE Ext4Inv'
<1>1. ASSUME NEW d \in Devices, DetectFs(d) PROVE Ext4Inv'
  BY Zenon, <1>1 DEF DetectFs, Ext4Start, Ext4Inv
<1>2. CASE RunFat32
  <2>1. /\ UNCHANGED <<disk, is_64bit, ext4vars, stage>> /\ stage = "fat32"
    BY Zenon, <1>2, FatKeepsDisk DEF RunFat32
  <2>2. ext4pc = "super"
    BY Zenon, <2>1 DEF Ext4Inv
  <2>3. QED
    BY Zenon, <2>1, <2>2, Ext4Frame
<1>3. CASE RunExt4
  <2>1. stage = "ext4" /\ UNCHANGED stage /\ Ext4Next
    BY Zenon, <1>3 DEF RunExt4
  <2>2. QED
    BY Zenon, <2>1, Ext4ReadyStep, Ext4AllocateStep, Ext4ReadBitmapStep, Ext4BitStep,
       Ext4NextGroupStep, Ext4EndStep DEF Ext4Next
<1>4. CASE RunNtfs
  <2>1. /\ UNCHANGED <<disk, is_64bit, ext4vars, stage>> /\ stage = "ntfs"
    BY Zenon, <1>4, NtfsKeepsDisk DEF RunNtfs
  <2>2. ext4pc = "no"
    BY Zenon, <2>1 DEF Ext4Inv
  <2>3. QED
    BY Zenon, <2>1, <2>2, Ext4Frame
<1>5. CASE Detected \/ Fault
  <2>1. UNCHANGED <<disk, fs, is_64bit, ext4vars>> /\ stage' \in {"idle", "oops"}
    BY Zenon, <1>5 DEF Detected, Fault, Locals
  <2>2. QED
    BY Zenon, <2>1, Ext4Frame
<1>6. CASE NotDetected
  <2>1. /\ UNCHANGED <<disk, fs, is_64bit, ext4vars>>
        /\ stage \in {"fat32", "ext4", "ntfs"} /\ stage' = NextModule[stage]
        /\ ModulePc[stage] = "no"
    BY Zenon, <1>6 DEF NotDetected, Locals, NextModule
  <2>2. stage' # "fat32" /\ (stage' = "ntfs" => stage = "ext4")
    BY <2>1 DEF NextModule
  <2>3. stage = "ext4" => ext4pc = "no"
    BY <2>1 DEF ModulePc
  <2>4. QED
    BY Zenon, <2>1, <2>2, <2>3, Ext4Frame
<1>7. CASE UNCHANGED vars
  <2>1. UNCHANGED <<disk, fs, is_64bit, ext4vars, stage>>
    BY Zenon, <1>7 DEF vars
  <2>2. QED
    BY Zenon, <2>1, Ext4Frame DEF Ext4Inv
<1>8. QED
  BY Zenon, <1>1, <1>2, <1>3, <1>4, <1>5, <1>6, <1>7 DEF Next

\* Ext4Inv is an invariant.
LEMMA Ext4Invariant == Spec => []Ext4Inv
<1>1. Init => Ext4Inv /\ CleanInv
  BY Zenon DEF Init, Ext4Init, Ext4Inv, CleanInv
<1>2. QED
  BY <1>1, Ext4InvStep, CleanStep, PTL DEF Spec

(* If afs_ext4_detect hands over a list for a regular device, of any number *)
(* and size of groups, the list is the free blocks of all groups, in order  *)
(* and without repetition.                                                  *)
THEOREM Ext4ListAlwaysExact == Spec => []Ext4ListExact
<1>1. Ext4Inv => Ext4ListExact
  <2> SUFFICES ASSUME Ext4Inv, ext4pc = "yes", fs.block_list # <<>>, Ext4Regular
               PROVE  /\ fs.list_len = Len(fs.block_list)
                      /\ Ascending(fs.block_list)
                      /\ Elements(fs.block_list) = Ext4FreeBlocks(disk)
    BY Zenon DEF Ext4ListExact
  <2>1. /\ fs.list_len = Len(blocks) /\ fs.block_list = blocks /\ Ext4Ready
        /\ Listed(blocks, Ext4FreeBlocks(disk), Ext4Number(disk, Ext4Groups(disk), 0))
    BY Zenon DEF Ext4Inv
  <2>2. \A b \in Ext4FreeBlocks(disk) : b < Ext4Number(disk, Ext4Groups(disk), 0)
    BY Zenon, <2>1, Ext4FreeFacts
  <2>3. Elements(blocks) = Ext4FreeBlocks(disk)
    BY Zenon, <2>1, <2>2 DEF Listed
  <2>4. QED
    BY Zenon, <2>1, <2>3 DEF Listed
<1>2. QED
  BY <1>1, Ext4Invariant, PTL

(* The array read_bitmaps allocates from the free count of the superblock   *)
(* is large enough in every group of a regular device whose count is right. *)
THEOREM Ext4AlwaysFits == Spec => []Ext4Fits
<1>1. Ext4Inv => Ext4Fits
  <2> SUFFICES ASSUME Ext4Inv, ext4pc \in {"group", "bits", "yes"}, Ext4Regular,
                      disk.sb.free_blocks_count = Cardinality(Ext4FreeBlocks(disk))
               PROVE  Len(blocks) <= sum.free_block_count
    BY Zenon DEF Ext4Fits
  <2> DEFINE free == Ext4FreeBlocks(disk)
  <2>1. /\ Ext4Ready /\ sum.free_block_count = Cardinality(free)
        /\ sum.free_block_count \in Nat
    BY SuperblockTyped DEF Ext4Inv, Ext4Ready, Ext4Summary
  <2>2. IsFiniteSet(free)
    <3> DEFINE end == Ext4Number(disk, Ext4Groups(disk), 0)
    <3>1. free \in SUBSET Nat /\ \A b \in free : b < end
      BY Zenon, <2>1, Ext4FreeFacts
    <3>2. end \in Nat
      <4>1. /\ Ext4Groups(disk) \in Nat /\ disk.sb.blocks_per_group \in Nat
            /\ disk.sb.first_data_block \in Nat
        BY Zenon, <2>1, Ext4Sizes, SuperblockTyped DEF Ext4Ready
      <4>2. QED
        BY <4>1 DEF Ext4Number
    <3> HIDE DEF end, free
    <3>3. free \subseteq 0 .. end
      BY <3>1, <3>2
    <3>4. IsFiniteSet(0 .. end)
      BY <3>2, FS_Interval
    <3>5. QED
      BY Zenon, <3>3, <3>4, FS_Subset
  <2>3. ASSUME NEW k, Listed(blocks, free, k)
        PROVE  Len(blocks) <= Cardinality(free)
    <3>1. {b \in free : b < k} \in SUBSET free
      BY Zenon
    <3>2. Len(blocks) = Cardinality({b \in free : b < k})
      BY Zenon, <2>3 DEF Listed
    <3> HIDE DEF free
    <3>3. QED
      BY Zenon, <3>1, <3>2, <2>2, FS_Subset
  <2>4. blocks = <<>> \/ \E k : Listed(blocks, free, k)
    BY Zenon DEF Ext4Inv, Ext4GroupInv, Ext4BitsInv
  <2>5. QED
    BY <2>1, <2>3, <2>4
<1>2. QED
  BY <1>1, Ext4Invariant, PTL
=============================================================================
