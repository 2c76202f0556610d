--------------------------- MODULE AfsNtfsProofs ---------------------------
(***************************************************************************)
(* Proofs about the NTFS module within detect_fs, for every device: the    *)
(* two passes of extract_bitmap agree, and on a volume the module can read *)
(* the list is what $Bitmap says.                                          *)
(***************************************************************************)
EXTENDS AfsDetectProofs

(* The first pass of extract_bitmap counts the clear bits of the            *)
(* buffer, the second one lists the blocks of each; below p both have seen  *)
(* the bits Clear(bitmap, p).                                               *)
Clear(set, p) == (0 .. p - 1) \ set

\* Products grow with their factors.
LEMMA TimesGrows ==
  ASSUME NEW a \in Nat, NEW b \in Nat, NEW n \in Nat, a <= b
  PROVE  a * n <= b * n
OBVIOUS

\* The length of a concatenation.
LEMMA Concatenated ==
  ASSUME NEW s \in Seq(Int), NEW t \in Seq(Int)
  PROVE  s \o t \in Seq(Int) /\ Len(s \o t) = Len(s) + Len(t)
OBVIOUS

\* Clear bits and set bits make up all bits below p.
LEMMA ClearFacts ==
  ASSUME NEW set, NEW p \in Nat
  PROVE  /\ IsFiniteSet(Clear(set, p)) /\ Cardinality(Clear(set, p)) \in Nat
         /\ Cardinality(Clear(set, p)) = p - Cardinality(set \cap (0 .. p - 1))
<1>1. IsFiniteSet(0 .. p - 1) /\ Cardinality(0 .. p - 1) = p
  <2>1. 0 \in Int /\ p - 1 \in Int
    OBVIOUS
  <2>2. /\ IsFiniteSet(0 .. p - 1)
        /\ Cardinality(0 .. p - 1) = IF 0 > p - 1 THEN 0 ELSE p - 1 - 0 + 1
    BY Zenon, <2>1, FS_Interval
  <2>3. QED
    BY <2>2
<1> DEFINE all == 0 .. p - 1
<1>2. set \cap all = all \cap set
  BY Zenon
<1> HIDE DEF all
<1>3. IsFiniteSet(all) => /\ IsFiniteSet(all \ set)
                          /\ Cardinality(all \ set) = Cardinality(all) - Cardinality(all \cap set)
  BY Zenon, FS_Difference
<1>4. IsFiniteSet(all \ set) => Cardinality(all \ set) \in Nat
  BY Zenon, FS_CardinalityType
<1>5. QED
  BY Zenon, <1>1, <1>2, <1>3, <1>4 DEF Clear, all

\* The next bit counts if it is clear.
LEMMA ClearNext ==
  ASSUME NEW set, NEW p \in Nat
  PROVE  Cardinality(Clear(set, p + 1)) =
           IF p \in set THEN Cardinality(Clear(set, p)) ELSE Cardinality(Clear(set, p)) + 1
<1>1. IsFiniteSet(Clear(set, p))
  BY Zenon, ClearFacts
<1>2. 0 .. (p + 1) - 1 = (0 .. p - 1) \cup {p} /\ p \notin 0 .. p - 1
  OBVIOUS
<1>3. CASE p \in set
  <2>1. Clear(set, p + 1) = Clear(set, p)
    BY Zenon, <1>2, <1>3 DEF Clear
  <2>2. QED
    BY Zenon, <1>3, <2>1
<1>4. CASE p \notin set
  <2>1. Clear(set, p + 1) = Clear(set, p) \cup {p} /\ p \notin Clear(set, p)
    BY Zenon, <1>2, <1>4 DEF Clear
  <2>2. Cardinality(Clear(set, p) \cup {p}) = Cardinality(Clear(set, p)) + 1
    BY Zenon, <1>1, <2>1, FS_AddElement
  <2>3. QED
    BY Zenon, <1>4, <2>1, <2>2
<1>5. QED
  BY Zenon, <1>3, <1>4

\* There are no fewer clear bits below a larger number.
LEMMA ClearGrows ==
  ASSUME NEW set, NEW p \in Nat, NEW q \in Nat, p <= q
  PROVE  Cardinality(Clear(set, p)) <= Cardinality(Clear(set, q))
<1>1. Clear(set, p) \in SUBSET Clear(set, q)
  BY DEF Clear
<1>2. IsFiniteSet(Clear(set, q))
  BY Zenon, ClearFacts
<1>3. QED
  BY Zenon, <1>1, <1>2, FS_Subset

\* The invariant behind the agreement of the two passes of extract_bitmap: the
\* list has the blocks of the clear bits seen so far.
NtfsInv ==
  /\ disk \in Devices
  /\ ntfspc \in {"boot", "mft", "file", "list", "yes", "no", "oops"}
  /\ ntfspc \in {"mft", "file"} => disk.boot.ntfs_oem
  /\ nvol.blocks_per_cluster \in Nat /\ nvol.bytes_per_cluster \in Nat
  /\ nvol.cluster_count \in Nat
  /\ attr \in Nat \ {0} /\ written \in Nat /\ got \in Nat
  /\ ntfspc \in {"boot", "mft", "file", "no"} => pos = 0
  /\ ntfspc \in {"list", "yes"} =>
       /\ unused = Cardinality(Clear(bitmap, 8 * got))
       /\ pos \in 0 .. 8 * got
       /\ found \in Seq(Int)
       /\ Len(found) = Cardinality(Clear(bitmap, pos)) * nvol.blocks_per_cluster
  /\ ntfspc = "yes" => pos = 8 * got

\* read_boot_sector.
LEMMA NtfsBootStep ==
  ASSUME NtfsInv, NtfsReject \/ NtfsReadBootSector
  PROVE  NtfsInv'
<1>1. CASE NtfsReject
  BY Zenon, <1>1 DEF NtfsReject, NtfsInv
<1>2. CASE NtfsReadBootSector
  <2>1. /\ disk \in Devices /\ disk.boot.ntfs_oem /\ ntfspc = "boot"
        /\ disk.boot.bytes_sec \in Nat /\ disk.boot.sec_cluster \in Nat
        /\ disk.boot.sectors_64 \in Nat
    BY Zenon, <1>2, BootAssumption DEF NtfsInv, NtfsReadBootSector, NtfsBootValid, BootSector
  <2> DEFINE bytes == disk.boot.bytes_sec * disk.boot.sec_cluster
  <2>2. bytes \in Nat
    BY <2>1
  <2> HIDE DEF bytes
  <2>3. (bytes \div PageBytes) % 256 \in Nat
    <3>1. bytes \div PageBytes \in Nat
      BY Zenon, <2>2, PageAssumption, DivisionFacts
    <3>2. QED
      BY <3>1
  <2>4. disk.boot.sec_cluster # 0 => disk.boot.sectors_64 \div disk.boot.sec_cluster \in Nat
    BY Zenon, <2>1, DivisionFacts
  <2>5. /\ nvol'.blocks_per_cluster \in Nat /\ nvol'.bytes_per_cluster \in Nat
        /\ nvol'.cluster_count \in Nat
    <3>1. CASE disk.boot.sec_cluster = 0 \/ NtfsRecordSize(disk.boot) = 0
      BY Zenon, <1>2, <3>1 DEF NtfsReadBootSector, NtfsInv
    <3>2. CASE ~ (disk.boot.sec_cluster = 0 \/ NtfsRecordSize(disk.boot) = 0)
      BY <1>2, <3>2, <2>2, <2>3, <2>4 DEF NtfsReadBootSector, bytes
    <3>3. QED
      BY Zenon, <3>1, <3>2
  <2>6. ntfspc' \in {"mft", "oops"} /\ UNCHANGED <<disk, attr, written, got, pos>>
    BY Zenon, <1>2 DEF NtfsReadBootSector
  <2>7. QED
    BY Zenon, <2>1, <2>5, <2>6 DEF NtfsInv
<1>3. QED
  BY Zenon, <1>1, <1>2

\* ntfs_map reads the file records.
LEMMA NtfsMapStep ==
  ASSUME NtfsInv, NtfsMap
  PROVE  NtfsInv'
<1>1. ntfspc = "mft" /\ ntfspc' \in {"oops", "no", "file"}
  BY Zenon DEF NtfsMap
<1>2. QED
  BY <1>1 DEF NtfsMap, NtfsInv

\* read_nonresident_data reads a cluster or goes to the next run.
LEMMA NtfsRunStep ==
  ASSUME NtfsInv, NtfsReadCluster \/ NtfsNextRun
  PROVE  NtfsInv'
<1>1. CASE NtfsReadCluster
  <2>1. /\ ntfspc = "file" /\ ntfspc' \in {"file", "oops"}
        /\ written' = written + nvol.bytes_per_cluster
        /\ UNCHANGED <<disk, nvol, attr, got, pos>>
    BY Zenon, <1>1 DEF NtfsReadCluster
  <2>2. QED
    BY <2>1 DEF NtfsInv
<1>2. CASE NtfsNextRun
  BY Zenon, <1>2 DEF NtfsNextRun, NtfsInv
<1>3. QED
  BY Zenon, <1>1, <1>2

\* read_file goes to the next attribute.
LEMMA NtfsAttrStep ==
  ASSUME NtfsInv, NtfsNextAttr
  PROVE  NtfsInv'
<1>1. /\ ntfspc = "file" /\ ntfspc' = "file" /\ written' = 0
      /\ got' = got + NtfsAdded /\ attr' = NtfsAttrAfter
      /\ UNCHANGED <<disk, nvol, pos>>
      /\ ~ NtfsFileEnds /\ ~ (NtfsAtRuns /\ NtfsRunsLeft)
  BY Zenon DEF NtfsNextAttr
<1>2. disk \in Devices /\ 6 \in DOMAIN disk.mft /\ disk.mft[6] \in FileRecord
  BY Zenon, <1>1, RecordsAssumption DEF NtfsInv
<1>3. NtfsAttrs \in Seq(Attribute)
  BY Zenon, <1>2 DEF NtfsAttrs, FileRecord
<1>4. attr \in 1 .. Len(NtfsAttrs) /\ ~ (NtfsAdded < 0)
  BY <1>1, <1>3 DEF NtfsFileEnds, NtfsInv
<1>5. NtfsAttrs[attr] \in Attribute
  BY <1>3, <1>4
<1>6. NtfsMax \in Nat
  BY DEF NtfsMax, NtfsInv
<1>7. NtfsAdded \in Int
  <2>1. CASE NtfsAtRuns
    <3>1. NtfsAdded = written
      BY Zenon, <2>1 DEF NtfsAdded, NtfsAtRuns
    <3>2. QED
      BY <3>1 DEF NtfsInv
  <2>2. CASE ~ NtfsAtRuns /\ NtfsAttrs[attr].type = "data" /\ ~ NtfsAttrs[attr].nonresident
    <3>1. NtfsAdded = Smaller(NtfsMax - got, NtfsAttrs[attr].length)
      BY Zenon, <2>2 DEF NtfsAdded
    <3>2. NtfsAttrs[attr].length \in Nat /\ NtfsMax - got \in Int
      BY <1>5, <1>6 DEF Attribute, NtfsInv
    <3>3. QED
      BY <3>1, <3>2 DEF Smaller
  <2>3. CASE ~ NtfsAtRuns /\ ~ (NtfsAttrs[attr].type = "data" /\ ~ NtfsAttrs[attr].nonresident)
    BY <2>3 DEF NtfsAdded
  <2>4. QED
    BY Zenon, <2>1, <2>2, <2>3
<1>8. got' \in Nat
  BY <1>1, <1>4, <1>7 DEF NtfsInv
<1>9. attr' \in Nat \ {0}
  BY <1>1, <1>3, <1>4 DEF NtfsAttrAfter
<1>10. QED
  BY Zenon, <1>1, <1>8, <1>9 DEF NtfsInv

\* The first pass counts.
LEMMA NtfsCountStep ==
  ASSUME NtfsInv, NtfsCount
  PROVE  NtfsInv'
<1>1. /\ ntfspc = "file" /\ ntfspc' \in {"no", "oops", "list"}
      /\ unused' = NtfsClearBits /\ pos' = 0 /\ found' = <<>>
      /\ UNCHANGED <<disk, nvol, attr, written, got, bitmap>>
  BY Zenon DEF NtfsCount
<1>2. got \in Nat /\ 8 * got \in Nat
  BY DEF NtfsInv
<1>3. unused' = Cardinality(Clear(bitmap, 8 * got))
  BY Zenon, <1>1, <1>2, ClearFacts DEF NtfsClearBits
<1>4. Cardinality(Clear(bitmap, 0)) = 0
  <2>1. Clear(bitmap, 0) = {}
    BY DEF Clear
  <2>2. QED
    BY Zenon, <2>1, FS_EmptySet
<1>5. nvol.blocks_per_cluster \in Nat
  BY Zenon DEF NtfsInv
<1>6. found' \in Seq(Int) /\ Len(found') = 0 /\ 0 * nvol.blocks_per_cluster = 0
  BY <1>1, <1>5
<1>7. (unused = Cardinality(Clear(bitmap, 8 * got)))'
      /\ (Len(found) = Cardinality(Clear(bitmap, pos)) * nvol.blocks_per_cluster)'
  BY Zenon, <1>1, <1>3, <1>4, <1>6
<1>8. QED
  BY <1>1, <1>2, <1>6, <1>7 DEF NtfsInv

\* The list is never given up.
LEMMA NtfsScanStep ==
  ASSUME NtfsInv, NtfsScan
  PROVE  NtfsInv'
<1> DEFINE n == nvol.blocks_per_cluster
           more == IF pos \in bitmap THEN <<>>
                   ELSE [k \in 1 .. n |-> (pos * n + k - 1) % U32]
           c(p) == Cardinality(Clear(bitmap, p))
<1>1. /\ ntfspc = "list" /\ pos < 8 * got /\ pos' = pos + 1
      /\ UNCHANGED <<disk, nvol, attr, written, got, bitmap, unused>>
      /\ IF Len(found) + Len(more) > unused * n
         THEN ntfspc' = "no" /\ UNCHANGED found
         ELSE found' = found \o more /\ UNCHANGED ntfspc
  BY Zenon DEF NtfsScan
<1>2. /\ n \in Nat /\ got \in Nat /\ pos \in Nat /\ pos + 1 <= 8 * got /\ 8 * got \in Nat
      /\ found \in Seq(Int) /\ unused = c(8 * got) /\ Len(found) = c(pos) * n
  BY <1>1 DEF NtfsInv
<1>3. more \in Seq(Int) /\ Len(more) = IF pos \in bitmap THEN 0 ELSE n
  <2>1. CASE pos \in bitmap
    BY <2>1
  <2>2. CASE pos \notin bitmap
    <3>1. \A k \in 1 .. n : (pos * n + k - 1) % U32 \in Int
      <4> TAKE k \in 1 .. n
      <4>1. pos * n + k - 1 \in Int
        BY <1>2
      <4> DEFINE x == pos * n + k - 1
      <4> HIDE DEF x
      <4>2. x \in Int => x % U32 \in Int
        BY U32Assumption
      <4>3. QED
        BY Zenon, <4>1, <4>2 DEF x
    <3> DEFINE f == [k \in 1 .. n |-> (pos * n + k - 1) % U32]
    <3>2. f \in [1 .. n -> Int] /\ more = f
      BY Zenon, <3>1, <2>2
    <3> HIDE DEF f, more
    <3>3. f \in Seq(Int) /\ Len(f) = n
      BY <3>2, <1>2
    <3>4. QED
      BY Zenon, <2>2, <3>2, <3>3
  <2>3. QED
    BY Zenon, <2>1, <2>2
<1>4. /\ c(pos) \in Nat /\ c(pos + 1) \in Nat /\ c(8 * got) \in Nat
      /\ c(pos + 1) = IF pos \in bitmap THEN c(pos) ELSE c(pos) + 1
      /\ c(pos + 1) <= c(8 * got)
  <2>1. pos \in Nat /\ pos + 1 \in Nat /\ 8 * got \in Nat /\ pos + 1 <= 8 * got
    BY <1>2
  <2>2. c(pos) \in Nat /\ c(pos + 1) \in Nat
    BY Zenon, <2>1, ClearFacts
  <2>3. c(8 * got) \in Nat
    BY Zenon, <2>1, ClearFacts
  <2>4. c(pos + 1) = IF pos \in bitmap THEN c(pos) ELSE c(pos) + 1
    BY Zenon, <2>1, ClearNext
  <2>5. c(pos + 1) <= c(8 * got)
    BY Zenon, <2>1, ClearGrows
  <2>6. QED
    BY Zenon, <2>2, <2>3, <2>4, <2>5
<1> HIDE DEF n, more, c
<1>5. Len(found) + Len(more) = c(pos + 1) * n
  <2>1. CASE pos \in bitmap
    BY <2>1, <1>2, <1>3, <1>4
  <2>2. CASE pos \notin bitmap
    <3>1. c(pos + 1) * n = c(pos) * n + n
      BY <2>2, <1>2, <1>4
    <3>2. QED
      BY Zenon, <3>1, <2>2, <1>2, <1>3
  <2>3. QED
    BY Zenon, <2>1, <2>2
<1>6. c(pos + 1) * n <= unused * n
  BY Zenon, <1>2, <1>4, TimesGrows
<1>7. found' = found \o more /\ ntfspc' = "list"
  <2>1. ~ (Len(found) + Len(more) > unused * n)
    <3>1. c(pos + 1) * n \in Int /\ unused * n \in Int
      BY <1>2, <1>4
    <3>2. QED
      BY <3>1, <1>5, <1>6
  <2>2. QED
    BY Zenon, <2>1, <1>1
<1>8. found' \in Seq(Int) /\ Len(found') = c(pos + 1) * n
  <2>1. found \o more \in Seq(Int) /\ Len(found \o more) = Len(found) + Len(more)
    BY Zenon, <1>2, <1>3, Concatenated
  <2>2. QED
    BY Zenon, <2>1, <1>5, <1>7
<1>9. (Len(found) = Cardinality(Clear(bitmap, pos)) * nvol.blocks_per_cluster)'
      /\ (unused = Cardinality(Clear(bitmap, 8 * got)))'
  BY Zenon, <1>1, <1>2, <1>8 DEF n, c
<1>10. QED
  BY <1>1, <1>2, <1>7, <1>8, <1>9 DEF NtfsInv

\* extract_bitmap ends.
LEMMA NtfsEndStep ==
  ASSUME NtfsInv, NtfsNoMemory \/ NtfsFill
  PROVE  NtfsInv'
<1>1. /\ ntfspc = "list"
      /\ UNCHANGED <<disk, nvol, attr, written, got, bitmap, unused, pos, found>>
      /\ \/ ntfspc' = "no" /\ pos = 0
         \/ ntfspc' = "yes" /\ pos >= 8 * got
  BY Zenon DEF NtfsNoMemory, NtfsFill
<1>2. QED
  BY <1>1 DEF NtfsInv
\* What belongs to the NTFS module.
NtfsFrame == UNCHANGED <<disk, ntfspc, nvol, attr, written, got, bitmap, unused, pos, found>>

\* The steps of the other modules keep the invariant.
LEMMA NtfsUnchanged ==
  ASSUME NtfsInv, NtfsFrame
  PROVE  NtfsInv'
BY Zenon DEF NtfsInv, NtfsFrame

\* No detection has begun.
LEMMA NtfsBegins ==
  ASSUME disk \in Devices, NtfsInit
  PROVE  NtfsInv
BY DEF NtfsInit, NtfsNoVolume, NtfsInv

\* A detection begins.
LEMMA NtfsBeginsAgain ==
  ASSUME disk' \in Devices, NtfsStart
  PROVE  NtfsInv'
BY DEF NtfsStart, NtfsNoVolume, NtfsInv

\* Every step of detect_fs keeps NtfsInv.
LEMMA NtfsInvStep == ASSUME NtfsInv, [Next]_vars PROVE NtfsInv'
<1>1. ASSUME NEW d \in Devices, DetectFs(d) PROVE NtfsInv'
  BY Zenon, <1>1, NtfsBeginsAgain DEF DetectFs
<1>2. CASE RunFat32
  <2>1. UNCHANGED ntfsvars /\ FatNext
    BY Zenon, <1>2 DEF RunFat32
  <2>2. disk' = disk
    BY Zenon, <2>1, FatKeepsDisk
  <2>3. QED
    BY Zenon, <2>1, <2>2, NtfsUnchanged DEF NtfsFrame, ntfsvars
<1>3. CASE RunExt4
  BY Zenon, <1>3, Ext4KeepsDisk, NtfsUnchanged DEF RunExt4, NtfsFrame, ntfsvars
<1>4. CASE RunNtfs
  <2>1. NtfsNext
    BY Zenon, <1>4 DEF RunNtfs
  <2>2. QED
    BY Zenon, <2>1, NtfsBootStep, NtfsMapStep, NtfsRunStep, NtfsAttrStep, NtfsCountStep,
       NtfsScanStep, NtfsEndStep DEF NtfsNext
<1>5. CASE Detected \/ NotDetected \/ Fault \/ UNCHANGED vars
  BY Zenon, <1>5, NtfsUnchanged
     DEF Detected, NotDetected, Fault, vars, Locals, NtfsFrame, ntfsvars
<1>6. QED
  BY Zenon, <1>1, <1>2, <1>3, <1>4, <1>5 DEF Next

\* On every device, whatever $Bitmap holds, however many clusters it names and
\* however many blocks a cluster has, the second pass of extract_bitmap finds as
\* many clear bits as the first counted: it never gives up, and fills the list
\* to the last entry.
THEOREM NtfsPassesAlwaysAgree == Spec => []NtfsPassesAgree
<1>1. Init => NtfsInv
  BY Zenon, NtfsBegins DEF Init
<1>2. NtfsInv => NtfsPassesAgree
  BY Zenon DEF NtfsInv, NtfsPassesAgree
<1>3. QED
  BY <1>1, <1>2, NtfsInvStep, PTL DEF Spec

\* What $Bitmap, as attribute n of its record has it, says of a cluster.
NtfsBitOf(d, n, c) ==
  LET block == d.mft[6].attrs[n].runs[1][1] + c \div (8 * PageBytes)
  IN  block \in DOMAIN d.pages /\ c % (8 * PageBytes) \in d.pages[block]

\* The used clusters below w.
NtfsUsedBelow(d, n, w) == {c \in 0 .. w - 1 : NtfsBitOf(d, n, c)}

\* The length of the run.
NtfsRunLen(d, n) == d.mft[6].attrs[n].runs[1][2]

\* read_file, when attribute n is a whole $Bitmap: before it nothing is read, in
\* it the clusters up to lcn are, and after it as many bytes as the volume
\* needs.  What is in the buffer is what $Bitmap says.
NtfsFileInv(n) ==
  /\ attr < n => got = 0 /\ written = 0 /\ run = 1 /\ lcn = 0 /\ bitmap = {}
  /\ attr = n => /\ got = 0
                 /\ bitmap = NtfsUsedBelow(disk, n, 8 * written)
                 /\ \/ /\ run = 1 /\ lcn \in 0 .. NtfsRunLen(disk, n)
                       /\ written = lcn * PageBytes
                    \/ run = 2 /\ written = NtfsRunLen(disk, n) * PageBytes
  /\ attr > n => got >= NtfsMax /\ bitmap = NtfsUsedBelow(disk, n, 8 * got)

\* extract_bitmap, when the buffer holds what $Bitmap says: the list has come to
\* the bit that is next.
NtfsListInv(n) ==
  /\ got >= NtfsMax /\ 8 * got < U32
  /\ bitmap = NtfsUsedBelow(disk, n, 8 * got)
  /\ Listed(found, Nat \ bitmap, pos)

\* The inductive invariant of the NTFS module on regular volumes.
NtfsExact ==
  /\ stage \in {"fat32", "ext4"} => ntfspc = "boot"
  /\ ntfspc \in {"mft", "file", "list", "yes"} =>
       /\ disk.boot.ntfs_oem
       /\ nvol.bytes_per_cluster = disk.boot.bytes_sec * disk.boot.sec_cluster
       /\ nvol.blocks_per_cluster = (nvol.bytes_per_cluster \div PageBytes) % 256
  /\ ntfspc = "file" /\ NtfsRegular =>
       \A n \in 1 .. Len(NtfsAttrs) : NtfsWholeBitmap(n) => NtfsFileInv(n)
  /\ ntfspc \in {"list", "yes"} /\ NtfsRegular =>
       \A n \in 1 .. Len(NtfsAttrs) : NtfsWholeBitmap(n) => NtfsListInv(n)
  /\ ntfspc = "yes" => fs.block_list = found /\ fs.list_len = unused % U32

\* The volume does not change once its boot sector was read.
LEMMA NtfsRegularKept ==
  ASSUME UNCHANGED <<disk, nvol>>
  PROVE  /\ NtfsAttrs' = NtfsAttrs /\ NtfsMax' = NtfsMax
         /\ NtfsRegular' <=> NtfsRegular
         /\ \A n \in 1 .. Len(NtfsAttrs) : NtfsWholeBitmap(n)' <=> NtfsWholeBitmap(n)
<1>1. NtfsAttrs' = NtfsAttrs /\ NtfsMax' = NtfsMax
  BY Zenon DEF NtfsAttrs, NtfsMax
<1>2. \A n \in 1 .. Len(NtfsAttrs) : NtfsWholeBitmap(n)' <=> NtfsWholeBitmap(n)
  BY Zenon, <1>1 DEF NtfsWholeBitmap
<1>3. NtfsRegular' <=> NtfsRegular
  BY Zenon, <1>1, <1>2 DEF NtfsRegular
<1>4. QED
  BY Zenon, <1>1, <1>2, <1>3

\* The record of $Bitmap, and the one attribute with its data.
LEMMA NtfsAttrsTyped ==
  ASSUME NtfsInv, NtfsExact, ntfspc \in {"mft", "file", "list", "yes"}
  PROVE  /\ NtfsAttrs \in Seq(Attribute) /\ Len(NtfsAttrs) \in Nat
         /\ \A n \in 1 .. Len(NtfsAttrs) :
              /\ NtfsAttrs[n] \in Attribute
              /\ NtfsWholeBitmap(n) => /\ NtfsAttrs[n].runs[1] \in Nat \X Nat
                                       /\ NtfsRunLen(disk, n) \in Nat
                                       /\ NtfsRunLen(disk, n) = NtfsAttrs[n].runs[1][2]
                                       /\ NtfsAttrs[n].runs[1][1] \in Nat
<1>1. disk \in Devices /\ disk.boot.ntfs_oem
  BY Zenon DEF NtfsInv, NtfsExact
<1>2. 6 \in DOMAIN disk.mft /\ disk.mft[6] \in FileRecord
  BY Zenon, <1>1, RecordsAssumption
<1>3. NtfsAttrs \in Seq(Attribute) /\ Len(NtfsAttrs) \in Nat
  BY <1>2 DEF NtfsAttrs, FileRecord
<1>4. ASSUME NEW n \in 1 .. Len(NtfsAttrs)
      PROVE  /\ NtfsAttrs[n] \in Attribute
             /\ NtfsWholeBitmap(n) => /\ NtfsAttrs[n].runs[1] \in Nat \X Nat
                                      /\ NtfsRunLen(disk, n) \in Nat
                                      /\ NtfsRunLen(disk, n) = NtfsAttrs[n].runs[1][2]
                                      /\ NtfsAttrs[n].runs[1][1] \in Nat
  <2>1. NtfsAttrs[n] \in Attribute
    BY <1>3, <1>4
  <2>2. NtfsAttrs[n].runs \in Seq(Nat \X Nat)
    BY Zenon, <2>1 DEF Attribute
  <2>3. ASSUME NtfsWholeBitmap(n) PROVE NtfsAttrs[n].runs[1] \in Nat \X Nat
    <3>1. 1 \in 1 .. Len(NtfsAttrs[n].runs)
      BY <2>3 DEF NtfsWholeBitmap
    <3>2. QED
      BY <2>2, <3>1
  <2>4. NtfsRunLen(disk, n) = NtfsAttrs[n].runs[1][2]
    BY Zenon DEF NtfsRunLen, NtfsAttrs
  <2>5. QED
    BY Zenon, <2>1, <2>3, <2>4
<1>5. QED
  BY Zenon, <1>3, <1>4

\* A cluster is one block there.
LEMMA NtfsOneBlock ==
  ASSUME NtfsInv, NtfsExact, NtfsRegular, ntfspc \in {"file", "list", "yes"}
  PROVE  nvol.blocks_per_cluster = 1
<1>1. /\ nvol.bytes_per_cluster = PageBytes
      /\ nvol.blocks_per_cluster = (nvol.bytes_per_cluster \div PageBytes) % 256
      /\ PageBytes \in Nat \ {0}
  BY Zenon, PageAssumption DEF NtfsExact, NtfsRegular
<1>2. PageBytes \div PageBytes = 1
  <2>1. 0 \in 0 .. PageBytes - 1 /\ 1 * PageBytes + 0 = PageBytes
    BY <1>1
  <2>2. QED
    BY <2>1, <1>1, Remainder
<1>3. QED
  BY <1>1, <1>2

\* read_ntfs_cluster, on a regular volume: cluster l of the run is the page with
\* the bits of the clusters from 8 * l * PageBytes on.
LEMMA NtfsPageRight ==
  ASSUME NtfsInv, NtfsExact, ntfspc = "file", NtfsRegular,
         NEW n \in 1 .. Len(NtfsAttrs), NtfsWholeBitmap(n),
         NEW l \in 0 .. NtfsRunLen(disk, n) - 1
  PROVE  LET page == ReadPage(NtfsClusterBlock(NtfsAttrs[n].runs[1][1] + l), 0)
             at   == l * PageBytes
         IN  NtfsUsedBelow(disk, n, 8 * (at + PageBytes))
               = NtfsUsedBelow(disk, n, 8 * at) \cup {8 * at + x : x \in page}
<1> DEFINE first == NtfsAttrs[n].runs[1][1]
           len == NtfsRunLen(disk, n)
           b == first + l
           page == ReadPage(NtfsClusterBlock(first + l), 0)
           at == l * PageBytes
           p == 8 * PageBytes
<1>1. /\ first \in Nat /\ len \in Nat /\ l \in Nat /\ l < len /\ b \in Nat
      /\ PageBytes \in Nat \ {0} /\ SectorBytes \in Nat \ {0} /\ U32 \in Nat \ {0}
      /\ (first + len) * PageBytes <= U32
  <2>1. first \in Nat /\ len \in Nat /\ len = NtfsAttrs[n].runs[1][2]
    BY Zenon, NtfsAttrsTyped
  <2>2. (first + NtfsAttrs[n].runs[1][2]) * PageBytes <= U32
    BY Zenon DEF NtfsWholeBitmap
  <2>3. (first + len) * PageBytes <= U32
    BY Zenon, <2>1, <2>2
  <2>4. l \in Nat /\ l < len
    <3> HIDE DEF first, len
    <3>1. l \in 0 .. len - 1
      BY Zenon DEF len
    <3>2. QED
      BY <3>1, <2>1
  <2> HIDE DEF first, len
  <2>5. QED
    BY <2>1, <2>3, <2>4, PageAssumption, U32Assumption
<1>2. nvol.blocks_per_cluster = 1
  BY Zenon, NtfsOneBlock
<1>3. b * PageBytes \in Nat /\ b * PageBytes < U32 /\ b < U32
  <2> HIDE DEF first, len, b
  <2>1. (first + len - b) \in Nat \ {0}
    BY <1>1 DEF b
  <2>2. b * PageBytes \in Nat /\ b <= b * PageBytes
    BY <1>1
  <2>3. /\ (first + len) * PageBytes = b * PageBytes + (first + len - b) * PageBytes
        /\ (first + len - b) * PageBytes \in Nat \ {0}
    BY <1>1, <2>1
  <2>4. QED
    BY <1>1, <2>2, <2>3
<1>4. NtfsClusterBlock(b) = b
  <2>1. b * nvol.blocks_per_cluster = b /\ b % U32 = b
    <3> HIDE DEF b
    <3>1. b \in Nat /\ b * 1 = b
      BY <1>1
    <3>2. b % U32 = b
      BY Zenon, <3>1, <1>1, <1>3, SmallModulo
    <3>3. QED
      BY Zenon, <3>1, <3>2, <1>2
  <2>2. QED
    BY Zenon, <2>1 DEF NtfsClusterBlock
<1>5. page = IF b \in DOMAIN disk.pages THEN disk.pages[b] ELSE {}
  <2> DEFINE s == SectorsPerBlock
  <2>1. s \in Nat \ {0} /\ PageBytes = s * SectorBytes
    <3>1. s = PageBytes \div SectorBytes /\ PageBytes % SectorBytes = 0
      BY Zenon, PageAssumption DEF SectorsPerBlock
    <3>2. PageBytes = (PageBytes \div SectorBytes) * SectorBytes + (PageBytes % SectorBytes)
      BY Zenon, <1>1, Divided
    <3>3. s \in Nat \ {0}
      BY Zenon, SectorsInBlock
    <3>4. QED
      BY <3>1, <3>2, <3>3, <1>1
  <2> HIDE DEF s, b
  <2>2. (b * PageBytes) % U32 = b * PageBytes /\ 0 % U32 = 0
    <3> DEFINE x == b * PageBytes
    <3>1. x \in Nat /\ x < U32 /\ U32 \in Nat \ {0} /\ 0 \in Nat /\ 0 < U32
      BY <1>1, <1>3
    <3> HIDE DEF x
    <3>2. x % U32 = x /\ 0 % U32 = 0
      BY Zenon, <3>1, SmallModulo
    <3>3. QED
      BY Zenon, <3>2 DEF x
  <2>3. (b * PageBytes) \div SectorBytes = b * s
    <3>1. b * PageBytes = (b * s) * SectorBytes + 0 /\ b * s \in Nat /\ 0 \in 0 .. SectorBytes - 1
      BY <1>1, <2>1
    <3>2. QED
      BY Zenon, <3>1, <1>1, Remainder
  <2>4. ((b * PageBytes) % U32) \div SectorBytes + (0 % U32) = b * s
    <3>1. b * s \in Nat /\ b * s + 0 = b * s
      BY <1>1, <2>1
    <3>2. QED
      BY Zenon, <2>2, <2>3, <3>1
  <2>5. (b * s) % s = 0 /\ (b * s) \div s = b
    <3>1. b * s + 0 = b * s /\ 0 \in 0 .. s - 1
      BY <1>1, <2>1
    <3>2. QED
      BY Zenon, <3>1, <1>1, <2>1, Remainder
  <2>6. ReadPage(b, 0) = IF b \in DOMAIN disk.pages THEN disk.pages[b] ELSE {}
    BY Zenon, <2>4, <2>5 DEF ReadPage, s
  <2>7. QED
    BY Zenon, <2>6, <1>4 DEF b
<1>6. page \subseteq 0 .. p - 1
  BY Zenon, <1>5, PagesAssumption DEF NtfsInv
<1>7. p \in Nat \ {0} /\ 8 * at = l * p /\ 8 * (at + PageBytes) = l * p + p /\ l * p \in Nat
  BY <1>1
<1>8. \A x \in 0 .. p - 1 : NtfsBitOf(disk, n, l * p + x) <=> x \in page
  <2> TAKE x \in 0 .. p - 1
  <2>1. (l * p + x) \div p = l /\ (l * p + x) % p = x
    <3> HIDE DEF p
    <3>1. QED
      BY Zenon, <1>1, <1>7, Remainder
  <2>2. NtfsBitOf(disk, n, l * p + x) <=> b \in DOMAIN disk.pages /\ x \in disk.pages[b]
    BY Zenon, <2>1 DEF NtfsBitOf, NtfsAttrs
  <2> HIDE DEF page, b
  <2>3. QED
    BY Zenon, <2>2, <1>5
<1> HIDE DEF page, p, at, first, b, len
<1>9. ASSUME NEW c \in NtfsUsedBelow(disk, n, l * p + p), c \notin NtfsUsedBelow(disk, n, l * p)
      PROVE  c \in {l * p + x : x \in page}
  <2>1. c - l * p \in 0 .. p - 1 /\ c = l * p + (c - l * p) /\ NtfsBitOf(disk, n, c)
    BY <1>7, <1>9 DEF NtfsUsedBelow
  <2>2. c - l * p \in page
    BY Zenon, <2>1, <1>8
  <2>3. QED
    BY Zenon, <2>1, <2>2
<1>10. ASSUME NEW c \in NtfsUsedBelow(disk, n, l * p) PROVE c \in NtfsUsedBelow(disk, n, l * p + p)
  BY <1>7, <1>10 DEF NtfsUsedBelow
<1>11. ASSUME NEW x \in page PROVE l * p + x \in NtfsUsedBelow(disk, n, l * p + p)
  <2>1. x \in 0 .. p - 1
    BY Zenon, <1>6, <1>11
  <2>2. NtfsBitOf(disk, n, l * p + x)
    BY Zenon, <2>1, <1>8, <1>11
  <2>3. l * p + x \in 0 .. (l * p + p) - 1
    BY <2>1, <1>7
  <2>4. QED
    <3> DEFINE c == l * p + x
               w == l * p + p
    <3>1. NtfsBitOf(disk, n, c) /\ c \in 0 .. w - 1
      BY Zenon, <2>2, <2>3
    <3> HIDE DEF c, w
    <3>2. c \in NtfsUsedBelow(disk, n, w)
      BY Zenon, <3>1 DEF NtfsUsedBelow
    <3>3. QED
      BY Zenon, <3>2 DEF c, w
<1>12. NtfsUsedBelow(disk, n, l * p + p)
         = NtfsUsedBelow(disk, n, l * p) \cup {l * p + x : x \in page}
  BY Zenon, <1>9, <1>10, <1>11
<1>13. QED
  BY Zenon, <1>7, <1>12 DEF page, at, first

\* The steps before read_file.
LEMMA NtfsExactBegin ==
  ASSUME NtfsInv, NtfsExact, stage = "ntfs", UNCHANGED stage,
         NtfsReject \/ NtfsReadBootSector \/ NtfsMap
  PROVE  NtfsExact'
<1>1. CASE NtfsReject
  BY Zenon, <1>1 DEF NtfsReject, NtfsExact
<1>2. CASE NtfsReadBootSector
  <2>1. disk.boot.ntfs_oem /\ disk' = disk /\ ntfspc' \in {"mft", "oops"}
    BY Zenon, <1>2 DEF NtfsReadBootSector, NtfsBootValid
  <2>2. ntfspc' = "mft" =>
          /\ nvol'.bytes_per_cluster = disk.boot.bytes_sec * disk.boot.sec_cluster
          /\ nvol'.blocks_per_cluster = (nvol'.bytes_per_cluster \div PageBytes) % 256
    BY <1>2 DEF NtfsReadBootSector
  <2>3. QED
    BY Zenon, <2>1, <2>2 DEF NtfsExact
<1>3. CASE NtfsMap
  <2>1. /\ ntfspc = "mft" /\ ntfspc' \in {"oops", "no", "file"}
        /\ attr' = 1 /\ run' = 1 /\ lcn' = 0 /\ written' = 0 /\ got' = 0 /\ bitmap' = {}
        /\ UNCHANGED <<disk, nvol, stage>>
    BY Zenon, <1>3 DEF NtfsMap
  <2>2. NtfsAttrs' = NtfsAttrs
    BY Zenon, <2>1, NtfsRegularKept
  <2>3. ASSUME NEW n \in 1 .. Len(NtfsAttrs), NtfsWholeBitmap(n)' PROVE NtfsFileInv(n)'
    <3>1. NtfsWholeBitmap(n)
      BY Zenon, <2>1, <2>3, NtfsRegularKept
    <3>2. NtfsRunLen(disk, n) \in Nat /\ PageBytes \in Nat
      BY Zenon, <2>1, <3>1, NtfsAttrsTyped, PageAssumption
    <3>3. NtfsUsedBelow(disk, n, 8 * 0) = {} /\ 0 * PageBytes = 0
      BY <3>2 DEF NtfsUsedBelow
    <3>4. n \in Nat /\ n >= 1
      BY <2>1, NtfsAttrsTyped
    <3>5. QED
      BY <2>1, <3>2, <3>3, <3>4 DEF NtfsFileInv
  <2>4. QED
    BY Zenon, <2>1, <2>2, <2>3 DEF NtfsExact
<1>4. QED
  BY Zenon, <1>1, <1>2, <1>3

\* What is read when read_file leaves the bitmap: enough for all clusters.
LEMMA NtfsEnough ==
  ASSUME NtfsInv, NtfsExact, ntfspc = "file",
         NEW n \in 1 .. Len(NtfsAttrs), NtfsWholeBitmap(n), NtfsFileInv(n), attr = n,
         ~ (NtfsAtRuns /\ NtfsRunsLeft)
  PROVE  NtfsAtRuns /\ written >= NtfsMax
<1> DEFINE len == NtfsRunLen(disk, n)
           count == nvol.cluster_count
<1>1. /\ NtfsAtRuns /\ NtfsAttrs[n].start_vcn = 0 /\ Len(NtfsAttrs[n].runs) = 1
      /\ NtfsAttrs[n].actual_size >= NtfsMax /\ 8 * PageBytes * len >= count
  BY NtfsAttrsTyped DEF NtfsWholeBitmap, NtfsAtRuns, NtfsMax
<1>2. /\ len \in Nat /\ PageBytes \in Nat \ {0} /\ count \in Nat /\ written \in Nat
      /\ got = 0 /\ NtfsAttrs[n].actual_size \in Nat
  <2>1. NtfsAttrs[n] \in Attribute /\ len \in Nat
    BY Zenon, NtfsAttrsTyped
  <2>2. QED
    BY Zenon, <2>1, PageAssumption DEF NtfsInv, NtfsFileInv, Attribute
<1>3. NtfsMax \in Nat /\ 8 * NtfsMax <= count
  <2>1. count \div 8 \in Nat /\ (count \div 8) * 8 <= count
    <3>1. count \in Nat /\ 8 \in Nat \ {0}
      BY <1>2
    <3> HIDE DEF count
    <3>2. QED
      BY Zenon, <3>1, DivisionFacts
  <2>2. QED
    BY <2>1 DEF NtfsMax
<1>4. NtfsToRead = NtfsMax
  BY <1>1, <1>2, <1>3 DEF NtfsToRead, Smaller
<1>5. ~ (run <= 1 /\ (written = 0 \/ written < NtfsMax))
  BY Zenon, <1>1, <1>4 DEF NtfsRunsLeft
<1>6. CASE run = 1
  BY <1>1, <1>2, <1>3, <1>5, <1>6
<1>7. CASE run = 2 /\ written = len * PageBytes
  <2>1. 8 * (len * PageBytes) = 8 * PageBytes * len /\ len * PageBytes \in Nat
    BY <1>2
  <2> HIDE DEF len, count
  <2>2. QED
    BY <1>1, <1>2, <1>3, <1>7, <2>1
<1>8. QED
  BY Zenon, <1>6, <1>7 DEF NtfsFileInv

\* read_nonresident_data: a page of $Bitmap arrives in its place.
LEMMA NtfsExactRun ==
  ASSUME NtfsInv, NtfsExact, stage = "ntfs", UNCHANGED stage,
         NtfsReadCluster \/ NtfsNextRun
  PROVE  NtfsExact'
<1>1. /\ ntfspc = "file" /\ ntfspc' \in {"file", "oops"} /\ NtfsAtRuns /\ NtfsRunsLeft
      /\ UNCHANGED <<disk, nvol, attr, got, stage>>
  BY Zenon DEF NtfsReadCluster, NtfsNextRun
<1>2. NtfsAttrs' = NtfsAttrs /\ NtfsMax' = NtfsMax /\ (NtfsRegular' <=> NtfsRegular)
  BY Zenon, <1>1, NtfsRegularKept
<1>3. ASSUME ntfspc' = "file", NtfsRegular, NEW n \in 1 .. Len(NtfsAttrs), NtfsWholeBitmap(n)
      PROVE  NtfsFileInv(n)'
  <2> DEFINE len == NtfsRunLen(disk, n)
  <2>1. /\ NtfsFileInv(n) /\ n \in Nat /\ attr \in Nat /\ len \in Nat
        /\ PageBytes \in Nat \ {0} /\ written \in Nat /\ got \in Nat
    BY <1>1, <1>3, NtfsAttrsTyped, PageAssumption DEF NtfsExact, NtfsInv
  <2>2. attr = n \/ attr > n
    <3>1. ASSUME attr < n PROVE FALSE
      <4>1. attr \in (1 .. Len(NtfsAttrs)) \ {n}
        BY <3>1, <2>1 DEF NtfsInv
      <4>2. NtfsAttrs[attr].type # "data"
        BY Zenon, <4>1, <1>3 DEF NtfsWholeBitmap
      <4>3. QED
        BY Zenon, <4>2, <1>1 DEF NtfsAtRuns
    <3>2. QED
      BY <3>1, <2>1
  <2>3. attr = n
    <3>1. ASSUME attr > n PROVE FALSE
      <4>1. attr \in (1 .. Len(NtfsAttrs)) \ {n}
        BY <3>1, <2>1, <1>1 DEF NtfsAtRuns, NtfsInv
      <4>2. NtfsAttrs[attr].type # "data"
        BY Zenon, <4>1, <1>3 DEF NtfsWholeBitmap
      <4>3. QED
        BY Zenon, <4>2, <1>1 DEF NtfsAtRuns
    <3>2. QED
      BY Zenon, <3>1, <2>2
  <2>4. /\ got = 0 /\ bitmap = NtfsUsedBelow(disk, n, 8 * written)
        /\ run = 1 /\ lcn \in 0 .. len /\ written = lcn * PageBytes
        /\ NtfsAttrs[n].runs[1][2] = len
    <3>1. run <= 1
      BY Zenon, <1>1, <1>3, <2>3 DEF NtfsRunsLeft, NtfsWholeBitmap
    <3>2. NtfsAttrs[n].runs[1][2] = len
      BY Zenon, <1>1, <1>3, NtfsAttrsTyped
    <3>3. QED
      BY <3>1, <3>2, <2>1, <2>3 DEF NtfsFileInv
  <2>5. CASE NtfsReadCluster
    <3> DEFINE page == ReadPage(NtfsClusterBlock(NtfsAttrs[n].runs[1][1] + lcn), 0)
    <3>1. lcn < len
      BY Zenon, <2>3, <2>4, <2>5 DEF NtfsReadCluster
    <3>2. /\ lcn' = lcn + 1 /\ run' = run
          /\ written' = written + nvol.bytes_per_cluster
      BY Zenon, <2>5 DEF NtfsReadCluster
    <3>3. nvol.bytes_per_cluster = PageBytes
      BY Zenon, <1>1, <1>3 DEF NtfsExact, NtfsRegular
    <3>4. bitmap' = bitmap \cup {8 * written + x : x \in page}
      <4>1. got + written = written
        BY <2>1, <2>4
      <4>2. 8 * (written + PageBytes) .. 8 * (written + nvol.bytes_per_cluster) - 1 = {}
        BY <3>3, <2>1
      <4>3. PICK junk \in BOOLEAN :
              bitmap' = bitmap \cup {8 * written + x : x \in page}
                     \cup (IF junk THEN 8 * (written + PageBytes)
                                        .. 8 * (written + nvol.bytes_per_cluster) - 1
                                   ELSE {})
        BY <1>3, <2>3, <2>4, <2>5, <4>1 DEF NtfsReadCluster
      <4>4. QED
        BY Zenon, <4>2, <4>3
    <3>5. lcn \in 0 .. len - 1
      BY <2>1, <2>4, <3>1
    <3>6. NtfsUsedBelow(disk, n, 8 * (written + PageBytes))
            = NtfsUsedBelow(disk, n, 8 * written) \cup {8 * written + x : x \in page}
      BY <1>1, <1>3, <2>4, <3>5, NtfsPageRight
    <3> HIDE DEF page
    <3>7. bitmap' = NtfsUsedBelow(disk, n, 8 * written')
      BY Zenon, <2>4, <3>2, <3>3, <3>4, <3>6
    <3>8. lcn' \in 0 .. len /\ written' = lcn' * PageBytes
      <4>1. (lcn + 1) * PageBytes = lcn * PageBytes + PageBytes
        BY <2>1, <2>4
      <4>2. QED
        BY <4>1, <2>1, <2>4, <3>2, <3>3, <3>5
    <3>9. QED
      BY <1>1, <2>1, <2>3, <2>4, <3>2, <3>7, <3>8 DEF NtfsFileInv
  <2>6. CASE NtfsNextRun
    <3>1. lcn >= len /\ run' = 2 /\ UNCHANGED <<written, bitmap>>
      BY <2>3, <2>4, <2>6 DEF NtfsNextRun
    <3>2. lcn = len
      BY <3>1, <2>1, <2>4
    <3>3. QED
      BY <1>1, <2>1, <2>3, <2>4, <3>1, <3>2 DEF NtfsFileInv
  <2>7. QED
    BY Zenon, <2>5, <2>6
<1>4. ASSUME ntfspc' = "file", NtfsRegular',
             NEW n \in 1 .. Len(NtfsAttrs)', NtfsWholeBitmap(n)'
      PROVE  NtfsFileInv(n)'
  <2>1. n \in 1 .. Len(NtfsAttrs)
    BY Zenon, <1>2, <1>4
  <2>2. NtfsWholeBitmap(n)
    BY Zenon, <1>1, <1>4, <2>1, NtfsRegularKept
  <2>3. QED
    BY Zenon, <1>2, <1>3, <1>4, <2>1, <2>2
<1>5. QED
  BY Zenon, <1>1, <1>4 DEF NtfsExact

\* read_file leaves an attribute.
LEMMA NtfsExactAttr ==
  ASSUME NtfsInv, NtfsExact, stage = "ntfs", UNCHANGED stage, NtfsNextAttr
  PROVE  NtfsExact'
<1>1. /\ ntfspc = "file" /\ ntfspc' = "file" /\ ~ (NtfsAtRuns /\ NtfsRunsLeft)
      /\ attr <= Len(NtfsAttrs)
      /\ got' = got + NtfsAdded /\ attr' = NtfsAttrAfter
      /\ run' = 1 /\ lcn' = 0 /\ written' = 0
      /\ bitmap' = IF NtfsAtRuns THEN bitmap
                   ELSE bitmap \cup {8 * got + x : x \in {y \in NtfsAttrs[attr].bits :
                                                           y < 8 * NtfsAdded}}
      /\ UNCHANGED <<disk, nvol, stage>>
  BY Zenon DEF NtfsNextAttr, NtfsFileEnds
<1>2. NtfsAttrs' = NtfsAttrs /\ NtfsMax' = NtfsMax /\ (NtfsRegular' <=> NtfsRegular)
  BY Zenon, <1>1, NtfsRegularKept
<1>3. ASSUME NtfsRegular, NEW n \in 1 .. Len(NtfsAttrs), NtfsWholeBitmap(n)
      PROVE  NtfsFileInv(n)'
  <2>1. /\ NtfsFileInv(n) /\ n \in Nat /\ attr \in Nat \ {0} /\ Len(NtfsAttrs) \in Nat
        /\ written \in Nat /\ got \in Nat /\ PageBytes \in Nat
        /\ NtfsRunLen(disk, n) \in Nat
    BY <1>1, <1>3, NtfsAttrsTyped, PageAssumption DEF NtfsExact, NtfsInv
  <2>2. attr \in 1 .. Len(NtfsAttrs) /\ NtfsAttrs[attr] \in Attribute
    BY <1>1, <2>1, NtfsAttrsTyped
  <2>3. CASE attr = n
    <3>1. NtfsAtRuns /\ written >= NtfsMax
      BY Zenon, <1>1, <1>3, <2>1, <2>3, NtfsEnough
    <3>2. NtfsAdded = written
      BY Zenon, <3>1 DEF NtfsAdded, NtfsAtRuns
    <3>3. got' = written /\ bitmap' = bitmap /\ got = 0
      BY <1>1, <2>1, <2>3, <3>1, <3>2 DEF NtfsFileInv
    <3>4. attr' = attr + 1
      <4>1. n \in 1 .. n
        BY <2>1
      <4>2. NtfsAttrs[attr].length # 0
        BY Zenon, <4>1, <1>3, <2>3 DEF NtfsWholeBitmap
      <4>3. QED
        BY Zenon, <4>2, <1>1 DEF NtfsAttrAfter
    <3>5. attr' > n /\ ~ (attr' < n) /\ attr' # n
      BY <2>1, <2>3, <3>4
    <3>6. bitmap' = NtfsUsedBelow(disk, n, 8 * got')
      BY Zenon, <2>1, <2>3, <3>3 DEF NtfsFileInv
    <3>7. QED
      BY Zenon, <1>1, <1>2, <3>1, <3>3, <3>5, <3>6 DEF NtfsFileInv
  <2>4. CASE attr # n
    <3>1. NtfsAttrs[attr].type # "data"
      BY Zenon, <1>3, <2>2, <2>4 DEF NtfsWholeBitmap
    <3>2. ~ NtfsAtRuns /\ NtfsAdded = 0
      BY Zenon, <3>1 DEF NtfsAtRuns, NtfsAdded
    <3>3. got' = got /\ bitmap' = bitmap
      <4>1. NtfsAttrs[attr].bits \subseteq Nat
        BY Zenon, <2>2 DEF Attribute
      <4>2. {y \in NtfsAttrs[attr].bits : y < 8 * NtfsAdded} = {}
        BY <3>2, <4>1
      <4>3. QED
        BY <1>1, <2>1, <3>2, <4>2
    <3>4. CASE attr > n
      <4>1. attr' > n
        BY <1>1, <2>1, <2>2, <3>4 DEF NtfsAttrAfter
      <4>2. attr' \in Nat
        BY <1>1, <2>1 DEF NtfsAttrAfter
      <4>3. ~ (attr' < n) /\ attr' # n
        BY <4>1, <4>2, <2>1
      <4>4. QED
        BY Zenon, <1>1, <1>2, <2>1, <3>3, <3>4, <4>3 DEF NtfsFileInv
    <3>5. CASE attr < n
      <4>1. attr' = attr + 1
        <5>1. attr \in 1 .. n
          BY <2>1, <2>2, <3>5
        <5>2. NtfsAttrs[attr].length # 0
          BY Zenon, <5>1, <1>3 DEF NtfsWholeBitmap
        <5>3. QED
          BY Zenon, <5>2, <1>1 DEF NtfsAttrAfter
      <4>2. got' = 0 /\ bitmap' = {}
        BY Zenon, <2>1, <3>3, <3>5 DEF NtfsFileInv
      <4>3. ~ (attr' > n)
        BY <4>1, <2>1, <3>5
      <4>4. NtfsUsedBelow(disk, n, 8 * 0) = {} /\ 0 * PageBytes = 0
        BY <2>1 DEF NtfsUsedBelow
      <4>5. 0 \in 0 .. NtfsRunLen(disk, n)
        BY <2>1
      <4>6. QED
        BY Zenon, <1>1, <4>2, <4>3, <4>4, <4>5 DEF NtfsFileInv
    <3>6. QED
      BY <2>1, <2>4, <3>4, <3>5
  <2>5. QED
    BY Zenon, <2>3, <2>4
<1>4. ASSUME NtfsRegular', NEW n \in 1 .. Len(NtfsAttrs)', NtfsWholeBitmap(n)'
      PROVE  NtfsFileInv(n)'
  <2>1. n \in 1 .. Len(NtfsAttrs)
    BY Zenon, <1>2, <1>4
  <2>2. NtfsWholeBitmap(n)
    BY Zenon, <1>1, <1>4, <2>1, NtfsRegularKept
  <2>3. QED
    BY Zenon, <1>2, <1>3, <1>4, <2>1, <2>2
<1>5. QED
  BY Zenon, <1>1, <1>4 DEF NtfsExact

\* The buffer of extract_bitmap has fewer bits than there are cluster numbers.
LEMMA NtfsBufferSmall ==
  ASSUME NtfsInv, NtfsRegular
  PROVE  NtfsBuffer \in Nat /\ 8 * NtfsBuffer < U32
<1> DEFINE p == PageBytes
           x == NtfsMax + p - 1
           count == nvol.cluster_count
           whole == x \div p
<1>1. /\ p \in Nat \ {0} /\ U32 \in Nat /\ count \in Nat /\ count + 8 * p <= U32
  BY Zenon, PageAssumption, U32Assumption DEF NtfsInv, NtfsRegular
<1>2. NtfsMax \in Nat /\ 8 * NtfsMax <= count
  <2>1. count \div 8 \in Nat /\ (count \div 8) * 8 <= count
    <3>1. count \in Nat /\ 8 \in Nat \ {0}
      BY <1>1
    <3> HIDE DEF count
    <3>2. QED
      BY Zenon, <3>1, DivisionFacts
  <2>2. QED
    BY <2>1 DEF NtfsMax
<1>3. x \in Nat
  BY <1>1, <1>2
<1>4. NtfsBuffer = whole * p
  BY Zenon DEF NtfsBuffer
<1> HIDE DEF p, x, count
<1>5. whole \in Nat /\ whole * p <= x
  BY Zenon, <1>1, <1>3, DivisionFacts
<1> HIDE DEF whole
<1>6. whole * p \in Nat
  BY <1>1, <1>5
<1>7. x = NtfsMax + p - 1
  BY Zenon DEF x
<1>8. QED
  BY <1>1, <1>2, <1>4, <1>5, <1>6, <1>7

\* The first pass finds the whole $Bitmap in the buffer.
LEMMA NtfsExactCount ==
  ASSUME NtfsInv, NtfsExact, stage = "ntfs", UNCHANGED stage, NtfsCount
  PROVE  NtfsExact'
<1>1. /\ ntfspc = "file" /\ ntfspc' \in {"no", "oops", "list"} /\ NtfsFileEnds
      /\ ntfspc' = "list" => ~ (got > NtfsBuffer)
      /\ pos' = 0 /\ found' = <<>>
      /\ UNCHANGED <<disk, nvol, got, bitmap, stage>>
  BY Zenon DEF NtfsCount
<1>2. NtfsAttrs' = NtfsAttrs /\ NtfsMax' = NtfsMax /\ (NtfsRegular' <=> NtfsRegular)
  BY Zenon, <1>1, NtfsRegularKept
<1>3. ASSUME ntfspc' = "list", NtfsRegular, NEW n \in 1 .. Len(NtfsAttrs), NtfsWholeBitmap(n)
      PROVE  NtfsListInv(n)'
  <2>1. /\ NtfsFileInv(n) /\ n \in Nat /\ attr \in Nat \ {0} /\ Len(NtfsAttrs) \in Nat
        /\ written \in Nat /\ got \in Nat
    BY <1>1, <1>3, NtfsAttrsTyped DEF NtfsExact, NtfsInv
  <2>2. attr > n
    <3> SUFFICES ASSUME attr <= n PROVE FALSE
      BY <2>1
    <3>1. attr \in 1 .. n /\ attr <= Len(NtfsAttrs) /\ attr \in 1 .. Len(NtfsAttrs)
      BY <2>1
    <3>2. ~ (NtfsAtRuns /\ NtfsRunsLeft) /\ NtfsAdded < 0
      BY Zenon, <3>1, <1>1, <1>3 DEF NtfsFileEnds, NtfsWholeBitmap
    <3>3. CASE attr = n
      <4>1. NtfsAtRuns
        BY Zenon, <3>1, <3>3, <1>3 DEF NtfsAtRuns, NtfsWholeBitmap
      <4>2. NtfsAdded = written
        BY Zenon, <4>1 DEF NtfsAdded, NtfsAtRuns
      <4>3. QED
        BY <4>2, <3>2, <2>1
    <3>4. CASE attr # n
      <4>1. NtfsAttrs[attr].type # "data"
        BY Zenon, <3>1, <3>4, <1>3 DEF NtfsWholeBitmap
      <4>2. NtfsAdded = 0
        BY Zenon, <4>1 DEF NtfsAtRuns, NtfsAdded
      <4>3. QED
        BY <4>2, <3>2
    <3>5. QED
      BY Zenon, <3>3, <3>4
  <2>3. got >= NtfsMax /\ bitmap = NtfsUsedBelow(disk, n, 8 * got)
    BY Zenon, <2>1, <2>2 DEF NtfsFileInv
  <2>4. 8 * got < U32
    <3>1. NtfsBuffer \in Nat /\ 8 * NtfsBuffer < U32 /\ U32 \in Nat
      BY Zenon, <1>3, NtfsBufferSmall, U32Assumption
    <3>2. QED
      BY <3>1, <1>1, <1>3, <2>1
  <2>5. Listed(<<>>, Nat \ bitmap, 0)
    BY ListedNothing
  <2>6. QED
    BY Zenon, <1>1, <1>2, <2>3, <2>4, <2>5 DEF NtfsListInv
<1>4. ASSUME ntfspc' = "list", NtfsRegular',
             NEW n \in 1 .. Len(NtfsAttrs)', NtfsWholeBitmap(n)'
      PROVE  NtfsListInv(n)'
  <2>1. n \in 1 .. Len(NtfsAttrs)
    BY Zenon, <1>2, <1>4
  <2>2. NtfsWholeBitmap(n)
    BY Zenon, <1>1, <1>4, <2>1, NtfsRegularKept
  <2>3. QED
    BY Zenon, <1>2, <1>3, <1>4, <2>1, <2>2
<1>5. QED
  BY Zenon, <1>1, <1>4 DEF NtfsExact

\* The second pass appends a cluster whose bit is clear.
LEMMA NtfsExactScan ==
  ASSUME NtfsInv, NtfsExact, stage = "ntfs", UNCHANGED stage, NtfsScan
  PROVE  NtfsExact'
<1>1. /\ ntfspc = "list" /\ pos < 8 * got /\ pos' = pos + 1 /\ ntfspc' \in {"list", "no"}
      /\ UNCHANGED <<disk, nvol, got, bitmap, unused, stage>>
  BY Zenon DEF NtfsScan
<1>2. NtfsAttrs' = NtfsAttrs /\ NtfsMax' = NtfsMax /\ (NtfsRegular' <=> NtfsRegular)
  BY Zenon, <1>1, NtfsRegularKept
<1>3. ASSUME ntfspc' = "list", NtfsRegular, NEW n \in 1 .. Len(NtfsAttrs), NtfsWholeBitmap(n)
      PROVE  NtfsListInv(n)'
  <2>1. NtfsListInv(n) /\ pos \in Nat /\ got \in Nat /\ nvol.blocks_per_cluster = 1
    BY <1>1, <1>3, NtfsOneBlock DEF NtfsExact, NtfsInv
  <2>2. found \in Seq(Nat) /\ Listed(found, Nat \ bitmap, pos)
    BY Zenon, <2>1 DEF NtfsListInv, Listed
  <2>3. found' = IF pos \in Nat \ bitmap THEN Append(found, pos) ELSE found
    <3>1. CASE pos \in bitmap
      <4>1. found' = found \o <<>>
        BY Zenon, <1>1, <1>3, <3>1 DEF NtfsScan
      <4>2. found \o <<>> = found
        BY <2>2
      <4>3. QED
        BY Zenon, <3>1, <4>1, <4>2
    <3>2. CASE pos \notin bitmap
      <4> DEFINE more == [k \in 1 .. 1 |-> (pos * 1 + k - 1) % U32]
      <4>1. found' = found \o more
        BY Zenon, <1>1, <1>3, <2>1, <3>2 DEF NtfsScan
      <4>2. more = <<pos>>
        <5>1. pos \in Nat /\ pos < U32 /\ U32 \in Nat \ {0}
          BY <1>1, <2>1, U32Assumption DEF NtfsListInv
        <5>2. pos * 1 + 1 - 1 = pos /\ pos % U32 = pos
          BY <5>1, SmallModulo
        <5>3. \A k \in 1 .. 1 : (pos * 1 + k - 1) % U32 = pos
          BY <5>2
        <5>4. more = [k \in 1 .. 1 |-> pos]
          BY Zenon, <5>3
        <5>5. [k \in 1 .. 1 |-> pos] = <<pos>>
          OBVIOUS
        <5>6. QED
          BY Zenon, <5>4, <5>5
      <4> HIDE DEF more
      <4>3. found \o <<pos>> = Append(found, pos)
        BY <2>1, <2>2
      <4>4. QED
        BY Zenon, <2>1, <3>2, <4>1, <4>2, <4>3
    <3>3. QED
      BY Zenon, <3>1, <3>2
  <2>4. Listed(found', Nat \ bitmap, pos + 1)
    BY Zenon, <2>1, <2>2, <2>3, ListedNext
  <2>5. QED
    BY Zenon, <1>1, <1>2, <2>1, <2>4 DEF NtfsListInv
<1>4. ASSUME ntfspc' = "list", NtfsRegular',
             NEW n \in 1 .. Len(NtfsAttrs)', NtfsWholeBitmap(n)'
      PROVE  NtfsListInv(n)'
  <2>1. n \in 1 .. Len(NtfsAttrs)
    BY Zenon, <1>2, <1>4
  <2>2. NtfsWholeBitmap(n)
    BY Zenon, <1>1, <1>4, <2>1, NtfsRegularKept
  <2>3. QED
    BY Zenon, <1>2, <1>3, <1>4, <2>1, <2>2
<1>5. QED
  BY Zenon, <1>1, <1>4 DEF NtfsExact

\* Steps that leave the volume and the lists alone.
LEMMA NtfsExactKept ==
  ASSUME NtfsExact,
         UNCHANGED <<disk, nvol, attr, run, lcn, written, got, bitmap, unused, pos, found>>,
         \/ ntfspc' = ntfspc
         \/ ntfspc' = "no"
         \/ ntfspc = "list" /\ ntfspc' = "yes",
         ntfspc' = "yes" => \/ fs'.block_list = found /\ fs'.list_len = unused % U32
                            \/ ntfspc = "yes" /\ fs' = fs,
         stage' \in {"fat32", "ext4"} => ntfspc' = "boot"
  PROVE  NtfsExact'
<1>1. NtfsAttrs' = NtfsAttrs /\ NtfsMax' = NtfsMax /\ (NtfsRegular' <=> NtfsRegular)
  BY Zenon, NtfsRegularKept
<1>2. ASSUME NEW n \in 1 .. Len(NtfsAttrs), NtfsWholeBitmap(n)'
      PROVE  /\ NtfsWholeBitmap(n)
             /\ NtfsFileInv(n)' <=> NtfsFileInv(n)
             /\ NtfsListInv(n)' <=> NtfsListInv(n)
  <2>1. NtfsWholeBitmap(n)
    BY Zenon, <1>2, NtfsRegularKept
  <2>2. QED
    BY Zenon, <1>1, <2>1 DEF NtfsFileInv, NtfsListInv
<1>3. (/\ ntfspc = "file" /\ NtfsRegular =>
             \A n \in 1 .. Len(NtfsAttrs) : NtfsWholeBitmap(n) => NtfsFileInv(n)
       /\ ntfspc \in {"list", "yes"} /\ NtfsRegular =>
             \A n \in 1 .. Len(NtfsAttrs) : NtfsWholeBitmap(n) => NtfsListInv(n))'
  BY Zenon, <1>1, <1>2 DEF NtfsExact
<1>4. QED
  BY Zenon, <1>3 DEF NtfsExact

\* Every step of detect_fs keeps NtfsExact.
LEMMA NtfsExactStep == ASSUME NtfsInv, NtfsExact, [Next]_vars PROVE NtfsExact'
<1>1. ASSUME NEW d \in Devices, DetectFs(d) PROVE NtfsExact'
  BY Zenon, <1>1 DEF DetectFs, NtfsStart, NtfsExact
<1>2. CASE RunFat32
  <2>1. UNCHANGED <<disk, ntfsvars, stage>> /\ stage = "fat32"
    BY Zenon, <1>2, FatKeepsDisk DEF RunFat32
  <2>2. ntfspc = "boot"
    BY Zenon, <2>1 DEF NtfsExact
  <2>3. QED
    BY Zenon, <2>1, <2>2, NtfsExactKept DEF ntfsvars
<1>3. CASE RunExt4
  <2>1. UNCHANGED <<disk, ntfsvars, stage>> /\ stage = "ext4"
    BY Zenon, <1>3, Ext4KeepsDisk DEF RunExt4
  <2>2. ntfspc = "boot"
    BY Zenon, <2>1 DEF NtfsExact
  <2>3. QED
    BY Zenon, <2>1, <2>2, NtfsExactKept DEF ntfsvars
<1>4. CASE RunNtfs
  <2>1. stage = "ntfs" /\ UNCHANGED stage /\ NtfsNext
    BY Zenon, <1>4 DEF RunNtfs
  <2>2. CASE NtfsNoMemory
    BY Zenon, <2>1, <2>2, NtfsExactKept DEF NtfsNoMemory
  <2>3. CASE NtfsFill
    <3>1. fs'.block_list = found /\ fs'.list_len = unused % U32
      BY Zenon, <2>3 DEF NtfsFill
    <3>2. QED
      BY Zenon, <2>1, <2>3, <3>1, NtfsExactKept DEF NtfsFill
  <2>4. QED
    BY Zenon, <2>1, <2>2, <2>3, NtfsExactBegin, NtfsExactRun, NtfsExactAttr, NtfsExactCount,
       NtfsExactScan DEF NtfsNext
<1>5. CASE Detected \/ Fault
  <2>1. UNCHANGED <<disk, fs, ntfsvars>> /\ stage' \in {"idle", "oops"}
    BY Zenon, <1>5 DEF Detected, Fault, Locals
  <2>2. QED
    BY Zenon, <2>1, NtfsExactKept DEF ntfsvars
<1>6. CASE NotDetected
  <2>1. /\ UNCHANGED <<disk, fs, ntfsvars>>
        /\ stage \in {"fat32", "ext4", "ntfs"} /\ stage' = NextModule[stage]
    BY Zenon, <1>6 DEF NotDetected, Locals, NextModule
  <2>2. stage' \in {"fat32", "ext4"} => stage = "fat32"
    BY <2>1 DEF NextModule
  <2>3. stage = "fat32" => ntfspc = "boot"
    BY Zenon DEF NtfsExact
  <2>4. QED
    BY Zenon, <2>1, <2>2, <2>3, NtfsExactKept DEF ntfsvars
<1>7. CASE UNCHANGED vars
  <2>1. UNCHANGED <<disk, fs, ntfsvars, stage>>
    BY Zenon, <1>7 DEF vars
  <2>2. stage \in {"fat32", "ext4"} => ntfspc = "boot"
    BY Zenon DEF NtfsExact
  <2>3. QED
    BY Zenon, <2>1, <2>2, NtfsExactKept DEF ntfsvars
<1>8. QED
  BY Zenon, <1>1, <1>2, <1>3, <1>4, <1>5, <1>6, <1>7 DEF Next

(* On a regular volume of any size the list names each cluster below a      *)
(* multiple of eight that $Bitmap says is unused, none it says is used, and *)
(* none twice, wherever $Bitmap lies among the attributes of its record.    *)
THEOREM NtfsListAlwaysUnused == Spec => []NtfsListUnused
<1>1. NtfsInv /\ NtfsExact => NtfsListUnused
  <2> SUFFICES ASSUME NtfsInv, NtfsExact, ntfspc = "yes", NtfsRegular
               PROVE  /\ fs.list_len = Len(fs.block_list)
                      /\ Ascending(fs.block_list)
                      /\ \A c \in 0 .. 8 * (nvol.cluster_count \div 8) - 1 :
                           c \in Elements(fs.block_list) <=> ~ NtfsUsed(c)
    BY Zenon DEF NtfsListUnused
  <2>1. PICK n \in 1 .. Len(NtfsAttrs) : NtfsWholeBitmap(n)
    BY Zenon DEF NtfsRegular
  <2>2. /\ got >= NtfsMax /\ 8 * got < U32 /\ bitmap = NtfsUsedBelow(disk, n, 8 * got)
        /\ found \in Seq(Nat) /\ Ascending(found)
        /\ Elements(found) = {b \in Nat \ bitmap : b < pos}
    BY Zenon, <2>1 DEF NtfsExact, NtfsListInv, Listed
  <2>3. /\ fs.block_list = found /\ fs.list_len = unused % U32 /\ pos = 8 * got
        /\ got \in Nat /\ unused = Cardinality(Clear(bitmap, 8 * got))
        /\ Len(found) = unused * nvol.blocks_per_cluster
    BY Zenon DEF NtfsExact, NtfsInv
  <2>4. nvol.blocks_per_cluster = 1
    BY Zenon, NtfsOneBlock
  <2>5. unused \in Nat /\ unused <= 8 * got
    <3>1. /\ unused \in Nat
          /\ unused = 8 * got - Cardinality(bitmap \cap (0 .. 8 * got - 1))
      BY <2>3, ClearFacts
    <3>2. IsFiniteSet(bitmap \cap (0 .. 8 * got - 1))
      <4>1. IsFiniteSet(0 .. 8 * got - 1)
        BY <2>3, FS_Interval
      <4>2. bitmap \cap (0 .. 8 * got - 1) \in SUBSET (0 .. 8 * got - 1)
        BY Zenon
      <4>3. QED
        BY Zenon, <4>1, <4>2, FS_Subset
    <3>3. Cardinality(bitmap \cap (0 .. 8 * got - 1)) \in Nat
      BY Zenon, <3>2, FS_CardinalityType
    <3>4. QED
      BY <2>3, <3>1, <3>3
  <2>6. fs.list_len = Len(fs.block_list)
    <3>1. unused % U32 = unused
      <4>1. unused < U32 /\ unused \in Nat /\ U32 \in Nat \ {0}
        BY <2>2, <2>3, <2>5, U32Assumption
      <4>2. QED
        BY Zenon, <4>1, SmallModulo
    <3>2. QED
      BY <2>3, <2>4, <2>5, <3>1
  <2>7. NtfsBitmapRun = n
    <3>1. \A k \in 1 .. Len(NtfsAttrs) : NtfsAttrs[k].type = "data" <=> k = n
      BY Zenon, <2>1 DEF NtfsWholeBitmap
    <3>2. QED
      BY Zenon, <3>1 DEF NtfsBitmapRun
  <2>8. ASSUME NEW c \in 0 .. 8 * (nvol.cluster_count \div 8) - 1
        PROVE  c \in Elements(fs.block_list) <=> ~ NtfsUsed(c)
    <3>1. c \in Nat /\ c < 8 * got
      <4>1. NtfsMax \in Nat /\ c \in 0 .. 8 * NtfsMax - 1
        <5>1. nvol.cluster_count \in Nat
          BY Zenon DEF NtfsInv
        <5> DEFINE count == nvol.cluster_count
        <5>2. count \div 8 \in Nat
          <6>1. count \in Nat /\ 8 \in Nat \ {0}
            BY <5>1
          <6> HIDE DEF count
          <6>2. QED
            BY Zenon, <6>1, DivisionFacts
        <5>3. QED
          BY Zenon, <5>2, <2>8 DEF NtfsMax
      <4>2. QED
        BY <4>1, <2>2, <2>3
    <3>2. NtfsUsed(c) <=> NtfsBitOf(disk, n, c)
      BY Zenon, <2>7 DEF NtfsUsed, NtfsBitOf, NtfsAttrs
    <3>3. c \in bitmap <=> NtfsBitOf(disk, n, c)
      BY <2>2, <2>3, <3>1 DEF NtfsUsedBelow
    <3>4. QED
      BY Zenon, <2>2, <2>3, <3>1, <3>2, <3>3
  <2>9. QED
    BY Zenon, <2>2, <2>3, <2>6, <2>8
<1>2. Init => NtfsInv /\ NtfsExact
  BY Zenon, NtfsBegins DEF Init, NtfsInit, NtfsExact
<1>3. QED
  BY <1>1, <1>2, NtfsInvStep, NtfsExactStep, PTL DEF Spec

=============================================================================
