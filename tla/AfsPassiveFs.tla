---------------------------- MODULE AfsPassiveFs ----------------------------
(***************************************************************************)
(* What the detection modules share: the device they look at and the       *)
(* structure afs_passive_fs they fill in (include/dm_afs_modules.h).       *)
(*                                                                         *)
(* A device is a record with what each module reads from it.  Its fields   *)
(* are named after the fields on disk; the fields no module reads are left *)
(* out:                                                                    *)
(*   boot    the first sector, which the FAT32 and the NTFS module parse   *)
(*   fat     the words of the first file allocation table, from entry 0    *)
(*   front   the value of the words before the table (boot sectors)        *)
(*   sb      the ext4 superblock                                           *)
(*   gdt     the ext4 group descriptors: the block of each bitmap          *)
(*   pages   blocks that hold a bitmap: the positions of the bits set      *)
(*   mft     the NTFS file records 0 and 6 ($MFT and $Bitmap)              *)
(*   kind    which file system really is on the device (no module reads it)*)
(* Page and sector sizes are constants, so that small ones can be checked. *)
(* Reading never fails: read_page hands on what submit_bio_wait says, and  *)
(* only the first read of detect_fs looks at it (AfsDetect).               *)
(***************************************************************************)
EXTENDS Integers, Sequences

CONSTANTS
  Devices,      \* the devices that may be looked at
  PageBytes,    \* AFS_BLOCK_SIZE and the page size, 4096 in the code
  SectorBytes,  \* AFS_SECTOR_SIZE, 512 in the code
  U32           \* one more than the largest uint32_t, 2^32 in the code

ASSUME PageAssumption ==
  /\ SectorBytes \in Nat \ {0}
  /\ PageBytes \in Nat \ {0}
  /\ PageBytes % SectorBytes = 0
  /\ PageBytes % 4 = 0   \* whole words of the FAT32 table

ASSUME U32Assumption == U32 \in Nat \ {0}

\* The fields of the first sector that a module looks at, all of them unsigned.
\* NTFS has its own signature (ntfs_oem) and a count of sectors of 64 bits.
BootSector ==
  [bytes_sec : Nat, sec_cluster : Nat, res_sec : Nat, num_tables : Nat,
   max_root_ent : Nat, total_sectors : Nat, total_sec_32 : Nat, sec_fat : Nat,
   sec_fat_32 : Nat, version : Nat, root_start_clust : Nat, fs_info_sec : Nat,
   ntfs_oem : BOOLEAN, sectors_64 : Nat, clusters_per_record : 0 .. 255]

ASSUME BootAssumption == \A d \in Devices : d.boot \in BootSector

\* A page has eight bits for each of its bytes.
ASSUME PagesAssumption ==
  \A d \in Devices : \A b \in DOMAIN d.pages :
    d.pages[b] \subseteq 0 .. 8 * PageBytes - 1

VARIABLES
  disk,   \* the device being looked at
  fs      \* struct afs_passive_fs

SectorsPerBlock == PageBytes \div SectorBytes

\* The context, and fs in it, is zeroed by afs_ctr.
NoFs == [block_list |-> <<>>, list_len |-> 0, total_blocks |-> 0,
         sectors_per_block |-> 0, data_start_off |-> 0]

\* The first byte of a listed block, as the engine and the metadata reach it:
\* sector block * AFS_SECTORS_PER_BLOCK + data_start_off of the device.
ByteOf(b) == (b * SectorsPerBlock + fs.data_start_off) * SectorBytes

\* read_page: the positions of the bits set in the page at a sector.  The byte
\* address of the block is a 32-bit product, and so is the offset.
ReadPage(block_num, sector_offset) ==
  LET sector == ((block_num * PageBytes) % U32) \div SectorBytes
                  + (sector_offset % U32)
      block  == sector \div SectorsPerBlock
  IN  IF sector % SectorsPerBlock = 0 /\ block \in DOMAIN disk.pages
      THEN disk.pages[block] ELSE {}

\* A list without a repeated block, in the order of the device.
Ascending(list) ==
  \A n \in 1 .. Len(list) - 1 : list[n] < list[n + 1]

Elements(list) == {list[n] : n \in 1 .. Len(list)}

=============================================================================
