----------------------------- MODULE AfsDetect ------------------------------
(***************************************************************************)
(* detect_fs of src/dm_afs.c, called once for each device a target is      *)
(* constructed on: read the first page and ask the detection modules one   *)
(* after the other, until one of them knows the file system.  A fault in a *)
(* module (state oops) is the end.                                         *)
(***************************************************************************)
EXTENDS AfsFat32, AfsExt4, AfsNtfs

CONSTANTS MaxDetections   \* calls of detect_fs

ASSUME DetectionsAssumption == MaxDetections \in Nat

VARIABLES
  stage,     \* the module detect_fs is in; "idle" between calls
  detected,  \* what the last call returned
  calls      \* calls so far

vars == <<disk, fs, fatvars, is_64bit, ext4vars, ntfsvars, stage, detected, calls>>

\* The variables of the three modules are local to their calls.
Locals == <<fatvars, ext4vars, ntfsvars>>

Init ==
  /\ disk \in Devices
  /\ fs = NoFs
  /\ FatInit /\ Ext4Init /\ NtfsInit
  /\ is_64bit = FALSE
  /\ stage = "idle"
  /\ detected = "none"
  /\ calls = 0

\* The call: a new context, a device, and its first page.
DetectFs(d) ==
  /\ stage = "idle"
  /\ calls < MaxDetections
  /\ calls' = calls + 1
  /\ disk' = d
  /\ fs' = NoFs
  /\ FatStart /\ Ext4Start /\ NtfsStart
  /\ UNCHANGED is_64bit
  /\ \/ stage' = "fat32" /\ detected' = "none"
     \/ stage' = "idle" /\ detected' = "FS_ERR"  \* no page, or it cannot be read

\* A step of the module the call is in.
RunFat32 ==
  /\ stage = "fat32"
  /\ FatNext
  /\ UNCHANGED <<is_64bit, ext4vars, ntfsvars, stage, detected, calls>>

RunExt4 ==
  /\ stage = "ext4"
  /\ Ext4Next
  /\ UNCHANGED <<fatvars, ntfsvars, stage, detected, calls>>

RunNtfs ==
  /\ stage = "ntfs"
  /\ NtfsNext
  /\ UNCHANGED <<fatvars, is_64bit, ext4vars, stage, detected, calls>>

\* The chain of else-ifs; after NTFS comes the stub afs_shadow_detect, which
\* never detects anything, and FS_ERR.
NextModule == [fat32 |-> "ext4", ext4 |-> "ntfs", ntfs |-> "idle"]

Verdict == [fat32 |-> "FS_FAT32", ext4 |-> "FS_EXT4", ntfs |-> "FS_NTFS"]

ModulePc == [fat32 |-> fatpc, ext4 |-> ext4pc, ntfs |-> ntfspc]

\* The module returns true.
Detected ==
  /\ stage \in DOMAIN Verdict
  /\ ModulePc[stage] = "yes"
  /\ stage' = "idle"
  /\ detected' = Verdict[stage]
  /\ UNCHANGED <<disk, fs, Locals, is_64bit, calls>>

\* The module returns false.
NotDetected ==
  /\ stage \in DOMAIN NextModule
  /\ ModulePc[stage] = "no"
  /\ stage' = NextModule[stage]
  /\ detected' = IF NextModule[stage] = "idle" THEN "FS_ERR" ELSE detected
  /\ UNCHANGED <<disk, fs, Locals, is_64bit, calls>>

Fault ==
  /\ stage \in DOMAIN NextModule
  /\ ModulePc[stage] = "oops"
  /\ stage' = "oops"
  /\ UNCHANGED <<disk, fs, Locals, is_64bit, detected, calls>>

Next ==
  \/ \E d \in Devices : DetectFs(d)
  \/ RunFat32 \/ RunExt4 \/ RunNtfs
  \/ Detected \/ NotDetected \/ Fault

\* A call of detect_fs runs in one thread, which the kernel schedules.
Fairness ==
  WF_vars(RunFat32 \/ RunExt4 \/ RunNtfs \/ Detected \/ NotDetected \/ Fault)

Spec == Init /\ [][Next]_vars /\ Fairness

-----------------------------------------------------------------------------
\* A device is never taken for another file system than the one on it: FAT32 and
\* NTFS share the layout of the boot sector, and an older file system may have
\* left its superblock behind.  Without memory or on a device the modules refuse
\* the answer may be FS_ERR.
Recognised ==
  stage = "idle" /\ detected \notin {"none", "FS_ERR"} => detected = disk.kind

\* A module that refuses a device, at whatever point of its parsing, leaves
\* nothing in the structure the next module and the constructor read: while
\* another module is asked, and after FS_ERR, fs is as afs_ctr zeroed it.
NothingLeftOver ==
  \/ stage = "ext4" /\ ext4pc # "yes"
  \/ stage = "ntfs" /\ ntfspc # "yes"
  \/ stage = "idle" /\ detected = "FS_ERR"
  => fs = NoFs

\* Every call of detect_fs comes to an end, on every device: the loops over
\* entries, groups, runs and attributes all do.
DetectionEnds == (stage # "idle") ~> (stage \in {"idle", "oops"})

\* What include/dm_afs_modules.h says of block_list: empty blocks, numbered from
\* the start of the data.  On FAT32 the block at that place is the cluster the
\* file system numbers from 2.
OnlyFreeClusters ==
  stage = "idle" /\ detected = "FS_FAT32" /\ disk.kind = "FS_FAT32" =>
    \A b \in Elements(fs.block_list) :
      LET start == (disk.boot.res_sec + FatSecFat(disk.boot) * disk.boot.num_tables)
                     * disk.boot.bytes_sec
          c     == (ByteOf(b) - start)
                     \div (disk.boot.bytes_sec * disk.boot.sec_cluster) + 2
      IN  c \in DOMAIN disk.fat => disk.fat[c] = 0

=============================================================================
