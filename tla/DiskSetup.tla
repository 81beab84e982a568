------------------------------ MODULE DiskSetup ------------------------------
(***************************************************************************)
(* Partitioning, formatting and mounting hard disks: FatFS_init, mountAll,  *)
(* fdisk and fatxmkfs (fs/ff13b/source/FatFSAccessor.c), the FATX parts of   *)
(* FatFs (fs/ff13b/source/ff.c: find_volume, f_mkfs, fatx_fdisk,            *)
(* fatx_getmbr, fatx_getbrfr), and what calls them at boot: formatNewDrives  *)
(* (lib/LPCMod/BootLPCMod.c) and its menu of large disk layouts.            *)
(* A step is one write to the disk, with the reads and the computations     *)
(* that lead to it; every write may fail and power may go between any two.  *)
(***************************************************************************)
EXTENDS Integers, Sequences

CONSTANTS
  Word32,          \* 2^32: what an unsigned int wraps at
  LBASIZE_1024GB,  \* the largest FATX partition
  NewDrives,       \* what may be plugged in: [size, brfr, table, blank]
  ReadsMayFail,    \* BootIdeReadSector may return an error
  WritesMayFail,   \* BootIdeWriteSector may
  MaxBoots         \* power-ons, to bound the model

XBOX_EXTEND_STARTLBA == 15633072
XBOX_STORE_STARTLBA == 5633024
XBOX_SYSTEM_STARTLBA == 4609024
XBOX_CACHE1_STARTLBA == 1024
XBOX_CACHE2_STARTLBA == 1537024
XBOX_CACHE3_STARTLBA == 3073024
STORE_LBASIZE == XBOX_EXTEND_STARTLBA - XBOX_STORE_STARTLBA
SYSTEM_LBASIZE == XBOX_STORE_STARTLBA - XBOX_SYSTEM_STARTLBA
CACHE1_LBASIZE == XBOX_CACHE2_STARTLBA - XBOX_CACHE1_STARTLBA
CACHE2_LBASIZE == XBOX_CACHE3_STARTLBA - XBOX_CACHE2_STARTLBA
CACHE3_LBASIZE == XBOX_SYSTEM_STARTLBA - XBOX_CACHE3_STARTLBA
LBA28_BOUNDARY == 268435455
LBASIZE_137GB == LBA28_BOUNDARY - XBOX_EXTEND_STARTLBA
FATX_MIN_PART_SIZE_LBA == 1024000

Drives == {"master", "slave"}
Parts == {"E", "C", "X", "Y", "Z", "F", "G"}
Layouts == {"Base", "FOnly", "F120GRest", "FGSplit", "FMaxGRest"}
Lba == 0 .. Word32 - 1
Entry == [use : BOOLEAN, start : Lba, size : Lba]
Unused == [use |-> FALSE, start |-> 0, size |-> 0]
NotMounted == [use |-> FALSE, start |-> 1, size |-> 0]
NoTable == [p \in {} |-> Unused]

Stock(start, size) == [use |-> TRUE, start |-> start, size |-> size]

\* The three cache partitions all start where the first does.
BackupPartTable ==
  [p \in Parts |->
     IF p = "E" THEN Stock(XBOX_STORE_STARTLBA, STORE_LBASIZE)
     ELSE IF p = "C" THEN Stock(XBOX_SYSTEM_STARTLBA, SYSTEM_LBASIZE)
     ELSE IF p = "X" THEN Stock(XBOX_CACHE1_STARTLBA, CACHE1_LBASIZE)
     ELSE IF p = "Y" THEN Stock(XBOX_CACHE1_STARTLBA, CACHE2_LBASIZE)
     ELSE IF p = "Z" THEN Stock(XBOX_CACHE1_STARTLBA, CACHE3_LBASIZE)
     ELSE Unused]

Word(n) == n % Word32
AlignUp(n) == 8 * ((n + 7) \div 8)
AlignDown(n) == 8 * (n \div 8)

\* What partitioning tools leave: the stock partitions below the extended
\* ones, F below G, partitions from a 4096-byte boundary on.
Orderly(table) ==
  /\ \A p \in Parts \ {"F", "G"} :
       /\ AlignUp(table[p].start) = table[p].start
       /\ table[p].start + table[p].size <= XBOX_EXTEND_STARTLBA
  /\ \/ /\ AlignUp(table["F"].start) = table["F"].start
        /\ table["F"].start >= XBOX_EXTEND_STARTLBA
     \/ table["F"] = Unused
  /\ \/ /\ table["G"].start >= XBOX_EXTEND_STARTLBA
        /\ table["F"].start + table["F"].size <= table["G"].start
     \/ table["G"] = Unused

ASSUME DiskAssumption ==
  /\ Word32 \in Nat /\ LBASIZE_1024GB \in Nat /\ MaxBoots \in Nat \ {0}
  /\ LBA28_BOUNDARY <= LBASIZE_1024GB
  /\ 2 * XBOX_EXTEND_STARTLBA + LBASIZE_1024GB < Word32
  /\ ReadsMayFail \in BOOLEAN /\ WritesMayFail \in BOOLEAN
  /\ NewDrives \subseteq [size : Nat, brfr : BOOLEAN, blank : BOOLEAN,
                          table : {NoTable} \cup [Parts -> Entry]]
  /\ \A d \in NewDrives : d.table # NoTable =>
       /\ Orderly(d.table)
       /\ \A p \in {"F", "G"} : d.table[p].use => ~d.blank

VARIABLES
  disk,     \* per drive: its size in sectors, the "BRFR" mark in sector 3, the
            \* partition table in sector 0, the sectors that hold a FATX header
            \* and the extents <<first, end>> that are known to be zero
  mounted,  \* FatXFs: the entry a volume was mounted with
  phase,    \* "boot", the loop of formatNewDrives ("ask", "menu", "work"), "idle"
  cur,      \* the drive the loop is at
  ops,      \* what is left of formatting it
  stage,    \* where the first of ops stands
  wasFatx,  \* the drives that bore the mark at power-on (history)
  boots

diskVars == <<disk, mounted, phase, cur, ops, stage, wasFatx, boots>>

\* The outcomes of a read: TRUE when the sector arrives.
ReadOk == IF ReadsMayFail THEN BOOLEAN ELSE {TRUE}

-----------------------------------------------------------------------------
(* fdisk: the partition table for a layout, from the one on the disk.       *)

WithFG(table, f, g) == [table EXCEPT !["F"] = f, !["G"] = g]

\* Mutant: fdisk sets the in-use flag.
ExtendedInUse(start, size) == [use |-> TRUE, start |-> Word(start), size |-> Word(size)]

\* Mutant: the size of a partition is kept as it was computed.
ExtendedUnwrapped(start, size) == [use |-> FALSE, start |-> start, size |-> size]

\* An entry of F or G; f_mkfs is to set the in-use flag.
Extended(start, size) == [use |-> FALSE, start |-> Word(start), size |-> Word(size)]

\* Half of what the stock partitions leave, in whole 64KB clusters. A half is
\* a multiple of 256 before it is rounded, so that the rounding changes nothing.
SplitSize(room) ==
  IF LBASIZE_1024GB <= room \div 2 THEN LBASIZE_1024GB
  ELSE 128 * ((room \div 2) \div 128)

FOnly(table, size) ==
  WithFG(table, Extended(XBOX_EXTEND_STARTLBA, size - XBOX_EXTEND_STARTLBA), Unused)

FGSplit(table, size) ==
  LET room == 512 * ((size - XBOX_EXTEND_STARTLBA) \div 512)
      f == SplitSize(room)
  IN  WithFG(table, Extended(XBOX_EXTEND_STARTLBA, f),
             Extended(XBOX_EXTEND_STARTLBA + f, room - (XBOX_EXTEND_STARTLBA + f)))

\* Mutant: the end of F is taken for its size.
FOverG(table, size, end) ==
  WithFG(table, Extended(XBOX_EXTEND_STARTLBA, end),
         IF end + SYSTEM_LBASIZE <= size THEN Extended(end, size - end) ELSE Unused)

\* F up to sector end, G the rest when that makes a partition.
FThenG(table, size, end) ==
  WithFG(table, Extended(XBOX_EXTEND_STARTLBA, end - XBOX_EXTEND_STARTLBA),
         IF end + SYSTEM_LBASIZE <= size THEN Extended(end, size - end) ELSE Unused)

DiskOkFor(layout, size) ==
  /\ size >= XBOX_EXTEND_STARTLBA - 1
  /\ layout # "Base" => size > XBOX_EXTEND_STARTLBA
  /\ layout = "FOnly" => size - XBOX_EXTEND_STARTLBA >= FATX_MIN_PART_SIZE_LBA

\* The layouts LargeHDDMenuDynamic lists; nExtendSectors is an unsigned long.
Offered(layout, size) ==
  LET room == Word(size - XBOX_EXTEND_STARTLBA)
  IN  \/ layout = "FGSplit" /\ room > 2 * SYSTEM_LBASIZE
      \/ layout = "FMaxGRest" /\ room > LBASIZE_1024GB + SYSTEM_LBASIZE
      \/ /\ layout = "F120GRest"
         /\ room > LBASIZE_137GB + SYSTEM_LBASIZE
         /\ room - LBASIZE_137GB < LBASIZE_1024GB
      \/ layout = "FOnly" /\ room < LBASIZE_1024GB

-----------------------------------------------------------------------------
(* f_mkfs and find_volume: where the parts of a FATX volume are. Clusters   *)
(* are always of 32 sectors: MAX_FAT32 clusters are more than 2^32 sectors. *)

\* The volume f_mkfs makes of a table entry, from one 4096-byte boundary to another.
Volume(entry) ==
  LET start == Word(AlignUp(entry.start))
  IN  [use |-> TRUE, start |-> start,
       size |-> AlignDown(Word(entry.size - (start - entry.start)))]

MkfsFat(vol) == ((vol.size \div 32) + 511) \div 512

\* What f_mkfs clears: the table, then one cluster behind it for the directory.
MkfsFatExtent(vol) == <<vol.start + 8, vol.start + 8 + MkfsFat(vol)>>
MkfsRootExtent(vol) == <<vol.start + 8, vol.start + 8 + MkfsFat(vol) + 32>>

\* f_mkfs gives up on a start that wraps and on a volume too small for 16 clusters.
MkfsAborts(entry) ==
  LET vol == Volume(entry)
  IN  \/ vol.start < entry.start
      \/ vol.size < 128
      \/ vol.size < 8 + MkfsFat(vol) + 32 + 32 * 16

\* Where find_volume expects the root directory: behind a table of 2 or 4
\* bytes for each cluster, in whole 4096-byte blocks.
MountFat(vol) ==
  LET clusters == vol.size \div 32
  IN  AlignUp((clusters * (IF 65520 > clusters + 1 THEN 2 ELSE 4) + 511) \div 512)
MountRootExtent(vol) ==
  <<vol.start + 8 + MountFat(vol), vol.start + 8 + MountFat(vol) + 32>>

Within(e, extents) == \E z \in extents : z[1] <= e[1] /\ e[2] <= z[2]

-----------------------------------------------------------------------------
(* Power-on. A drive keeps its contents; what is in memory starts afresh.   *)

Contents(d) ==
  [size |-> d.size, brfr |-> d.brfr, table |-> d.table,
   hdr |-> {d.table[p].start : p \in {q \in DOMAIN d.table : d.table[q].use /\ ~d.blank}},
   zero |-> IF d.blank THEN {<<0, d.size>>} ELSE {}]

NothingMounted == [d \in Drives |-> [p \in Parts |-> NotMounted]]

DiskInit ==
  /\ \E plugged \in [Drives -> NewDrives] : disk = [d \in Drives |-> Contents(plugged[d])]
  /\ mounted = NothingMounted
  /\ phase = "boot" /\ cur = "master" /\ ops = <<>> /\ stage = "start"
  /\ wasFatx = {d \in Drives : disk[d].brfr}
  /\ boots = 1

PowerCycle ==
  /\ boots < MaxBoots
  /\ boots' = boots + 1
  /\ mounted' = NothingMounted
  /\ phase' = "boot" /\ cur' = "master" /\ ops' = <<>> /\ stage' = "start"
  /\ wasFatx' = {d \in Drives : disk[d].brfr}
  /\ UNCHANGED disk

HasTable(d) == disk[d].table # NoTable

\* find_volume looks every volume up in the table of the master drive, where
\* the numbers of the slave's volumes (7 to 13) are those of unused entries.
EntryOf(d, p) == IF d = "master" THEN disk[d].table[p] ELSE Unused

\* Mutant: a volume is mounted without a look at its header.
MountsUnread(d, p) ==
  /\ disk[d].brfr /\ HasTable(d)
  /\ disk[d].table[p].use
  /\ EntryOf(d, p).use

\* mountAll and f_mount, down to the header of the volume.
Mounts(d, p) ==
  /\ disk[d].brfr /\ HasTable(d)
  /\ disk[d].table[p].use
  /\ EntryOf(d, p).use
  /\ EntryOf(d, p).start \in disk[d].hdr

\* FatFS_init; a drive whose mark or table cannot be read stays unmounted.
FatFS_init ==
  /\ phase = "boot"
  /\ \E ok \in [Drives -> ReadOk] :
       mounted' = [d \in Drives |-> [p \in Parts |->
                     IF ok[d] /\ Mounts(d, p) THEN EntryOf(d, p) ELSE NotMounted]]
  /\ phase' = "ask"
  /\ UNCHANGED <<disk, cur, ops, stage, wasFatx, boots>>

-----------------------------------------------------------------------------
(* formatNewDrives: the loop over the drives.                               *)

NextDrive ==
  /\ phase' = IF cur = "master" THEN "ask" ELSE "idle"
  /\ cur' = "slave" /\ ops' = <<>> /\ stage' = "start"

Do(list) == phase' = "work" /\ ops' = list /\ stage' = "start" /\ UNCHANGED cur

Fdisk(layout) == [op |-> "fdisk", layout |-> layout]
Mkfs(part) == [op |-> "mkfs", part |-> part]
BaseOps == <<Fdisk("Base"), Mkfs("C"), Mkfs("E"), Mkfs("X"), Mkfs("Y"), Mkfs("Z")>>
ExtendedOps(layout) ==
  IF layout = "FOnly" THEN <<Fdisk(layout), Mkfs("F")>>
  ELSE <<Fdisk(layout), Mkfs("F"), Mkfs("G")>>

isFATXFormattedDrive(d, ok) == ok /\ disk[d].brfr

\* Mutant: every drive is taken for a new one.
EveryDrive(d, ok) == disk[d].size >= XBOX_EXTEND_STARTLBA

NewDrive(d, ok) ==
  /\ disk[d].size >= XBOX_EXTEND_STARTLBA
  /\ ~isFATXFormattedDrive(d, ok)

\* Not a drive to format, or the user says no.
PassOver ==
  /\ phase = "ask"
  /\ NextDrive
  /\ UNCHANGED <<disk, mounted, wasFatx, boots>>

ConfirmFormat ==
  /\ phase = "ask"
  /\ \E ok \in ReadOk : NewDrive(cur, ok)
  /\ Do(BaseOps)
  /\ UNCHANGED <<disk, mounted, wasFatx, boots>>

\* FormatDriveFG, confirmed. The menu closes after one selection.
ChooseLayout(layout) ==
  /\ phase = "menu"
  /\ Offered(layout, disk[cur].size)
  /\ Do(ExtendedOps(layout))
  /\ UNCHANGED <<disk, mounted, wasFatx, boots>>

LeaveMenu ==
  /\ phase = "menu"
  /\ NextDrive
  /\ UNCHANGED <<disk, mounted, wasFatx, boots>>

\* The first of ops is over. The stock partitions come before the menu of the
\* large disk layouts; Mkfs("Z") is the last of them.
Continue ==
  \/ /\ Len(ops) > 1
     /\ ops' = Tail(ops) /\ stage' = "start"
     /\ UNCHANGED <<phase, cur>>
  \/ /\ Len(ops) = 1
     /\ ops = <<Mkfs("Z")>> /\ disk[cur].size >= XBOX_EXTEND_STARTLBA + SYSTEM_LBASIZE
     /\ phase' = "menu" /\ ops' = <<>> /\ stage' = "start"
     /\ UNCHANGED cur
  \/ /\ Len(ops) = 1
     /\ ~(ops = <<Mkfs("Z")>> /\ disk[cur].size >= XBOX_EXTEND_STARTLBA + SYSTEM_LBASIZE)
     /\ NextDrive

\* What a failure leads to: the result of fdisk is ignored for the stock
\* partitions and ends the rest; a stock partition that cannot be formatted
\* breaks out of the loop; after F comes G.
GiveUp ==
  LET op == Head(ops)
  IN  \/ /\ op \in {Fdisk("Base"), Mkfs("F"), Mkfs("G")}
         /\ Continue
      \/ /\ op.op = "fdisk" /\ op # Fdisk("Base")
         /\ NextDrive
      \/ /\ op.op = "mkfs" /\ op.part \notin {"F", "G"}
         /\ phase' = "idle" /\ ops' = <<>> /\ stage' = "start"
         /\ UNCHANGED cur

-----------------------------------------------------------------------------
(* fdisk and fatx_fdisk.                                                    *)

At(op, s) == phase = "work" /\ Head(ops).op = op /\ stage = s
Goto(s) == stage' = s /\ UNCHANGED <<phase, cur, ops, wasFatx, boots>>

WriteFails == WritesMayFail /\ GiveUp /\ UNCHANGED <<disk, mounted, wasFatx, boots>>

\* A write before the last: it takes effect, or fails.
Write(new, after) ==
  \/ disk' = [disk EXCEPT ![cur] = new] /\ Goto(after) /\ UNCHANGED mounted
  \/ WriteFails

FdiskRefused ==
  /\ At("fdisk", "start")
  /\ \/ ~DiskOkFor(Head(ops).layout, disk[cur].size)
     \/ ~HasTable(cur)
     \/ ReadsMayFail
  /\ GiveUp
  /\ UNCHANGED <<disk, mounted, wasFatx, boots>>

\* Sectors 1 to 1023 are wiped when the mark is not read back.
FdiskStart ==
  /\ At("fdisk", "start")
  /\ DiskOkFor(Head(ops).layout, disk[cur].size) /\ HasTable(cur)
  /\ \/ disk[cur].brfr /\ Goto("mbr")
     \/ (\E ok \in ReadOk : ~(ok /\ disk[cur].brfr)) /\ Goto("wipe")
  /\ UNCHANGED <<disk, mounted>>

FdiskWipe == At("fdisk", "wipe") /\ Write([disk[cur] EXCEPT !.brfr = FALSE], "mark")

FdiskMark == At("fdisk", "mark") /\ Write([disk[cur] EXCEPT !.brfr = TRUE], "mbr")

SetTable(new) == disk' = [disk EXCEPT ![cur].table = new]

NewTable(layout, table, size) ==
  \/ layout = "Base" /\ SetTable(BackupPartTable)
  \/ layout = "FOnly" /\ SetTable(FOnly(table, size))
  \/ layout = "F120GRest" /\ SetTable(FThenG(table, size, LBA28_BOUNDARY))
  \/ layout = "FGSplit" /\ SetTable(FGSplit(table, size))
  \/ layout = "FMaxGRest" /\ SetTable(FThenG(table, size, XBOX_EXTEND_STARTLBA + LBASIZE_1024GB))

FdiskTable ==
  /\ At("fdisk", "mbr")
  /\ \/ /\ NewTable(Head(ops).layout, disk[cur].table, disk[cur].size)
        /\ Continue
        /\ UNCHANGED <<mounted, wasFatx, boots>>
     \/ WriteFails

-----------------------------------------------------------------------------
(* fatxmkfs and f_mkfs. The table is read again for the flag.               *)

PartEntry == disk[cur].table[Head(ops).part]
Vol == Volume(PartEntry)

MkfsRefused ==
  /\ At("mkfs", "start")
  /\ \/ ~HasTable(cur)
     \/ ReadsMayFail
  /\ GiveUp
  /\ UNCHANGED <<disk, mounted, wasFatx, boots>>

\* From here on the volume is not mounted.
MkfsStart ==
  /\ At("mkfs", "start")
  /\ HasTable(cur)
  /\ mounted' = [mounted EXCEPT ![cur][Head(ops).part] = NotMounted]
  /\ \/ MkfsAborts(PartEntry) /\ GiveUp /\ UNCHANGED <<wasFatx, boots>>
     \/ ~MkfsAborts(PartEntry) /\ Goto("header")
  /\ UNCHANGED disk

MkfsHeader ==
  /\ At("mkfs", "header")
  /\ Write([disk[cur] EXCEPT !.hdr = @ \cup {Vol.start}], "fat")

MkfsFatCleared ==
  /\ At("mkfs", "fat")
  /\ Write([disk[cur] EXCEPT !.zero = @ \cup {MkfsFatExtent(Vol)}], "root")

MkfsRootCleared ==
  /\ At("mkfs", "root")
  /\ Write([disk[cur] EXCEPT !.zero = @ \cup {MkfsRootExtent(Vol)}], "flag")

MkfsFlag ==
  /\ At("mkfs", "flag")
  /\ \/ /\ disk' = [disk EXCEPT ![cur].table[Head(ops).part] = Vol]
        /\ Continue
        /\ UNCHANGED <<mounted, wasFatx, boots>>
     \/ WriteFails

DiskNext ==
  \/ PowerCycle \/ FatFS_init
  \/ PassOver \/ ConfirmFormat \/ LeaveMenu
  \/ \E layout \in Layouts : ChooseLayout(layout)
  \/ FdiskRefused \/ FdiskStart \/ FdiskWipe \/ FdiskMark \/ FdiskTable
  \/ MkfsRefused \/ MkfsStart \/ MkfsHeader \/ MkfsFatCleared \/ MkfsRootCleared \/ MkfsFlag

DiskSpec == DiskInit /\ [][DiskNext]_diskVars

-----------------------------------------------------------------------------
Ops == {Fdisk(l) : l \in Layouts} \cup {Mkfs(p) : p \in Parts}
Sectors == Nat \X Nat
Content == [size : Nat, brfr : BOOLEAN, table : {NoTable} \cup [Parts -> Entry],
            hdr : SUBSET Nat, zero : SUBSET Sectors]

(* The disks, the mounted volumes and the state of formatNewDrives keep     *)
(* their types; what is in a partition table fits its 32-bit fields.        *)
DiskTypeOK ==
  /\ disk \in [Drives -> Content]
  /\ mounted \in [Drives -> [Parts -> Entry]]
  /\ phase \in {"boot", "ask", "menu", "work", "idle"}
  /\ cur \in Drives
  /\ ops \in Seq(Ops)
  /\ phase = "work" => ops # <<>>
  /\ stage \in {"start", "wipe", "mark", "mbr", "header", "fat", "root", "flag"}
  /\ wasFatx \subseteq Drives
  /\ boots \in 1 .. MaxBoots

(* fdisk leaves the in-use flag of F and G to f_mkfs, which sets it with its *)
(* last write: an F or G that is flagged has a FATX header where the table   *)
(* says, whatever write failed and whenever the power went.                 *)
ExtendedInUseIsFormatted ==
  \A d \in Drives : HasTable(d) =>
    \A p \in {"F", "G"} : disk[d].table[p].use => disk[d].table[p].start \in disk[d].hdr

(* Formatting comes after mounting and nothing is mounted again behind it:  *)
(* a mounted volume is used with the geometry that the disk still records,  *)
(* on a drive that has the mark and a volume that has a header.             *)
MountedIsCurrent ==
  \A d \in Drives, p \in Parts : mounted[d][p].use =>
    /\ disk[d].brfr /\ HasTable(d)
    /\ disk[d].table[p] = mounted[d][p]
    /\ mounted[d][p].start \in disk[d].hdr

Overlap(e, f) == e.start < f.start + f.size /\ f.start < e.start + e.size

(* However a disk was divided, F and G keep clear of each other and of the  *)
(* stock partitions, after f_mkfs has moved their ends to a 4096-byte        *)
(* boundary too.                                                             *)
ExtendedApart ==
  \A d \in Drives : HasTable(d) =>
    \A p \in {"F", "G"}, q \in Parts :
      p # q /\ disk[d].table[p].use /\ disk[d].table[q].use
        => ~Overlap(disk[d].table[p], disk[d].table[q])

(* formatNewDrives is for new drives: a drive that had the FATX mark at      *)
(* power-on is not written to.                                               *)
FormattedDriveKept == [][\A d \in wasFatx : disk'[d] = disk[d]]_diskVars

(* Partitions are formatted only once there is a partition table, as the    *)
(* comment in fdisk has it for a disk without one.                          *)
NewDriveGetsTable ==
  phase = "work" /\ Head(ops).op = "mkfs" => HasTable(cur)

(* A partition in use lies on the disk.                                     *)
InUseFits ==
  \A d \in Drives : HasTable(d) =>
    \A p \in Parts : disk[d].table[p].use
      => disk[d].table[p].start + disk[d].table[p].size <= disk[d].size

(* Where a volume just formatted has its root directory, the disk is clear.  *)
RootIsCleared ==
  At("mkfs", "flag") => Within(MountRootExtent(Vol), disk[cur].zero)
=============================================================================
