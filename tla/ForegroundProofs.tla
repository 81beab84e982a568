-------------------------- MODULE ForegroundProofs --------------------------
(***************************************************************************)
(* Proofs about three parts of the foreground that share no state: the      *)
(* setup of new drives (DiskSetup), for disks and partition tables of any   *)
(* size; the flash menus and their progress dialog (FlashUi), which drive   *)
(* the flash engine; and the heap (Heap), for every size of the table and   *)
(* of a cell and every set of sizes.                                        *)
(***************************************************************************)
EXTENDS DiskSetup, FlashUi, Heap, TLAPS

\* What the operations on sequences do: the empty sequence.
LEMMA EmptySeq ==
  ASSUME NEW S
  PROVE  <<>> \in Seq(S) /\ Len(<<>>) = 0 /\ \A s \in Seq(S) : s # <<>> => Len(s) \in Nat \ {0}
OBVIOUS

\* The elements of a sequence.
LEMMA LenProperties ==
  ASSUME NEW S, NEW s \in Seq(S)
  PROVE  /\ Len(s) \in Nat /\ s \in [1..Len(s) -> S] /\ DOMAIN s = 1..Len(s)
         /\ \A i \in 1..Len(s) : s[i] \in S
OBVIOUS

\* The first element and the others.
LEMMA HeadTailProperties ==
  ASSUME NEW S, NEW s \in Seq(S), s # <<>>
  PROVE  /\ Head(s) \in S /\ Tail(s) \in Seq(S) /\ Len(Tail(s)) = Len(s) - 1
         /\ \A i \in 1..Len(Tail(s)) : Tail(s)[i] = s[i + 1]
OBVIOUS

Control ==
  /\ phase \in {"boot", "ask", "menu", "work", "idle"}
  /\ cur \in Drives
  /\ ops \in Seq(Ops)
  /\ phase = "work" => ops # <<>>
  /\ stage \in {"start", "wipe", "mark", "mbr", "header", "fat", "root", "flag"}

-----------------------------------------------------------------------------
(* The numbers in a partition table.                                        *)

\* The stock layout fits 32-bit sector numbers.
LEMMA StockNumbers ==
  /\ XBOX_EXTEND_STARTLBA \in Lba /\ XBOX_STORE_STARTLBA \in Lba
  /\ XBOX_SYSTEM_STARTLBA \in Lba /\ XBOX_CACHE1_STARTLBA \in Lba
  /\ STORE_LBASIZE \in Lba /\ SYSTEM_LBASIZE \in Lba
  /\ CACHE1_LBASIZE \in Lba /\ CACHE2_LBASIZE \in Lba /\ CACHE3_LBASIZE \in Lba
  /\ LBA28_BOUNDARY \in Lba /\ 0 \in Lba /\ 1 \in Lba
  /\ \A n \in Lba : n \in Nat
BY DiskAssumption, SMT
   DEF Lba, XBOX_EXTEND_STARTLBA, XBOX_STORE_STARTLBA, XBOX_SYSTEM_STARTLBA,
       XBOX_CACHE1_STARTLBA, XBOX_CACHE2_STARTLBA, XBOX_CACHE3_STARTLBA, STORE_LBASIZE,
       SYSTEM_LBASIZE, CACHE1_LBASIZE, CACHE2_LBASIZE, CACHE3_LBASIZE, LBA28_BOUNDARY

\* An unsigned int holds what Word makes of any integer.
LEMMA WordInLba == \A n \in Int : Word(n) \in Lba
<1>1. Word32 \in Nat /\ Word32 > 0
  BY DiskAssumption, SMT DEF XBOX_EXTEND_STARTLBA
<1>2. QED
  BY <1>1, SMT DEF Word, Lba

\* The stock table and every entry fdisk computes hold 32-bit numbers.
LEMMA BackupPartTableType == BackupPartTable \in [Parts -> Entry]
BY StockNumbers, SMT DEF BackupPartTable, Stock, Entry, Unused

\* The layouts make tables.
LEMMA ExtendedType ==
  ASSUME NEW table \in [Parts -> Entry], NEW size \in Nat
  PROVE  /\ FOnly(table, size) \in [Parts -> Entry]
         /\ FGSplit(table, size) \in [Parts -> Entry]
         /\ \A end \in Int : FThenG(table, size, end) \in [Parts -> Entry]
<1>1. ASSUME NEW s \in Int, NEW n \in Int
      PROVE  Extended(s, n) \in Entry
  BY WordInLba, SMT DEF Extended, Entry
<1>2. Unused \in Entry
  BY StockNumbers, SMT DEF Unused, Entry
<1>3. ASSUME NEW f \in Entry, NEW g \in Entry
      PROVE  WithFG(table, f, g) \in [Parts -> Entry]
  BY SMT DEF WithFG, Parts
<1>4. XBOX_EXTEND_STARTLBA \in Int /\ SYSTEM_LBASIZE \in Int
  BY StockNumbers, SMT
<1>5. FOnly(table, size) \in [Parts -> Entry]
  BY <1>1, <1>2, <1>3, <1>4, SMT DEF FOnly
<1>6. ASSUME NEW end \in Int
      PROVE  FThenG(table, size, end) \in [Parts -> Entry]
  <2>1. /\ Extended(XBOX_EXTEND_STARTLBA, end - XBOX_EXTEND_STARTLBA) \in Entry
        /\ Extended(end, size - end) \in Entry
    BY <1>1, <1>4, SMT
  <2>2. (IF end + SYSTEM_LBASIZE <= size THEN Extended(end, size - end) ELSE Unused) \in Entry
    BY <2>1, <1>2
  <2>3. QED
    BY <2>1, <2>2, <1>3, Zenon DEF FThenG
<1>7. ASSUME NEW room \in Int
      PROVE  SplitSize(room) \in Int
  BY DiskAssumption, SMT DEF SplitSize
<1>9. FGSplit(table, size) \in [Parts -> Entry]
  <2> DEFINE room == 512 * ((size - XBOX_EXTEND_STARTLBA) \div 512)
             f == SplitSize(room)
  <2>1. room \in Int
    BY <1>4, SMT
  <2> HIDE DEF room
  <2>2. f \in Int
    BY <2>1, <1>7
  <2> HIDE DEF f
  <2>3. /\ Extended(XBOX_EXTEND_STARTLBA, f) \in Entry
        /\ Extended(XBOX_EXTEND_STARTLBA + f, room - (XBOX_EXTEND_STARTLBA + f)) \in Entry
    BY <2>1, <2>2, <1>1, <1>4, SMT
  <2>4. FGSplit(table, size) =
          WithFG(table, Extended(XBOX_EXTEND_STARTLBA, f),
                 Extended(XBOX_EXTEND_STARTLBA + f, room - (XBOX_EXTEND_STARTLBA + f)))
    BY Zenon DEF FGSplit, f, room
  <2>5. QED
    BY <2>3, <2>4, <1>3
<1>10. QED
  BY <1>5, <1>6, <1>9

\* f_mkfs writes 32-bit numbers into the table.
LEMMA VolumeType ==
  ASSUME NEW entry \in Entry
  PROVE  /\ Volume(entry) \in Entry
         /\ Volume(entry).start \in Nat
         /\ MkfsFatExtent(Volume(entry)) \in Sectors
         /\ MkfsRootExtent(Volume(entry)) \in Sectors
<1> DEFINE start == Word(AlignUp(entry.start))
           raw == Word(entry.size - (start - entry.start))
<1>1. entry.start \in Nat /\ entry.size \in Nat /\ AlignUp(entry.start) \in Int
  BY StockNumbers, SMT DEF AlignUp, Entry
<1>2. start \in Lba /\ start \in Int
  BY <1>1, WordInLba, StockNumbers, SMT
<1>3. raw \in Lba
  BY <1>1, <1>2, WordInLba, SMT
<1>4. AlignDown(raw) \in Lba
  BY <1>3, DiskAssumption, SMT DEF AlignDown, Lba
<1>5. Volume(entry) = [use |-> TRUE, start |-> start, size |-> AlignDown(raw)]
  BY SMT DEF Volume
<1>6. start \in Nat /\ AlignDown(raw) \in Nat
  BY <1>2, <1>4, StockNumbers, SMT
<1> HIDE DEF start, raw
<1>7. MkfsFat(Volume(entry)) \in Nat
  BY <1>5, <1>6, SMT DEF MkfsFat
<1>8. QED
  BY <1>2, <1>4, <1>5, <1>6, <1>7, SMT DEF Entry, MkfsFatExtent, MkfsRootExtent, Sectors

-----------------------------------------------------------------------------
(* The loop of formatNewDrives keeps the type of its variables.             *)

\* Going on to the next drive keeps the loop of formatNewDrives in its states.
LEMMA NextDriveControl ==
  ASSUME Control, NextDrive
  PROVE  Control'
BY SMT DEF Control, NextDrive, Drives

\* So does going on to the next operation on a drive.
LEMMA ContinueControl ==
  ASSUME Control, phase = "work", Continue
  PROVE  Control'
<1>1. CASE Len(ops) > 1 /\ ops' = Tail(ops) /\ stage' = "start" /\ UNCHANGED <<phase, cur>>
  <2>1. Tail(ops) \in Seq(Ops) /\ Len(Tail(ops)) = Len(ops) - 1 /\ Len(ops) \in Nat
    BY HeadTailProperties, LenProperties DEF Control
  <2>a. Len(Tail(ops)) # 0
    BY <1>1, <2>1, SMT
  <2>b. Tail(ops) # <<>>
    BY Zenon, <2>a, EmptySeq
  <2>2. QED
    BY <1>1, <2>1, <2>b, SMT DEF Control
<1>2. CASE phase' = "menu" /\ ops' = <<>> /\ stage' = "start" /\ UNCHANGED cur
  BY <1>2, SMT DEF Control
<1>3. QED
  BY <1>1, <1>2, NextDriveControl DEF Continue

\* So does giving up after an error.
LEMMA GiveUpControl ==
  ASSUME Control, phase = "work", GiveUp
  PROVE  Control'
<1>1. CASE Continue
  BY <1>1, ContinueControl
<1>2. CASE NextDrive
  BY <1>2, NextDriveControl
<1>3. CASE phase' = "idle" /\ ops' = <<>> /\ stage' = "start" /\ UNCHANGED cur
  BY <1>3, SMT DEF Control
<1>4. QED
  BY <1>1, <1>2, <1>3 DEF GiveUp

\* Each of them leads to the start of an operation.
LEMMA BackToStart ==
  /\ NextDrive => stage' = "start"
  /\ Continue => stage' = "start"
  /\ GiveUp => stage' = "start"
BY DEF NextDrive, Continue, GiveUp

\* An operation has the fields that its kind needs.
LEMMA OpFields ==
  ASSUME Control, phase = "work"
  PROVE  /\ Head(ops).op = "mkfs" => Head(ops).part \in Parts
         /\ Head(ops).op = "fdisk" => Head(ops).layout \in Layouts
<1>1. Head(ops) \in Ops
  BY HeadTailProperties DEF Control
<1>2. \A o \in Ops : /\ o.op = "mkfs" => o.part \in Parts
                     /\ o.op = "fdisk" => o.layout \in Layouts
  BY SMT DEF Ops, Fdisk, Mkfs
<1>3. QED
  BY <1>1, <1>2

-----------------------------------------------------------------------------
(* The inductive invariant: past the start of an operation there is a        *)
(* table, and past the write of its header a volume has one.                 *)

HeaderFirst ==
  phase = "work" /\ stage # "start" =>
    /\ HasTable(cur)
    /\ stage \in {"fat", "root", "flag"} => Vol.start \in disk[cur].hdr

\* Stages of mkfs are reached by mkfs only.
StageOfOp ==
  phase = "work" =>
    /\ stage \in {"header", "fat", "root", "flag"} => Head(ops).op = "mkfs"
    /\ stage \in {"wipe", "mark", "mbr"} => Head(ops).op = "fdisk"

DiskInv ==
  /\ DiskTypeOK
  /\ ExtendedInUseIsFormatted
  /\ HeaderFirst
  /\ StageOfOp

\* A drive as it is plugged in is a disk of the model, with formatted F and G.
LEMMA ContentsType ==
  ASSUME NEW d \in NewDrives
  PROVE  /\ Contents(d) \in Content
         /\ Contents(d).table # NoTable =>
              \A p \in {"F", "G"} : Contents(d).table[p].use
                => Contents(d).table[p].start \in Contents(d).hdr
<1>1. /\ d.size \in Nat /\ d.brfr \in BOOLEAN /\ d.blank \in BOOLEAN
      /\ d.table \in {NoTable} \cup [Parts -> Entry]
  BY DiskAssumption, SMT
<1>2. DOMAIN NoTable = {}
  BY DEF NoTable
<1> DEFINE hdr == {d.table[p].start : p \in {q \in DOMAIN d.table : d.table[q].use /\ ~d.blank}}
           zero == IF d.blank THEN {<<0, d.size>>} ELSE {}
<1>3. \A q \in DOMAIN d.table : d.table[q] \in Entry
  BY <1>1, <1>2, SMT
<1>4. hdr \in SUBSET Nat
  BY <1>3, StockNumbers, SMT DEF Entry
<1>5. zero \in SUBSET Sectors
  BY <1>1, SMT DEF Sectors
<1>6. Contents(d) = [size |-> d.size, brfr |-> d.brfr, table |-> d.table, hdr |-> hdr, zero |-> zero]
  BY Zenon DEF Contents
<1>7. ASSUME NEW p \in {"F", "G"}, d.table # NoTable, d.table[p].use
      PROVE  d.table[p].start \in hdr
  <2>1. ~d.blank
    BY <1>7, DiskAssumption
  <2>2. p \in DOMAIN d.table
    BY <1>1, <1>7 DEF Parts
  <2>3. QED
    BY <1>7, <2>1, <2>2
<1> HIDE DEF hdr, zero
<1>8. QED
  BY <1>1, <1>4, <1>5, <1>6, <1>7, SMT DEF Content

\* The drives that may be plugged in satisfy DiskInv.
LEMMA DiskInvInit == DiskInit => DiskInv
<1> SUFFICES ASSUME DiskInit PROVE DiskInv
  OBVIOUS
<1>1. PICK plugged \in [Drives -> NewDrives] : disk = [d \in Drives |-> Contents(plugged[d])]
  BY DEF DiskInit
<1>2. disk \in [Drives -> Content]
  BY <1>1, ContentsType
<1>3. mounted \in [Drives -> [Parts -> Entry]]
  <2>1. NotMounted \in Entry
    BY StockNumbers, SMT DEF NotMounted, Entry
  <2>2. QED
    BY <2>1 DEF DiskInit, NothingMounted
<1>4. DiskTypeOK
  <2>1. boots \in 1 .. MaxBoots
    BY DiskAssumption, SMT DEF DiskInit
  <2>2. ops \in Seq(Ops)
    BY EmptySeq DEF DiskInit
  <2>3. QED
    BY <1>2, <1>3, <2>1, <2>2, SMT DEF DiskInit, DiskTypeOK, Drives
<1>5. ExtendedInUseIsFormatted
  BY <1>1, ContentsType DEF ExtendedInUseIsFormatted, HasTable
<1>6. QED
  BY <1>4, <1>5 DEF DiskInv, HeaderFirst, StageOfOp, DiskInit

\* A step that leaves the disks alone, or writes something harmless to the
\* current one: the mark, a header, zeroes.
Harmless(new) ==
  /\ new \in Content
  /\ new.table = disk[cur].table
  /\ disk[cur].hdr \subseteq new.hdr

\* A write that leaves the table and the headers in place keeps DiskInv.
LEMMA WriteStep ==
  ASSUME DiskInv, NEW new, NEW after, Harmless(new), phase = "work", stage # "start",
         after \in {"mark", "mbr", "fat", "root", "flag"},
         after \in {"mark", "mbr"} => Head(ops).op = "fdisk",
         after \in {"fat", "root", "flag"} =>
           Head(ops).op = "mkfs" /\ Vol.start \in new.hdr,
         Write(new, after)
  PROVE  DiskInv'
<1> USE DEF DiskInv
<1>1. CASE disk' = [disk EXCEPT ![cur] = new] /\ Goto(after) /\ UNCHANGED mounted
  <2>1. disk' \in [Drives -> Content] /\ cur \in Drives /\ disk'[cur] = new
    BY <1>1 DEF DiskTypeOK, Harmless
  <2>2. DiskTypeOK'
    BY <1>1, <2>1 DEF DiskTypeOK, Goto
  <2>3. \A d \in Drives : disk'[d].table = disk[d].table /\ disk[d].hdr \subseteq disk'[d].hdr
    BY <1>1, <2>1 DEF DiskTypeOK, Harmless
  <2>4. ExtendedInUseIsFormatted'
    BY <2>3 DEF ExtendedInUseIsFormatted, HasTable
  <2>5. Vol' = Vol
    BY <1>1, <2>1, <2>3 DEF Vol, PartEntry, Goto
  <2>6. HeaderFirst'
    BY <1>1, <2>1, <2>3, <2>5 DEF HeaderFirst, HasTable, Goto
  <2>7. StageOfOp'
    BY <1>1 DEF StageOfOp, Goto
  <2>8. QED
    BY <2>2, <2>4, <2>6, <2>7
<1>2. CASE WriteFails
  <2>1. Control'
    BY <1>2, GiveUpControl DEF WriteFails, DiskTypeOK, Control
  <2>2. stage' = "start"
    BY <1>2, BackToStart DEF WriteFails
  <2>3. QED
    BY <1>2, <2>1, <2>2 DEF WriteFails, DiskTypeOK, Control, ExtendedInUseIsFormatted, HasTable,
       HeaderFirst, StageOfOp
<1>3. QED
  BY <1>1, <1>2 DEF Write

\* A step back to the start of an operation keeps the invariant when it keeps
\* the types and the two facts about F and G.
LEMMA StartStep ==
  ASSUME DiskInv, Control', stage' = "start", UNCHANGED <<wasFatx, boots>>,
         disk' \in [Drives -> Content], mounted' \in [Drives -> [Parts -> Entry]],
         ExtendedInUseIsFormatted'
  PROVE  DiskInv'
BY DEF DiskInv, DiskTypeOK, Control, HeaderFirst, StageOfOp

\* Such a step that writes nothing keeps DiskInv.
LEMMA SameDisk ==
  ASSUME DiskInv, Control', stage' = "start", UNCHANGED <<wasFatx, boots>>,
         disk' = disk, mounted' \in [Drives -> [Parts -> Entry]]
  PROVE  DiskInv'
<1>1. disk' \in [Drives -> Content]
  BY Zenon DEF DiskInv, DiskTypeOK
<1>2. ExtendedInUseIsFormatted'
  BY Zenon DEF DiskInv, ExtendedInUseIsFormatted, HasTable
<1>3. QED
  BY Zenon, <1>1, <1>2, StartStep

\* The tables fdisk computes have no F or G in use.
LEMMA NotInUseYet ==
  ASSUME NEW table \in [Parts -> Entry], NEW size
  PROVE  \A p \in {"F", "G"} :
           /\ BackupPartTable[p].use = FALSE
           /\ FOnly(table, size)[p].use = FALSE
           /\ FGSplit(table, size)[p].use = FALSE
           /\ \A end : FThenG(table, size, end)[p].use = FALSE
<1>1. ASSUME NEW f, NEW g, NEW p \in {"F", "G"}, f.use = FALSE, g.use = FALSE
      PROVE  WithFG(table, f, g)[p].use = FALSE
  BY <1>1, SMT DEF WithFG, Parts
<1>2. Unused.use = FALSE /\ \A s, n : Extended(s, n).use = FALSE
  BY DEF Unused, Extended
<1> SUFFICES ASSUME NEW p \in {"F", "G"}
             PROVE  /\ BackupPartTable[p].use = FALSE
                    /\ FOnly(table, size)[p].use = FALSE
                    /\ FGSplit(table, size)[p].use = FALSE
                    /\ \A end : FThenG(table, size, end)[p].use = FALSE
  BY Zenon
<1>3. BackupPartTable[p].use = FALSE
  BY <1>2 DEF BackupPartTable, Parts
<1>4. FOnly(table, size)[p].use = FALSE
  BY <1>1, <1>2, Zenon DEF FOnly
<1>5. FGSplit(table, size)[p].use = FALSE
  <2> DEFINE room == 512 * ((size - XBOX_EXTEND_STARTLBA) \div 512)
             f == Extended(XBOX_EXTEND_STARTLBA, SplitSize(room))
             g == Extended(XBOX_EXTEND_STARTLBA + SplitSize(room),
                           room - (XBOX_EXTEND_STARTLBA + SplitSize(room)))
  <2>1. FGSplit(table, size) = WithFG(table, f, g)
    BY Zenon DEF FGSplit
  <2>2. f.use = FALSE /\ g.use = FALSE
    BY <1>2
  <2> HIDE DEF f, g
  <2>3. WithFG(table, f, g)[p].use = FALSE
    BY Zenon, <2>2, <1>1
  <2>4. QED
    BY <2>1, <2>3
<1>6. ASSUME NEW end
      PROVE  FThenG(table, size, end)[p].use = FALSE
  <2>1. (IF end + SYSTEM_LBASIZE <= size THEN Extended(end, size - end) ELSE Unused).use = FALSE
    BY <1>2
  <2>2. QED
    BY <2>1, <1>1, <1>2, Zenon DEF FThenG
<1>7. QED
  BY Zenon, <1>3, <1>4, <1>5, <1>6

\* So does the table of a new layout, in which F and G are not in use.
LEMMA NewTableStep ==
  ASSUME DiskInv, phase = "work", Head(ops).op = "fdisk", HasTable(cur),
         NewTable(Head(ops).layout, disk[cur].table, disk[cur].size)
  PROVE  /\ disk' \in [Drives -> Content]
         /\ ExtendedInUseIsFormatted'
<1> DEFINE table == disk[cur].table
           size == disk[cur].size
           Fresh(new) == new \in [Parts -> Entry] /\ \A p \in {"F", "G"} : new[p].use = FALSE
<1>1. cur \in Drives /\ table \in [Parts -> Entry] /\ size \in Nat
  BY DEF DiskInv, DiskTypeOK, Content, HasTable
<1> HIDE DEF table, size
<1>2. /\ Fresh(BackupPartTable) /\ Fresh(FOnly(table, size)) /\ Fresh(FGSplit(table, size))
      /\ \A end \in Int : Fresh(FThenG(table, size, end))
  <2>1. /\ Fresh(BackupPartTable)
        /\ Fresh(FOnly(table, size))
        /\ Fresh(FGSplit(table, size))
    BY <1>1, BackupPartTableType, ExtendedType, NotInUseYet, Zenon
  <2>2. ASSUME NEW end \in Int
        PROVE  Fresh(FThenG(table, size, end))
    <3>1. FThenG(table, size, end) \in [Parts -> Entry]
      BY <1>1, ExtendedType
    <3>2. \A p \in {"F", "G"} : FThenG(table, size, end)[p].use = FALSE
      BY Zenon, <1>1, NotInUseYet
    <3>3. QED
      BY <3>1, <3>2
  <2>3. QED
    BY Zenon, <2>1, <2>2
<1>3. LBA28_BOUNDARY \in Int /\ XBOX_EXTEND_STARTLBA + LBASIZE_1024GB \in Int
  BY StockNumbers, DiskAssumption, SMT
<1> HIDE DEF Fresh
<1>4. PICK new : SetTable(new) /\ Fresh(new)
  BY <1>2, <1>3, Zenon DEF NewTable, table, size
<1>5. disk' = [disk EXCEPT ![cur].table = new]
  BY <1>4 DEF SetTable
<1>6. disk' \in [Drives -> Content]
  <2>1. disk \in [Drives -> Content] /\ disk[cur] \in Content
    BY <1>1 DEF DiskInv, DiskTypeOK
  <2>2. [disk[cur] EXCEPT !.table = new] \in Content
    BY <1>4, <2>1, SMT DEF Content, Fresh
  <2>3. disk' = [disk EXCEPT ![cur] = [disk[cur] EXCEPT !.table = new]]
    BY <1>5
  <2>4. QED
    BY <1>1, <2>1, <2>2, <2>3
<1>7. ExtendedInUseIsFormatted'
  <2>1. \A d \in Drives : disk'[d] = disk[d] \/ disk'[d].table = new
    BY <1>1, <1>5, SMT DEF DiskInv, DiskTypeOK, Content
  <2>2. QED
    BY <1>4, <2>1 DEF DiskInv, ExtendedInUseIsFormatted, HasTable, Fresh
<1>8. QED
  BY <1>6, <1>7

\* DiskInv is inductive.
LEMMA DiskInvStep ==
  ASSUME DiskInv, [DiskNext]_diskVars
  PROVE  DiskInv'
<1> USE DEF DiskInv
<1>a. NotMounted \in Entry /\ Unused \in Entry
  BY StockNumbers, SMT DEF NotMounted, Unused, Entry
<1>b. Control /\ DiskTypeOK
  BY DEF DiskTypeOK, Control
<1>1. CASE PowerCycle
  <2>1. boots' \in 1 .. MaxBoots
    BY <1>1, DiskAssumption, SMT DEF PowerCycle, DiskTypeOK
  <2>2. mounted' \in [Drives -> [Parts -> Entry]]
    BY <1>1, <1>a DEF PowerCycle, NothingMounted
  <2>3. <<>> \in Seq(Ops)
    BY EmptySeq
  <2>4. QED
    BY <1>1, <2>1, <2>2, <2>3 DEF PowerCycle, DiskTypeOK, ExtendedInUseIsFormatted, HasTable,
       HeaderFirst, StageOfOp, Drives
<1>2. CASE FatFS_init
  <2>1. ASSUME NEW d \in Drives, NEW p \in Parts, Mounts(d, p)
        PROVE  EntryOf(d, p) \in Entry
    BY <2>1, <1>a DEF Mounts, HasTable, EntryOf, DiskTypeOK, Content
  <2>2. mounted' \in [Drives -> [Parts -> Entry]]
    BY <1>2, <1>a, <2>1 DEF FatFS_init
  <2>3. QED
    BY <1>2, <2>2 DEF FatFS_init, DiskTypeOK, ExtendedInUseIsFormatted, HasTable,
       HeaderFirst, StageOfOp
<1>3. CASE PassOver \/ LeaveMenu
  <2>1. Control' /\ stage' = "start"
    BY <1>3, <1>b, NextDriveControl, BackToStart DEF PassOver, LeaveMenu
  <2>2. QED
    BY Zenon, <1>3, <2>1, SameDisk DEF PassOver, LeaveMenu, DiskTypeOK
<1>4. ASSUME NEW list \in {BaseOps} \cup {ExtendedOps(l) : l \in Layouts},
             Do(list), UNCHANGED <<disk, mounted, wasFatx, boots>>
      PROVE  DiskInv'
  <2>1. /\ \A l \in Layouts : Fdisk(l) \in Ops
        /\ \A p \in Parts : Mkfs(p) \in Ops
    BY DEF Ops
  <2>2. list \in Seq(Ops) /\ list # <<>>
    <3>1. BaseOps \in Seq(Ops) /\ BaseOps # <<>>
      BY <2>1 DEF BaseOps, Layouts, Parts
    <3>2. ASSUME NEW l \in Layouts
          PROVE  ExtendedOps(l) \in Seq(Ops) /\ ExtendedOps(l) # <<>>
      BY <2>1 DEF ExtendedOps, Layouts, Parts
    <3>3. QED
      BY <3>1, <3>2
  <2>3. Control' /\ stage' = "start"
    BY <1>4, <1>b, <2>2 DEF Do, Control
  <2>4. QED
    BY Zenon, <1>4, <2>3, SameDisk DEF DiskTypeOK
<1>5. CASE ConfirmFormat
  BY <1>5, <1>4 DEF ConfirmFormat
<1>6. ASSUME NEW layout \in Layouts, ChooseLayout(layout)
      PROVE  DiskInv'
  BY <1>6, <1>4 DEF ChooseLayout
<1>7. CASE FdiskRefused \/ MkfsRefused
  <2>1. Control' /\ stage' = "start"
    BY <1>7, <1>b, GiveUpControl, BackToStart DEF FdiskRefused, MkfsRefused, At
  <2>2. QED
    <3>1. UNCHANGED <<disk, mounted, wasFatx, boots>>
      BY <1>7 DEF FdiskRefused, MkfsRefused
    <3>2. QED
      BY Zenon, <2>1, <3>1, SameDisk DEF DiskTypeOK
<1>8. CASE FdiskStart
  BY <1>8 DEF FdiskStart, At, Goto, DiskTypeOK, ExtendedInUseIsFormatted, HasTable,
     HeaderFirst, StageOfOp
<1>9. CASE FdiskWipe \/ FdiskMark
  <2>1. phase = "work" /\ Head(ops).op = "fdisk" /\ stage # "start" /\ cur \in Drives
    BY <1>9 DEF FdiskWipe, FdiskMark, At, DiskTypeOK
  <2>2. ASSUME NEW b \in BOOLEAN
        PROVE  Harmless([disk[cur] EXCEPT !.brfr = b])
    BY Zenon, <2>1 DEF Harmless, DiskTypeOK, Content
  <2>3. QED
    BY Zenon, <1>9, <2>1, <2>2, WriteStep DEF FdiskWipe, FdiskMark
<1>10. CASE FdiskTable
  <2>1. phase = "work" /\ Head(ops).op = "fdisk" /\ HasTable(cur)
    BY <1>10 DEF FdiskTable, At, HeaderFirst
  <2>2. Control' /\ stage' = "start"
    BY <1>10, <1>b, ContinueControl, GiveUpControl, BackToStart DEF FdiskTable, At, WriteFails
  <2>3. disk' \in [Drives -> Content] /\ ExtendedInUseIsFormatted'
    <3>1. CASE WriteFails
      BY Zenon, <3>1 DEF WriteFails, DiskTypeOK, ExtendedInUseIsFormatted, HasTable
    <3>2. CASE NewTable(Head(ops).layout, disk[cur].table, disk[cur].size)
      BY <2>1, <3>2, NewTableStep DEF DiskTypeOK
    <3>3. QED
      BY Zenon, <1>10, <3>1, <3>2 DEF FdiskTable
  <2>4. QED
    BY <1>10, <2>2, <2>3, StartStep DEF FdiskTable, WriteFails, DiskTypeOK
<1>11. CASE MkfsStart
  <2>1. /\ phase = "work" /\ Head(ops).op = "mkfs" /\ HasTable(cur) /\ cur \in Drives
        /\ Head(ops).part \in Parts
    BY <1>11, <1>b, OpFields DEF MkfsStart, At, DiskTypeOK
  <2>2. mounted' \in [Drives -> [Parts -> Entry]]
    BY <1>11, <1>a, <2>1 DEF MkfsStart, DiskTypeOK
  <2>3. CASE GiveUp /\ UNCHANGED <<wasFatx, boots>>
    <3>1. Control' /\ stage' = "start"
      BY <1>b, <2>1, <2>3, GiveUpControl, BackToStart
    <3>2. QED
      BY Zenon, <1>11, <2>2, <2>3, <3>1, SameDisk DEF MkfsStart
  <2>4. CASE Goto("header")
    BY <1>11, <2>1, <2>2, <2>4 DEF MkfsStart, Goto, DiskTypeOK, ExtendedInUseIsFormatted, HasTable,
       HeaderFirst, StageOfOp
  <2>5. QED
    BY <1>11, <2>3, <2>4 DEF MkfsStart
<1>12. CASE MkfsHeader \/ MkfsFatCleared \/ MkfsRootCleared
  <2>1. /\ phase = "work" /\ Head(ops).op = "mkfs" /\ stage # "start" /\ HasTable(cur)
        /\ cur \in Drives /\ Head(ops).part \in Parts
    BY <1>12, <1>b, OpFields DEF MkfsHeader, MkfsFatCleared, MkfsRootCleared, At, DiskTypeOK, HeaderFirst
  <2>2. disk[cur] \in Content /\ PartEntry \in Entry
    BY <2>1 DEF PartEntry, DiskTypeOK, Content, HasTable
  <2>3. Vol.start \in Nat /\ MkfsFatExtent(Vol) \in Sectors /\ MkfsRootExtent(Vol) \in Sectors
    BY <2>2, VolumeType DEF Vol
  <2>4. CASE MkfsHeader
    <3>1. Harmless([disk[cur] EXCEPT !.hdr = @ \cup {Vol.start}])
      BY <2>2, <2>3 DEF Harmless, Content
    <3>2. Vol.start \in [disk[cur] EXCEPT !.hdr = @ \cup {Vol.start}].hdr
      BY <2>2 DEF Content
    <3>3. QED
      BY Zenon, <2>1, <2>4, <3>1, <3>2, WriteStep DEF MkfsHeader
  <2>5. ASSUME NEW z \in Sectors, stage \in {"fat", "root"}
        PROVE  /\ Harmless([disk[cur] EXCEPT !.zero = @ \cup {z}])
               /\ Vol.start \in [disk[cur] EXCEPT !.zero = @ \cup {z}].hdr
    BY <2>1, <2>2, <2>5 DEF Harmless, Content, HeaderFirst
  <2>6. CASE MkfsFatCleared
    BY Zenon, <2>1, <2>3, <2>5, <2>6, WriteStep DEF MkfsFatCleared, At
  <2>7. CASE MkfsRootCleared
    BY Zenon, <2>1, <2>3, <2>5, <2>7, WriteStep DEF MkfsRootCleared, At
  <2>8. QED
    BY <1>12, <2>4, <2>6, <2>7
<1>13. CASE MkfsFlag
  <2>1. /\ phase = "work" /\ Head(ops).op = "mkfs" /\ HasTable(cur) /\ Vol.start \in disk[cur].hdr
        /\ cur \in Drives /\ Head(ops).part \in Parts
    BY <1>13, <1>b, OpFields DEF MkfsFlag, At, DiskTypeOK, HeaderFirst
  <2>2. Control' /\ stage' = "start"
    BY <1>13, <1>b, ContinueControl, GiveUpControl, BackToStart DEF MkfsFlag, At, WriteFails
  <2>3. CASE disk' = [disk EXCEPT ![cur].table[Head(ops).part] = Vol]
    <3>1. disk[cur] \in Content /\ disk[cur].table \in [Parts -> Entry] /\ Vol \in Entry
      BY <2>1, VolumeType DEF DiskTypeOK, Content, HasTable, Vol, PartEntry
    <3> DEFINE t == [disk[cur].table EXCEPT ![Head(ops).part] = Vol]
               new == [disk[cur] EXCEPT !.table = t]
    <3>2. t \in [Parts -> Entry]
      BY Zenon, <3>1
    <3>3. new \in Content /\ new.table = t /\ new.hdr = disk[cur].hdr
      BY <3>1, <3>2, SMT DEF Content
    <3>4. disk' = [disk EXCEPT ![cur] = new]
      BY <2>3
    <3>5. \A p \in {"F", "G"} : t[p].use => t[p].start \in disk[cur].hdr
      BY <2>1, <3>1 DEF ExtendedInUseIsFormatted, Parts
    <3> HIDE DEF new, t
    <3>6. disk' \in [Drives -> Content]
      BY <3>3, <3>4 DEF DiskTypeOK
    <3>7. ExtendedInUseIsFormatted'
      <4>1. \A d \in Drives : disk'[d] = IF d = cur THEN new ELSE disk[d]
        BY <3>4 DEF DiskTypeOK
      <4>2. QED
        BY <3>3, <3>5, <4>1 DEF ExtendedInUseIsFormatted, HasTable
    <3>8. QED
      BY <1>13, <2>2, <3>6, <3>7, StartStep DEF MkfsFlag, WriteFails, DiskTypeOK
  <2>4. CASE WriteFails
    BY Zenon, <2>2, <2>4, SameDisk DEF WriteFails, DiskTypeOK
  <2>5. QED
    BY <1>13, <2>3, <2>4 DEF MkfsFlag
<1>14. CASE UNCHANGED diskVars
  <2>1. UNCHANGED <<disk, mounted, phase, cur, ops, stage, wasFatx, boots>>
    BY <1>14 DEF diskVars
  <2>2. QED
    BY Zenon, <2>1 DEF DiskTypeOK, ExtendedInUseIsFormatted, HasTable, HeaderFirst, StageOfOp, Vol, PartEntry
<1>15. QED
  BY <1>1, <1>2, <1>3, <1>5, <1>6, <1>7, <1>8, <1>9, <1>10, <1>11, <1>12, <1>13, <1>14 DEF DiskNext

\* The disks and the state of the loop keep their types.
THEOREM DiskTypeCorrect == DiskSpec => []DiskTypeOK
<1>1. DiskInv => DiskTypeOK
  BY DEF DiskInv
<1>2. QED
  BY <1>1, DiskInvInit, DiskInvStep, PTL DEF DiskSpec

\* F and G are flagged in use only where they are formatted, whatever fails.
THEOREM FlagAfterFormat == DiskSpec => []ExtendedInUseIsFormatted
<1>1. DiskInv => ExtendedInUseIsFormatted
  BY DEF DiskInv
<1>2. QED
  BY <1>1, DiskInvInit, DiskInvStep, PTL DEF DiskSpec

-----------------------------------------------------------------------------
(* While every read succeeds, the loop works only on drives that had no mark *)
(* at power-on, and only drives that had it have mounted volumes.            *)

KeptInv ==
  /\ phase \in {"menu", "work"} => cur \notin wasFatx
  /\ \A d \in wasFatx : disk[d].brfr
  /\ phase = "boot" => \A d \in Drives : disk[d].brfr => d \in wasFatx
  /\ \A d \in Drives, p \in Parts : mounted[d][p].use => d \in wasFatx
  /\ MountedIsCurrent

\* Where the loop may be after an operation.
LEMMA LoopGoesOn ==
  ASSUME phase = "work", NextDrive \/ Continue \/ GiveUp
  PROVE  /\ phase' \in {"ask", "idle", "menu", "work"}
         /\ phase' \in {"menu", "work"} => cur' = cur
BY DEF NextDrive, Continue, GiveUp

\* A step of the loop writes at most the disk of the current drive.
LEMMA OneDiskStep ==
  ASSUME DiskInv, phase = "work",
         FdiskRefused \/ FdiskStart \/ FdiskWipe \/ FdiskMark \/ FdiskTable
           \/ MkfsRefused \/ MkfsStart \/ MkfsHeader \/ MkfsFatCleared \/ MkfsRootCleared \/ MkfsFlag
  PROVE  /\ \A d \in Drives \ {cur} : disk'[d] = disk[d]
         /\ \A d \in Drives, p \in Parts : mounted'[d][p].use => mounted'[d][p] = mounted[d][p]
         /\ phase' \in {"ask", "idle", "menu", "work"}
         /\ phase' \in {"menu", "work"} => cur' = cur
         /\ UNCHANGED wasFatx
<1>1. cur \in Drives /\ disk \in [Drives -> Content] /\ mounted \in [Drives -> [Parts -> Entry]]
  BY DEF DiskInv, DiskTypeOK
<1>2. CASE FdiskRefused \/ MkfsRefused
  BY <1>2, LoopGoesOn DEF FdiskRefused, MkfsRefused
<1>3. CASE FdiskStart
  BY <1>3 DEF FdiskStart, Goto
<1>4. ASSUME NEW new, NEW after, Write(new, after)
      PROVE  /\ \A d \in Drives \ {cur} : disk'[d] = disk[d]
             /\ UNCHANGED <<mounted, wasFatx>>
             /\ phase' \in {"ask", "idle", "menu", "work"}
             /\ phase' \in {"menu", "work"} => cur' = cur
  BY <1>1, <1>4, LoopGoesOn DEF Write, WriteFails, Goto
<1>5. CASE FdiskWipe \/ FdiskMark \/ MkfsHeader \/ MkfsFatCleared \/ MkfsRootCleared
  BY <1>4, <1>5 DEF FdiskWipe, FdiskMark, MkfsHeader, MkfsFatCleared, MkfsRootCleared
<1>6. CASE FdiskTable
  <2>1. \A d \in Drives \ {cur} : disk'[d] = disk[d]
    <3>1. CASE WriteFails
      BY Zenon, <3>1 DEF WriteFails
    <3>2. CASE \E table : SetTable(table)
      BY <3>2 DEF SetTable
    <3>3. QED
      BY Zenon, <1>6, <3>1, <3>2 DEF FdiskTable, NewTable
  <2>2. QED
    BY <1>6, <2>1, LoopGoesOn DEF FdiskTable, WriteFails
<1>7. CASE MkfsFlag
  <2>1. \A d \in Drives \ {cur} : disk'[d] = disk[d]
    BY <1>1, <1>7 DEF MkfsFlag, WriteFails
  <2>2. QED
    BY <1>7, <2>1, LoopGoesOn DEF MkfsFlag, WriteFails
<1>8. CASE MkfsStart
  <2>1. \A d \in Drives, p \in Parts : mounted'[d][p].use => mounted'[d][p] = mounted[d][p]
    BY <1>1, <1>8 DEF MkfsStart, NotMounted
  <2>2. QED
    BY <1>8, <2>1, LoopGoesOn DEF MkfsStart, Goto
<1>9. QED
  BY <1>2, <1>3, <1>5, <1>6, <1>7, <1>8

\* The same for every step: a disk that bore the mark at power-on is not written.
LEMMA KeptStep ==
  ASSUME ReadsMayFail = FALSE, DiskInv, KeptInv, [DiskNext]_diskVars
  PROVE  /\ KeptInv'
         /\ \A d \in wasFatx : disk'[d] = disk[d]
<1> USE DEF KeptInv
<1>a. /\ wasFatx \subseteq Drives /\ cur \in Drives
      /\ ReadOk = {TRUE}
  BY DEF DiskInv, DiskTypeOK, ReadOk
<1>1. CASE PowerCycle
  <2>1. \A d \in Drives, p \in Parts : mounted'[d][p].use = FALSE
    BY <1>1 DEF PowerCycle, NothingMounted, NotMounted
  <2>2. QED
    BY <1>1, <2>1 DEF PowerCycle, MountedIsCurrent
<1>2. CASE FatFS_init
  <2>1. ASSUME NEW d \in Drives, NEW p \in Parts, mounted'[d][p].use
        PROVE  Mounts(d, p) /\ mounted'[d][p] = EntryOf(d, p)
    <3>1. PICK ok \in [Drives -> ReadOk] :
            mounted' = [e \in Drives |-> [r \in Parts |->
                          IF ok[e] /\ Mounts(e, r) THEN EntryOf(e, r) ELSE NotMounted]]
      BY Zenon, <1>2 DEF FatFS_init
    <3>2. mounted'[d][p] = IF ok[d] /\ Mounts(d, p) THEN EntryOf(d, p) ELSE NotMounted
      BY Zenon, <3>1
    <3>3. NotMounted.use = FALSE
      BY DEF NotMounted
    <3>4. QED
      BY Zenon, <2>1, <3>2, <3>3
  <2>2. ASSUME NEW d \in Drives, NEW p \in Parts, mounted'[d][p].use
        PROVE  /\ d \in wasFatx /\ disk[d].brfr /\ HasTable(d)
               /\ disk[d].table[p] = mounted'[d][p]
               /\ mounted'[d][p].start \in disk[d].hdr
    <3>1. d = "master"
      BY <2>1, <2>2 DEF EntryOf, Unused
    <3>2. mounted'[d][p] = disk[d].table[p] /\ Mounts(d, p)
      BY Zenon, <2>1, <2>2, <3>1 DEF EntryOf
    <3>3. phase = "boot"
      BY Zenon, <1>2 DEF FatFS_init
    <3>4. QED
      BY <2>2, <3>1, <3>2, <3>3 DEF Mounts, EntryOf
  <2>3. QED
    BY <1>2, <2>2 DEF FatFS_init, MountedIsCurrent, HasTable
<1>3. CASE PassOver \/ LeaveMenu
  BY <1>3 DEF PassOver, LeaveMenu, NextDrive, MountedIsCurrent, HasTable
<1>4. CASE ConfirmFormat
  <2>1. ~disk[cur].brfr
    BY <1>4, <1>a DEF ConfirmFormat, NewDrive, isFATXFormattedDrive
  <2>2. QED
    BY <1>4, <1>a, <2>1 DEF ConfirmFormat, Do, MountedIsCurrent, HasTable
<1>5. CASE \E layout \in Layouts : ChooseLayout(layout)
  BY <1>5 DEF ChooseLayout, Do, MountedIsCurrent, HasTable
<1>6. CASE FdiskRefused \/ FdiskStart \/ FdiskWipe \/ FdiskMark \/ FdiskTable
             \/ MkfsRefused \/ MkfsStart \/ MkfsHeader \/ MkfsFatCleared \/ MkfsRootCleared \/ MkfsFlag
  <2>1. phase = "work"
    BY <1>6 DEF At, FdiskRefused, FdiskStart, FdiskWipe, FdiskMark, FdiskTable,
       MkfsRefused, MkfsStart, MkfsHeader, MkfsFatCleared, MkfsRootCleared, MkfsFlag
  <2>2. /\ \A d \in Drives \ {cur} : disk'[d] = disk[d]
        /\ \A d \in Drives, p \in Parts : mounted'[d][p].use => mounted'[d][p] = mounted[d][p]
        /\ phase' \in {"ask", "idle", "menu", "work"}
        /\ phase' \in {"menu", "work"} => cur' = cur
        /\ UNCHANGED wasFatx
    BY <1>6, <2>1, OneDiskStep
  <2>3. \A d \in wasFatx : disk'[d] = disk[d]
    BY <1>a, <2>1, <2>2
  <2>4. ASSUME NEW d \in Drives, NEW p \in Parts, mounted'[d][p].use
        PROVE  /\ d \in wasFatx' /\ disk'[d] = disk[d] /\ mounted'[d][p] = mounted[d][p]
               /\ mounted[d][p].use
    BY <2>2, <2>3, <2>4
  <2>5. MountedIsCurrent'
    BY <2>4 DEF MountedIsCurrent, HasTable
  <2>6. QED
    BY <2>1, <2>2, <2>3, <2>4, <2>5
<1>7. CASE UNCHANGED diskVars
  BY <1>7 DEF diskVars, MountedIsCurrent, HasTable
<1>8. QED
  BY <1>1, <1>2, <1>3, <1>4, <1>5, <1>6, <1>7 DEF DiskNext

\* A volume stays mounted only with the geometry its disk records, when reads
\* do not fail.
THEOREM MountsStayCurrent ==
  ASSUME ReadsMayFail = FALSE
  PROVE  DiskSpec => []MountedIsCurrent
<1>1. DiskInit => DiskInv /\ KeptInv
  <2>1. ASSUME DiskInit PROVE KeptInv
    BY <2>1 DEF DiskInit, KeptInv, MountedIsCurrent, NothingMounted, NotMounted
  <2>2. QED
    BY <2>1, DiskInvInit
<1>2. DiskInv /\ KeptInv /\ [DiskNext]_diskVars => DiskInv' /\ KeptInv'
  BY Zenon, DiskInvStep, KeptStep
<1>3. DiskInv /\ KeptInv => MountedIsCurrent
  BY DEF KeptInv
<1>4. QED
  BY <1>1, <1>2, <1>3, PTL DEF DiskSpec

\* formatNewDrives writes to no drive that had the mark at power-on, when reads
\* do not fail.
THEOREM OnlyNewDrivesWritten ==
  ASSUME ReadsMayFail = FALSE
  PROVE  DiskSpec => FormattedDriveKept
<1>1. DiskInit => DiskInv /\ KeptInv
  <2>1. ASSUME DiskInit PROVE KeptInv
    BY <2>1 DEF DiskInit, KeptInv, MountedIsCurrent, NothingMounted, NotMounted
  <2>2. QED
    BY <2>1, DiskInvInit
<1>2. DiskInv /\ KeptInv /\ [DiskNext]_diskVars
        => DiskInv' /\ KeptInv' /\ [\A d \in wasFatx : disk'[d] = disk[d]]_diskVars
  BY Zenon, DiskInvStep, KeptStep
<1>3. QED
  BY <1>1, <1>2, PTL DEF DiskSpec, FormattedDriveKept

-----------------------------------------------------------------------------
(* F and G keep clear of the rest. Tables are orderly whether or not their   *)
(* entries are in use, and f_mkfs shrinks what it formats.                   *)

OrderlyInv ==
  /\ \A d \in Drives : HasTable(d) => Orderly(disk[d].table)
  /\ phase \in {"menu", "work"} => disk[cur].size >= XBOX_EXTEND_STARTLBA
  /\ phase = "work" /\ stage \in {"header", "fat", "root", "flag"} => ~MkfsAborts(PartEntry)

\* Numbers of the stock layout.
LEMMA StockOrder ==
  /\ XBOX_EXTEND_STARTLBA \in Nat /\ SYSTEM_LBASIZE \in Nat /\ XBOX_EXTEND_STARTLBA > 0
  /\ AlignUp(XBOX_EXTEND_STARTLBA) = XBOX_EXTEND_STARTLBA
  /\ LBA28_BOUNDARY \in Nat /\ LBA28_BOUNDARY >= XBOX_EXTEND_STARTLBA
  /\ LBA28_BOUNDARY < Word32 /\ XBOX_EXTEND_STARTLBA + LBASIZE_1024GB < Word32
  /\ AlignUp(0) = 0
BY DiskAssumption, SMT DEF AlignUp, XBOX_EXTEND_STARTLBA, SYSTEM_LBASIZE, XBOX_STORE_STARTLBA,
   XBOX_SYSTEM_STARTLBA, LBA28_BOUNDARY

\* The backup table is orderly.
LEMMA BackupOrderly == Orderly(BackupPartTable)
<1>1. \A p \in Parts \ {"F", "G"} :
        /\ AlignUp(BackupPartTable[p].start) = BackupPartTable[p].start
        /\ BackupPartTable[p].start + BackupPartTable[p].size <= XBOX_EXTEND_STARTLBA
  BY SMT DEF BackupPartTable, Parts, Stock, AlignUp, XBOX_EXTEND_STARTLBA, XBOX_STORE_STARTLBA,
     XBOX_SYSTEM_STARTLBA, XBOX_CACHE1_STARTLBA, XBOX_CACHE2_STARTLBA, XBOX_CACHE3_STARTLBA,
     STORE_LBASIZE, SYSTEM_LBASIZE, CACHE1_LBASIZE, CACHE2_LBASIZE, CACHE3_LBASIZE
<1>2. BackupPartTable["F"] = Unused /\ BackupPartTable["G"] = Unused
  BY DEF BackupPartTable, Parts
<1>3. QED
  BY <1>1, <1>2 DEF Orderly

\* Small numbers are kept by an unsigned int, and no number grows.
LEMMA WordFacts ==
  /\ \A n \in Nat : n < Word32 => Word(n) = n
  /\ \A n \in Int : Word(n) \in Nat
<1>1. Word32 \in Nat /\ Word32 > 0
  BY DiskAssumption, SMT DEF XBOX_EXTEND_STARTLBA
<1>2. QED
  BY <1>1, SMT DEF Word

\* F from the end of the stock partitions, G behind it or unused.
LEMMA WithFGOrderly ==
  ASSUME NEW table \in [Parts -> Entry], Orderly(table), NEW n \in Nat, NEW g,
         XBOX_EXTEND_STARTLBA + n < Word32 \/ g = Unused,
         \/ g = Unused
         \/ (g.start >= XBOX_EXTEND_STARTLBA + n /\ g.start \in Nat)
  PROVE  Orderly(WithFG(table, Extended(XBOX_EXTEND_STARTLBA, n), g))
<1> DEFINE f == Extended(XBOX_EXTEND_STARTLBA, n)
           new == WithFG(table, f, g)
<1>1. /\ new["F"] = f /\ new["G"] = g
      /\ \A p \in Parts \ {"F", "G"} : new[p] = table[p]
  BY SMT DEF WithFG, Parts
<1>2. f.start = XBOX_EXTEND_STARTLBA /\ f.size = Word(n)
  <2>1. XBOX_EXTEND_STARTLBA < Word32
    BY StockOrder, DiskAssumption, SMT
  <2>2. QED
    BY <2>1, StockOrder, WordFacts DEF Extended
<1>3. g = Unused \/ f.start + f.size <= g.start
  <2>1. CASE g # Unused
    <3>1. n < Word32
      BY <2>1, StockOrder, DiskAssumption, SMT
    <3>2. f.size = n
      BY <1>2, <3>1, WordFacts
    <3>3. QED
      BY <1>2, <2>1, <3>2, StockOrder, SMT
  <2>2. QED
    BY <2>1
<1>4. AlignUp(f.start) = f.start /\ f.start >= XBOX_EXTEND_STARTLBA
  BY <1>2, StockOrder, SMT
<1>5. g = Unused \/ g.start >= XBOX_EXTEND_STARTLBA
  BY StockOrder, SMT
<1> HIDE DEF f, new
<1>6. Orderly(new)
  BY <1>1, <1>3, <1>4, <1>5 DEF Orderly
<1>7. QED
  BY <1>6 DEF new, f

\* Every layout of fdisk leaves an orderly table, on a disk of any size.
LEMMA LayoutsOrderly ==
  ASSUME NEW table \in [Parts -> Entry], Orderly(table),
         NEW size \in Nat, size >= XBOX_EXTEND_STARTLBA
  PROVE  /\ Orderly(FOnly(table, size))
         /\ Orderly(FGSplit(table, size))
         /\ Orderly(FThenG(table, size, LBA28_BOUNDARY))
         /\ Orderly(FThenG(table, size, XBOX_EXTEND_STARTLBA + LBASIZE_1024GB))
<1>1. Orderly(FOnly(table, size))
  <2>1. size - XBOX_EXTEND_STARTLBA \in Nat
    BY StockOrder, SMT
  <2>2. QED
    BY <2>1, WithFGOrderly DEF FOnly
<1>2. ASSUME NEW end \in Nat, end >= XBOX_EXTEND_STARTLBA, end < Word32
      PROVE  Orderly(FThenG(table, size, end))
  <2> DEFINE n == end - XBOX_EXTEND_STARTLBA
             g == IF end + SYSTEM_LBASIZE <= size THEN Extended(end, size - end) ELSE Unused
  <2>1. n \in Nat /\ XBOX_EXTEND_STARTLBA + n < Word32 /\ XBOX_EXTEND_STARTLBA + n = end
    BY <1>2, StockOrder, SMT
  <2>2. g = Unused \/ g.start = end
    BY <1>2, WordFacts DEF Extended
  <2>3. FThenG(table, size, end) = WithFG(table, Extended(XBOX_EXTEND_STARTLBA, n), g)
    BY Zenon DEF FThenG
  <2>4. g = Unused \/ (g.start >= XBOX_EXTEND_STARTLBA + n /\ g.start \in Nat)
    BY <2>1, <2>2, SMT
  <2> HIDE DEF n, g
  <2>5. QED
    BY <2>1, <2>3, <2>4, WithFGOrderly
<1>3. Orderly(FGSplit(table, size))
  <2> DEFINE room == 512 * ((size - XBOX_EXTEND_STARTLBA) \div 512)
             f == SplitSize(room)
             g == Extended(XBOX_EXTEND_STARTLBA + f, room - (XBOX_EXTEND_STARTLBA + f))
  <2>1. room \in Nat
    BY StockOrder, SMT
  <2>2. f \in Nat /\ f <= LBASIZE_1024GB
    BY <2>1, DiskAssumption, SMT DEF SplitSize
  <2>3. FGSplit(table, size) = WithFG(table, Extended(XBOX_EXTEND_STARTLBA, f), g)
    BY Zenon DEF FGSplit
  <2> HIDE DEF room, f
  <2>4. XBOX_EXTEND_STARTLBA + f \in Nat /\ XBOX_EXTEND_STARTLBA + f < Word32
    BY <2>2, StockOrder, DiskAssumption, SMT
  <2>5. g.start = XBOX_EXTEND_STARTLBA + f
    BY <2>4, WordFacts DEF Extended
  <2> HIDE DEF g
  <2>6. g.start >= XBOX_EXTEND_STARTLBA + f /\ g.start \in Nat
    BY <2>4, <2>5, SMT
  <2>7. QED
    BY <2>2, <2>3, <2>4, <2>6, WithFGOrderly
<1>4. LBASIZE_1024GB \in Nat /\ XBOX_EXTEND_STARTLBA + LBASIZE_1024GB \in Nat
        /\ XBOX_EXTEND_STARTLBA + LBASIZE_1024GB >= XBOX_EXTEND_STARTLBA
  BY DiskAssumption, StockOrder, SMT
<1>5. QED
  BY <1>1, <1>2, <1>3, <1>4, StockOrder

\* What f_mkfs makes of an entry that starts on a boundary lies within it; of
\* any entry it formats, behind its start.
LEMMA VolumeShrinks ==
  ASSUME NEW entry \in Entry, ~MkfsAborts(entry)
  PROVE  /\ Volume(entry).start >= entry.start
         /\ AlignUp(entry.start) = entry.start =>
              Volume(entry).start = entry.start /\ Volume(entry).size <= entry.size
         /\ entry # Unused
<1>1. entry.start \in Nat /\ entry.size \in Nat /\ entry.start < Word32 /\ entry.size < Word32
  BY DiskAssumption, SMT DEF Entry, Lba
<1>2. Volume(entry).start \in Nat /\ Volume(entry).size \in Nat
  BY VolumeType, StockNumbers DEF Entry
<1>3. Volume(entry).start >= entry.start /\ Volume(entry).size >= 128
  BY <1>1, <1>2, SMT DEF MkfsAborts
<1>4. ASSUME AlignUp(entry.start) = entry.start
      PROVE  Volume(entry).start = entry.start /\ Volume(entry).size <= entry.size
  <2>1. Word(AlignUp(entry.start)) = entry.start
    BY <1>1, <1>4, WordFacts
  <2>2. entry.size - (entry.start - entry.start) = entry.size
    BY <1>1, SMT
  <2>3. Word(entry.size - (entry.start - entry.start)) = entry.size
    BY <1>1, <2>2, WordFacts
  <2>4. Volume(entry).start = entry.start /\ Volume(entry).size = AlignDown(entry.size)
    BY <2>1, <2>3 DEF Volume
  <2>5. AlignDown(entry.size) <= entry.size
    BY <1>1, SMT DEF AlignDown
  <2>6. QED
    BY <2>4, <2>5
<1>5. entry # Unused
  <2>1. SUFFICES ASSUME entry = Unused PROVE FALSE
    OBVIOUS
  <2>2. entry.size = 0 /\ entry.start = 0
    BY <2>1 DEF Unused
  <2>3. Volume(entry).size <= 0
    BY <1>4, <2>2, StockOrder
  <2>4. QED
    BY <1>2, <1>3, <2>3, SMT
<1>6. QED
  BY <1>3, <1>4, <1>5

\* So formatting a partition leaves the table orderly.
LEMMA MkfsOrderly ==
  ASSUME NEW table \in [Parts -> Entry], Orderly(table), NEW part \in Parts,
         ~MkfsAborts(table[part])
  PROVE  Orderly([table EXCEPT ![part] = Volume(table[part])])
<1> DEFINE v == Volume(table[part])
           new == [table EXCEPT ![part] = v]
<1> SUFFICES Orderly(new)
  OBVIOUS
<1>1. /\ v.start >= table[part].start
      /\ AlignUp(table[part].start) = table[part].start =>
           v.start = table[part].start /\ v.size <= table[part].size
      /\ table[part] # Unused
      /\ v \in Entry
  BY VolumeShrinks, VolumeType
<1>2. \A p \in Parts : table[p].start \in Nat /\ table[p].size \in Nat
  BY StockNumbers DEF Entry
<1>3. v.start \in Nat /\ v.size \in Nat
  BY <1>1, StockNumbers DEF Entry
<1>4. XBOX_EXTEND_STARTLBA \in Nat
  BY StockOrder
<1> HIDE DEF v
<1>5. new[part] = v /\ \A p \in Parts \ {part} : new[p] = table[p]
  OBVIOUS
<1> HIDE DEF new
<1>6. \A p \in Parts \ {"F", "G"} :
       /\ AlignUp(new[p].start) = new[p].start
       /\ new[p].start + new[p].size <= XBOX_EXTEND_STARTLBA
  <2>1. TAKE p \in Parts \ {"F", "G"}
  <2>2. /\ AlignUp(table[p].start) = table[p].start
        /\ table[p].start + table[p].size <= XBOX_EXTEND_STARTLBA
    BY DEF Orderly
  <2>3. CASE p = part
    <3>1. new[p].start = table[p].start /\ new[p].size <= table[p].size
      BY <1>1, <1>5, <2>2, <2>3
    <3>2. QED
      BY <1>2, <1>3, <1>4, <1>5, <2>2, <2>3, <3>1, SMT
  <2>4. QED
    BY <1>5, <2>2, <2>3
<1>7. CASE part \notin {"F", "G"}
  BY <1>5, <1>6, <1>7 DEF Orderly, Parts
<1>8. CASE part = "F"
  <2>1. AlignUp(table["F"].start) = table["F"].start /\ table["F"].start >= XBOX_EXTEND_STARTLBA
    BY <1>1, <1>8 DEF Orderly
  <2>2. v.start = table["F"].start /\ v.size <= table["F"].size
    BY <1>1, <1>8, <2>1
  <2>3. new["G"] = table["G"] /\ new["F"] = v
    BY <1>5, <1>8 DEF Parts
  <2>4. \/ /\ table["G"].start >= XBOX_EXTEND_STARTLBA
           /\ table["F"].start + table["F"].size <= table["G"].start
        \/ table["G"] = Unused
    BY DEF Orderly
  <2>5. v.start + v.size <= table["F"].start + table["F"].size
    BY <1>2, <1>3, <2>2, SMT DEF Parts
  <2>6. \/ /\ new["G"].start >= XBOX_EXTEND_STARTLBA
           /\ new["F"].start + new["F"].size <= new["G"].start
        \/ new["G"] = Unused
    BY <1>2, <1>3, <2>3, <2>4, <2>5, SMT DEF Parts
  <2>7. AlignUp(new["F"].start) = new["F"].start /\ new["F"].start >= XBOX_EXTEND_STARTLBA
    BY <2>1, <2>2, <2>3
  <2>8. QED
    BY <1>6, <2>6, <2>7 DEF Orderly
<1>9. CASE part = "G"
  <2>1. /\ table["G"].start >= XBOX_EXTEND_STARTLBA
        /\ table["F"].start + table["F"].size <= table["G"].start
    BY <1>1, <1>9 DEF Orderly
  <2>2. new["F"] = table["F"] /\ new["G"] = v
    BY <1>5, <1>9 DEF Parts
  <2>3. /\ v.start >= XBOX_EXTEND_STARTLBA
        /\ table["F"].start + table["F"].size <= v.start
    BY <1>1, <1>2, <1>3, <1>4, <1>9, <2>1, SMT DEF Parts
  <2>4. QED
    BY <1>6, <2>2, <2>3 DEF Orderly
<1>10. QED
  BY <1>7, <1>8, <1>9

\* Where the loop is after an operation, its drive is the same or it asks again.
LEMMA OrderlyLoop ==
  ASSUME OrderlyInv, phase = "work", GiveUp \/ Continue, UNCHANGED disk
  PROVE  OrderlyInv'
<1>1. stage' = "start"
  BY BackToStart
<1>2. phase' \in {"menu", "work"} => cur' = cur
  BY LoopGoesOn
<1>3. QED
  BY <1>1, <1>2 DEF OrderlyInv, HasTable

\* So does a write that leaves the table alone.
LEMMA OrderlyWrite ==
  ASSUME DiskInv, OrderlyInv, NEW new, NEW after, phase = "work",
         stage \in {"header", "fat", "root"} \/ after \in {"mark", "mbr"},
         Harmless(new), new.size = disk[cur].size, Write(new, after)
  PROVE  OrderlyInv'
<1>1. CASE disk' = [disk EXCEPT ![cur] = new] /\ Goto(after) /\ UNCHANGED mounted
  <2>1. cur \in Drives /\ disk \in [Drives -> Content]
    BY DEF DiskInv, DiskTypeOK
  <2>2. \A d \in Drives : disk'[d].table = disk[d].table /\ disk'[d].size = disk[d].size
    BY <1>1, <2>1 DEF Harmless
  <2>3. PartEntry' = PartEntry
    BY <1>1, <2>1, <2>2 DEF PartEntry, Goto
  <2>4. QED
    BY <1>1, <2>1, <2>2, <2>3 DEF OrderlyInv, HasTable, Goto, MkfsAborts
<1>2. CASE WriteFails
  BY <1>2, OrderlyLoop DEF WriteFails
<1>3. QED
  BY <1>1, <1>2 DEF Write

\* A step that replaces the table of the current drive by an orderly one.
LEMMA OrderlyTable ==
  ASSUME DiskInv, OrderlyInv, phase = "work", Continue, NEW new, Orderly(new), SetTable(new)
  PROVE  OrderlyInv'
<1>1. cur \in Drives /\ disk \in [Drives -> Content]
  BY DEF DiskInv, DiskTypeOK
<1>2. \A d \in Drives : /\ disk'[d].size = disk[d].size
                        /\ disk'[d].table = IF d = cur THEN new ELSE disk[d].table
  BY <1>1 DEF SetTable, Content
<1>3. stage' = "start" /\ (phase' \in {"menu", "work"} => cur' = cur)
  BY BackToStart, LoopGoesOn
<1>4. QED
  BY <1>1, <1>2, <1>3 DEF OrderlyInv, HasTable

\* OrderlyInv is inductive relative to DiskInv.
LEMMA OrderlyStep ==
  ASSUME DiskInv, OrderlyInv, [DiskNext]_diskVars
  PROVE  OrderlyInv'
<1>a. Control /\ cur \in Drives /\ disk \in [Drives -> Content]
  BY DEF DiskInv, DiskTypeOK, Control
<1>1. CASE PowerCycle \/ FatFS_init \/ PassOver \/ LeaveMenu
  <2>1. disk' = disk /\ phase' \notin {"menu", "work"}
    BY <1>1 DEF PowerCycle, FatFS_init, PassOver, LeaveMenu, NextDrive
  <2>2. QED
    BY <2>1 DEF OrderlyInv, HasTable
<1>2. CASE ConfirmFormat
  BY <1>2 DEF ConfirmFormat, NewDrive, Do, OrderlyInv, HasTable
<1>3. CASE \E layout \in Layouts : ChooseLayout(layout)
  BY <1>3 DEF ChooseLayout, Do, OrderlyInv, HasTable
<1>4. CASE FdiskRefused \/ MkfsRefused
  BY <1>4, OrderlyLoop DEF FdiskRefused, MkfsRefused, At
<1>5. CASE FdiskStart
  BY <1>5 DEF FdiskStart, At, Goto, OrderlyInv, HasTable
<1>6. CASE FdiskWipe \/ FdiskMark
  <2>1. ASSUME NEW b \in BOOLEAN
        PROVE  /\ Harmless([disk[cur] EXCEPT !.brfr = b])
               /\ [disk[cur] EXCEPT !.brfr = b].size = disk[cur].size
    BY <1>a DEF Harmless, Content
  <2>2. QED
    BY Zenon, <1>6, <2>1, OrderlyWrite DEF FdiskWipe, FdiskMark, At
<1>7. CASE MkfsHeader \/ MkfsFatCleared \/ MkfsRootCleared
  <2>1. phase = "work" /\ stage \in {"header", "fat", "root"} /\ HasTable(cur)
          /\ Head(ops).part \in Parts
    BY <1>7, <1>a, OpFields DEF MkfsHeader, MkfsFatCleared, MkfsRootCleared, At, DiskInv, HeaderFirst
  <2>2. disk[cur] \in Content /\ PartEntry \in Entry
    BY <1>a, <2>1 DEF PartEntry, Content, HasTable
  <2>3. Vol.start \in Nat /\ MkfsFatExtent(Vol) \in Sectors /\ MkfsRootExtent(Vol) \in Sectors
    BY <2>2, VolumeType DEF Vol
  <2>4. ASSUME NEW h \in Nat
        PROVE  /\ Harmless([disk[cur] EXCEPT !.hdr = @ \cup {h}])
               /\ [disk[cur] EXCEPT !.hdr = @ \cup {h}].size = disk[cur].size
    BY <2>2 DEF Harmless, Content
  <2>5. ASSUME NEW z \in Sectors
        PROVE  /\ Harmless([disk[cur] EXCEPT !.zero = @ \cup {z}])
               /\ [disk[cur] EXCEPT !.zero = @ \cup {z}].size = disk[cur].size
    BY <2>2 DEF Harmless, Content
  <2>6. CASE MkfsHeader
    BY Zenon, <2>1, <2>3, <2>4, <2>6, OrderlyWrite DEF MkfsHeader
  <2>7. CASE MkfsFatCleared \/ MkfsRootCleared
    BY Zenon, <2>1, <2>3, <2>5, <2>7, OrderlyWrite DEF MkfsFatCleared, MkfsRootCleared
  <2>8. QED
    BY <1>7, <2>6, <2>7
<1>8. CASE FdiskTable
  <2>1. phase = "work" /\ HasTable(cur)
    BY <1>8 DEF FdiskTable, At, DiskInv, HeaderFirst
  <2>2. CASE WriteFails
    BY <2>1, <2>2, OrderlyLoop DEF WriteFails
  <2>3. CASE NewTable(Head(ops).layout, disk[cur].table, disk[cur].size) /\ Continue
    <3> DEFINE table == disk[cur].table
               size == disk[cur].size
    <3>1. /\ table \in [Parts -> Entry] /\ Orderly(table)
          /\ size \in Nat /\ size >= XBOX_EXTEND_STARTLBA
      BY <1>a, <2>1 DEF OrderlyInv, HasTable, Content
    <3>2. PICK new : SetTable(new) /\ Orderly(new)
      <4> HIDE DEF table, size
      <4>1. /\ Orderly(FOnly(table, size)) /\ Orderly(FGSplit(table, size))
            /\ Orderly(FThenG(table, size, LBA28_BOUNDARY))
            /\ Orderly(FThenG(table, size, XBOX_EXTEND_STARTLBA + LBASIZE_1024GB))
        BY <3>1, LayoutsOrderly
      <4>2. QED
        BY <2>3, <4>1, BackupOrderly, Zenon DEF NewTable, table, size
    <3>3. QED
      BY <2>1, <2>3, <3>2, OrderlyTable
  <2>4. QED
    BY <1>8, <2>2, <2>3 DEF FdiskTable
<1>9. CASE MkfsStart
  <2>1. phase = "work" /\ UNCHANGED disk
    BY <1>9 DEF MkfsStart, At
  <2>2. CASE GiveUp
    BY <2>1, <2>2, OrderlyLoop
  <2>3. CASE ~MkfsAborts(PartEntry) /\ Goto("header")
    BY Zenon, <2>1, <2>3 DEF OrderlyInv, HasTable, Goto, PartEntry, MkfsAborts
  <2>4. QED
    BY <1>9, <2>2, <2>3 DEF MkfsStart
<1>10. CASE MkfsFlag
  <2>1. phase = "work" /\ HasTable(cur) /\ Head(ops).part \in Parts /\ ~MkfsAborts(PartEntry)
    BY <1>10, <1>a, OpFields DEF MkfsFlag, At, DiskInv, HeaderFirst, OrderlyInv
  <2>2. CASE WriteFails
    BY <2>1, <2>2, OrderlyLoop DEF WriteFails
  <2>3. CASE disk' = [disk EXCEPT ![cur].table[Head(ops).part] = Vol] /\ Continue
    <3>1. disk[cur].table \in [Parts -> Entry] /\ Orderly(disk[cur].table)
      BY <1>a, <2>1 DEF OrderlyInv, HasTable, Content
    <3>2. Orderly([disk[cur].table EXCEPT ![Head(ops).part] = Vol])
      BY <2>1, <3>1, MkfsOrderly DEF Vol, PartEntry
    <3>3. SetTable([disk[cur].table EXCEPT ![Head(ops).part] = Vol])
      BY <2>3 DEF SetTable
    <3>4. QED
      BY Zenon, <2>1, <2>3, <3>2, <3>3, OrderlyTable
  <2>4. QED
    BY <1>10, <2>2, <2>3 DEF MkfsFlag
<1>11. CASE UNCHANGED diskVars
  <2>1. UNCHANGED <<disk, phase, cur, ops, stage>>
    BY <1>11 DEF diskVars
  <2>2. QED
    BY Zenon, <2>1 DEF OrderlyInv, HasTable, PartEntry
<1>12. QED
  BY <1>1, <1>2, <1>3, <1>4, <1>5, <1>6, <1>7, <1>8, <1>9, <1>10, <1>11 DEF DiskNext

\* An entry in use of an orderly table that ends where another starts, or before.
LEMMA OrderlyPair ==
  ASSUME NEW t \in [Parts -> Entry], Orderly(t),
         NEW p \in {"F", "G"}, NEW q \in Parts, p # q, t[p].use, t[q].use
  PROVE  \/ t[q].start + t[q].size <= t[p].start
         \/ t[p].start + t[p].size <= t[q].start
<1>1. \A r \in Parts : t[r].start \in Nat /\ t[r].size \in Nat
  BY StockNumbers DEF Entry
<1>2. XBOX_EXTEND_STARTLBA \in Nat /\ "F" \in Parts /\ "G" \in Parts
  BY StockOrder DEF Parts
<1>3. Unused.use = FALSE
  BY DEF Unused
<1>4. t["G"].use => t["F"].start + t["F"].size <= t["G"].start
  BY Zenon, <1>3 DEF Orderly
<1>5. CASE q \notin {"F", "G"}
  <2>1. t[q].start + t[q].size <= XBOX_EXTEND_STARTLBA /\ t[p].start >= XBOX_EXTEND_STARTLBA
    BY Zenon, <1>3, <1>5 DEF Orderly
  <2>2. p \in Parts
    BY Zenon, <1>2
  <2>3. QED
    BY <1>1, <1>2, <2>1, <2>2, SMT
<1>6. CASE p = "F" /\ q = "G"
  BY Zenon, <1>4, <1>6
<1>7. CASE p = "G" /\ q = "F"
  BY Zenon, <1>4, <1>7
<1>8. QED
  BY <1>5, <1>6, <1>7

\* In an orderly table nothing in use overlaps F or G.
LEMMA OrderlyIsApart ==
  ASSUME DiskTypeOK, \A d \in Drives : HasTable(d) => Orderly(disk[d].table)
  PROVE  ExtendedApart
<1> SUFFICES ASSUME NEW d \in Drives, HasTable(d), NEW p \in {"F", "G"}, NEW q \in Parts, p # q,
                    disk[d].table[p].use, disk[d].table[q].use
             PROVE  ~Overlap(disk[d].table[p], disk[d].table[q])
  BY Zenon DEF ExtendedApart
<1>1. disk[d].table \in [Parts -> Entry] /\ Orderly(disk[d].table)
  BY DEF DiskTypeOK, Content, HasTable
<1> DEFINE P == disk[d].table[p]
           Q == disk[d].table[q]
<1>2. Q.start + Q.size <= P.start \/ P.start + P.size <= Q.start
  BY Zenon, <1>1, OrderlyPair
<1>3. p \in Parts
  BY DEF Parts
<1>4. P \in Entry /\ Q \in Entry
  BY Zenon, <1>1, <1>3
<1>5. P.start \in Nat /\ P.size \in Nat /\ Q.start \in Nat /\ Q.size \in Nat
  BY <1>4, StockNumbers DEF Entry
<1> HIDE DEF P, Q
<1>6. ~Overlap(P, Q)
  BY <1>2, <1>5, SMT DEF Overlap
<1>7. QED
  BY <1>6 DEF P, Q

\* F and G overlap neither each other nor a stock partition, for every disk
\* size, layout, failure and power cut.
THEOREM ExtendedKeepClear == DiskSpec => []ExtendedApart
<1>1. DiskInit => DiskInv /\ OrderlyInv
  <2>1. ASSUME DiskInit PROVE OrderlyInv
    <3>1. PICK plugged \in [Drives -> NewDrives] : disk = [d \in Drives |-> Contents(plugged[d])]
      BY <2>1 DEF DiskInit
    <3>2. \A d \in NewDrives : Contents(d).table # NoTable => Orderly(Contents(d).table)
      BY DiskAssumption DEF Contents
    <3>3. QED
      BY <2>1, <3>1, <3>2 DEF DiskInit, OrderlyInv, HasTable
  <2>2. QED
    BY <2>1, DiskInvInit
<1>2. DiskInv /\ OrderlyInv /\ [DiskNext]_diskVars => DiskInv' /\ OrderlyInv'
  BY Zenon, DiskInvStep, OrderlyStep
<1>3. DiskInv /\ OrderlyInv => ExtendedApart
  BY Zenon, OrderlyIsApart DEF DiskInv, OrderlyInv
<1>4. QED
  BY <1>1, <1>2, <1>3, PTL DEF DiskSpec

-----------------------------------------------------------------------------
(****************************************************************************)
(* The flash menus. A loop of FlashUi.c always knows whose job it drives    *)
(* (LoopOwnsJob), a save that is over and says success has stored the       *)
(* settings or was waived (SuccessMeansStored), and a restart is pending    *)
(* exactly while the bank of the OS is being written (RestartPending).      *)

\* The job the engine has under way is the one the loop was entered for.
LoopOwnsJob ==
  /\ ui = "block" => IF op = "Idle" THEN task = "NoTask" ELSE task = "WriteBios"
  /\ ui = "save" => \/ op \in {"Idle", "Error"} /\ task = "NoTask"
                    \/ op # "Idle" /\ task = "WriteSettings"

\* resultSuccess is TRUE all through a save; it counts once the job is freed.
SuccessMeansStored ==
  ui = "save" /\ op = "Idle" /\ resultSuccess => settings = "stored" \/ why = "waived"

\* Nothing is waived before a failed save is over, and the menus know nothing of it.
WaivedAtTheEnd ==
  /\ ui \in {"menu", "block"} => why = "none"
  /\ ui = "save" => why = "none" \/ (why = "waived" /\ op = "Idle" /\ resultSuccess)

\* On an XBlast chip a restart waits only for the end of a flash of the OS bank; on
\* any other console the OS bank is the only one.
RestartPending ==
  /\ console.onLPC /\ mustRestart /\ ui # "down" =>
       ui = "block" /\ op # "Idle" /\ bank = "OSBank"
  /\ ~console.onLPC => bank = "OSBank"
  /\ ui = "block" /\ op \in {"PendingOp", "Working", "Completed"} =>
       (mustRestart <=> bank = "OSBank")

UiInv ==
  /\ TypeOK /\ MenuIsQuiet /\ ExitCommits
  /\ LoopOwnsJob /\ SuccessMeansStored /\ WaivedAtTheEnd /\ RestartPending

\* The names of UiAssumption in the form the proofs use.
LEMMA EngineNames ==
  /\ \A c \in Consoles : c.onLPC \in BOOLEAN /\ c.noSave \in BOOLEAN
  /\ "OSBank" \notin UserBanks
  /\ \A e \in Checks \cup WriteResults \cup SaveErrors : e \in EngineErrors
  /\ {"NoError", "UserAbort", "FailedErase", "FailedVerify"} \subseteq EngineErrors
BY UiAssumption DEF BreakErrors

\* The console starts in the menus with an idle engine.
LEMMA UiInitially == Init => UiInv
BY Zenon, EngineNames DEF Init, EngineInit, UiInv, TypeOK, MenuIsQuiet, ExitCommits, LoopOwnsJob,
   SuccessMeansStored, WaivedAtTheEnd, RestartPending

\* What setBiosJob leaves behind, whatever the user and the engine answer.
LEMMA JobSet ==
  ASSUME UiInv, ui = "menu", setBiosJob
  PROVE  /\ bank' = bank /\ mustRestart' \in BOOLEAN /\ err' \in EngineErrors
         /\ \/ op' = "Idle" /\ task' = "NoTask"
               /\ (console.onLPC => mustRestart' = FALSE)
            \/ op' = "Error" /\ task' = "WriteBios" /\ mustRestart' = mustRestart
            \/ op' = "PendingOp" /\ task' = "WriteBios" /\ (mustRestart' <=> bank = "OSBank")
<1>1. /\ op = "Idle" /\ task = "NoTask" /\ mustRestart \in BOOLEAN
      /\ (console.onLPC => mustRestart = FALSE) /\ (~console.onLPC => bank = "OSBank")
      /\ console.onLPC \in BOOLEAN
  BY EngineNames DEF UiInv, TypeOK, MenuIsQuiet, RestartPending
<1>2. CASE Declined
  BY <1>1, <1>2, EngineNames DEF Declined, UserAbort
<1>3. ASSUME NEW check \in Checks, NEW result \in WriteResults, FlashOS(check, result)
      PROVE  /\ bank' = bank /\ mustRestart' \in BOOLEAN /\ err' \in EngineErrors
             /\ \/ op' = "Idle" /\ task' = "NoTask" /\ mustRestart' = FALSE
                \/ op' = "Error" /\ task' = "WriteBios" /\ mustRestart' = mustRestart
                \/ op' = "PendingOp" /\ task' = "WriteBios" /\ mustRestart' /\ bank = "OSBank"
  BY Zenon, <1>1, <1>3, EngineNames DEF FlashOS, WriteBios, Declined, UserAbort, StartJob, Refuse
<1>4. ASSUME NEW result \in WriteResults, FlashUserBank(result)
      PROVE  /\ bank' = bank /\ mustRestart' = FALSE /\ err' \in EngineErrors
             /\ \/ op' = "Idle" /\ task' = "NoTask"
                \/ op' = "PendingOp" /\ task' = "WriteBios" /\ bank # "OSBank"
  BY <1>1, <1>4, EngineNames DEF FlashUserBank, WriteBios, StartJob, Refuse
<1>5. ASSUME NEW result \in WriteResults, FlashActiveBank(result)
      PROVE  /\ bank' = bank /\ mustRestart' = TRUE /\ err' \in EngineErrors /\ ~console.onLPC
             /\ \/ op' = "Idle" /\ task' = "NoTask"
                \/ op' = "PendingOp" /\ task' = "WriteBios" /\ bank = "OSBank"
  BY <1>1, <1>5, EngineNames DEF FlashActiveBank, WriteBios, StartJob, Refuse
<1> QED BY Zenon, <1>1, <1>2, <1>3, <1>4, <1>5 DEF setBiosJob

\* Every step keeps the loops, the saves and the pending restart in order.
LEMMA UiStep == UiInv /\ [Next]_flashUiVars => UiInv'
<1> SUFFICES ASSUME UiInv, [Next]_flashUiVars
             PROVE  UiInv'
  OBVIOUS
<1> USE DEF UiInv, TypeOK, MenuIsQuiet, ExitCommits, LoopOwnsJob, SuccessMeansStored,
            WaivedAtTheEnd, RestartPending, engine, uiVars
<1>c. console.onLPC \in BOOLEAN /\ console.noSave \in BOOLEAN
  BY EngineNames
<1>1. CASE UNCHANGED flashUiVars
  BY <1>1 DEF flashUiVars
<1>2. CASE blockOver /\ UNCHANGED console
  BY <1>c, <1>2 DEF blockOver, OSBankAgain
<1>3. CASE blockReports /\ UNCHANGED console
  BY <1>c, <1>3, EngineNames DEF blockReports, OSBankAgain, FlashPrintResult, WentDown, FreeJob, Reset
<1>4. CASE blockWorks /\ UNCHANGED console
  BY <1>4, EngineNames DEF blockWorks, EngineWorks, Run, Finish, Break, BreakErrors
<1>5. CASE saveOver /\ UNCHANGED console
  BY Zenon, <1>5 DEF saveOver, Leave
<1>6. CASE saveCompleted /\ UNCHANGED console
  BY <1>c, <1>6, EngineNames DEF saveCompleted, OSBankAgain, FreeJob, Reset
<1>7. CASE saveFailed /\ UNCHANGED console
  BY <1>c, <1>7, EngineNames DEF saveFailed, OSBankAgain, FlashPrintResult, WentDown, FreeJob, Reset
<1>8. CASE saveWorks /\ UNCHANGED console
  BY <1>8, EngineNames DEF saveWorks, EngineWorks, Run, Finish, Break, BreakErrors
<1>9. CASE saveSpins /\ UNCHANGED console
  BY <1>9 DEF saveSpins
<1>10. CASE FlashFileFromBuffer /\ UNCHANGED console
  <2>1. /\ op = "Idle" /\ ui = "menu" /\ setBiosJob /\ ui' = "block" /\ shown' = "nothing"
        /\ UNCHANGED <<console, resultSuccess, settings, eepromChanged, why>>
    BY Zenon, <1>10 DEF FlashFileFromBuffer
  <2>2. /\ bank' = bank /\ mustRestart' \in BOOLEAN /\ err' \in EngineErrors
        /\ \/ op' = "Idle" /\ task' = "NoTask"
              /\ (console.onLPC => mustRestart' = FALSE)
           \/ op' = "Error" /\ task' = "WriteBios" /\ mustRestart' = mustRestart
           \/ op' = "PendingOp" /\ task' = "WriteBios" /\ (mustRestart' <=> bank = "OSBank")
    BY Zenon, <2>1, JobSet
  <2>3. why = "none" /\ (console.onLPC => mustRestart = FALSE) /\ mustRestart \in BOOLEAN
    BY Zenon, <2>1
  <2> QED BY <1>c, <2>1, <2>2, <2>3 DEF EngineTasks, WritingTasks
<1>11. CASE SaveXBlastOSSettings /\ UNCHANGED console
  BY Zenon, <1>c, <1>11, EngineNames DEF SaveXBlastOSSettings, OSBankAgain, StartJob, FailAtOnce, EngineTasks, WritingTasks
<1>12. CASE NothingToSave /\ UNCHANGED console
  BY Zenon, <1>c, <1>12 DEF NothingToSave, Leave, WentDown
<1>13. CASE (\E b \in UserBanks \cup {"OSBank"} : BankSelected(b)) /\ UNCHANGED console
  BY <1>c, <1>13 DEF BankSelected
<1>14. CASE (SettingChanged \/ EepromEdited) /\ UNCHANGED console
  <2>1. CASE SettingChanged
    BY <1>14, <2>1 DEF SettingChanged
  <2>2. CASE EepromEdited
    BY <1>14, <2>2 DEF EepromEdited
  <2> QED BY Zenon, <1>14, <2>1, <2>2
<1>15. CASE BootShowFlashDevice /\ UNCHANGED console
  BY <1>c, <1>15, EngineNames DEF BootShowFlashDevice, Reset, OSBankAgain
<1>16. CASE (LeaveNoSave \/ PowerButton) /\ UNCHANGED console
  BY <1>16 DEF LeaveNoSave, PowerButton, WentDown
<1>17. CASE PowerOn /\ UNCHANGED console
  BY Zenon, <1>17, EngineNames DEF PowerOn, Reset
<1> QED BY Zenon, <1>1, <1>2, <1>3, <1>4, <1>5, <1>6, <1>7, <1>8, <1>9, <1>10, <1>11, <1>12, <1>13,
           <1>14, <1>15, <1>16, <1>17 DEF Next, BlockLoop, SaveLoop

\* UiInv holds in every state.
LEMMA UiInvariant == Spec => []UiInv
<1>1. Init => UiInv
  BY UiInitially
<1>2. UiInv /\ [Next]_flashUiVars => UiInv'
  BY UiStep
<1> QED BY <1>1, <1>2, PTL DEF Spec

-----------------------------------------------------------------------------
(* Theorems.                                                                *)

\* The globals of FlashUi.c and the fields of FlashProgress keep their types: only
\* codes of FlashErrorcodes reach FlashPrintResult.
THEOREM UiTypeCorrect == Spec => []TypeOK
BY UiInvariant, PTL DEF UiInv

\* blockExecuteFlashJob and SaveXBlastOSSettings come back to the menus with the job
\* freed, on every console and after every refusal, error or abort.
THEOREM MenusFindEngineIdle == Spec => []MenuIsQuiet
BY UiInvariant, PTL DEF UiInv

\* Whatever the order of flashes, saves, failures and edits, a way out of the OS that
\* saves leaves with the settings stored, or waived by the user, and the EEPROM written.
THEOREM ExitsCommit == Spec => []ExitCommits
BY UiInvariant, PTL DEF UiInv

\* After a flash that succeeded, mustRestart holds exactly when the bank of the OS
\* was written: FlashPrintResult restarts then and only then.
THEOREM RestartFollowsOSFlash == Spec => RestartsExactlyAfterOS
<1>1. ASSUME UiInv, Next, ui = "block", op = "Completed", op' = "Idle"
      PROVE  ui' = "down" <=> bank = "OSBank"
  <2>1. mustRestart <=> bank = "OSBank"
    BY <1>1 DEF UiInv, RestartPending
  <2>2. CASE blockReports
    BY <1>1, <2>1, <2>2 DEF blockReports, FlashPrintResult, WentDown
  <2>3. blockReports
    BY Zenon, <1>1 DEF Next, BlockLoop, SaveLoop, blockOver, blockWorks, EngineWorks, Run, Finish, Break,
       saveOver, saveCompleted, saveFailed, saveWorks, saveSpins, FlashFileFromBuffer,
       SaveXBlastOSSettings, NothingToSave, BankSelected, SettingChanged, BootShowFlashDevice,
       EepromEdited, LeaveNoSave, PowerButton, PowerOn, engine
  <2> QED BY <2>2, <2>3
<1>2. UiInv /\ [Next]_flashUiVars =>
        [ui = "block" /\ op = "Completed" /\ op' = "Idle" => (ui' = "down" <=> bank = "OSBank")]_flashUiVars
  BY <1>1
<1> QED BY <1>2, UiInvariant, PTL DEF Spec, RestartsExactlyAfterOS

-----------------------------------------------------------------------------
(****************************************************************************)
(* The heap: sizes and marks.                                               *)

\* What the quotient of a division says about the number.
LEMMA QuotientBounds ==
  ASSUME NEW x \in Nat, NEW g \in Nat, g > 0
  PROVE  x \div g \in Nat /\ g * (x \div g) <= x /\ x < g * (x \div g) + g
BY SMT

\* The number of cells of a block of several cells.
LEMMA QuotientRange ==
  ASSUME NEW x \in Nat, NEW g \in Nat, g > 0, NEW m \in Nat, x > 4 * g, x <= m * g
  PROVE  x \div g \in 4..m
<1> DEFINE q == x \div g
<1>1. q \in Nat /\ g * q <= x /\ x < g * q + g
  BY QuotientBounds
<1> HIDE DEF q
<1>2. g * q \in Nat /\ g * m \in Nat /\ m * g = g * m
  BY <1>1
<1>3. q >= 4
  <2>1. CASE q <= 3
    <3>1. g * q <= g * 3
      BY <2>1, <1>1
    <3>2. QED
      BY <3>1, <1>1, <1>2
  <2>2. QED
    BY <2>1, <1>1
<1>4. q <= m
  <2>1. CASE q >= m + 1
    <3>1. g * q >= g * (m + 1)
      BY <2>1, <1>1
    <3>2. g * (m + 1) = g * m + g
      OBVIOUS
    <3>3. QED
      BY <3>1, <3>2, <1>1, <1>2
  <2>2. QED
    BY <2>1, <1>1
<1>5. QED
  BY <1>1, <1>3, <1>4 DEF q

\* A block has one cell, four, or five and more, and room for its size.
LEMMA BlockLength ==
  ASSUME NEW size \in Sizes, CellsFor(Rounded(size)) # 0
  PROVE  LET n == CellsFor(Rounded(size))
         IN  n \in 1..MaxBig + 1 /\ (n = 1 \/ n >= 4) /\ n * CellUnits >= Rounded(size)
<1> DEFINE x == Rounded(size)
           n == CellsFor(x)
<1>1. /\ x \in Nat /\ CellUnits \in Nat /\ CellUnits > 0 /\ MaxBig \in Nat /\ MaxBig >= 5
  BY HeapAssumption DEF Rounded
<1>2. n # 0
  OBVIOUS
<1> SUFFICES n \in 1..MaxBig + 1 /\ (n = 1 \/ n >= 4) /\ n * CellUnits >= x
  OBVIOUS
<1> HIDE DEF x
<1>3. CASE x <= 4 * CellUnits
  BY <1>1, <1>3 DEF CellsFor
<1>4. CASE x > 4 * CellUnits
  <2>1. x > CellUnits
    BY <1>1, <1>4
  <2>2. x <= MaxBig * CellUnits /\ n = (x \div CellUnits) + 1
    BY <1>1, <1>2, <1>4, <2>1 DEF CellsFor
  <2>3. x \div CellUnits \in 4..MaxBig
    BY <1>1, <1>4, <2>2, QuotientRange
  <2>4. CellUnits * (x \div CellUnits) + CellUnits > x
    BY <1>1, QuotientBounds
  <2> HIDE DEF n
  <2>5. n * CellUnits = CellUnits * (x \div CellUnits) + CellUnits
    BY <2>2, <2>3, <1>1
  <2>6. QED
    BY <1>1, <2>2, <2>3, <2>4, <2>5
<1>5. QED
  BY <1>1, <1>3, <1>4

\* The marks of a block are marks, and not that of a free cell.
LEMMA MarkTypes ==
  ASSUME NEW n \in Nat, n = 1 \/ n >= 4, NEW i \in 0..n - 1
  PROVE  Mark(n, i) \in Marks /\ Mark(n, i) # Free
BY DEF Mark, Marks, Free

\* A block lies in the table and is large enough for what was asked.
LEMMA BlockFacts ==
  ASSUME NEW b \in BlockTypes
  PROVE  /\ b.start \in 1..Cells - 1 /\ b.n \in 1..MaxBig + 1 /\ (b.n = 1 \/ b.n >= 4)
         /\ b.n * CellUnits >= Rounded(b.size)
         /\ \A k \in Extent(b) : k \in Table /\ k - b.start \in 0..b.n - 1
<1>1. b.start \in 1..Cells - 1 /\ b.n \in 1..MaxBig + 1 /\ b.size \in Sizes /\ b.n = CellsFor(Rounded(b.size))
  BY DEF BlockTypes
<1>2. (b.n = 1 \/ b.n >= 4) /\ b.n * CellUnits >= Rounded(b.size)
  BY <1>1, BlockLength
<1>3. \A k \in Extent(b) : k \in Table /\ k - b.start \in 0..b.n - 1
  BY <1>1, HeapAssumption DEF Extent, Table
<1>4. QED
  BY <1>1, <1>2, <1>3

(****************************************************************************)
(* The inductive invariant: every block a caller holds carries its marks.   *)

Marked == \A b \in live : \A k \in Extent(b) : mem[k] = Mark(b.n, k - b.start)

Apart == \A b, d \in live : b # d => \A k \in Extent(b) : k \notin Extent(d)

HeapInv == HeapTypeOK /\ Marked /\ Apart /\ NothingElseTaken

\* Blocks share no cell, and each has the cells its size needs.
LEMMA HeapInvApart == HeapInv => BlocksApart
<1> SUFFICES ASSUME HeapInv PROVE BlocksApart
  OBVIOUS
<1>1. \A b \in live : b.n * CellUnits >= Rounded(b.size)
  BY BlockFacts DEF HeapInv, HeapTypeOK
<1>2. \A b, d \in live : b # d => Extent(b) \cap Extent(d) = {}
  BY DEF HeapInv, Apart
<1>3. QED
  BY <1>1, <1>2 DEF BlocksApart

\* The marks tell t_free the extent of a block: it clears no cell outside,
\* and every cell of the table inside, unless the block has five cells.
LEMMA ClearsTheBlock ==
  ASSUME HeapInv, NEW b \in live
  PROVE  /\ Cleared(b.start) \subseteq Extent(b)
         /\ b.n # 5 => \A k \in Extent(b) : k < Cells => k \in Cleared(b.start)
<1> DEFINE c == b.start
           n == b.n
<1>1. /\ c \in 1..Cells - 1 /\ n \in 1..MaxBig + 1 /\ (n = 1 \/ n >= 4)
      /\ Extent(b) = c..c + n - 1
      /\ \A k \in Extent(b) : k \in Table /\ mem[k] = Mark(n, k - c)
  BY BlockFacts DEF HeapInv, HeapTypeOK, Marked, Extent
<1>2. Cells \in Nat /\ MaxBig \in Nat
  BY HeapAssumption
<1> HIDE DEF c, n
<1>3. \A i \in 0..n - 1 : c + i \in Extent(b) /\ mem[c + i] = Mark(n, i)
  BY <1>1, <1>2
<1>4. mem[c] = Mark(n, 0)
  BY <1>1, <1>3
<1> SUFFICES /\ Cleared(c) \subseteq Extent(b)
             /\ n # 5 => \A k \in Extent(b) : k < Cells => k \in Cleared(c)
  BY DEF c, n
<1>5. CASE n = 1
  BY <1>1, <1>4, <1>5 DEF Cleared, Mark
<1>6. CASE n >= 4
  <2>1. /\ mem[c + 1] = Mark(n, 1) /\ mem[c + 2] = Mark(n, 2) /\ mem[c + 3] = Mark(n, 3)
    BY <1>1, <1>3, <1>6
  <2>2. CASE n = 4
    <3>1. MarksAt(c) = <<"FE", "DC", "BA", "B8">> /\ mem[c] # "AA"
      BY <1>4, <2>1, <2>2 DEF MarksAt, Mark
    <3>2. QED
      BY <1>1, <2>2, <3>1 DEF Cleared
  <2>3. CASE n = 5
    <3>1. MarksAt(c) = <<"BB", "CC", "FF", "CC">> /\ mem[c] # "AA"
      BY <1>4, <2>1, <2>3 DEF MarksAt, Mark
    <3>2. MarksAt(c) # <<"FE", "DC", "BA", "B8">> /\ MarksAt(c) # <<"BB", "CC", "FF", "FF">>
      BY <3>1
    <3>3. QED
      BY <2>3, <3>1, <3>2 DEF Cleared
  <2>4. CASE n >= 6
    <3>1. MarksAt(c) = <<"BB", "CC", "FF", "FF">> /\ mem[c] # "AA"
      BY <1>1, <1>4, <2>1, <2>4 DEF MarksAt, Mark
    <3>2. Cleared(c) = {k \in Table : k >= c /\ (k < Cells \/ k - 1 \in Ends(c)) /\ \A e \in Ends(c) : k <= e + 1}
      BY <3>1 DEF Cleared
    <3> DEFINE last == c + n - 2
    <3>3. ASSUME NEW k \in c..c + n - 2, mem[k] = "CC", mem[k + 1] = "BB" PROVE k = last
      <4>1. mem[k] = Mark(n, k - c) /\ mem[k + 1] = Mark(n, k - c + 1)
        <5>1. k - c \in 0..n - 1 /\ k - c + 1 \in 0..n - 1 /\ c + (k - c) = k /\ c + (k - c + 1) = k + 1
          BY <1>1
        <5>2. QED
          BY <5>1, <1>3
      <4>2. k - c \in Int /\ n \in Int
        BY <1>1
      <4>3. k - c = 1 \/ k - c = n - 2
        BY <3>3, <4>1, <4>2, <2>4 DEF Mark
      <4>4. k - c # 1
        BY <3>3, <4>1, <4>2, <2>4 DEF Mark
      <4>5. QED
        BY <4>3, <4>4, <1>1
    <3>4. mem[last] = "CC" /\ mem[last + 1] = "BB"
      <4>1. mem[c + (n - 2)] = Mark(n, n - 2) /\ mem[c + (n - 1)] = Mark(n, n - 1)
        BY <1>1, <1>3, <2>4
      <4>2. Mark(n, n - 2) = "CC" /\ Mark(n, n - 1) = "BB"
        BY <1>1, <2>4 DEF Mark
      <4>3. last = c + (n - 2) /\ last + 1 = c + (n - 1)
        BY <1>1
      <4>4. QED
        BY <4>1, <4>2, <4>3
    <3>5. last \in Int /\ last >= c + 4 /\ Extent(b) = c..last + 1 /\ c \in Int
      BY <1>1, <2>4
    <3>6. CASE last < Cells
      <4>1. last \in Ends(c)
        BY <3>4, <3>5, <3>6, <1>1, <1>2 DEF Ends
      <4>2. \A e \in Ends(c) : e >= last
        BY <3>3, <3>5, <1>1, <1>2 DEF Ends
      <4>3. \A k \in Cleared(c) : k \in Int /\ k >= c /\ k <= last + 1
        BY <3>2, <4>1 DEF Table
      <4>4. \A k \in Extent(b) : k \in Table /\ k >= c /\ k <= last + 1
        BY <3>5, <1>1
      <4>5. \A k \in Extent(b), e \in Ends(c) : k <= e + 1
        <5>1. \A e \in Ends(c) : e \in Int
          BY <1>1, <1>2 DEF Ends
        <5>2. \A k \in Extent(b) : k \in Int
          BY <3>5
        <5> HIDE DEF last
        <5>3. QED
          BY <5>1, <5>2, <3>5, <4>2, <4>4
      <4>6. \A k \in Extent(b) : k < Cells => k \in Cleared(c)
        BY <3>2, <4>4, <4>5
      <4>7. QED
        BY <3>5, <4>3, <4>6
    <3>7. CASE last >= Cells
      <4>1. Ends(c) = {}
        BY <3>3, <3>5, <3>7, <1>1, <1>2 DEF Ends
      <4>2. \A k \in Cleared(c) : k \in Int /\ k >= c /\ k < Cells
        BY <3>2, <4>1 DEF Table
      <4>3. \A k \in Extent(b) : k \in Table /\ k >= c
        BY <3>5, <1>1
      <4>4. \A k \in Extent(b) : k < Cells => k \in Cleared(c)
        BY <3>2, <4>1, <4>3
      <4> HIDE DEF last
      <4>5. \A k \in Cleared(c) : k \in c..last + 1
        BY <3>5, <3>7, <4>2, <1>2
      <4>6. QED
        BY <3>5, <4>4, <4>5
    <3>8. QED
      BY <3>5, <3>6, <3>7, <1>2
  <2>5. QED
    BY <1>1, <1>6, <2>2, <2>3, <2>4
<1>7. QED
  BY <1>1, <1>5, <1>6

(****************************************************************************)
(* Every operation keeps the invariant.                                     *)

\* The table starts with nothing but its own cell taken.
LEMMA HeapInvInit == MemoryManagementInitialization => HeapInv
<1> SUFFICES ASSUME MemoryManagementInitialization PROVE HeapInv
  OBVIOUS
<1>1. /\ mem = [k \in Table |-> IF k = 0 THEN "FF" ELSE Free]
      /\ live = {} /\ stuck = {} /\ interrupts = TRUE
  BY DEF MemoryManagementInitialization
<1>2. HeapTypeOK
  BY <1>1 DEF HeapTypeOK, Marks, Free
<1>3. NothingElseTaken
  <2>1. \A k \in 1..Cells - 1 : k \in Table /\ k # 0
    BY HeapAssumption DEF Table
  <2>2. QED
    BY <1>1, <2>1 DEF NothingElseTaken
<1>4. QED
  BY <1>1, <1>2, <1>3 DEF HeapInv, Marked, Apart

\* t_malloc keeps HeapInv.
LEMMA AllocateStep ==
  ASSUME HeapInv, NEW size \in Sizes, NEW n, n = CellsFor(Rounded(size)), n # 0,
         NEW c, t_malloc(size, n, c), UNCHANGED stuck, interrupts' \in BOOLEAN
  PROVE  HeapInv'
<1> DEFINE new == [start |-> c, n |-> n, size |-> size]
<1>1. n \in 1..MaxBig + 1 /\ (n = 1 \/ n >= 4) /\ c \in 1..Cells - 1 /\ Fits(c, n)
  BY BlockLength DEF t_malloc, Starts
<1>2. new \in BlockTypes /\ Extent(new) = c..c + n - 1
  BY <1>1 DEF BlockTypes, Extent
<1>3. live' = live \cup {new}
      /\ mem' = [k \in Table |-> IF k \in Extent(new) THEN Mark(n, k - c) ELSE mem[k]]
  BY <1>2 DEF t_malloc
<1>4. \A k \in Extent(new) : k \in Table /\ k - c \in 0..n - 1 /\ mem[k] = Free
  <2>1. \A k \in Extent(new) : k \in Table /\ k - c \in 0..n - 1
    BY <1>2, BlockFacts
  <2>2. \A k \in Extent(new) : k = c + (k - c)
    BY <1>1, <1>2
  <2>3. QED
    BY Zenon, <1>1, <2>1, <2>2 DEF Fits
<1>5. \A b \in live : \A k \in Extent(b) : k \notin Extent(new) /\ k \in Table
  <2> TAKE b \in live
  <2> TAKE k \in Extent(b)
  <2>1. k \in Table /\ k - b.start \in 0..b.n - 1 /\ b.n \in Nat /\ (b.n = 1 \/ b.n >= 4)
        /\ mem[k] = Mark(b.n, k - b.start)
    BY BlockFacts DEF HeapInv, HeapTypeOK, Marked
  <2>2. mem[k] # Free
    BY <2>1, MarkTypes
  <2>3. QED
    BY <2>1, <2>2, <1>4
<1> HIDE DEF new
<1>6. HeapTypeOK'
  <2>1. \A k \in Extent(new) : Mark(n, k - c) \in Marks
    BY <1>1, <1>4, MarkTypes
  <2>2. mem' \in [Table -> Marks]
    BY <1>3, <2>1 DEF HeapInv, HeapTypeOK
  <2>3. QED
    BY <1>2, <1>3, <2>2 DEF HeapInv, HeapTypeOK, Table, BlockTypes, CellsFor, Rounded
<1>7. Marked'
  <2> SUFFICES ASSUME NEW b \in live', NEW k \in Extent(b) PROVE mem'[k] = Mark(b.n, k - b.start)
    BY DEF Marked, Extent, Mark
  <2>1. CASE b = new
    BY <2>1, <1>3, <1>4 DEF new
  <2>2. CASE b \in live
    BY <2>2, <1>3, <1>5 DEF HeapInv, Marked
  <2>3. QED
    BY <2>1, <2>2, <1>3
<1>8. Apart'
  BY <1>3, <1>5 DEF HeapInv, Apart, Extent
<1>9. NothingElseTaken'
  <2> SUFFICES ASSUME NEW k \in 1..Cells - 1, mem'[k] # Free
               PROVE  \E b \in live' \cup stuck' : k \in Extent(b)
    BY DEF NothingElseTaken, Extent, Free
  <2>1. CASE k \in Extent(new)
    BY <2>1, <1>3
  <2>2. CASE k \notin Extent(new)
    <3>1. k \in Table
      BY HeapAssumption DEF Table
    <3>2. mem[k] # Free
      BY <2>2, <3>1, <1>3
    <3>3. QED
      BY <3>2, <1>3 DEF HeapInv, NothingElseTaken
  <2>3. QED
    BY <2>1, <2>2
<1>10. QED
  BY <1>6, <1>7, <1>8, <1>9 DEF HeapInv

\* free keeps HeapInv.
LEMMA FreeStep ==
  ASSUME HeapInv, NEW b \in live, free(b)
  PROVE  HeapInv'
<1>1. /\ mem' = [k \in Table |-> IF k \in Cleared(b.start) THEN Free ELSE mem[k]]
      /\ live' = live \ {b} /\ stuck' = (IF b.n = 5 THEN stuck \cup {b} ELSE stuck)
      /\ interrupts' = TRUE
  BY DEF free
<1>2. /\ Cleared(b.start) \subseteq Extent(b)
      /\ b.n # 5 => \A k \in Extent(b) : k < Cells => k \in Cleared(b.start)
  BY ClearsTheBlock
<1>3. b \in BlockTypes
  BY DEF HeapInv, HeapTypeOK
<1>4. HeapTypeOK'
  <2>1. mem' \in [Table -> Marks]
    BY <1>1 DEF HeapInv, HeapTypeOK, Marks, Free
  <2>2. QED
    BY <1>1, <1>3, <2>1 DEF HeapInv, HeapTypeOK, Table, BlockTypes, CellsFor, Rounded
<1>5. Marked'
  <2> SUFFICES ASSUME NEW d \in live', NEW k \in Extent(d) PROVE mem'[k] = Mark(d.n, k - d.start)
    BY DEF Marked, Extent, Mark
  <2>1. k \in Table /\ d \in live /\ d # b
    BY <1>1, BlockFacts DEF HeapInv, HeapTypeOK
  <2>2. k \notin Cleared(b.start)
    BY <2>1, <1>2 DEF HeapInv, Apart
  <2>3. QED
    BY <2>1, <2>2, <1>1 DEF HeapInv, Marked
<1>6. Apart'
  BY <1>1 DEF HeapInv, Apart, Extent
<1>7. NothingElseTaken'
  <2> SUFFICES ASSUME NEW k \in 1..Cells - 1, mem'[k] # Free
               PROVE  \E d \in live' \cup stuck' : k \in Extent(d)
    BY DEF NothingElseTaken, Extent, Free
  <2>1. k \in Table /\ k < Cells
    BY HeapAssumption DEF Table
  <2>2. k \notin Cleared(b.start) /\ mem[k] # Free
    BY <2>1, <1>1
  <2>3. PICK d \in live \cup stuck : k \in Extent(d)
    BY <2>2 DEF HeapInv, NothingElseTaken
  <2>4. CASE d = b
    BY <2>1, <2>2, <2>3, <2>4, <1>1, <1>2
  <2>5. CASE d # b
    BY <2>3, <2>5, <1>1
  <2>6. QED
    BY <2>4, <2>5
<1>8. QED
  BY <1>4, <1>5, <1>6, <1>7 DEF HeapInv

\* HeapInv is inductive.
LEMMA HeapStep == HeapInv /\ [HeapNext]_heapVars => HeapInv'
<1> SUFFICES ASSUME HeapInv, [HeapNext]_heapVars PROVE HeapInv'
  OBVIOUS
<1>1. ASSUME UNCHANGED <<mem, live, stuck>>, interrupts' \in BOOLEAN PROVE HeapInv'
  BY <1>1 DEF HeapInv, HeapTypeOK, Marked, Apart, NothingElseTaken, Table, Marks, Free, BlockTypes,
              CellsFor, Rounded, Extent, Mark
<1>2. ASSUME NEW size \in Sizes, malloc(size) PROVE HeapInv'
  <2> DEFINE n == CellsFor(Rounded(size))
  <2>1. CASE n # 0 /\ \E c \in Starts(n) : t_malloc(size, n, c)
    <3>1. PICK c : t_malloc(size, n, c)
      BY <2>1
    <3>2. UNCHANGED stuck /\ interrupts' \in BOOLEAN
      BY <1>2 DEF malloc
    <3> HIDE DEF n
    <3>3. n = CellsFor(Rounded(size))
      BY DEF n
    <3>4. QED
      BY <2>1, <3>1, <3>2, <3>3, AllocateStep
  <2>2. CASE UNCHANGED <<mem, live>>
    BY <1>1, <1>2, <2>2 DEF malloc
  <2>3. QED
    BY <1>2, <2>1, <2>2 DEF malloc
<1>3. ASSUME NEW b \in live, free(b) PROVE HeapInv'
  BY <1>3, FreeStep
<1>4. CASE freeNull
  BY Zenon, <1>4, <1>1 DEF freeNull
<1>5. CASE UNCHANGED heapVars
  <2>1. interrupts \in BOOLEAN
    BY DEF HeapInv, HeapTypeOK
  <2>2. QED
    BY <1>5, <2>1, <1>1 DEF heapVars
<1>6. QED
  BY <1>2, <1>3, <1>4, <1>5 DEF HeapNext

\* HeapInv holds in every state.
LEMMA HeapInvariance == HeapSpec => []HeapInv
BY HeapInvInit, HeapStep, PTL DEF HeapSpec

\* The table only holds marks and blocks stay inside the memory set aside.
THEOREM HeapTypeCorrect == HeapSpec => []HeapTypeOK
<1>1. HeapInv => HeapTypeOK
  BY DEF HeapInv
<1>2. QED
  BY <1>1, HeapInvariance, PTL

\* No sequence of malloc and free hands the same cell to two callers.
THEOREM BlocksStayApart == HeapSpec => []BlocksApart
BY HeapInvApart, HeapInvariance, PTL

\* free returns what malloc took, but for the blocks of five cells.
THEOREM FreedIsFree == HeapSpec => []NothingElseTaken
<1>1. HeapInv => NothingElseTaken
  BY DEF HeapInv
<1>2. QED
  BY <1>1, HeapInvariance, PTL

=============================================================================
