---------------------------- MODULE VirtualRoot ----------------------------
(* The file system the FTP server sees: fs/VirtualRoot/VirtualRoot.c puts   *)
(* the mounted partitions under one root and passes everything else on to   *)
(* fs/ff13b/source/FatFSAccessor.c, which has a few slots for open files    *)
(* and directories.                                                         *)
(*                                                                          *)
(* A path is the sequence of its names, <<>> the virtual root; a trailing   *)
(* separator is kept apart because ".." counts separators.  Every file has  *)
(* FileSize units, every directory Entries entries.  How far an open file   *)
(* or directory has been read is kept with the transfer that opened it.     *)
EXTENDS Integers, Sequences

CONSTANTS
  MaxOpenFileCount, MaxOpenDirCount,   \* slots: 2 and 2
  Dirs,                                \* the directories that can be entered
  Partitions,                          \* the number of partitions mounted
  FileSize, Entries,
  DiskMayFill                        \* whether the disk may be full

ASSUME VirtualRootAssumption ==
  /\ MaxOpenFileCount \in Nat \ {0} /\ MaxOpenDirCount \in 1..999
  /\ Partitions \in 0..254 /\ FileSize \in Nat /\ Entries \in Nat /\ DiskMayFill \in BOOLEAN
  /\ \A p \in Dirs : Len(p) \in Nat \ {0}

VARIABLES
  cwd,                    \* the working directory, [path, slash]
  currentAccessor,        \* whether file operations go to FatFS
  fatDir,                 \* the working directory of FatFS
  virtualRootCycler,      \* partitions listed so far
  FileHandleArray,        \* whether a slot for a file is in use
  DirectoryHandleArray    \* whether a slot for a directory is in use

pathVars == <<cwd, currentAccessor, fatDir>>
handleVars == <<FileHandleArray, DirectoryHandleArray, virtualRootCycler>>

CycleEnd == 255
VirtualRootDirHandle == 1000

FileSlots == 1..MaxOpenFileCount
DirSlots == 1..MaxOpenDirCount

VirtualRootInit ==
  /\ cwd = [path |-> <<>>, slash |-> TRUE]
  /\ currentAccessor = FALSE
  /\ fatDir = <<>>
  /\ virtualRootCycler = 0
  /\ FileHandleArray = [h \in FileSlots |-> FALSE]
  /\ DirectoryHandleArray = [h \in DirSlots |-> FALSE]

(****************************************************************************)
(* Files.                                                                   *)

\* Mutant: the first slot, used or not.
FirstUnusedAny(slots) == 1

\* The first slot that is not in use, 0 when all are.
FirstUnused(slots) ==
  LET first(h) == ~slots[h] /\ \A g \in 1..h - 1 : slots[g]
  IN  IF \E h \in DOMAIN slots : first(h) THEN CHOOSE h \in DOMAIN slots : first(h) ELSE 0

\* The handle a call returns: 0 in the virtual root.
vroot_open == IF currentAccessor THEN FirstUnused(FileHandleArray) ELSE 0

Opened(h) == [FileHandleArray EXCEPT ![h] = TRUE]

\* Reads and writes go to whatever the working directory belongs to.
Accessible(h) == currentAccessor /\ FileHandleArray[h]

\* At most n units from position pos.
vroot_read(h, pos, n) ==
  IF ~Accessible(h) THEN 0 ELSE IF n <= FileSize - pos THEN n ELSE FileSize - pos

\* Mutant: only a position past the end counts as the end.
vroot_eofPast(h, pos) == IF ~Accessible(h) THEN -1 ELSE IF pos > FileSize THEN 1 ELSE 0

\* -1 is an error.
vroot_eof(h, pos) == IF ~Accessible(h) THEN -1 ELSE IF pos = FileSize THEN 1 ELSE 0

\* Mutant: the slot is not given back.
vroot_closeKeeps(h) == FileHandleArray

vroot_close(h) ==
  IF currentAccessor THEN [FileHandleArray EXCEPT ![h] = FALSE] ELSE FileHandleArray

(****************************************************************************)
(* Directories.                                                             *)

vroot_opendir ==
  IF currentAccessor THEN FirstUnused(DirectoryHandleArray) ELSE VirtualRootDirHandle

OpenedDir(h) ==
  IF h \in DirSlots THEN [DirectoryHandleArray EXCEPT ![h] = TRUE] ELSE DirectoryHandleArray

\* The entries passed in a listing that has read pos of them, and those left.
Passed(h, pos) == IF h = VirtualRootDirHandle THEN virtualRootCycler ELSE pos

\* Mutant: the listing of the root forgets how far it is.
LeftFromStart(h, pos) ==
  IF h = VirtualRootDirHandle THEN Partitions
  ELSE IF currentAccessor /\ DirectoryHandleArray[h] THEN Entries - pos ELSE 0

Left(h, pos) ==
  IF h = VirtualRootDirHandle
  THEN IF virtualRootCycler < Partitions THEN Partitions - virtualRootCycler ELSE 0
  ELSE IF currentAccessor /\ DirectoryHandleArray[h] THEN Entries - pos ELSE 0

\* n more entries of a listing read, or its end found.
CyclerAfter(h, n, last) ==
  IF h # VirtualRootDirHandle THEN virtualRootCycler
  ELSE IF last THEN CycleEnd ELSE virtualRootCycler + n

\* Whoever is in the virtual root closes its listing, whatever the handle.
closedirSlots(h) ==
  IF currentAccessor /\ h \in DirSlots
  THEN [DirectoryHandleArray EXCEPT ![h] = FALSE] ELSE DirectoryHandleArray

closedirCycler(h) == IF currentAccessor THEN CyclerAfter(h, 0, TRUE) ELSE 0

(****************************************************************************)
(* The working directory.                                                   *)

\* Mutant: FatFS is not told.
EnterAlone(path, slash) ==
  /\ path \in Dirs
  /\ cwd' = [path |-> path, slash |-> slash]
  /\ currentAccessor' = TRUE /\ UNCHANGED fatDir

\* FatFS enters a directory and the virtual root follows.
Enter(path, slash) ==
  /\ path \in Dirs
  /\ cwd' = [path |-> path, slash |-> slash]
  /\ currentAccessor' = TRUE /\ fatDir' = path

BackToRoot ==
  /\ cwd' = [path |-> <<>>, slash |-> TRUE]
  /\ currentAccessor' = FALSE /\ UNCHANGED fatDir

pathProcess_Absolute(path, slash) ==
  \/ path = <<>> /\ BackToRoot
  \/ Enter(path, slash)

pathProcess_GoingForward(name) == Enter(Append(cwd.path, name), FALSE)

\* The separators that ".." finds in cwd: none is looked for in the name of
\* the partition or before it.
Separators == IF cwd.path = <<>> THEN 0 ELSE Len(cwd.path) - 1 + IF cwd.slash THEN 1 ELSE 0

\* One separator: the partition's directory is taken for the root.  More: the
\* name after the last two separators goes, and FatFS is told; when it cannot
\* read the directory, the virtual root is entered.
pathProcess_GoingBack ==
  \/ Separators = 0 /\ UNCHANGED pathVars
  \/ Separators = 1 /\ BackToRoot
  \/ /\ Separators > 1
     /\ LET up == SubSeq(cwd.path, 1, Separators - 1)
        IN  Enter(up, TRUE) \/ BackToRoot

\* A path that cannot be entered changes nothing.
vroot_cd ==
  \/ \E path \in Dirs \cup {<<>>}, slash \in BOOLEAN : pathProcess_Absolute(path, slash)
  \/ \E p \in Dirs : pathProcess_GoingForward(p[Len(p)])
  \/ pathProcess_GoingBack

(****************************************************************************)
(* Properties.                                                              *)

\* MKD, DELE and RNFR hand a relative path to FatFS, STOR and RETR put cwd in
\* front of it: both mean the same directory.
OneDirectory ==
  /\ currentAccessor <=> cwd.path # <<>>
  /\ currentAccessor => fatDir = cwd.path

\* The working directories are ones that exist, and the listing of the root
\* stays within the partitions.
VirtualRootTypeOK ==
  /\ cwd \in [path : Dirs \cup {<<>>}, slash : BOOLEAN]
  /\ currentAccessor \in BOOLEAN /\ fatDir \in Dirs \cup {<<>>}
  /\ virtualRootCycler \in 0..Partitions \cup {CycleEnd}
  /\ FileHandleArray \in [FileSlots -> BOOLEAN]
  /\ DirectoryHandleArray \in [DirSlots -> BOOLEAN]
=============================================================================
