\* Drives of every kind on which any write may fail and power may go at any step;
\* two FTP clients that may go away, on connections that may break; a heap of
\* eleven cells in which blocks of every size class are asked for; scripts with every
\* order of jumps and with nested IFs.
CONSTANTS
  Word32 <- MCWord32
  LBASIZE_1024GB <- MC1024GB
  NewDrives <- MCDrives
  ReadsMayFail = FALSE
  WritesMayFail = TRUE
  MaxBoots = 2
  s1 = s1
  s2 = s2
  Sessions <- MCSessions
  Dirs <- MCDirs
  MaxOpenFileCount = 2
  MaxOpenDirCount = 1
  Partitions = 2
  FileSize = 2
  Entries = 2
  DiskMayFill = FALSE
  FifoSpace = 1
  FtpdBufferSize = 1
  Cells = 11
  CellUnits = 2
  MaxBig = 6
  Sizes = {0, 1, 6, 7, 8, 10, 13}
  Scripts <- MCScripts
  Names <- MCNames
  Params = {0, 5}
  WordBits = 10
SPECIFICATION ServicesSpec
SYMMETRY MCSymmetry
INVARIANTS DiskTypeOK ExtendedInUseIsFormatted  ExtendedApart
INVARIANTS FtpTypeOK  HandlesApart  
INVARIANTS HeapTypeOK  NothingElseTaken
INVARIANTS ScriptTypeOK TextsAccounted
PROPERTIES   FollowsNesting AssignmentComputes
\* The boot goes on to the menus once the drives are set up.
CHECK_DEADLOCK FALSE
