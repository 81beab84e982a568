----------------------------- MODULE MCServices -----------------------------
(* Four services of the firmware: setting up new drives while it boots,     *)
(* serving the mounted partitions over FTP, the heap, and boot scripts.     *)
(* They share no state, so a behaviour follows the one that focus names.    *)
EXTENDS DiskSetup, FtpServer, Heap, MCScript, TLC

VARIABLE focus

(****************************************************************************)
(* The drives.  The stock partitions have their real sizes; 2^32 and 1TB    *)
(* are scaled down to what TLC can count with.                              *)

MCWord32 == 1073741824
MC1024GB == 536870909

WithF(size) ==
  [BackupPartTable EXCEPT !["F"] = [use |-> TRUE, start |-> XBOX_EXTEND_STARTLBA,
                                    size |-> AlignDown(size - XBOX_EXTEND_STARTLBA)]]

Absent == [size |-> 0, brfr |-> FALSE, table |-> NoTable, blank |-> TRUE]
Blank(n) == [size |-> n, brfr |-> FALSE, table |-> NoTable, blank |-> TRUE]
Retail(n) == [size |-> n, brfr |-> TRUE, table |-> NoTable, blank |-> FALSE]
Prepared(n) == [size |-> n, brfr |-> TRUE, table |-> WithF(n), blank |-> FALSE]
\* Partitioned by a tool that does not write the mark, or that lost it.
Unmarked(n) == [size |-> n, brfr |-> FALSE, table |-> WithF(n), blank |-> FALSE]
\* Partitioned by such a tool, and not formatted.
Partitioned(n) == [size |-> n, brfr |-> FALSE, table |-> BackupPartTable, blank |-> TRUE]

\* 8GB; with room for F; too small for an even split; beyond LBA28; beyond "1TB".
MCDrives == {Absent, Retail(15633072), Prepared(30000000), Blank(320000000)}
              \cup {Unmarked(n) : n \in {30000000, 600000000}}
              \cup {Partitioned(17000000)}

(****************************************************************************)
(* Two FTP clients in a partition with a directory.                         *)

CONSTANTS s1, s2

MCSessions == {s1, s2}
MCSymmetry == Permutations(MCSessions)

MCDirs == {<<"E">>, <<"E", "a">>}

(****************************************************************************)

\* What is not followed stays in one state.
ServicesInit ==
  /\ FtpInit /\ MemoryManagementInitialization
  /\ \/ focus = "disk" /\ DiskInit
     \/ focus \in {"ftp", "heap", "script"} /\ DiskInit /\ \A d \in Drives : disk[d].size = 0
  /\ focus # "script" => script = <<Endif>> /\ vars = ReadOnly
  /\ ScriptInit

ServicesNext ==
  \/ focus = "disk" /\ DiskNext /\ UNCHANGED <<focus, ftpVars, heapVars, scriptVars>>
  \/ focus = "ftp" /\ FtpNext /\ UNCHANGED <<focus, diskVars, heapVars, scriptVars>>
  \/ focus = "heap" /\ HeapNext /\ UNCHANGED <<focus, diskVars, ftpVars, scriptVars>>
  \/ focus = "script" /\ ScriptNext /\ UNCHANGED <<focus, diskVars, ftpVars, heapVars>>

ServicesSpec ==
  ServicesInit /\ [][ServicesNext]_<<focus, diskVars, ftpVars, heapVars, scriptVars>>
=============================================================================
