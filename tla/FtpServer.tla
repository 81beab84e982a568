----------------------------- MODULE FtpServer -----------------------------
(* The FTP server, lib/lwip-ftpd/ftpd.c, on the virtual root: the callbacks *)
(* lwIP makes for the control and the data connection of each session.      *)
(*                                                                          *)
(* Clients keep to the protocol: one transfer at a time, a data connection  *)
(* announced by PASV or PORT, the same way for a whole session.  They may   *)
(* go away and connections may break at any time.  Bytes are counted, not   *)
(* told apart; an entry of a listing takes one unit of the send queue.      *)
EXTENDS VirtualRoot

CONSTANTS
  Sessions,
  FifoSpace,        \* units the queue in front of TCP takes: 2047 bytes
  FtpdBufferSize    \* units read from a file at a time: 1460 bytes

ASSUME FtpAssumption ==
  FifoSpace \in Nat \ {0} /\ FtpdBufferSize \in Nat \ {0}

VARIABLES
  state,      \* of a session: IDLE, LIST, RETR, STOR; GONE without one
  passive,    \* whether the session has ever used PASV
  listening,  \* datalistenpcb
  data,       \* datafs, the state of the data connection
  told226,    \* the session that has just been told its transfer succeeded, as a set
  broken      \* a transfer was cut off, or closed its file in the wrong directory

ftpVars == <<state, passive, listening, data, told226, broken, pathVars, handleVars>>

Transfers == {"LIST", "RETR", "STOR"}

NoData ==
  [exists |-> FALSE, connected |-> FALSE, file |-> 0, dir |-> 0, dirent |-> "NULL",
   used |-> 0, got |-> 0, kept |-> 0, total |-> 0, mixed |-> FALSE, crossed |-> FALSE]

NewData == [NoData EXCEPT !.exists = TRUE]

FtpInit ==
  /\ VirtualRootInit
  /\ state = [s \in Sessions |-> "GONE"]
  /\ passive = [s \in Sessions |-> FALSE] /\ listening = [s \in Sessions |-> FALSE]
  /\ data = [s \in Sessions |-> NoData]
  /\ told226 = {} /\ broken = FALSE

(****************************************************************************)
(* What the sessions share: the working directory, the place in the listing *)
(* of the root, and the one directory entry of vfs.c.                       *)

\* Session s moves.
Moved(s) ==
  [t \in Sessions |-> [data[t] EXCEPT !.crossed = @ \/ (t # s /\ state[t] \in Transfers)]]

\* Session s reads entries of a directory.
Listed(s) ==
  [t \in Sessions |->
     IF t # s /\ state[t] = "LIST"
     THEN [data[t] EXCEPT !.crossed = TRUE, !.dirent = IF @ = "own" THEN "other" ELSE @]
     ELSE data[t]]

(****************************************************************************)
(* Sending.  Each call of a callback hands on what TCP takes.               *)

\* The queue after TCP took some of it.
send_data(used) == 0..used

\* Mutant: what is still queued is not waited for.
DrainedOrNot(used) == TRUE

Drained(used) == used = 0

\* No reply, or one that is not about the end of a transfer.
Silent == told226' = {}

\* The data connection and its listener are closed and the client is told so.
Ended(s, all) ==
  /\ data' = [all EXCEPT ![s] = NoData]
  /\ listening' = [listening EXCEPT ![s] = FALSE]
  /\ state' = [state EXCEPT ![s] = "IDLE"]
  /\ told226' = {s}
  /\ UNCHANGED passive

Finished(s) == Ended(s, data) /\ UNCHANGED <<broken, pathVars, handleVars>>

Remains(s, all, d) ==
  /\ data' = [all EXCEPT ![s] = d]
  /\ Silent /\ UNCHANGED <<state, passive, listening>>

Lower(a, b) == IF a <= b THEN a ELSE b

\* RETR: a read that returns nothing closes the file unless it is known not
\* to be at its end; the call after the queue has run empty ends the transfer.
send_file(s, d) ==
  LET len == vroot_read(d.file, d.got, Lower(FifoSpace - d.used, FtpdBufferSize))
  IN  \/ d.file = 0 /\ Drained(d.used) /\ Finished(s)
      \/ /\ d.used > 0 /\ (d.file = 0 \/ d.used = FifoSpace)
         /\ \E used \in send_data(d.used) : Remains(s, data, [d EXCEPT !.used = used])
         /\ UNCHANGED <<broken, pathVars, handleVars>>
      \/ /\ d.file # 0 /\ d.used < FifoSpace /\ len = 0 /\ vroot_eof(d.file, d.got) # 0
         /\ FileHandleArray' = vroot_close(d.file)
         /\ broken' = (broken \/ ~currentAccessor)
         /\ Remains(s, data, [d EXCEPT !.file = 0])
         /\ UNCHANGED <<pathVars, DirectoryHandleArray, virtualRootCycler>>
      \/ /\ d.file # 0 /\ d.used < FifoSpace /\ len # 0
         /\ \E used \in send_data(d.used + len) :
              Remains(s, data, [d EXCEPT !.used = used, !.got = @ + len])
         /\ UNCHANGED <<broken, pathVars, handleVars>>

\* LIST and NLST, the loop over the entries.  An entry for which there was no
\* space waits in dir_ent; entries are read into the queue until it is full
\* or the directory ends.  They are counted up to one too many.
send_next_directory(s, d) ==
  LET waiting == IF d.dirent = "NULL" THEN 0 ELSE 1
      space == FifoSpace - d.used
      left == Left(d.dir, d.got + waiting)
      n == Lower(space - waiting, left)
      after == [d EXCEPT !.got = Lower(@ + waiting + n, d.total + 1),
                         !.mixed = @ \/ d.dirent = "other"
                                     \/ (n > 0 /\ Passed(d.dir, d.got + waiting) # d.got + waiting)]
  IN  \/ d.dir = 0 /\ Drained(d.used) /\ Finished(s)
      \/ /\ d.used > 0 /\ (d.dir = 0 \/ space < waiting)
         /\ \E used \in send_data(d.used) : Remains(s, data, [d EXCEPT !.used = used])
         /\ UNCHANGED <<broken, pathVars, handleVars>>
      \/ /\ d.dir # 0 /\ space >= waiting /\ left > n
         /\ virtualRootCycler' = CyclerAfter(d.dir, n + 1, FALSE)
         /\ \E used \in send_data(d.used + waiting + n) :
              Remains(s, Listed(s), [after EXCEPT !.used = used, !.dirent = "own"])
         /\ UNCHANGED <<broken, pathVars, FileHandleArray, DirectoryHandleArray>>
      \/ /\ d.dir # 0 /\ space >= waiting /\ left = n
         /\ DirectoryHandleArray' = closedirSlots(d.dir)
         /\ virtualRootCycler' = closedirCycler(d.dir)
         /\ broken' = (broken \/ (currentAccessor <=> d.dir = VirtualRootDirHandle))
         /\ \/ /\ d.used + waiting + n > 0
               /\ \E used \in send_data(d.used + waiting + n) :
                    Remains(s, Listed(s), [after EXCEPT !.used = used, !.dirent = "NULL", !.dir = 0])
            \/ Drained(d.used + waiting + n) /\ Ended(s, Listed(s))
         /\ UNCHANGED <<pathVars, FileHandleArray>>

\* What every callback of the data connection and the poll timer does.
Serve(s, d) ==
  \/ state[s] = "RETR" /\ send_file(s, d)
  \/ state[s] = "LIST" /\ send_next_directory(s, d)

\* TCP reports data sent, or the control connection's timer polls.
ftpd_datasent(s) == data[s].connected /\ Serve(s, data[s])

\* The data connection comes up, by ftpd_dataaccept or ftpd_dataconnected.
ftpd_dataconnected(s) ==
  /\ data[s].exists /\ ~data[s].connected
  /\ passive[s] \/ state[s] \in Transfers
  /\ LET d == [data[s] EXCEPT !.connected = TRUE]
     IN  \/ Serve(s, d)
         \/ /\ state[s] \notin {"RETR", "LIST"}
            /\ Remains(s, data, d)
            /\ UNCHANGED <<broken, pathVars, handleVars>>

\* Data for STOR: what the disk does not take is lost.
ftpd_datarecv(s) ==
  /\ state[s] = "STOR" /\ data[s].connected /\ data[s].got < FileSize
  /\ \E written \in (IF ~Accessible(data[s].file) THEN {0} ELSE IF DiskMayFill THEN {0, 1} ELSE {1}) :
       data' = [data EXCEPT ![s].got = @ + 1, ![s].kept = @ + written]
  /\ Silent /\ UNCHANGED <<state, passive, listening, broken, pathVars, handleVars>>

\* The client closes the data connection: the end of STOR, or of a RETR it
\* wants no more of.
ftpd_datarecvEnd(s) ==
  /\ data[s].connected /\ data[s].file # 0
  /\ FileHandleArray' = vroot_close(data[s].file)
  /\ broken' = (broken \/ ~currentAccessor)
  /\ Ended(s, data)
  /\ UNCHANGED <<pathVars, DirectoryHandleArray, virtualRootCycler>>

\* The data connection breaks.  The open file or directory is forgotten, the
\* listener stays, and the client hears nothing.
ftpd_dataerr(s) ==
  /\ data[s].connected
  /\ data' = [data EXCEPT ![s] = NoData]
  /\ state' = [state EXCEPT ![s] = "IDLE"]
  /\ broken' = (broken \/ data[s].file # 0 \/ data[s].dir # 0)
  /\ Silent /\ UNCHANGED <<passive, listening, pathVars, handleVars>>

(****************************************************************************)
(* Commands.                                                                *)

Asks(s) == state[s] = "IDLE"

cmd_pasv(s) ==
  /\ Asks(s)
  /\ \/ listening[s] /\ UNCHANGED <<passive, listening, data>>
     \/ /\ ~listening[s]
        /\ data' = [data EXCEPT ![s] = NewData]
        /\ listening' = [listening EXCEPT ![s] = TRUE]
        /\ passive' = [passive EXCEPT ![s] = TRUE]
  /\ Silent /\ UNCHANGED <<state, broken, pathVars, handleVars>>

\* A client asks for a transfer after PASV, or PORT, was accepted.
MayTransfer(s) == Asks(s) /\ (passive[s] => data[s].exists)

\* The data connection of the transfer: that of PASV, or a new one.
open_dataconnection(s) == IF passive[s] THEN data[s] ELSE NewData

Begins(s, transfer, d) ==
  /\ state' = [state EXCEPT ![s] = transfer]
  /\ data' = [data EXCEPT ![s] = d]
  /\ Silent

cmd_list_common(s) ==
  /\ MayTransfer(s)
  /\ \/ vroot_opendir = 0 /\ Silent /\ UNCHANGED <<state, data, DirectoryHandleArray>>
     \/ /\ vroot_opendir # 0
        /\ DirectoryHandleArray' = OpenedDir(vroot_opendir)
        /\ Begins(s, "LIST", [open_dataconnection(s) EXCEPT
             !.dir = vroot_opendir, !.dirent = "NULL",
             !.total = IF currentAccessor THEN Entries ELSE Partitions,
             !.crossed = ~currentAccessor /\ virtualRootCycler # 0])
  /\ UNCHANGED <<passive, listening, broken, pathVars, FileHandleArray, virtualRootCycler>>

\* RETR or STOR; a file that is not there, or not allowed, is refused.
Transfer(s, transfer) ==
  /\ MayTransfer(s)
  /\ \/ Silent /\ UNCHANGED <<state, data, FileHandleArray>>
     \/ /\ vroot_open # 0
        /\ FileHandleArray' = Opened(vroot_open)
        /\ Begins(s, transfer, [open_dataconnection(s) EXCEPT !.file = vroot_open, !.total = FileSize])
  /\ UNCHANGED <<passive, listening, broken, pathVars, DirectoryHandleArray, virtualRootCycler>>

cmd_retr(s) == Transfer(s, "RETR")

cmd_stor(s) == Transfer(s, "STOR")

cmd_cwd(s) ==
  /\ Asks(s)
  /\ vroot_cd
  /\ data' = Moved(s)
  /\ Silent /\ UNCHANGED <<state, passive, listening, broken, handleVars>>

(****************************************************************************)
(* The control connection.                                                  *)

ftpd_msgaccept(s) ==
  /\ state[s] = "GONE"
  /\ state' = [state EXCEPT ![s] = "IDLE"]
  /\ Silent /\ UNCHANGED <<passive, listening, data, broken, pathVars, handleVars>>

\* QUIT, or the client goes away: a transfer under way loses its connection,
\* and its file or directory stays open.  What the session knew is freed.
ftpd_msgclose(s) ==
  /\ state[s] # "GONE"
  /\ state' = [state EXCEPT ![s] = "GONE"]
  /\ data' = [data EXCEPT ![s] = NoData]
  /\ passive' = [passive EXCEPT ![s] = FALSE] /\ listening' = [listening EXCEPT ![s] = FALSE]
  /\ Silent
  /\ broken' = (broken \/ data[s].file # 0 \/ data[s].dir # 0)
  /\ UNCHANGED <<pathVars, handleVars>>

FtpNext ==
  \E s \in Sessions :
    \/ ftpd_datasent(s) \/ ftpd_dataconnected(s) \/ ftpd_datarecv(s) \/ ftpd_datarecvEnd(s)
    \/ ftpd_dataerr(s) \/ ftpd_msgaccept(s) \/ ftpd_msgclose(s)
    \/ cmd_pasv(s) \/ cmd_list_common(s) \/ cmd_retr(s) \/ cmd_stor(s) \/ cmd_cwd(s)

FtpSpec == FtpInit /\ [][FtpNext]_ftpVars

(****************************************************************************)
(* Properties.                                                              *)

DataState ==
  [exists : BOOLEAN, connected : BOOLEAN, file : FileSlots \cup {0},
   dir : DirSlots \cup {0, VirtualRootDirHandle}, dirent : {"NULL", "own", "other"},
   used : 0..FifoSpace, got : Nat, kept : 0..FileSize, total : Nat,
   mixed : BOOLEAN, crossed : BOOLEAN]

\* Sessions and data connections keep their types: the queue is never filled
\* beyond its size, nor is more stored than was sent.
FtpTypeOK ==
  /\ VirtualRootTypeOK
  /\ state \in [Sessions -> Transfers \cup {"IDLE", "GONE"}]
  /\ passive \in [Sessions -> BOOLEAN] /\ listening \in [Sessions -> BOOLEAN]
  /\ data \in [Sessions -> DataState]
  /\ told226 \subseteq Sessions /\ broken \in BOOLEAN

\* The files and directories transfers work on are open and their own: no
\* slot is handed out twice while one of them uses it.
HandlesApart ==
  \A s \in Sessions :
    /\ data[s].file # 0 => FileHandleArray[data[s].file]
    /\ data[s].dir \in DirSlots => DirectoryHandleArray[data[s].dir]
    /\ \A t \in Sessions \ {s} :
         /\ data[s].file # 0 => data[s].file # data[t].file
         /\ data[s].dir \in DirSlots => data[s].dir # data[t].dir

\* Transfers that run to their end give their slots back: a slot in use is
\* that of a transfer under way, unless one was cut off before.
NoStraySlot ==
  \/ broken
  \/ /\ \A h \in FileSlots : FileHandleArray[h] => \E s \in Sessions : data[s].file = h
     /\ \A h \in DirSlots : DirectoryHandleArray[h] => \E s \in Sessions : data[s].dir = h

\* Everything session s asked for has gone out, or has been stored.
Whole(s) ==
  IF state[s] = "STOR" THEN data[s].kept = data[s].got
  ELSE data[s].used = 0 /\ data[s].got = data[s].total /\ ~data[s].mixed

\* The client itself ended the download.
Given(s) == state[s] = "RETR" /\ data[s].file # 0

Succeeds(s) == state[s] \in Transfers /\ s \in told226'

\* "226 Requested file action successful" follows a transfer only when all of
\* the file or listing went out or was stored, unless the client closed the
\* connection itself or another session crossed the transfer.
SuccessIsWhole ==
  [][\A s \in Sessions : Succeeds(s) => Whole(s) \/ Given(s) \/ data[s].crossed]_ftpVars

\* The same without regard to other sessions.  TLC refutes it: another session's
\* CWD to the root makes every read of a file return nothing.
SuccessIsAlwaysWhole ==
  [][\A s \in Sessions : Succeeds(s) => Whole(s) \/ Given(s)]_ftpVars

Sending(s) == state[s] \in {"RETR", "LIST"} /\ data[s].connected

\* A download or listing with a connection can always go on: in no state of
\* the queue, the file and the directory do the callbacks have nothing left
\* to do but to be called again.
NeverStuck == \A s \in Sessions : Sending(s) => ENABLED <<ftpd_datasent(s)>>_data
=============================================================================
