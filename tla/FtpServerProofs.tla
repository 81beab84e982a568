-------------------------- MODULE FtpServerProofs --------------------------
(* What TLC checks of the FTP server for two sessions, for any number of    *)
(* sessions, slots, entries and units, and any size of the queue.           *)
EXTENDS FtpDataProofs

\* send_next_directory keeps FtpInv, whether the listing ends or goes on.
LEMMA SendDirectoryStep ==
  ASSUME FtpInv, NEW s \in Sessions, NEW d, Current(s, d), state[s] = "LIST", send_next_directory(s, d)
  PROVE  FtpInv'
<1> DEFINE waiting == IF d.dirent = "NULL" THEN 0 ELSE 1
           space == FifoSpace - d.used
           left == Left(d.dir, d.got + waiting)
           n == Lower(space - waiting, left)
           got == Lower(d.got + waiting + n, d.total + 1)
           mixed == d.mixed \/ d.dirent = "other"
                            \/ (n > 0 /\ Passed(d.dir, d.got + waiting) # d.got + waiting)
           after == [d EXCEPT !.got = got, !.mixed = mixed]
<1>w. waiting = Waiting(d)
  BY DEF Waiting
<1>a. /\ d \in DataState /\ ListOk(d, currentAccessor, virtualRootCycler)
      /\ d.dir = data[s].dir /\ d.file = data[s].file /\ d.file = 0 /\ d.used \in 0..FifoSpace
  BY DEF Current, Ok, ListOk, DataState
<1>i. VirtualRootTypeOK /\ broken \in BOOLEAN
  BY DEF FtpInv, FtpTypeOK
<1>1. CASE d.dir = 0 /\ Drained(d.used) /\ Finished(s)
  <2>1. /\ Ended(s, data) /\ broken' \in BOOLEAN /\ (broken => broken')
        /\ UNCHANGED <<currentAccessor, virtualRootCycler>>
        /\ UNCHANGED <<FileHandleArray, DirectoryHandleArray>> /\ VirtualRootTypeOK'
    BY <1>1, <1>i DEF Finished, pathVars, handleVars, VirtualRootTypeOK, FileSlots, DirSlots, CycleEnd
  <2>2. SlotsOk(Sessions, FileSlots, With(FileOwner, s, 0), FileHandleArray', broken')
    BY Zenon, <1>1, <1>a, <2>1, FilesKept
  <2>3. SlotsOk(Sessions, DirSlots, With(DirOwner, s, 0), DirectoryHandleArray', broken')
    BY <1>1, <1>a, <2>1, DirsKept
  <2> QED BY Zenon, <2>1, <2>2, <2>3, OthersSame, EndedStep
<1>2. CASE /\ d.used > 0 /\ (d.dir = 0 \/ space < waiting)
           /\ \E used \in send_data(d.used) : Remains(s, data, [d EXCEPT !.used = used])
           /\ UNCHANGED <<broken, pathVars, handleVars>>
  <2>1. PICK used \in 0..d.used : Remains(s, data, [d EXCEPT !.used = used])
    BY <1>2 DEF send_data
  <2> DEFINE e == [d EXCEPT !.used = used]
  <2>2. /\ e \in DataState /\ e.file = d.file /\ e.dir = d.dir /\ e.dirent = d.dirent
        /\ e.got = d.got /\ e.kept = d.kept /\ e.total = d.total
        /\ e.mixed = d.mixed /\ e.crossed = d.crossed
    <3>1. used \in 0..FifoSpace
      BY <1>a, FtpAssumption
    <3> QED BY <1>a, <3>1 DEF DataState
  <2>3. Remains(s, data, e)
    BY <2>1
  <2> HIDE DEF e
  <2>4. /\ broken' \in BOOLEAN /\ (broken => broken') /\ UNCHANGED <<currentAccessor, virtualRootCycler>>
        /\ UNCHANGED <<FileHandleArray, DirectoryHandleArray>> /\ VirtualRootTypeOK'
    BY <1>2, <1>i DEF pathVars, handleVars, VirtualRootTypeOK, FileSlots, DirSlots, CycleEnd
  <2>5. Ok(e, state[s], currentAccessor', virtualRootCycler')
    BY <1>a, <2>2, <2>4 DEF Ok, ListOk, Waiting, Transfers
  <2>6. SlotsOk(Sessions, FileSlots, With(FileOwner, s, e.file), FileHandleArray', broken')
    BY ZenonT(30), <1>a, <2>2, <2>4, FilesKept
  <2>7. SlotsOk(Sessions, DirSlots, With(DirOwner, s, e.dir), DirectoryHandleArray', broken')
    BY Zenon, <1>a, <2>2, <2>4, DirsKept
  <2> QED BY Zenon, <2>2, <2>3, <2>4, <2>5, <2>6, <2>7, OthersSame, RemainsStep
<1>n. ASSUME d.dir # 0, space >= waiting
      PROVE  got \in Nat /\ mixed \in BOOLEAN /\ d.used + waiting + n \in 0..FifoSpace
  <2>1. got \in Nat /\ d.used + waiting + n \in 0..FifoSpace
    BY <1>n, <1>w, ListNumbers
  <2>2. mixed \in BOOLEAN
    BY <1>a DEF DataState
  <2> QED BY <2>1, <2>2
<1>3. CASE /\ d.dir # 0 /\ space >= waiting /\ left > n
           /\ virtualRootCycler' = CyclerAfter(d.dir, n + 1, FALSE)
           /\ \E used \in send_data(d.used + waiting + n) :
                Remains(s, Listed(s), [after EXCEPT !.used = used, !.dirent = "own"])
           /\ UNCHANGED <<broken, pathVars, FileHandleArray, DirectoryHandleArray>>
  <2> HIDE DEF n, left, got, mixed
  <2>1. PICK used \in 0..d.used + waiting + n :
          Remains(s, Listed(s), [after EXCEPT !.used = used, !.dirent = "own"])
    BY Zenon, <1>3 DEF send_data
  <2>2. used \in 0..FifoSpace
    BY <1>3, <1>n, FtpAssumption
  <2> DEFINE e == [after EXCEPT !.used = used, !.dirent = "own"]
  <2>3. /\ e \in DataState /\ e.file = d.file /\ e.kept = d.kept /\ e.total = d.total
        /\ e.crossed = d.crossed /\ e.got = got /\ e.mixed = mixed /\ e.dirent = "own" /\ e.dir = d.dir
    <3>1. got \in Nat /\ mixed \in BOOLEAN
      BY <1>3, <1>n
    <3>2. /\ after \in DataState /\ after.file = d.file /\ after.kept = d.kept /\ after.total = d.total
          /\ after.crossed = d.crossed /\ after.got = got /\ after.mixed = mixed /\ after.dir = d.dir
      BY Zenon, <3>1, <1>a DEF DataState
    <3> HIDE DEF after
    <3> QED BY Zenon, <3>2, <2>2 DEF DataState
  <2>4. Remains(s, Listed(s), e)
    BY <2>1
  <2> HIDE DEF e, after
  <2>5. /\ left = Left(d.dir, d.got + Waiting(d)) /\ FifoSpace - d.used >= Waiting(d)
        /\ n = Lower(FifoSpace - d.used - Waiting(d), left)
        /\ got = Lower(d.got + Waiting(d) + n, d.total + 1)
        /\ mixed = (d.mixed \/ d.dirent = "other"
                    \/ (n > 0 /\ Passed(d.dir, d.got + Waiting(d)) # d.got + Waiting(d)))
    BY Zenon, <1>3, <1>w DEF n, left, got, mixed
  <2> QED BY Zenon, <1>3, <2>3, <2>4, <2>5, ListGoesOn
<1>4. CASE /\ d.dir # 0 /\ space >= waiting /\ left = n
           /\ DirectoryHandleArray' = closedirSlots(d.dir)
           /\ virtualRootCycler' = closedirCycler(d.dir)
           /\ broken' = (broken \/ (currentAccessor <=> d.dir = VirtualRootDirHandle))
           /\ d.used + waiting + n > 0
           /\ \E used \in send_data(d.used + waiting + n) :
                Remains(s, Listed(s), [after EXCEPT !.used = used, !.dirent = "NULL", !.dir = 0])
           /\ UNCHANGED <<pathVars, FileHandleArray>>
  <2> HIDE DEF n, left, got, mixed
  <2>1. PICK used \in 0..d.used + waiting + n :
          Remains(s, Listed(s), [after EXCEPT !.used = used, !.dirent = "NULL", !.dir = 0])
    BY Zenon, <1>4 DEF send_data
  <2>2. used \in 0..FifoSpace
    BY <1>4, <1>n, FtpAssumption
  <2> DEFINE e == [after EXCEPT !.used = used, !.dirent = "NULL", !.dir = 0]
  <2>3. /\ e \in DataState /\ e.file = d.file /\ e.kept = d.kept /\ e.total = d.total
        /\ e.crossed = d.crossed /\ e.got = got /\ e.mixed = mixed /\ e.dirent = "NULL" /\ e.dir = 0
    <3>1. got \in Nat /\ mixed \in BOOLEAN
      BY <1>4, <1>n
    <3>2. /\ after \in DataState /\ after.file = d.file /\ after.kept = d.kept /\ after.total = d.total
          /\ after.crossed = d.crossed /\ after.got = got /\ after.mixed = mixed /\ after.dir = d.dir
      BY Zenon, <3>1, <1>a DEF DataState
    <3> HIDE DEF after
    <3> QED BY Zenon, <3>2, <2>2 DEF DataState
  <2>4. Remains(s, Listed(s), e)
    BY <2>1
  <2> HIDE DEF e, after
  <2> QED BY <1>4, <1>w, <2>3, <2>4, ListEnds DEF n, left, got, mixed
<1>5. CASE /\ d.dir # 0 /\ space >= waiting /\ left = n
           /\ DirectoryHandleArray' = closedirSlots(d.dir)
           /\ virtualRootCycler' = closedirCycler(d.dir)
           /\ broken' = (broken \/ (currentAccessor <=> d.dir = VirtualRootDirHandle))
           /\ Drained(d.used + waiting + n) /\ Ended(s, Listed(s))
           /\ UNCHANGED <<pathVars, FileHandleArray>>
  <2> HIDE DEF n, left, got, mixed, after
  <2>1. /\ VirtualRootTypeOK' /\ broken' \in BOOLEAN /\ currentAccessor' = currentAccessor
        /\ SlotsOk(Sessions, FileSlots, With(FileOwner, s, 0), FileHandleArray', broken')
        /\ SlotsOk(Sessions, DirSlots, With(DirOwner, s, 0), DirectoryHandleArray', broken')
    BY <1>5, ListCloses
  <2>2. /\ Listed(s) \in [Sessions -> DataState]
        /\ \A t \in Sessions : Listed(s)[t].file = data[t].file /\ Listed(s)[t].dir = data[t].dir
        /\ \A t \in Sessions \ {s} : Ok(Listed(s)[t], state[t], currentAccessor', virtualRootCycler')
    BY Zenon, <2>1, OthersListed
  <2> QED BY Zenon, <1>5, <2>1, <2>2, EndedStep
<1>6. after = [d EXCEPT !.got = Lower(@ + waiting + n, d.total + 1),
                        !.mixed = @ \/ d.dirent = "other"
                                    \/ (n > 0 /\ Passed(d.dir, d.got + waiting) # d.got + waiting)]
  OBVIOUS
<1> QED BY <1>1, <1>2, <1>3, <1>4, <1>5, <1>6, Zenon DEF send_next_directory

\* What a step that leaves the file system alone leaves alone.
LEMMA Untouched ==
  ASSUME FtpInv, UNCHANGED <<pathVars, handleVars>>
  PROVE  /\ UNCHANGED <<currentAccessor, virtualRootCycler>>
         /\ UNCHANGED <<FileHandleArray, DirectoryHandleArray>> /\ VirtualRootTypeOK'
BY DEF FtpInv, FtpTypeOK, pathVars, handleVars, VirtualRootTypeOK, FileSlots, DirSlots, CycleEnd

\* A session whose slots are what they were.
LEMMA SameSlots ==
  ASSUME FtpInv, NEW s \in Sessions, NEW e, e.file = data[s].file, e.dir = data[s].dir,
         UNCHANGED <<FileHandleArray, DirectoryHandleArray>>, broken' \in BOOLEAN, broken => broken'
  PROVE  /\ SlotsOk(Sessions, FileSlots, With(FileOwner, s, e.file), FileHandleArray', broken')
         /\ SlotsOk(Sessions, DirSlots, With(DirOwner, s, e.dir), DirectoryHandleArray', broken')
<1>1. SlotsOk(Sessions, FileSlots, With(FileOwner, s, e.file), FileHandleArray', broken')
  BY FilesKept
<1>2. SlotsOk(Sessions, DirSlots, With(DirOwner, s, e.dir), DirectoryHandleArray', broken')
  BY DirsKept
<1> QED BY <1>1, <1>2

\* So does what ftpd_datasent and ftpd_dataconnected serve.
LEMMA ServeStep ==
  ASSUME FtpInv, NEW s \in Sessions, NEW d, Current(s, d), Serve(s, d)
  PROVE  FtpInv'
BY SendFileStep, SendDirectoryStep DEF Serve

\* The callback for a data connection that opens keeps FtpInv.
LEMMA DataconnectedStep ==
  ASSUME FtpInv, NEW s \in Sessions, ftpd_dataconnected(s)
  PROVE  FtpInv'
<1> DEFINE d == [data[s] EXCEPT !.connected = TRUE]
<1>1. Current(s, d)
  BY CurrentData
<1>2. Serve(s, d) \/ (Remains(s, data, d) /\ UNCHANGED <<broken, pathVars, handleVars>>)
  BY DEF ftpd_dataconnected
<1> HIDE DEF d
<1>3. CASE Serve(s, d)
  BY <1>1, <1>3, ServeStep
<1>4. CASE Remains(s, data, d) /\ UNCHANGED <<broken, pathVars, handleVars>>
  <2>1. /\ d \in DataState /\ d.file = data[s].file /\ d.dir = data[s].dir
        /\ Ok(d, state[s], currentAccessor, virtualRootCycler) /\ broken \in BOOLEAN
    BY <1>1 DEF Current, FtpInv, FtpTypeOK
  <2>2. /\ UNCHANGED <<currentAccessor, virtualRootCycler>>
        /\ UNCHANGED <<FileHandleArray, DirectoryHandleArray>> /\ VirtualRootTypeOK'
    BY <1>4, Untouched
  <2>3. broken' \in BOOLEAN /\ (broken => broken')
    BY <1>4, <2>1
  <2>4. /\ SlotsOk(Sessions, FileSlots, With(FileOwner, s, d.file), FileHandleArray', broken')
        /\ SlotsOk(Sessions, DirSlots, With(DirOwner, s, d.dir), DirectoryHandleArray', broken')
    BY <2>1, <2>2, <2>3, SameSlots
  <2> QED BY <1>4, <2>1, <2>2, <2>3, <2>4, OthersSame, RemainsStep
<1> QED BY <1>2, <1>3, <1>4

\* So does the one for data of an upload,
LEMMA DatarecvStep ==
  ASSUME FtpInv, NEW s \in Sessions, ftpd_datarecv(s)
  PROVE  FtpInv'
<1>1. /\ data \in [Sessions -> DataState] /\ data[s] \in DataState /\ StorOk(data[s], currentAccessor)
      /\ broken \in BOOLEAN /\ state[s] = "STOR" /\ data[s].got < FileSize
  BY DEF FtpInv, FtpTypeOK, Ok, ftpd_datarecv
<1>2. PICK written \in (IF ~Accessible(data[s].file) THEN {0} ELSE IF DiskMayFill THEN {0, 1} ELSE {1}) :
        data' = [data EXCEPT ![s].got = @ + 1, ![s].kept = @ + written]
  BY Zenon DEF ftpd_datarecv
<1>3. written \in {0, 1} /\ (Accessible(data[s].file) /\ ~DiskMayFill => written = 1)
  BY <1>2
<1>4. /\ data[s].got \in Nat /\ data[s].kept \in Nat /\ data[s].kept <= data[s].got /\ FileSize \in Nat
      /\ data[s].file \in FileSlots
  BY <1>1, VirtualRootAssumption DEF DataState, StorOk
<1> DEFINE g == data[s].got + 1
           k == data[s].kept + written
           e == [data[s] EXCEPT !.got = g, !.kept = k]
<1>5. data' = [data EXCEPT ![s] = e]
  BY Zenon, <1>1, <1>2 DEF DataState
<1>6. g \in Nat /\ k \in 0..FileSize /\ k <= g /\ g <= FileSize
  BY <1>1, <1>3, <1>4
<1>7. data[s].crossed \/ DiskMayFill \/ k = g
  <2>1. CASE ~data[s].crossed /\ ~DiskMayFill
    <3>1. currentAccessor /\ data[s].kept = data[s].got
      BY <2>1, <1>1 DEF StorOk
    <3>2. FileHandleArray[data[s].file]
      BY Zenon, <1>4, OwnerTypes DEF FtpInv, SlotInv, SlotsOk
    <3>3. written = 1
      BY <3>1, <3>2, <2>1, <1>3 DEF Accessible
    <3> QED BY <3>1, <3>3
  <2> QED BY <2>1
<1> HIDE DEF g, k
<1>8. /\ e \in DataState /\ e.file = data[s].file /\ e.dir = data[s].dir /\ e.dirent = data[s].dirent
      /\ e.used = data[s].used /\ e.crossed = data[s].crossed /\ e.got = g /\ e.kept = k
  BY Zenon, <1>1, <1>6 DEF DataState
<1>9. Remains(s, data, e) /\ UNCHANGED <<broken, pathVars, handleVars>>
  BY Zenon, <1>5 DEF ftpd_datarecv, Remains
<1> HIDE DEF e
<1>10. /\ UNCHANGED <<currentAccessor, virtualRootCycler>>
       /\ UNCHANGED <<FileHandleArray, DirectoryHandleArray>> /\ VirtualRootTypeOK'
  BY <1>9, Untouched
<1>11. Ok(e, state[s], currentAccessor', virtualRootCycler')
  BY <1>1, <1>6, <1>7, <1>8, <1>10 DEF Ok, StorOk, Transfers
<1>12. broken' \in BOOLEAN /\ (broken => broken')
  BY <1>1, <1>9
<1>13. /\ SlotsOk(Sessions, FileSlots, With(FileOwner, s, e.file), FileHandleArray', broken')
       /\ SlotsOk(Sessions, DirSlots, With(DirOwner, s, e.dir), DirectoryHandleArray', broken')
  BY <1>8, <1>10, <1>12, SameSlots
<1> QED BY Zenon, <1>8, <1>9, <1>10, <1>11, <1>12, <1>13, OthersSame, RemainsStep

\* the one for the end of an upload,
LEMMA DatarecvEndStep ==
  ASSUME FtpInv, NEW s \in Sessions, ftpd_datarecvEnd(s)
  PROVE  FtpInv'
<1>1. /\ data[s].file # 0 /\ FileHandleArray' = vroot_close(data[s].file)
      /\ broken' = (broken \/ ~currentAccessor) /\ Ended(s, data)
      /\ UNCHANGED <<pathVars, DirectoryHandleArray, virtualRootCycler>>
  BY DEF ftpd_datarecvEnd
<1>2. /\ data[s] \in DataState /\ Ok(data[s], state[s], currentAccessor, virtualRootCycler)
      /\ state[s] \in Transfers \cup {"IDLE", "GONE"}
      /\ VirtualRootTypeOK /\ broken \in BOOLEAN /\ currentAccessor \in BOOLEAN
  BY DEF FtpInv, FtpTypeOK, VirtualRootTypeOK
<1>3. data[s].file \in FileSlots /\ data[s].dir = 0
  BY <1>1, <1>2 DEF DataState, Ok, IdleOk, RetrOk, StorOk, ListOk, Transfers
<1>4. /\ FileHandleArray \in [FileSlots -> BOOLEAN] /\ 0 \notin FileSlots /\ 0 \notin DirSlots
  BY OwnerTypes DEF InUse
<1>5. broken' \in BOOLEAN /\ (broken => broken')
  BY <1>1, <1>2, Zenon
<1>6. FileHandleArray' \in [FileSlots -> BOOLEAN]
  <2>1. CASE currentAccessor
    BY <2>1, <1>1, <1>3, <1>4 DEF vroot_close
  <2>2. CASE ~currentAccessor
    BY <2>2, <1>1, <1>4 DEF vroot_close
  <2> QED BY <2>1, <2>2
<1>7. VirtualRootTypeOK' /\ UNCHANGED <<currentAccessor, virtualRootCycler>> /\ UNCHANGED DirectoryHandleArray
  BY <1>1, <1>2, <1>6 DEF pathVars, VirtualRootTypeOK, FileSlots, DirSlots, CycleEnd
<1>8. SlotsOk(Sessions, FileSlots, With(FileOwner, s, 0), FileHandleArray', broken')
  <2>1. CASE currentAccessor
    <3>1. FileHandleArray' = With(FileHandleArray, data[s].file, FALSE)
      BY <2>1, <1>1 DEF vroot_close, With
    <3>2. broken' = broken
      BY <2>1, <1>1, <1>2
    <3> QED BY Zenon, <3>1, <3>2, <1>3, FilesGiven
  <2>2. CASE ~currentAccessor
    <3>1. FileHandleArray' = FileHandleArray /\ broken'
      BY Zenon, <2>2, <1>1 DEF vroot_close
    <3> QED BY Zenon, <3>1, <1>4, <1>5, FilesLost
  <2> QED BY <2>1, <2>2
<1>9. SlotsOk(Sessions, DirSlots, With(DirOwner, s, 0), DirectoryHandleArray', broken')
  BY <1>3, <1>5, <1>7, DirsKept
<1> QED BY Zenon, <1>1, <1>5, <1>7, <1>8, <1>9, OthersSame, EndedStep

\* A session loses its data connection, and what it had open.
LEMMA ConnectionLost ==
  ASSUME FtpInv, NEW s \in Sessions, NEW st \in {"IDLE", "GONE"},
         data' = [data EXCEPT ![s] = NoData], state' = [state EXCEPT ![s] = st],
         passive' \in [Sessions -> BOOLEAN], listening' \in [Sessions -> BOOLEAN], told226' = {},
         broken' = (broken \/ data[s].file # 0 \/ data[s].dir # 0), UNCHANGED <<pathVars, handleVars>>
  PROVE  FtpInv'
<1>1. /\ NoData \in DataState /\ NoData.file = 0 /\ NoData.dir = 0 /\ Ok(NoData, st, currentAccessor', virtualRootCycler')
  BY NoDataOk
<1>2. /\ UNCHANGED <<currentAccessor, virtualRootCycler>>
      /\ UNCHANGED <<FileHandleArray, DirectoryHandleArray>> /\ VirtualRootTypeOK'
  BY Untouched
<1>3. broken \in BOOLEAN /\ 0 \notin FileSlots /\ 0 \notin DirSlots
  BY OwnerTypes
<1>4. broken' \in BOOLEAN /\ (broken => broken')
  BY <1>3
<1>5. (data[s].file \notin FileSlots \/ broken') /\ (data[s].dir \notin DirSlots \/ broken')
  BY Zenon, <1>3
<1>6. SlotsOk(Sessions, FileSlots, With(FileOwner, s, NoData.file), FileHandleArray', broken')
  BY <1>1, <1>2, <1>3, <1>4, <1>5, FilesLost
<1>7. SlotsOk(Sessions, DirSlots, With(DirOwner, s, NoData.dir), DirectoryHandleArray', broken')
  BY <1>1, <1>2, <1>3, <1>4, <1>5, DirsLost
<1>8. st \in Transfers \cup {"IDLE", "GONE"} /\ told226' \subseteq Sessions
  OBVIOUS
<1>9. /\ data \in [Sessions -> DataState]
      /\ \A t \in Sessions : Ok(data[t], state[t], currentAccessor', virtualRootCycler')
  BY <1>2, OthersSame
<1> QED BY Zenon, <1>1, <1>2, <1>4, <1>6, <1>7, <1>8, <1>9, SessionStep

\* the one for a data connection that breaks,
LEMMA DataerrStep ==
  ASSUME FtpInv, NEW s \in Sessions, ftpd_dataerr(s)
  PROVE  FtpInv'
<1>1. passive' \in [Sessions -> BOOLEAN] /\ listening' \in [Sessions -> BOOLEAN]
  BY DEF ftpd_dataerr, FtpInv, FtpTypeOK
<1> QED BY Zenon, <1>1, ConnectionLost DEF ftpd_dataerr, Silent

\* the one for a control connection that closes,
LEMMA MsgcloseStep ==
  ASSUME FtpInv, NEW s \in Sessions, ftpd_msgclose(s)
  PROVE  FtpInv'
<1>1. passive \in [Sessions -> BOOLEAN] /\ listening \in [Sessions -> BOOLEAN]
  BY DEF FtpInv, FtpTypeOK
<1>2. passive' \in [Sessions -> BOOLEAN] /\ listening' \in [Sessions -> BOOLEAN]
  BY <1>1 DEF ftpd_msgclose
<1> QED BY Zenon, <1>2, ConnectionLost DEF ftpd_msgclose, Silent

\* A session that is not in a transfer, and the data connection it would use.
LEMMA AskingSession ==
  ASSUME FtpInv, NEW s \in Sessions, state[s] \in {"IDLE", "GONE"}
  PROVE  /\ data[s] \in DataState /\ IdleOk(data[s]) /\ data[s].file = 0 /\ data[s].dir = 0
         /\ open_dataconnection(s) \in DataState /\ IdleOk(open_dataconnection(s))
         /\ \A st \in {"IDLE", "GONE"} : \A acc, cyc : Ok(data[s], st, acc, cyc)
<1>1. data[s] \in DataState /\ Ok(data[s], state[s], currentAccessor, virtualRootCycler)
  BY DEF FtpInv, FtpTypeOK
<1>2. IdleOk(data[s])
  BY <1>1 DEF Ok, Transfers
<1>3. NewData \in DataState /\ IdleOk(NewData)
  BY NoDataOk
<1>4. \A st \in {"IDLE", "GONE"} : \A acc, cyc : Ok(data[s], st, acc, cyc)
  BY <1>2 DEF Ok, Transfers
<1>5. data[s].file = 0 /\ data[s].dir = 0
  BY <1>2 DEF IdleOk
<1> QED BY <1>1, <1>2, <1>3, <1>4, <1>5 DEF open_dataconnection

\* the one for a client that connects,
LEMMA MsgacceptStep ==
  ASSUME FtpInv, NEW s \in Sessions, ftpd_msgaccept(s)
  PROVE  FtpInv'
<1>1. /\ state[s] = "GONE" /\ state' = [state EXCEPT ![s] = "IDLE"] /\ told226' = {}
      /\ data' = data /\ broken' = broken /\ UNCHANGED <<passive, listening, pathVars, handleVars>>
  BY DEF ftpd_msgaccept, Silent
<1>2. /\ UNCHANGED <<currentAccessor, virtualRootCycler>>
      /\ UNCHANGED <<FileHandleArray, DirectoryHandleArray>> /\ VirtualRootTypeOK'
  BY <1>1, Untouched
<1>3. /\ data \in [Sessions -> DataState] /\ broken' \in BOOLEAN /\ (broken => broken')
      /\ passive' \in [Sessions -> BOOLEAN] /\ listening' \in [Sessions -> BOOLEAN]
      /\ told226' \subseteq Sessions /\ "IDLE" \in Transfers \cup {"IDLE", "GONE"}
  BY <1>1 DEF FtpInv, FtpTypeOK
<1>4. data[s] \in DataState /\ Ok(data[s], "IDLE", currentAccessor', virtualRootCycler')
  BY <1>1, AskingSession
<1>5. data' = [data EXCEPT ![s] = data[s]]
  BY <1>1, <1>3
<1>6. /\ SlotsOk(Sessions, FileSlots, With(FileOwner, s, data[s].file), FileHandleArray', broken')
      /\ SlotsOk(Sessions, DirSlots, With(DirOwner, s, data[s].dir), DirectoryHandleArray', broken')
  BY <1>2, <1>3, SameSlots
<1>7. \A t \in Sessions : Ok(data[t], state[t], currentAccessor', virtualRootCycler')
  BY <1>2, OthersSame
<1> QED BY Zenon, <1>1, <1>2, <1>3, <1>4, <1>5, <1>6, <1>7, SessionStep

\* A step that changes nothing but the answer.
LEMMA NothingChanges ==
  ASSUME FtpInv, told226' \subseteq Sessions,
         UNCHANGED <<state, passive, listening, data, broken, pathVars, handleVars>>
  PROVE  FtpInv'
<1>1. /\ VirtualRootTypeOK' /\ UNCHANGED <<currentAccessor, virtualRootCycler>>
      /\ UNCHANGED <<FileHandleArray, DirectoryHandleArray>>
  BY Untouched
<1>2. FtpTypeOK'
  BY <1>1 DEF FtpInv, FtpTypeOK, DataState, FileSlots, DirSlots, VirtualRootDirHandle, Transfers
<1>3. SlotInv'
  <2>1. FileOwner' = FileOwner /\ DirOwner' = DirOwner
    BY DEF FileOwner, DirOwner
  <2>2. QED
    BY <1>1, <2>1 DEF FtpInv, SlotInv, FileSlots, DirSlots
<1>4. \A t \in Sessions : Ok(data[t], state[t], currentAccessor, virtualRootCycler)'
  <2>1. \A t \in Sessions : Ok(data'[t], state'[t], currentAccessor', virtualRootCycler')
    BY Zenon, <1>1 DEF FtpInv
  <2>2. QED
    BY Zenon, <2>1 DEF Ok, IdleOk, RetrOk, StorOk, ListOk, Waiting, Transfers, DirSlots, VirtualRootDirHandle
<1> QED BY <1>2, <1>3, <1>4 DEF FtpInv

\* PASV,
LEMMA PasvStep ==
  ASSUME FtpInv, NEW s \in Sessions, cmd_pasv(s)
  PROVE  FtpInv'
<1>1. /\ state[s] = "IDLE" /\ told226' = {} /\ UNCHANGED <<state, broken, pathVars, handleVars>>
  BY DEF cmd_pasv, Asks, Silent
<1>2. CASE UNCHANGED <<passive, listening, data>>
  BY <1>1, <1>2, NothingChanges
<1>3. CASE /\ data' = [data EXCEPT ![s] = NewData]
           /\ listening' = [listening EXCEPT ![s] = TRUE] /\ passive' = [passive EXCEPT ![s] = TRUE]
  <2>1. /\ UNCHANGED <<currentAccessor, virtualRootCycler>>
        /\ UNCHANGED <<FileHandleArray, DirectoryHandleArray>> /\ VirtualRootTypeOK'
    BY <1>1, Untouched
  <2>2. /\ data \in [Sessions -> DataState] /\ broken' \in BOOLEAN /\ (broken => broken')
        /\ passive \in [Sessions -> BOOLEAN] /\ listening \in [Sessions -> BOOLEAN]
        /\ state \in [Sessions -> Transfers \cup {"IDLE", "GONE"}]
        /\ told226' \subseteq Sessions /\ "IDLE" \in Transfers \cup {"IDLE", "GONE"}
    BY <1>1 DEF FtpInv, FtpTypeOK
  <2>3. passive' \in [Sessions -> BOOLEAN] /\ listening' \in [Sessions -> BOOLEAN]
    BY <1>3, <2>2
  <2>4. NewData \in DataState /\ Ok(NewData, "IDLE", currentAccessor', virtualRootCycler')
    BY NoDataOk
  <2>5. NewData.file = data[s].file /\ NewData.dir = data[s].dir
    BY Zenon, <1>1, NoDataOk, AskingSession
  <2>6. state' = [state EXCEPT ![s] = "IDLE"]
    BY <1>1, <2>2
  <2>7. /\ SlotsOk(Sessions, FileSlots, With(FileOwner, s, NewData.file), FileHandleArray', broken')
        /\ SlotsOk(Sessions, DirSlots, With(DirOwner, s, NewData.dir), DirectoryHandleArray', broken')
    BY <2>1, <2>2, <2>5, SameSlots
  <2>8. \A t \in Sessions : Ok(data[t], state[t], currentAccessor', virtualRootCycler')
    BY <2>1, OthersSame
  <2> QED BY Zenon, <1>3, <2>1, <2>2, <2>3, <2>4, <2>6, <2>7, <2>8, SessionStep
<1> QED BY <1>2, <1>3 DEF cmd_pasv

\* A transfer that begins.
LEMMA BeginsStep ==
  ASSUME FtpInv, NEW s \in Sessions, NEW transfer \in Transfers, NEW e \in DataState,
         Begins(s, transfer, e), UNCHANGED <<passive, listening, broken, currentAccessor, virtualRootCycler>>,
         VirtualRootTypeOK', Ok(e, transfer, currentAccessor, virtualRootCycler),
         SlotsOk(Sessions, FileSlots, With(FileOwner, s, e.file), FileHandleArray', broken'),
         SlotsOk(Sessions, DirSlots, With(DirOwner, s, e.dir), DirectoryHandleArray', broken')
  PROVE  FtpInv'
<1>1. /\ data \in [Sessions -> DataState] /\ broken' \in BOOLEAN
      /\ passive' \in [Sessions -> BOOLEAN] /\ listening' \in [Sessions -> BOOLEAN]
  BY ZenonT(30) DEF FtpInv, FtpTypeOK
<1>2. /\ state' = [state EXCEPT ![s] = transfer] /\ data' = [data EXCEPT ![s] = e]
      /\ told226' \subseteq Sessions /\ transfer \in Transfers \cup {"IDLE", "GONE"}
  BY ZenonT(30) DEF Begins, Silent
<1>3. \A t \in Sessions : Ok(data[t], state[t], currentAccessor', virtualRootCycler')
  BY OthersSame
<1>4. Ok(e, transfer, currentAccessor', virtualRootCycler')
  OBVIOUS
<1> QED BY ZenonT(30), <1>1, <1>2, <1>3, <1>4, SessionStep

\* RETR and STOR,
LEMMA TransferStep ==
  ASSUME FtpInv, NEW s \in Sessions, NEW transfer \in {"RETR", "STOR"}, Transfer(s, transfer)
  PROVE  FtpInv'
<1>1. /\ state[s] = "IDLE"
      /\ UNCHANGED <<passive, listening, broken, pathVars, DirectoryHandleArray, virtualRootCycler>>
  BY DEF Transfer, MayTransfer, Asks
<1>2. CASE Silent /\ UNCHANGED <<state, data, FileHandleArray>>
  BY <1>1, <1>2, NothingChanges DEF Silent, handleVars
<1>3. CASE /\ vroot_open # 0 /\ FileHandleArray' = Opened(vroot_open)
           /\ Begins(s, transfer, [open_dataconnection(s) EXCEPT !.file = vroot_open, !.total = FileSize])
  <2> DEFINE h == vroot_open
             b == open_dataconnection(s)
             e == [b EXCEPT !.file = h, !.total = FileSize]
  <2>1. FileHandleArray \in [FileSlots -> BOOLEAN] /\ broken \in BOOLEAN /\ VirtualRootTypeOK /\ 0 \notin FileSlots
    BY OwnerTypes DEF InUse, FtpInv, FtpTypeOK
  <2>2. currentAccessor /\ h = FirstUnused(FileHandleArray)
    BY <1>3 DEF vroot_open
  <2>3. h \in FileSlots /\ ~FileHandleArray[h]
    BY Zenon, <1>3, <2>1, <2>2, FirstUnusedIsFree DEF FileSlots
  <2>4. b \in DataState /\ IdleOk(b) /\ data[s].file = 0 /\ data[s].dir = 0
    BY <1>1, AskingSession
  <2>5. Begins(s, transfer, e) /\ FileHandleArray' = With(FileHandleArray, h, TRUE)
    BY <1>3 DEF Opened, With
  <2> HIDE DEF h, b
  <2>6. /\ e \in DataState /\ e.file = h /\ e.total = FileSize /\ e.dir = b.dir /\ e.dirent = b.dirent
        /\ e.used = b.used /\ e.got = b.got /\ e.kept = b.kept /\ e.mixed = b.mixed /\ e.crossed = b.crossed
    <3>1. FileSize \in Nat
      BY VirtualRootAssumption
    <3> QED BY Zenon, <2>3, <2>4, <3>1 DEF DataState
  <2> HIDE DEF e
  <2>7. /\ e.dir = 0 /\ e.dirent = "NULL" /\ e.used = 0 /\ e.got = 0 /\ e.kept = 0 /\ ~e.mixed /\ e.file # 0
    BY <2>1, <2>3, <2>4, <2>6 DEF IdleOk
  <2>8. 0 <= FileSize
    BY VirtualRootAssumption
  <2>9. Ok(e, transfer, currentAccessor, virtualRootCycler)
    <3>1. 0 <= 0
      OBVIOUS
    <3>2. RetrOk(e, currentAccessor)
      BY <2>2, <2>6, <2>7, <2>8, Zenon DEF RetrOk
    <3>3. StorOk(e, currentAccessor)
      BY <2>2, <2>7, <2>8, <3>1, Zenon DEF StorOk
    <3> QED BY <3>2, <3>3 DEF Ok, Transfers
  <2>10. SlotsOk(Sessions, FileSlots, With(FileOwner, s, h), FileHandleArray', broken')
    BY Zenon, <1>1, <2>1, <2>3, <2>4, <2>5, FilesTaken
  <2>11. SlotsOk(Sessions, DirSlots, With(DirOwner, s, e.dir), DirectoryHandleArray', broken')
    BY <1>1, <2>1, <2>4, <2>7, DirsKept
  <2>12. FileHandleArray' \in [FileSlots -> BOOLEAN]
    BY <2>1, <2>3, <2>5 DEF With
  <2>13. VirtualRootTypeOK' /\ UNCHANGED currentAccessor
    BY <1>1, <2>1, <2>12 DEF pathVars, VirtualRootTypeOK, FileSlots, DirSlots, CycleEnd
  <2>14. transfer \in Transfers
    BY DEF Transfers
  <2> QED BY ZenonT(30), <1>1, <2>5, <2>6, <2>9, <2>10, <2>11, <2>13, <2>14, BeginsStep
<1> QED BY <1>2, <1>3 DEF Transfer

\* LIST,
LEMMA ListStep ==
  ASSUME FtpInv, NEW s \in Sessions, cmd_list_common(s)
  PROVE  FtpInv'
<1>1. /\ state[s] = "IDLE"
      /\ UNCHANGED <<passive, listening, broken, pathVars, FileHandleArray, virtualRootCycler>>
  BY DEF cmd_list_common, MayTransfer, Asks
<1>2. CASE Silent /\ UNCHANGED <<state, data, DirectoryHandleArray>>
  BY <1>1, <1>2, NothingChanges DEF Silent, handleVars
<1> DEFINE h == vroot_opendir
           b == open_dataconnection(s)
           total == IF currentAccessor THEN Entries ELSE Partitions
           crossed == ~currentAccessor /\ virtualRootCycler # 0
           e == [b EXCEPT !.dir = h, !.dirent = "NULL", !.total = total, !.crossed = crossed]
<1>3. CASE h # 0 /\ DirectoryHandleArray' = OpenedDir(h) /\ Begins(s, "LIST", e)
  <2>1. /\ DirectoryHandleArray \in [DirSlots -> BOOLEAN] /\ broken \in BOOLEAN /\ VirtualRootTypeOK
        /\ 0 \notin DirSlots /\ VirtualRootDirHandle \notin DirSlots /\ currentAccessor \in BOOLEAN
    BY OwnerTypes DEF InUse, FtpInv, FtpTypeOK, VirtualRootTypeOK
  <2>2. /\ currentAccessor => h \in DirSlots /\ ~DirectoryHandleArray[h]
        /\ ~currentAccessor => h = VirtualRootDirHandle
    <3>1. CASE currentAccessor
      <4>1. h = FirstUnused(DirectoryHandleArray)
        BY <3>1 DEF vroot_opendir
      <4> QED BY Zenon, <4>1, <3>1, <1>3, <2>1, FirstUnusedIsFree DEF DirSlots
    <3>2. CASE ~currentAccessor
      BY <3>2 DEF vroot_opendir
    <3> QED BY <3>1, <3>2
  <2>3. h \in DirSlots \cup {0, VirtualRootDirHandle}
    BY <2>1, <2>2
  <2>4. b \in DataState /\ IdleOk(b) /\ data[s].file = 0 /\ data[s].dir = 0
    BY Zenon, <1>1, AskingSession
  <2>5. Partitions \in Nat /\ Entries \in Nat
    BY VirtualRootAssumption
  <2>6. total \in Nat /\ crossed \in BOOLEAN
    BY <2>5
  <2>7. total = (IF currentAccessor THEN Entries ELSE Partitions) /\ crossed = (~currentAccessor /\ virtualRootCycler # 0)
    OBVIOUS
  <2> HIDE DEF h, b, total, crossed
  <2>8. /\ e \in DataState /\ e.dir = h /\ e.dirent = "NULL" /\ e.total = total /\ e.crossed = crossed
        /\ e.file = b.file /\ e.got = b.got /\ e.kept = b.kept /\ e.mixed = b.mixed
    BY Zenon, <2>3, <2>4, <2>6 DEF DataState
  <2>9. Begins(s, "LIST", e)
    BY <1>3
  <2> HIDE DEF e
  <2>10. /\ e.file = 0 /\ e.got = 0 /\ e.kept = 0 /\ ~e.mixed /\ e.dir # 0 /\ Waiting(e) = 0 /\ e.dirent # "other"
    BY <1>3, <2>4, <2>8 DEF IdleOk, Waiting
  <2>11. /\ e.dir \in DirSlots => currentAccessor /\ e.total = Entries
         /\ e.dir = VirtualRootDirHandle => ~currentAccessor /\ e.total = Partitions
         /\ e.crossed \/ currentAccessor \/ virtualRootCycler = 0
    BY Zenon, <2>1, <2>2, <2>7, <2>8
  <2>12. ListOk(e, currentAccessor, virtualRootCycler)
    <3>1. e.total \in Nat
      BY <2>6, <2>8
    <3>2. e.got <= e.total + 1
      BY <3>1, <2>10
    <3>3. e.dir \in DirSlots => e.total = Entries /\ e.got + Waiting(e) <= Entries
      BY <2>5, <2>10, <2>11
    <3>4. e.dir = VirtualRootDirHandle =>
            /\ ~currentAccessor /\ e.total = Partitions
            /\ e.crossed \/ (virtualRootCycler = e.got + Waiting(e) /\ virtualRootCycler <= Partitions)
      BY <2>5, <2>10, <2>11
    <3> QED BY <3>2, <3>3, <3>4, <2>10, <2>11, Zenon DEF ListOk
  <2>13. Ok(e, "LIST", currentAccessor, virtualRootCycler)
    BY <2>12 DEF Ok, Transfers
  <2>14. broken' = broken /\ broken' \in BOOLEAN /\ (broken => broken') /\ FileHandleArray' = FileHandleArray
    BY <1>1, <2>1
  <2>15. SlotsOk(Sessions, FileSlots, With(FileOwner, s, e.file), FileHandleArray', broken')
    BY <2>4, <2>10, <2>14, FilesKept
  <2>16. /\ SlotsOk(Sessions, DirSlots, With(DirOwner, s, h), DirectoryHandleArray', broken')
         /\ DirectoryHandleArray' \in [DirSlots -> BOOLEAN]
    <3>1. CASE currentAccessor
      <4>1. DirectoryHandleArray' = With(DirectoryHandleArray, h, TRUE) /\ h \in DirSlots /\ ~DirectoryHandleArray[h]
        BY <3>1, <1>3, <2>2 DEF OpenedDir, With
      <4>2. data[s].dir \notin DirSlots
        BY <2>1, <2>4
      <4>3. SlotsOk(Sessions, DirSlots, With(DirOwner, s, h), DirectoryHandleArray', broken')
        BY Zenon, <4>1, <4>2, <2>14, DirsTaken
      <4>4. DirectoryHandleArray' \in [DirSlots -> BOOLEAN]
        BY <4>1, <2>1 DEF With
      <4> QED BY <4>3, <4>4
    <3>2. CASE ~currentAccessor
      <4>1. DirectoryHandleArray' = DirectoryHandleArray /\ h \notin DirSlots
        BY <3>2, <1>3, <2>1, <2>2 DEF OpenedDir
      <4>2. data[s].dir \notin DirSlots
        BY <2>1, <2>4
      <4>3. SlotsOk(Sessions, DirSlots, With(DirOwner, s, h), DirectoryHandleArray', broken')
        BY <4>1, <4>2, <2>14, DirsLost
      <4> QED BY <4>1, <4>3, <2>1
    <3> QED BY <3>1, <3>2
  <2>17. VirtualRootTypeOK' /\ UNCHANGED currentAccessor
    BY <1>1, <2>1, <2>16 DEF pathVars, VirtualRootTypeOK, FileSlots, DirSlots, CycleEnd
  <2>18. "LIST" \in Transfers
    BY DEF Transfers
  <2> QED BY ZenonT(30), <1>1, <2>8, <2>9, <2>13, <2>15, <2>16, <2>17, <2>18, BeginsStep
<1> QED BY <1>2, <1>3 DEF cmd_list_common

\* The working directories after CWD or CDUP.
LEMMA CdTypes ==
  ASSUME VirtualRootTypeOK, vroot_cd
  PROVE  /\ cwd' \in [path : Dirs \cup {<<>>}, slash : BOOLEAN] /\ currentAccessor' \in BOOLEAN
         /\ fatDir' \in Dirs \cup {<<>>}
<1>1. /\ cwd \in [path : Dirs \cup {<<>>}, slash : BOOLEAN] /\ currentAccessor \in BOOLEAN
      /\ fatDir \in Dirs \cup {<<>>}
  BY DEF VirtualRootTypeOK
<1>2. CASE BackToRoot
  BY Zenon, <1>1, <1>2 DEF BackToRoot
<1>3. ASSUME NEW p, NEW slash \in BOOLEAN, Enter(p, slash)
      PROVE  /\ cwd' \in [path : Dirs \cup {<<>>}, slash : BOOLEAN] /\ currentAccessor' \in BOOLEAN
             /\ fatDir' \in Dirs \cup {<<>>}
  BY <1>3 DEF Enter
<1>4. CASE UNCHANGED pathVars
  BY <1>1, <1>4 DEF pathVars
<1>5. CASE \E path \in Dirs \cup {<<>>}, slash \in BOOLEAN : pathProcess_Absolute(path, slash)
  BY <1>2, <1>3, <1>5 DEF pathProcess_Absolute
<1>6. CASE \E p \in Dirs : pathProcess_GoingForward(p[Len(p)])
  BY Zenon, <1>3, <1>6 DEF pathProcess_GoingForward
<1>7. CASE pathProcess_GoingBack
  BY Zenon, <1>2, <1>3, <1>4, <1>7 DEF pathProcess_GoingBack
<1> QED BY <1>5, <1>6, <1>7 DEF vroot_cd

\* and CWD, which changes the directory under the transfers of all sessions.
LEMMA CwdStep ==
  ASSUME FtpInv, NEW s \in Sessions, cmd_cwd(s)
  PROVE  FtpInv'
<1>1. /\ state[s] = "IDLE" /\ vroot_cd /\ data' = Moved(s) /\ told226' = {}
      /\ UNCHANGED <<state, passive, listening, broken, handleVars>>
  BY DEF cmd_cwd, Asks, Silent
<1>2. /\ data \in [Sessions -> DataState] /\ VirtualRootTypeOK /\ broken \in BOOLEAN
      /\ \A t \in Sessions : Ok(data[t], state[t], currentAccessor, virtualRootCycler)
  BY DEF FtpInv, FtpTypeOK
<1>3. /\ VirtualRootTypeOK' /\ virtualRootCycler' = virtualRootCycler
      /\ UNCHANGED <<FileHandleArray, DirectoryHandleArray>>
  BY <1>1, <1>2, CdTypes DEF VirtualRootTypeOK, handleVars, FileSlots, DirSlots, CycleEnd
<1>4. ASSUME NEW t \in Sessions
      PROVE  /\ Moved(s)[t] \in DataState
             /\ Moved(s)[t].file = data[t].file /\ Moved(s)[t].dir = data[t].dir
             /\ Ok(Moved(s)[t], state[t], currentAccessor', virtualRootCycler')
  <2>1. Moved(s)[t] = [data[t] EXCEPT !.crossed = @ \/ (t # s /\ state[t] \in Transfers)]
    BY DEF Moved
  <2>2. (t # s /\ state[t] \in Transfers) = (state[t] \in Transfers)
    BY <1>1 DEF Transfers
  <2>3. Moved(s)[t] = MovedData(data[t], state[t])
    BY <2>1, <2>2 DEF MovedData
  <2> DEFINE e == MovedData(data[t], state[t])
  <2>4. e \in DataState /\ e.file = data[t].file /\ e.dir = data[t].dir /\ Ok(e, state[t], currentAccessor', virtualRootCycler)
    BY <1>2, OkWhenMoved
  <2> QED BY Zenon, <2>3, <2>4, <1>3
<1>5. Moved(s) = [t \in Sessions |-> Moved(s)[t]]
  BY DEF Moved
<1>6. Moved(s) \in [Sessions -> DataState]
  BY <1>4, <1>5
<1> DEFINE e == Moved(s)[s]
<1>7. Remains(s, Moved(s), e)
  BY <1>1, <1>6 DEF Remains, Silent
<1>8. broken' \in BOOLEAN /\ (broken => broken')
  BY <1>1, <1>2
<1>9. /\ SlotsOk(Sessions, FileSlots, With(FileOwner, s, e.file), FileHandleArray', broken')
      /\ SlotsOk(Sessions, DirSlots, With(DirOwner, s, e.dir), DirectoryHandleArray', broken')
  BY Zenon, <1>3, <1>4, <1>8, SameSlots
<1> QED BY Zenon, <1>3, <1>4, <1>6, <1>7, <1>8, <1>9, RemainsStep

\* The server starts without clients.
LEMMA FtpInitially ==
  ASSUME FtpInit
  PROVE  FtpInv
<1>1. /\ NoData \in DataState /\ NoData.file = 0 /\ NoData.dir = 0
      /\ Ok(NoData, "GONE", currentAccessor, virtualRootCycler)
  BY NoDataOk
<1>2. 0 \in 0..Partitions /\ 0 \notin FileSlots /\ 0 \notin DirSlots
  BY VirtualRootAssumption DEF FileSlots, DirSlots
<1>3. VirtualRootTypeOK
  BY Zenon, <1>2 DEF FtpInit, VirtualRootInit, VirtualRootTypeOK
<1>4. FtpTypeOK
  BY Zenon, <1>1, <1>3 DEF FtpInit, FtpTypeOK, Transfers
<1>5. SlotInv
  BY <1>1, <1>2 DEF FtpInit, VirtualRootInit, SlotInv, SlotsOk, FileOwner, DirOwner
<1>6. \A s \in Sessions : Ok(data[s], state[s], currentAccessor, virtualRootCycler)
  BY <1>1 DEF FtpInit
<1> QED BY <1>4, <1>5, <1>6 DEF FtpInv

\* FtpInv is inductive.
LEMMA FtpStep ==
  ASSUME FtpInv, [FtpNext]_ftpVars
  PROVE  FtpInv'
<1>1. ASSUME NEW s \in Sessions, ftpd_datasent(s)
      PROVE  FtpInv'
  BY Zenon, <1>1, CurrentData, ServeStep DEF ftpd_datasent
<1>2. ASSUME NEW s \in Sessions, cmd_retr(s) \/ cmd_stor(s)
      PROVE  FtpInv'
  BY <1>2, TransferStep DEF cmd_retr, cmd_stor
<1>3. CASE UNCHANGED ftpVars
  <2>1. told226 \subseteq Sessions
    BY DEF FtpInv, FtpTypeOK
  <2> QED BY <1>3, <2>1, NothingChanges DEF ftpVars
<1>4. CASE FtpNext
  BY <1>1, <1>2, <1>4, DataconnectedStep, DatarecvStep, DatarecvEndStep, DataerrStep, MsgacceptStep,
     MsgcloseStep, PasvStep, ListStep, CwdStep DEF FtpNext
<1> QED BY <1>3, <1>4

\* FtpInv holds in every state.
LEMMA FtpInvariant == FtpSpec => []FtpInv
<1>1. FtpInit => FtpInv
  BY FtpInitially
<1>2. FtpInv /\ [FtpNext]_ftpVars => FtpInv'
  BY FtpStep
<1> QED BY <1>1, <1>2, PTL DEF FtpSpec

(****************************************************************************)
(* Theorems.                                                                *)

\* Sessions, data connections, slots and paths keep their types: the send
\* queue never holds more than sfifo has room for.
THEOREM FtpTypeCorrect == FtpSpec => []FtpTypeOK
<1>1. FtpInv => FtpTypeOK
  BY DEF FtpInv
<1> QED BY <1>1, FtpInvariant, PTL

\* fatxopen and fatxopendir never hand out the slot a transfer works on.
THEOREM HandlesStayApart == FtpSpec => []HandlesApart
<1>1. ASSUME FtpInv
      PROVE  HandlesApart
  <2>1. \A s \in Sessions : data[s].file \in FileSlots \cup {0}
    BY <1>1 DEF FtpInv, FtpTypeOK, DataState
  <2>2. \A s \in Sessions : FileOwner[s] = data[s].file /\ DirOwner[s] = data[s].dir
    BY <1>1, OwnerTypes
  <2> QED BY <1>1, <2>1, <2>2 DEF FtpInv, SlotInv, SlotsOk, HandlesApart
<1>2. FtpInv => HandlesApart
  BY <1>1
<1> QED BY <1>2, FtpInvariant, PTL

\* As long as no transfer was cut off, or closed its file from the wrong
\* directory, every slot in use is that of a transfer under way.
THEOREM SlotsComeBack == FtpSpec => []NoStraySlot
<1>1. ASSUME FtpInv
      PROVE  NoStraySlot
  <2>1. \A s \in Sessions : FileOwner[s] = data[s].file /\ DirOwner[s] = data[s].dir
    BY <1>1, OwnerTypes
  <2> QED BY <1>1, <2>1 DEF FtpInv, SlotInv, SlotsOk, NoStraySlot
<1>2. FtpInv => NoStraySlot
  BY <1>1
<1> QED BY <1>2, FtpInvariant, PTL

\* The virtual root and FatFS agree on the working directory, whatever
\* sequence of CWD and CDUP the sessions send.
THEOREM DirectoriesAgree == FtpSpec => []OneDirectory
<1>1. FtpInit => OneDirectory
  BY DEF FtpInit, VirtualRootInit, OneDirectory
<1>2. ASSUME OneDirectory, BackToRoot
      PROVE  OneDirectory'
  BY <1>2 DEF OneDirectory, BackToRoot
<1>3. ASSUME NEW p, NEW slash, Enter(p, slash)
      PROVE  OneDirectory'
  <2>1. p # <<>>
    BY <1>3, VirtualRootAssumption DEF Enter
  <2> QED BY <1>3, <2>1 DEF Enter, OneDirectory
<1>4. ASSUME OneDirectory, UNCHANGED pathVars
      PROVE  OneDirectory'
  BY <1>4 DEF OneDirectory, pathVars
<1>5. ASSUME OneDirectory, vroot_cd
      PROVE  OneDirectory'
  <2>1. CASE \E path \in Dirs \cup {<<>>}, slash \in BOOLEAN : pathProcess_Absolute(path, slash)
    BY <2>1, <1>2, <1>3, <1>5 DEF pathProcess_Absolute
  <2>2. CASE \E p \in Dirs : pathProcess_GoingForward(p[Len(p)])
    BY Zenon, <2>2, <1>3 DEF pathProcess_GoingForward
  <2>3. CASE pathProcess_GoingBack
    BY Zenon, <2>3, <1>2, <1>3, <1>4, <1>5 DEF pathProcess_GoingBack
  <2> QED BY <2>1, <2>2, <2>3, <1>5 DEF vroot_cd
<1>6. ASSUME OneDirectory, FtpNext
      PROVE  OneDirectory'
  <2>1. PICK s \in Sessions :
          \/ ftpd_datasent(s) \/ ftpd_dataconnected(s) \/ ftpd_datarecv(s) \/ ftpd_datarecvEnd(s)
          \/ ftpd_dataerr(s) \/ ftpd_msgaccept(s) \/ ftpd_msgclose(s)
          \/ cmd_pasv(s) \/ cmd_list_common(s) \/ cmd_retr(s) \/ cmd_stor(s) \/ cmd_cwd(s)
    BY <1>6 DEF FtpNext
  <2>2. ASSUME NEW d, Serve(s, d)
        PROVE  UNCHANGED pathVars
    <3>1. CASE send_file(s, d)
      BY ZenonT(30), <3>1 DEF send_file, Finished
    <3>2. CASE send_next_directory(s, d)
      BY Zenon, <3>2 DEF send_next_directory, Finished
    <3> QED BY <2>2, <3>1, <3>2 DEF Serve
  <2>3. UNCHANGED pathVars \/ vroot_cd
    BY <2>1, <2>2, Zenon DEF ftpd_datasent, ftpd_dataconnected, ftpd_datarecv, ftpd_datarecvEnd, ftpd_dataerr,
       ftpd_msgaccept, ftpd_msgclose, cmd_pasv, cmd_list_common, cmd_retr, cmd_stor, Transfer, cmd_cwd
  <2> QED BY <2>3, <1>4, <1>5, <1>6
<1>7. OneDirectory /\ [FtpNext]_ftpVars => OneDirectory'
  BY <1>4, <1>6 DEF ftpVars
<1> QED BY <1>1, <1>7, PTL DEF FtpSpec

\* The disjunction SuccessIsWhole promises of a session told 226.
Excused(s) == Whole(s) \/ Given(s) \/ data[s].crossed

\* A download that ends with 226 was whole or is excused.
LEMMA RetrIsWhole ==
  ASSUME FtpInv, NEW s \in Sessions, NEW d, Current(s, d), state[s] = "RETR", send_file(s, d), told226' # {}
  PROVE  told226' = {s} /\ Excused(s)
<1>1. d.file = 0 /\ Drained(d.used) /\ told226' = {s}
  BY ZenonT(30) DEF send_file, Finished, Ended, Remains, Silent
<1>2. /\ RetrOk(d, currentAccessor) /\ d.used = data[s].used /\ d.got = data[s].got
      /\ d.total = data[s].total /\ d.mixed = data[s].mixed /\ d.crossed = data[s].crossed
  BY DEF Current, Ok
<1> QED BY <1>1, <1>2 DEF RetrOk, Excused, Whole, Drained

\* So was a listing.
LEMMA ListIsWhole ==
  ASSUME FtpInv, NEW s \in Sessions, NEW d, Current(s, d), state[s] = "LIST", send_next_directory(s, d),
         told226' # {}
  PROVE  told226' = {s} /\ Excused(s)
<1> DEFINE waiting == IF d.dirent = "NULL" THEN 0 ELSE 1
           space == FifoSpace - d.used
           left == Left(d.dir, d.got + waiting)
           n == Lower(space - waiting, left)
<1>1. /\ told226' = {s}
      /\ \/ d.dir = 0 /\ Drained(d.used)
         \/ d.dir # 0 /\ space >= waiting /\ left = n /\ Drained(d.used + waiting + n)
  BY ZenonT(30) DEF send_next_directory, Finished, Ended, Remains, Silent
<1>2. /\ d \in DataState /\ ListOk(d, currentAccessor, virtualRootCycler) /\ d.used = data[s].used
      /\ d.got = data[s].got /\ d.total = data[s].total /\ d.mixed = data[s].mixed
      /\ d.crossed = data[s].crossed
  BY DEF Current, Ok
<1>3. waiting = Waiting(d) /\ waiting \in {0, 1}
  BY DEF Waiting
<1>4. d.used \in Nat /\ d.got \in Nat /\ d.total \in Nat
  BY <1>2 DEF DataState
<1>5. ~d.crossed => ~d.mixed
  BY ZenonT(30), <1>2 DEF ListOk
<1>6. CASE d.dir = 0 /\ Drained(d.used)
  BY ZenonT(30), <1>1, <1>2, <1>5, <1>6 DEF ListOk, Excused, Whole, Drained
<1>7. CASE d.dir # 0 /\ space >= waiting /\ left = n /\ Drained(d.used + waiting + n)
  <2>1. n \in Nat /\ (~d.crossed => Lower(d.got + waiting + n, d.total + 1) = d.total)
    BY <1>3, <1>7, ListNumbers
  <2> HIDE DEF waiting, space, left, n
  <2>2. d.used = 0 /\ waiting = 0 /\ n = 0
    BY <1>3, <1>4, <1>7, <2>1 DEF Drained
  <2>3. ~d.crossed => d.got = d.total
    BY <1>4, <2>1, <2>2 DEF Lower
  <2> QED BY ZenonT(30), <1>1, <1>2, <1>5, <2>2, <2>3 DEF Excused, Whole
<1> QED BY <1>1, <1>6, <1>7

\* On a disk that is never full, a session is told 226 only when all it asked
\* for went out or was stored, it ended a download itself, or another session
\* came between.
THEOREM ToldWhenWhole ==
  ASSUME DiskMayFill = FALSE
  PROVE  FtpSpec => SuccessIsWhole
<1>1. ASSUME FtpInv, NEW s \in Sessions, NEW d, Current(s, d), Serve(s, d), told226' # {}
      PROVE  told226' = {s} /\ Excused(s)
  BY <1>1, RetrIsWhole, ListIsWhole DEF Serve
<1>2. ASSUME FtpInv, NEW s \in Sessions, ftpd_datasent(s), told226' # {}
      PROVE  told226' = {s} /\ Excused(s)
  BY Zenon, <1>1, <1>2, CurrentData DEF ftpd_datasent
<1>3. ASSUME FtpInv, NEW s \in Sessions, ftpd_dataconnected(s), told226' # {}
      PROVE  told226' = {s} /\ Excused(s)
  <2> DEFINE d == [data[s] EXCEPT !.connected = TRUE]
  <2>1. Current(s, d)
    BY <1>3, CurrentData
  <2>2. Serve(s, d)
    BY <1>3 DEF ftpd_dataconnected, Remains, Silent
  <2> HIDE DEF d
  <2> QED BY <1>1, <1>3, <2>1, <2>2
<1>4. ASSUME FtpInv, NEW s \in Sessions, ftpd_datarecvEnd(s)
      PROVE  told226' = {s} /\ Excused(s)
  <2>1. told226' = {s} /\ data[s].file # 0
    BY <1>4 DEF ftpd_datarecvEnd, Ended
  <2>2. Ok(data[s], state[s], currentAccessor, virtualRootCycler) /\ state[s] \in Transfers \cup {"IDLE", "GONE"}
    BY <1>4 DEF FtpInv, FtpTypeOK
  <2>3. state[s] \in {"RETR", "STOR"} /\ (state[s] = "STOR" => StorOk(data[s], currentAccessor))
    BY Zenon, <2>1, <2>2 DEF Ok, IdleOk, ListOk, Transfers
  <2> QED BY <2>1, <2>3 DEF StorOk, Excused, Whole, Given
<1>5. ASSUME FtpInv, FtpNext, told226' # {}
      PROVE  \E s \in Sessions : told226' = {s} /\ Excused(s)
  <2>1. ASSUME NEW s \in Sessions,
               \/ ftpd_datarecv(s) \/ ftpd_dataerr(s) \/ ftpd_msgaccept(s) \/ ftpd_msgclose(s)
               \/ cmd_pasv(s) \/ cmd_list_common(s) \/ cmd_retr(s) \/ cmd_stor(s) \/ cmd_cwd(s)
        PROVE  told226' = {}
    BY <2>1, Zenon DEF ftpd_datarecv, ftpd_dataerr, ftpd_msgaccept, ftpd_msgclose, cmd_pasv, cmd_list_common,
       cmd_retr, cmd_stor, Transfer, Begins, cmd_cwd, Silent
  <2> QED BY <1>2, <1>3, <1>4, <1>5, <2>1, Zenon DEF FtpNext
<1>6. ASSUME FtpInv, [FtpNext]_ftpVars
      PROVE  [\A s \in Sessions : Succeeds(s) => Whole(s) \/ Given(s) \/ data[s].crossed]_ftpVars
  <2>1. CASE FtpNext
    BY <1>5, <1>6, <2>1 DEF Succeeds, Excused
  <2>2. CASE UNCHANGED ftpVars
    BY <2>2
  <2> QED BY <1>6, <2>1, <2>2
<1>7. FtpInv /\ [FtpNext]_ftpVars
        => [\A s \in Sessions : Succeeds(s) => Whole(s) \/ Given(s) \/ data[s].crossed]_ftpVars
  BY <1>6
<1> QED BY <1>7, FtpInvariant, PTL DEF FtpSpec, SuccessIsWhole
=============================================================================
