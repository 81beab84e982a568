--------------------------- MODULE FtpDataProofs ---------------------------
(* The lemmas under FtpServerProofs: the slots, the inductive invariant of  *)
(* the FTP server, and the steps of send_file and of a listing.             *)
EXTENDS FtpServer, TLAPS

(****************************************************************************)
(* Slots.  own says which slot a session uses, arr which slots are in use.  *)

With(f, x, y) == [f EXCEPT ![x] = y]
Owners(S, H) == [S -> H \cup {0, VirtualRootDirHandle}]
InUse(H) == [H -> BOOLEAN]

SlotsOk(S, H, own, arr, lost) ==
  /\ \A s \in S : own[s] \in H => arr[own[s]] /\ \A t \in S \ {s} : own[s] # own[t]
  /\ lost \/ \A h \in H : arr[h] => \E s \in S : own[s] = h

\* A session that uses no slot takes one that is free.
LEMMA SlotTaken ==
  ASSUME NEW S, NEW H, NEW own \in Owners(S, H), NEW arr \in InUse(H), NEW lost \in BOOLEAN,
         SlotsOk(S, H, own, arr, lost),
         NEW s \in S, own[s] \notin H, NEW h \in H, ~arr[h]
  PROVE  SlotsOk(S, H, With(own, s, h), With(arr, h, TRUE), lost)
<1> DEFINE own2 == With(own, s, h)
           arr2 == With(arr, h, TRUE)
<1>1. \A t \in S : own2[t] = IF t = s THEN h ELSE own[t]
  BY DEF With, Owners, InUse
<1>2. \A g \in H : arr2[g] = IF g = h THEN TRUE ELSE arr[g]
  BY DEF With, Owners, InUse
<1>3. \A t \in S : own[t] # h
  BY DEF SlotsOk
<1> HIDE DEF own2, arr2
<1>4. ASSUME NEW t \in S, own2[t] \in H
      PROVE  arr2[own2[t]] /\ \A u \in S \ {t} : own2[t] # own2[u]
  <2>1. CASE t = s
    <3>1. own2[t] = h /\ arr2[h]
      BY Zenon, <2>1, <1>1, <1>2
    <3>2. \A u \in S \ {t} : own2[u] # h
      BY <2>1, <1>1, <1>3
    <3> QED BY <3>1, <3>2
  <2>2. CASE t # s
    <3>1. own2[t] = own[t] /\ own[t] \in H /\ own[t] # h
      BY <2>2, <1>1, <1>3, <1>4
    <3>2. arr[own[t]] /\ \A u \in S \ {t} : own[t] # own[u]
      BY <3>1 DEF SlotsOk
    <3>3. arr2[own2[t]]
      BY Zenon, <3>1, <3>2, <1>2
    <3>4. \A u \in S \ {t} : own2[t] # own2[u]
      BY <3>1, <3>2, <1>1
    <3> QED BY <3>3, <3>4
  <2> QED BY <2>1, <2>2
<1>5. ASSUME ~lost, NEW g \in H, arr2[g]
      PROVE  \E t \in S : own2[t] = g
  <2>1. CASE g = h
    BY <2>1, <1>1
  <2>2. CASE g # h
    <3>1. PICK t \in S : own[t] = g
      BY Zenon, <2>2, <1>2, <1>5 DEF SlotsOk
    <3>2. own2[t] = g
      BY <3>1, <1>1
    <3> QED BY <3>2
  <2> QED BY <2>1, <2>2
<1>6. SlotsOk(S, H, own2, arr2, lost)
  BY <1>4, <1>5 DEF SlotsOk
<1> QED BY Zenon, <1>6 DEF own2, arr2

\* A session gives its slot back.
LEMMA SlotGiven ==
  ASSUME NEW S, NEW H, NEW own \in Owners(S, H), NEW arr \in InUse(H), NEW lost \in BOOLEAN,
         SlotsOk(S, H, own, arr, lost),
         NEW s \in S, own[s] \in H, 0 \notin H
  PROVE  SlotsOk(S, H, With(own, s, 0), With(arr, own[s], FALSE), lost)
<1> DEFINE own2 == With(own, s, 0)
           arr2 == With(arr, own[s], FALSE)
<1>1. \A t \in S : own2[t] = IF t = s THEN 0 ELSE own[t]
  BY DEF With, Owners, InUse
<1>2. \A g \in H : arr2[g] = IF g = own[s] THEN FALSE ELSE arr[g]
  BY DEF With, Owners, InUse
<1> HIDE DEF own2, arr2
<1>4. ASSUME NEW t \in S, own2[t] \in H
      PROVE  arr2[own2[t]] /\ \A u \in S \ {t} : own2[t] # own2[u]
  <2>1. t # s /\ own2[t] = own[t] /\ own[t] \in H
    BY <1>1, <1>4
  <2>2. arr[own[t]] /\ \A u \in S \ {t} : own[t] # own[u]
    BY <2>1 DEF SlotsOk
  <2>3. own[t] # own[s]
    BY <2>1, <2>2
  <2>4. arr2[own2[t]]
    BY Zenon, <2>1, <2>2, <2>3, <1>2
  <2>5. \A u \in S \ {t} : own2[t] # own2[u]
    BY <2>1, <2>2, <1>1
  <2> QED BY <2>4, <2>5
<1>5. ASSUME ~lost, NEW g \in H, arr2[g]
      PROVE  \E t \in S : own2[t] = g
  <2>1. g # own[s] /\ arr[g]
    BY Zenon, <1>2, <1>5
  <2>2. PICK t \in S : own[t] = g
    BY <2>1, <1>5 DEF SlotsOk
  <2>3. own2[t] = g
    BY <2>1, <2>2, <1>1
  <2> QED BY <2>3
<1>6. SlotsOk(S, H, own2, arr2, lost)
  BY <1>4, <1>5 DEF SlotsOk
<1> QED BY Zenon, <1>6 DEF own2, arr2

\* A session forgets its slot, if it uses one, which stays in use for good.
LEMMA SlotLost ==
  ASSUME NEW S, NEW H, NEW own \in Owners(S, H), NEW arr \in InUse(H),
         NEW lost \in BOOLEAN, NEW lost2 \in BOOLEAN,
         SlotsOk(S, H, own, arr, lost), lost => lost2,
         NEW s \in S, NEW x, x \notin H, own[s] \notin H \/ lost2
  PROVE  SlotsOk(S, H, With(own, s, x), arr, lost2)
<1> DEFINE own2 == With(own, s, x)
<1>1. \A t \in S : own2[t] = IF t = s THEN x ELSE own[t]
  BY DEF With, Owners, InUse
<1> HIDE DEF own2
<1>4. ASSUME NEW t \in S, own2[t] \in H
      PROVE  arr[own2[t]] /\ \A u \in S \ {t} : own2[t] # own2[u]
  BY <1>1, <1>4 DEF SlotsOk
<1>5. ASSUME ~lost2, NEW g \in H, arr[g]
      PROVE  \E t \in S : own2[t] = g
  <2>2. PICK t \in S : own[t] = g
    BY <1>5 DEF SlotsOk
  <2>3. own2[t] = g
    BY <2>2, <1>1, <1>5
  <2> QED BY <2>3
<1>6. SlotsOk(S, H, own2, arr, lost2)
  BY <1>4, <1>5 DEF SlotsOk
<1> QED BY <1>6 DEF own2

\* Nothing happens to the slots.
LEMMA SlotsSame ==
  ASSUME NEW S, NEW H, NEW own, NEW arr, NEW lost \in BOOLEAN, NEW lost2 \in BOOLEAN,
         SlotsOk(S, H, own, arr, lost), lost => lost2
  PROVE  SlotsOk(S, H, own, arr, lost2)
BY DEF SlotsOk

\* What FirstUnused finds is a slot that is not in use.
LEMMA FirstUnusedIsFree ==
  ASSUME NEW n, NEW slots \in [1..n -> BOOLEAN], FirstUnused(slots) # 0
  PROVE  FirstUnused(slots) \in 1..n /\ ~slots[FirstUnused(slots)]
<1> DEFINE first(h) == ~slots[h] /\ \A g \in 1..h - 1 : slots[g]
<1>1. DOMAIN slots = 1..n
  OBVIOUS
<1>2. FirstUnused(slots) = IF \E h \in 1..n : first(h) THEN CHOOSE h \in 1..n : first(h) ELSE 0
  BY <1>1 DEF FirstUnused
<1>3. \E h \in 1..n : first(h)
  BY <1>2, Zenon
<1>4. FirstUnused(slots) = CHOOSE h \in 1..n : first(h)
  BY <1>2, <1>3, Zenon
<1>5. FirstUnused(slots) \in 1..n /\ first(FirstUnused(slots))
  BY <1>3, <1>4, Zenon
<1> QED BY <1>5

(****************************************************************************)
(* The inductive invariant.  What is known of the data connection d of a    *)
(* session in state st; acc and cyc stand for currentAccessor and           *)
(* virtualRootCycler.                                                       *)

Waiting(d) == IF d.dirent = "NULL" THEN 0 ELSE 1

IdleOk(d) ==
  /\ d.file = 0 /\ d.dir = 0 /\ d.dirent = "NULL" /\ d.used = 0
  /\ d.got = 0 /\ d.kept = 0 /\ ~d.mixed /\ ~d.crossed

RetrOk(d, acc) ==
  /\ d.dir = 0 /\ d.dirent = "NULL" /\ d.kept = 0 /\ ~d.mixed
  /\ d.got <= FileSize /\ d.total = FileSize
  /\ d.crossed \/ (d.file = 0 /\ d.got = FileSize) \/ (d.file # 0 /\ acc)

StorOk(d, acc) ==
  /\ d.file # 0 /\ d.dir = 0 /\ d.dirent = "NULL" /\ d.used = 0
  /\ d.kept <= d.got /\ d.got <= FileSize
  /\ d.crossed \/ acc
  /\ d.crossed \/ DiskMayFill \/ d.kept = d.got

ListOk(d, acc, cyc) ==
  /\ d.file = 0 /\ d.kept = 0 /\ d.got <= d.total + 1
  /\ d.dir \in DirSlots => d.total = Entries /\ d.got + Waiting(d) <= Entries
  /\ d.dir = 0 => d.dirent = "NULL"
  /\ \/ d.crossed
     \/ /\ ~d.mixed /\ d.dirent # "other"
        /\ d.dir = 0 => d.got = d.total
        /\ d.dir \in DirSlots => acc
        /\ d.dir = VirtualRootDirHandle =>
             ~acc /\ d.total = Partitions /\ cyc = d.got + Waiting(d) /\ cyc <= Partitions

Ok(d, st, acc, cyc) ==
  /\ st \notin Transfers => IdleOk(d)
  /\ st = "RETR" => RetrOk(d, acc)
  /\ st = "STOR" => StorOk(d, acc)
  /\ st = "LIST" => ListOk(d, acc, cyc)

FileOwner == [s \in Sessions |-> data[s].file]
DirOwner == [s \in Sessions |-> data[s].dir]

SlotInv ==
  /\ SlotsOk(Sessions, FileSlots, FileOwner, FileHandleArray, broken)
  /\ SlotsOk(Sessions, DirSlots, DirOwner, DirectoryHandleArray, broken)

FtpInv ==
  /\ FtpTypeOK
  /\ SlotInv
  /\ \A s \in Sessions : Ok(data[s], state[s], currentAccessor, virtualRootCycler)

\* Another session's data connection when session s moves.
MovedData(d, st) == [d EXCEPT !.crossed = @ \/ st \in Transfers]

\* A data connection stays in order when another session changes the directory.
LEMMA OkWhenMoved ==
  ASSUME NEW d \in DataState, NEW st, NEW acc, NEW acc2, NEW cyc, Ok(d, st, acc, cyc),
         NEW e, e = MovedData(d, st)
  PROVE  e \in DataState /\ e.file = d.file /\ e.dir = d.dir /\ Ok(e, st, acc2, cyc)
<1>1. /\ e \in DataState
      /\ e.file = d.file /\ e.dir = d.dir /\ e.dirent = d.dirent /\ e.used = d.used /\ e.got = d.got
      /\ e.kept = d.kept /\ e.total = d.total /\ e.mixed = d.mixed
      /\ e.crossed = (d.crossed \/ st \in Transfers)
  BY Zenon DEF DataState, MovedData
<1>2. CASE st \notin Transfers
  BY Zenon, <1>1, <1>2 DEF Ok, IdleOk, Transfers
<1>3. CASE st \in Transfers
  BY Zenon, <1>1, <1>3 DEF Ok, RetrOk, StorOk, ListOk, Waiting, Transfers
<1> QED BY <1>1, <1>2, <1>3

\* Another session's data connection when session s reads a directory.
ListedData(d, st) ==
  IF st = "LIST"
  THEN [d EXCEPT !.crossed = TRUE, !.dirent = IF @ = "own" THEN "other" ELSE @]
  ELSE d

\* It does when another session lists the root.
LEMMA OkWhenListed ==
  ASSUME NEW d \in DataState, NEW st, NEW acc, NEW cyc, NEW cyc2, Ok(d, st, acc, cyc),
         NEW e, e = ListedData(d, st)
  PROVE  e \in DataState /\ e.file = d.file /\ e.dir = d.dir /\ Ok(e, st, acc, cyc2)
<1>1. CASE st # "LIST"
  BY <1>1 DEF Ok, ListedData
<1>2. CASE st = "LIST"
  <2>1. /\ e \in DataState
        /\ e.file = d.file /\ e.dir = d.dir /\ e.got = d.got /\ e.kept = d.kept /\ e.total = d.total
        /\ e.crossed /\ e.dirent = IF d.dirent = "own" THEN "other" ELSE d.dirent
    BY Zenon, <1>2 DEF DataState, ListedData
  <2>2. Waiting(e) = Waiting(d) /\ (d.dirent = "NULL" => e.dirent = "NULL")
    BY <2>1 DEF Waiting
  <2>3. ListOk(e, acc, cyc2)
    BY <2>1, <2>2, <1>2 DEF Ok, ListOk
  <2>4. Ok(e, st, acc, cyc2)
    BY <2>3, <1>2 DEF Ok, Transfers
  <2> QED BY <2>1, <2>4
<1> QED BY <1>1, <1>2

\* A session keeps what it has.
LEMMA SlotKept ==
  ASSUME NEW S, NEW H, NEW own \in Owners(S, H), NEW arr,
         NEW lost \in BOOLEAN, NEW lost2 \in BOOLEAN,
         SlotsOk(S, H, own, arr, lost), lost => lost2, NEW s \in S
  PROVE  SlotsOk(S, H, With(own, s, own[s]), arr, lost2)
<1>1. With(own, s, own[s]) = own
  BY DEF With, Owners
<1>2. SlotsOk(S, H, own, arr, lost2)
  BY SlotsSame
<1> QED BY <1>1, <1>2, Zenon

\* The types of the slots and of who owns them.
LEMMA OwnerTypes ==
  ASSUME FtpInv
  PROVE  /\ FileOwner \in Owners(Sessions, FileSlots)
         /\ DirOwner \in Owners(Sessions, DirSlots)
         /\ FileHandleArray \in InUse(FileSlots) /\ DirectoryHandleArray \in InUse(DirSlots)
         /\ broken \in BOOLEAN
         /\ 0 \notin FileSlots /\ 0 \notin DirSlots /\ VirtualRootDirHandle \notin DirSlots
         /\ \A s \in Sessions : FileOwner[s] = data[s].file /\ DirOwner[s] = data[s].dir
<1>1. data \in [Sessions -> DataState]
  BY DEF FtpInv, FtpTypeOK
<1>2. \A s \in Sessions : data[s].file \in FileSlots \cup {0} /\ data[s].dir \in DirSlots \cup {0, VirtualRootDirHandle}
  BY <1>1 DEF DataState
<1>3. 0 \notin FileSlots /\ 0 \notin DirSlots /\ VirtualRootDirHandle \notin DirSlots
  BY VirtualRootAssumption DEF FileSlots, DirSlots, VirtualRootDirHandle
<1> QED BY <1>2, <1>3 DEF FtpInv, FtpTypeOK, VirtualRootTypeOK, FileOwner, DirOwner, Owners, InUse

\* The file slots, for a session that keeps, gives back, loses or takes one.
LEMMA FilesKept ==
  ASSUME FtpInv, NEW s \in Sessions, NEW x, x = data[s].file,
         UNCHANGED FileHandleArray, broken' \in BOOLEAN, broken => broken'
  PROVE  SlotsOk(Sessions, FileSlots, With(FileOwner, s, x), FileHandleArray', broken')
<1>1. /\ FileOwner \in Owners(Sessions, FileSlots) /\ FileHandleArray \in InUse(FileSlots)
      /\ broken \in BOOLEAN /\ 0 \notin FileSlots /\ FileOwner[s] = data[s].file
      /\ SlotsOk(Sessions, FileSlots, FileOwner, FileHandleArray, broken)
  BY OwnerTypes DEF FtpInv, SlotInv
<1>2. SlotsOk(Sessions, FileSlots, With(FileOwner, s, FileOwner[s]), FileHandleArray, broken')
  BY <1>1, SlotKept, Zenon
<1> QED BY <1>1, <1>2

\* A session closes the file it owns.
LEMMA FilesGiven ==
  ASSUME FtpInv, NEW s \in Sessions, data[s].file \in FileSlots,
         FileHandleArray' = With(FileHandleArray, data[s].file, FALSE), broken' = broken
  PROVE  SlotsOk(Sessions, FileSlots, With(FileOwner, s, 0), FileHandleArray', broken')
<1>1. /\ FileOwner \in Owners(Sessions, FileSlots) /\ FileHandleArray \in InUse(FileSlots)
      /\ broken \in BOOLEAN /\ 0 \notin FileSlots /\ FileOwner[s] = data[s].file
      /\ SlotsOk(Sessions, FileSlots, FileOwner, FileHandleArray, broken)
  BY OwnerTypes DEF FtpInv, SlotInv
<1>2. SlotsOk(Sessions, FileSlots, With(FileOwner, s, 0), With(FileHandleArray, FileOwner[s], FALSE), broken)
  BY <1>1, SlotGiven, Zenon
<1> QED BY <1>1, <1>2, Zenon

\* A session loses its handle without a close.
LEMMA FilesLost ==
  ASSUME FtpInv, NEW s \in Sessions, NEW x, x \notin FileSlots, UNCHANGED FileHandleArray,
         broken' \in BOOLEAN, broken => broken', data[s].file \notin FileSlots \/ broken'
  PROVE  SlotsOk(Sessions, FileSlots, With(FileOwner, s, x), FileHandleArray', broken')
<1>1. /\ FileOwner \in Owners(Sessions, FileSlots) /\ FileHandleArray \in InUse(FileSlots)
      /\ broken \in BOOLEAN /\ 0 \notin FileSlots /\ FileOwner[s] = data[s].file
      /\ SlotsOk(Sessions, FileSlots, FileOwner, FileHandleArray, broken)
  BY OwnerTypes DEF FtpInv, SlotInv
<1>2. SlotsOk(Sessions, FileSlots, With(FileOwner, s, x), FileHandleArray, broken')
  BY <1>1, SlotLost, Zenon
<1> QED BY <1>2

\* A session opens a file in a free slot.
LEMMA FilesTaken ==
  ASSUME FtpInv, NEW s \in Sessions, data[s].file \notin FileSlots, NEW h \in FileSlots, ~FileHandleArray[h],
         FileHandleArray' = With(FileHandleArray, h, TRUE), broken' = broken
  PROVE  SlotsOk(Sessions, FileSlots, With(FileOwner, s, h), FileHandleArray', broken')
<1>1. /\ FileOwner \in Owners(Sessions, FileSlots) /\ FileHandleArray \in InUse(FileSlots)
      /\ broken \in BOOLEAN /\ 0 \notin FileSlots /\ FileOwner[s] = data[s].file
      /\ SlotsOk(Sessions, FileSlots, FileOwner, FileHandleArray, broken)
  BY OwnerTypes DEF FtpInv, SlotInv
<1>2. SlotsOk(Sessions, FileSlots, With(FileOwner, s, h), With(FileHandleArray, h, TRUE), broken)
  BY <1>1, SlotTaken, Zenon
<1> QED BY <1>2, Zenon

\* The directory slots, for a session that keeps, gives back, loses or takes one.
LEMMA DirsKept ==
  ASSUME FtpInv, NEW s \in Sessions, NEW x, x = data[s].dir,
         UNCHANGED DirectoryHandleArray, broken' \in BOOLEAN, broken => broken'
  PROVE  SlotsOk(Sessions, DirSlots, With(DirOwner, s, x), DirectoryHandleArray', broken')
<1>1. /\ DirOwner \in Owners(Sessions, DirSlots) /\ DirectoryHandleArray \in InUse(DirSlots)
      /\ broken \in BOOLEAN /\ 0 \notin DirSlots /\ DirOwner[s] = data[s].dir
      /\ SlotsOk(Sessions, DirSlots, DirOwner, DirectoryHandleArray, broken)
  BY OwnerTypes DEF FtpInv, SlotInv
<1>2. SlotsOk(Sessions, DirSlots, With(DirOwner, s, DirOwner[s]), DirectoryHandleArray, broken')
  BY <1>1, SlotKept, Zenon
<1> QED BY <1>1, <1>2

\* A session closes the directory it owns.
LEMMA DirsGiven ==
  ASSUME FtpInv, NEW s \in Sessions, data[s].dir \in DirSlots,
         DirectoryHandleArray' = With(DirectoryHandleArray, data[s].dir, FALSE), broken' = broken
  PROVE  SlotsOk(Sessions, DirSlots, With(DirOwner, s, 0), DirectoryHandleArray', broken')
<1>1. /\ DirOwner \in Owners(Sessions, DirSlots) /\ DirectoryHandleArray \in InUse(DirSlots)
      /\ broken \in BOOLEAN /\ 0 \notin DirSlots /\ DirOwner[s] = data[s].dir
      /\ SlotsOk(Sessions, DirSlots, DirOwner, DirectoryHandleArray, broken)
  BY OwnerTypes DEF FtpInv, SlotInv
<1>2. SlotsOk(Sessions, DirSlots, With(DirOwner, s, 0), With(DirectoryHandleArray, DirOwner[s], FALSE), broken)
  BY <1>1, SlotGiven, Zenon
<1> QED BY <1>1, <1>2, Zenon

\* A session loses its handle of a directory without a close.
LEMMA DirsLost ==
  ASSUME FtpInv, NEW s \in Sessions, NEW x, x \notin DirSlots, UNCHANGED DirectoryHandleArray,
         broken' \in BOOLEAN, broken => broken', data[s].dir \notin DirSlots \/ broken'
  PROVE  SlotsOk(Sessions, DirSlots, With(DirOwner, s, x), DirectoryHandleArray', broken')
<1>1. /\ DirOwner \in Owners(Sessions, DirSlots) /\ DirectoryHandleArray \in InUse(DirSlots)
      /\ broken \in BOOLEAN /\ 0 \notin DirSlots /\ DirOwner[s] = data[s].dir
      /\ SlotsOk(Sessions, DirSlots, DirOwner, DirectoryHandleArray, broken)
  BY OwnerTypes DEF FtpInv, SlotInv
<1>2. SlotsOk(Sessions, DirSlots, With(DirOwner, s, x), DirectoryHandleArray, broken')
  BY <1>1, SlotLost, Zenon
<1> QED BY <1>2

\* A session opens a directory in a free slot.
LEMMA DirsTaken ==
  ASSUME FtpInv, NEW s \in Sessions, data[s].dir \notin DirSlots, NEW h \in DirSlots, ~DirectoryHandleArray[h],
         DirectoryHandleArray' = With(DirectoryHandleArray, h, TRUE), broken' = broken
  PROVE  SlotsOk(Sessions, DirSlots, With(DirOwner, s, h), DirectoryHandleArray', broken')
<1>1. /\ DirOwner \in Owners(Sessions, DirSlots) /\ DirectoryHandleArray \in InUse(DirSlots)
      /\ broken \in BOOLEAN /\ 0 \notin DirSlots /\ DirOwner[s] = data[s].dir
      /\ SlotsOk(Sessions, DirSlots, DirOwner, DirectoryHandleArray, broken)
  BY OwnerTypes DEF FtpInv, SlotInv
<1>2. SlotsOk(Sessions, DirSlots, With(DirOwner, s, h), With(DirectoryHandleArray, h, TRUE), broken)
  BY <1>1, SlotTaken, Zenon
<1> QED BY <1>2, Zenon

\* A step of one session that changes its state, its data connection and
\* perhaps what is known of the others.
LEMMA SessionStep ==
  ASSUME FtpInv, NEW s \in Sessions, NEW all \in [Sessions -> DataState], NEW e \in DataState,
         NEW st \in Transfers \cup {"IDLE", "GONE"},
         \A t \in Sessions : all[t].file = data[t].file /\ all[t].dir = data[t].dir,
         data' = [all EXCEPT ![s] = e], state' = [state EXCEPT ![s] = st],
         passive' \in [Sessions -> BOOLEAN], listening' \in [Sessions -> BOOLEAN],
         told226' \subseteq Sessions, broken' \in BOOLEAN, VirtualRootTypeOK',
         \A t \in Sessions \ {s} : Ok(all[t], state[t], currentAccessor', virtualRootCycler'),
         Ok(e, st, currentAccessor', virtualRootCycler'),
         SlotsOk(Sessions, FileSlots, With(FileOwner, s, e.file), FileHandleArray', broken'),
         SlotsOk(Sessions, DirSlots, With(DirOwner, s, e.dir), DirectoryHandleArray', broken')
  PROVE  FtpInv'
<1>1. /\ data' \in [Sessions -> DataState] /\ data'[s] = e
      /\ \A t \in Sessions \ {s} : data'[t] = all[t]
      /\ FileOwner' = With(FileOwner, s, e.file)
      /\ DirOwner' = With(DirOwner, s, e.dir)
  <2>1. /\ data' \in [Sessions -> DataState] /\ data'[s] = e
        /\ \A t \in Sessions \ {s} : data'[t] = all[t]
    OBVIOUS
  <2>2. \A t \in Sessions : data'[t].file = IF t = s THEN e.file ELSE data[t].file
    BY <2>1
  <2>3. \A t \in Sessions : data'[t].dir = IF t = s THEN e.dir ELSE data[t].dir
    BY <2>1
  <2>4. FileOwner' = With(FileOwner, s, e.file)
    BY Zenon, <2>2 DEF FileOwner, With
  <2>5. DirOwner' = With(DirOwner, s, e.dir)
    BY Zenon, <2>3 DEF DirOwner, With
  <2> QED BY <2>1, <2>4, <2>5
<1>2. SlotInv'
  BY <1>1 DEF SlotInv, FileSlots, DirSlots
<1>3. state \in [Sessions -> Transfers \cup {"IDLE", "GONE"}]
  BY DEF FtpInv, FtpTypeOK
<1>4. /\ state' \in [Sessions -> Transfers \cup {"IDLE", "GONE"}] /\ state'[s] = st
      /\ \A t \in Sessions \ {s} : state'[t] = state[t]
  BY <1>3
<1>5. FtpTypeOK'
  <2>1. /\ data' \in [Sessions -> DataState]
        /\ state' \in [Sessions -> Transfers \cup {"IDLE", "GONE"}]
    BY Zenon, <1>1, <1>4
  <2>2. DataState' = DataState /\ Transfers' = Transfers
    BY DEF DataState, FileSlots, DirSlots, VirtualRootDirHandle, Transfers
  <2>3. QED
    BY Zenon, <2>1, <2>2 DEF FtpTypeOK
<1>6. ASSUME NEW t \in Sessions
      PROVE  Ok(data'[t], state'[t], currentAccessor', virtualRootCycler')
  <2>1. CASE t = s
    BY <2>1, <1>1, <1>4
  <2>2. CASE t # s
    BY <2>2, <1>1, <1>4
  <2> QED BY <2>1, <2>2
<1>7. \A t \in Sessions : Ok(data[t], state[t], currentAccessor, virtualRootCycler)'
  BY Zenon, <1>6 DEF Ok, IdleOk, RetrOk, StorOk, ListOk, Waiting, Transfers, DirSlots, VirtualRootDirHandle
<1> QED BY <1>2, <1>5, <1>7 DEF FtpInv

\* What is known of a session whose data connection may just have come up.
Current(s, d) ==
  /\ d \in DataState /\ d.file = data[s].file /\ d.dir = data[s].dir
  /\ d.used = data[s].used /\ d.got = data[s].got /\ d.total = data[s].total
  /\ d.mixed = data[s].mixed /\ d.crossed = data[s].crossed
  /\ Ok(d, state[s], currentAccessor, virtualRootCycler)

\* The data connection of a session, opened or not, is in order.
LEMMA CurrentData ==
  ASSUME FtpInv, NEW s \in Sessions
  PROVE  Current(s, data[s]) /\ Current(s, [data[s] EXCEPT !.connected = TRUE])
<1>1. data[s] \in DataState /\ Ok(data[s], state[s], currentAccessor, virtualRootCycler)
  BY DEF FtpInv, FtpTypeOK
<1> DEFINE d == data[s]
           e == [data[s] EXCEPT !.connected = TRUE]
<1>2. /\ e \in DataState /\ e.file = d.file /\ e.dir = d.dir /\ e.dirent = d.dirent
      /\ e.used = d.used /\ e.got = d.got /\ e.kept = d.kept /\ e.total = d.total
      /\ e.mixed = d.mixed /\ e.crossed = d.crossed
  BY Zenon, <1>1 DEF DataState
<1> SUFFICES Current(s, d) /\ Current(s, e)
  OBVIOUS
<1> HIDE DEF e
<1>3. Ok(e, state[s], currentAccessor, virtualRootCycler)
  BY <1>1, <1>2 DEF Ok, IdleOk, RetrOk, StorOk, ListOk, Waiting
<1> QED BY <1>1, <1>2, <1>3 DEF Current

\* A data connection that is not there, and one that is new.
LEMMA NoDataOk ==
  ASSUME NEW acc, NEW cyc
  PROVE  /\ NoData \in DataState /\ NewData \in DataState
         /\ NoData.file = 0 /\ NoData.dir = 0 /\ NewData.file = 0 /\ NewData.dir = 0
         /\ IdleOk(NewData)
         /\ Ok(NoData, "IDLE", acc, cyc) /\ Ok(NoData, "GONE", acc, cyc) /\ Ok(NewData, "IDLE", acc, cyc)
<1>1. 0 \in 0..FifoSpace /\ 0 \in 0..FileSize
  BY VirtualRootAssumption, FtpAssumption
<1>2. /\ NoData \in DataState /\ NewData \in DataState
      /\ NoData.file = 0 /\ NoData.dir = 0 /\ NewData.file = 0 /\ NewData.dir = 0
  BY Zenon, <1>1 DEF NoData, NewData, DataState
<1>3. IdleOk(NoData) /\ IdleOk(NewData)
  BY DEF NoData, NewData, IdleOk
<1> QED BY <1>2, <1>3 DEF Ok, Transfers

\* A session that has nothing open ends its transfer.
LEMMA EndedStep ==
  ASSUME FtpInv, NEW s \in Sessions, NEW all \in [Sessions -> DataState],
         \A t \in Sessions : all[t].file = data[t].file /\ all[t].dir = data[t].dir,
         Ended(s, all), broken' \in BOOLEAN, VirtualRootTypeOK',
         \A t \in Sessions \ {s} : Ok(all[t], state[t], currentAccessor', virtualRootCycler'),
         SlotsOk(Sessions, FileSlots, With(FileOwner, s, 0), FileHandleArray', broken'),
         SlotsOk(Sessions, DirSlots, With(DirOwner, s, 0), DirectoryHandleArray', broken')
  PROVE  FtpInv'
<1>1. NoData \in DataState /\ NoData.file = 0 /\ NoData.dir = 0
  BY NoDataOk
<1>3. Ok(NoData, "IDLE", currentAccessor', virtualRootCycler')
  BY NoDataOk
<1>4. /\ data' = [all EXCEPT ![s] = NoData] /\ state' = [state EXCEPT ![s] = "IDLE"]
      /\ passive' \in [Sessions -> BOOLEAN] /\ listening' \in [Sessions -> BOOLEAN]
      /\ told226' \subseteq Sessions
  BY DEF Ended, FtpInv, FtpTypeOK
<1>5. "IDLE" \in Transfers \cup {"IDLE", "GONE"}
  OBVIOUS
<1> QED BY Zenon, <1>1, <1>3, <1>4, <1>5, SessionStep

\* The others when nothing they share has changed.
LEMMA OthersSame ==
  ASSUME FtpInv, UNCHANGED <<currentAccessor, virtualRootCycler>>
  PROVE  /\ data \in [Sessions -> DataState]
         /\ \A t \in Sessions : Ok(data[t], state[t], currentAccessor', virtualRootCycler')
BY DEF FtpInv, FtpTypeOK

\* A session that goes on with its transfer.
LEMMA RemainsStep ==
  ASSUME FtpInv, NEW s \in Sessions, NEW all \in [Sessions -> DataState], NEW e \in DataState,
         \A t \in Sessions : all[t].file = data[t].file /\ all[t].dir = data[t].dir,
         Remains(s, all, e), broken' \in BOOLEAN, VirtualRootTypeOK',
         \A t \in Sessions \ {s} : Ok(all[t], state[t], currentAccessor', virtualRootCycler'),
         Ok(e, state[s], currentAccessor', virtualRootCycler'),
         SlotsOk(Sessions, FileSlots, With(FileOwner, s, e.file), FileHandleArray', broken'),
         SlotsOk(Sessions, DirSlots, With(DirOwner, s, e.dir), DirectoryHandleArray', broken')
  PROVE  FtpInv'
<1>1. state \in [Sessions -> Transfers \cup {"IDLE", "GONE"}]
  BY DEF FtpInv, FtpTypeOK
<1>2. /\ data' = [all EXCEPT ![s] = e] /\ state' = [state EXCEPT ![s] = state[s]]
      /\ passive' \in [Sessions -> BOOLEAN] /\ listening' \in [Sessions -> BOOLEAN]
      /\ told226' \subseteq Sessions /\ state[s] \in Transfers \cup {"IDLE", "GONE"}
  BY <1>1 DEF Remains, Silent, FtpInv, FtpTypeOK
<1> QED BY ZenonT(30), <1>2, SessionStep

\* send_file keeps FtpInv.
LEMMA SendFileStep ==
  ASSUME FtpInv, NEW s \in Sessions, NEW d, Current(s, d), state[s] = "RETR", send_file(s, d)
  PROVE  FtpInv'
<1> DEFINE len == vroot_read(d.file, d.got, Lower(FifoSpace - d.used, FtpdBufferSize))
<1>t. /\ d \in DataState /\ RetrOk(d, currentAccessor) /\ d.dir = 0 /\ data[s].dir = 0
      /\ d.file = data[s].file /\ FileOwner[s] = d.file /\ DirOwner[s] = d.dir
  BY OwnerTypes DEF Current, Ok, RetrOk
<1>o. /\ FileOwner \in Owners(Sessions, FileSlots)
      /\ DirOwner \in Owners(Sessions, DirSlots)
      /\ FileHandleArray \in [FileSlots -> BOOLEAN] /\ DirectoryHandleArray \in [DirSlots -> BOOLEAN]
      /\ broken \in BOOLEAN /\ 0 \notin FileSlots /\ 0 \notin DirSlots
  BY OwnerTypes DEF InUse
<1>i. /\ SlotsOk(Sessions, FileSlots, FileOwner, FileHandleArray, broken)
      /\ SlotsOk(Sessions, DirSlots, DirOwner, DirectoryHandleArray, broken)
      /\ VirtualRootTypeOK
  BY DEF FtpInv, SlotInv, FtpTypeOK
<1>f. d.used \in 0..FifoSpace /\ d.got \in Nat /\ d.file \in FileSlots \cup {0}
  BY <1>t DEF DataState
<1>1. CASE d.file = 0 /\ Drained(d.used) /\ Finished(s)
  <2>1. /\ Ended(s, data) /\ broken' = broken /\ UNCHANGED <<currentAccessor, virtualRootCycler>>
        /\ UNCHANGED <<FileHandleArray, DirectoryHandleArray>> /\ VirtualRootTypeOK'
    BY <1>1, <1>i DEF Finished, pathVars, handleVars, VirtualRootTypeOK, FileSlots, DirSlots, CycleEnd
  <2>2. SlotsOk(Sessions, FileSlots, With(FileOwner, s, 0), FileHandleArray', broken')
    BY <1>1, <1>t, <1>o, <2>1, FilesLost, Zenon
  <2>3. SlotsOk(Sessions, DirSlots, With(DirOwner, s, 0), DirectoryHandleArray', broken')
    BY <1>t, <1>o, <2>1, DirsLost, Zenon
  <2> QED BY <1>o, <2>1, <2>2, <2>3, OthersSame, EndedStep
<1>2. CASE /\ d.used > 0 /\ (d.file = 0 \/ d.used = FifoSpace)
           /\ \E used \in send_data(d.used) : Remains(s, data, [d EXCEPT !.used = used])
           /\ UNCHANGED <<broken, pathVars, handleVars>>
  <2>1. PICK used \in 0..d.used : Remains(s, data, [d EXCEPT !.used = used])
    BY <1>2 DEF send_data
  <2> DEFINE e == [d EXCEPT !.used = used]
  <2>2. /\ e \in DataState /\ e.file = d.file /\ e.dir = d.dir /\ e.dirent = d.dirent
        /\ e.got = d.got /\ e.kept = d.kept /\ e.total = d.total
        /\ e.mixed = d.mixed /\ e.crossed = d.crossed
    <3>1. used \in 0..FifoSpace
      BY <1>f, FtpAssumption
    <3> QED BY <1>t, <3>1 DEF DataState
  <2>3. Remains(s, data, e)
    BY <2>1
  <2> HIDE DEF e
  <2>4. /\ broken' = broken /\ UNCHANGED <<currentAccessor, virtualRootCycler>>
        /\ UNCHANGED <<FileHandleArray, DirectoryHandleArray>> /\ VirtualRootTypeOK'
    BY <1>2, <1>i DEF pathVars, handleVars, VirtualRootTypeOK, FileSlots, DirSlots, CycleEnd
  <2>5. Ok(e, state[s], currentAccessor', virtualRootCycler')
    BY <1>t, <2>2, <2>4 DEF Ok, RetrOk, Transfers
  <2>6. SlotsOk(Sessions, FileSlots, With(FileOwner, s, e.file), FileHandleArray', broken')
    BY <1>t, <1>o, <2>2, <2>4, FilesKept, Zenon
  <2>7. SlotsOk(Sessions, DirSlots, With(DirOwner, s, e.dir), DirectoryHandleArray', broken')
    BY <1>t, <1>o, <2>2, <2>4, DirsKept, Zenon
  <2> QED BY <1>o, <2>2, <2>3, <2>4, <2>5, <2>6, <2>7, OthersSame, RemainsStep
<1>3. CASE /\ d.file # 0 /\ d.used < FifoSpace /\ len = 0 /\ vroot_eof(d.file, d.got) # 0
           /\ FileHandleArray' = vroot_close(d.file)
           /\ broken' = (broken \/ ~currentAccessor)
           /\ Remains(s, data, [d EXCEPT !.file = 0])
           /\ UNCHANGED <<pathVars, DirectoryHandleArray, virtualRootCycler>>
  <2> DEFINE e == [d EXCEPT !.file = 0]
  <2>2. /\ e \in DataState /\ e.file = 0 /\ e.dir = d.dir /\ e.dirent = d.dirent
        /\ e.got = d.got /\ e.kept = d.kept /\ e.total = d.total
        /\ e.mixed = d.mixed /\ e.crossed = d.crossed
    BY <1>t, <1>f DEF DataState
  <2>3. Remains(s, data, e)
    BY <1>3
  <2>a. currentAccessor \in BOOLEAN
    BY <1>i DEF VirtualRootTypeOK
  <2> HIDE DEF e
  <2>4. /\ broken' \in BOOLEAN /\ (broken => broken') /\ UNCHANGED <<currentAccessor, virtualRootCycler>>
        /\ UNCHANGED DirectoryHandleArray
    BY <1>3, <1>o, <2>a, Zenon DEF pathVars
  <2>5. FileHandleArray' \in [FileSlots -> BOOLEAN]
    <3>1. CASE currentAccessor
      BY <3>1, <1>3, <1>o, <1>f DEF vroot_close
    <3>2. CASE ~currentAccessor
      BY <3>2, <1>3, <1>o DEF vroot_close
    <3> QED BY <3>1, <3>2
  <2>6. VirtualRootTypeOK'
    BY <1>3, <1>i, <2>5 DEF pathVars, VirtualRootTypeOK, FileSlots, DirSlots, CycleEnd
  <2>7. SlotsOk(Sessions, FileSlots, With(FileOwner, s, e.file), FileHandleArray', broken')
    <3>1. CASE currentAccessor
      <4>1. FileHandleArray' = With(FileHandleArray, data[s].file, FALSE) /\ data[s].file \in FileSlots
        BY <3>1, <1>3, <1>t, <1>f DEF vroot_close, With
      <4>2. broken' = broken
        BY <3>1, <1>3, <1>o
      <4> QED BY <4>1, <4>2, <2>2, FilesGiven, Zenon
    <3>2. CASE ~currentAccessor
      <4>1. FileHandleArray' = FileHandleArray /\ broken' = TRUE
        BY Zenon, <3>2, <1>3 DEF vroot_close
      <4> QED BY <4>1, <2>2, <1>o, FilesLost, Zenon
    <3> QED BY <3>1, <3>2
  <2>8. SlotsOk(Sessions, DirSlots, With(DirOwner, s, e.dir), DirectoryHandleArray', broken')
    BY <1>t, <1>o, <2>2, <2>4, DirsKept, Zenon
  <2>9. d.crossed \/ d.got = FileSize
    <3>1. CASE ~d.crossed
      <4>1. currentAccessor
        BY <3>1, <1>t, <1>3 DEF RetrOk
      <4>2. vroot_eof(d.file, d.got) \in {-1, 0, 1} /\ (Accessible(d.file) => d.got = FileSize)
        BY <1>3 DEF vroot_eof
      <4>3. FileHandleArray[d.file]
        BY <1>i, <1>t, <1>f, <1>3 DEF SlotsOk
      <4> QED BY <4>1, <4>2, <4>3 DEF Accessible
    <3> QED BY <3>1
  <2>10. Ok(e, state[s], currentAccessor', virtualRootCycler')
    BY <1>t, <2>2, <2>4, <2>9 DEF Ok, RetrOk, Transfers
  <2> QED BY <1>o, <2>2, <2>3, <2>4, <2>6, <2>7, <2>8, <2>10, OthersSame, RemainsStep
<1>4. CASE /\ d.file # 0 /\ d.used < FifoSpace /\ len # 0
           /\ \E used \in send_data(d.used + len) : Remains(s, data, [d EXCEPT !.used = used, !.got = @ + len])
           /\ UNCHANGED <<broken, pathVars, handleVars>>
  <2>a. len \in 1..FifoSpace - d.used /\ d.got + len <= FileSize
    <3>1. Lower(FifoSpace - d.used, FtpdBufferSize) \in 1..FifoSpace - d.used
      BY <1>4, <1>f, FtpAssumption DEF Lower
    <3>2. d.got <= FileSize /\ FileSize \in Nat
      BY <1>t, VirtualRootAssumption DEF RetrOk
    <3>3. len # 0 /\ d.got \in Nat /\ d.used \in Nat /\ FifoSpace \in Nat
      BY <1>4, <1>f, FtpAssumption
    <3> DEFINE n == Lower(FifoSpace - d.used, FtpdBufferSize)
    <3>4. len = IF ~Accessible(d.file) THEN 0 ELSE IF n <= FileSize - d.got THEN n ELSE FileSize - d.got
      BY DEF vroot_read
    <3> HIDE DEF len, n
    <3>5. n \in 1..FifoSpace - d.used
      BY <3>1 DEF n
    <3> QED BY <3>2, <3>3, <3>4, <3>5
  <2>1. PICK used \in 0..d.used + len : Remains(s, data, [d EXCEPT !.used = used, !.got = @ + len])
    BY Zenon, <1>4 DEF send_data
  <2> DEFINE e == [d EXCEPT !.used = used, !.got = @ + len]
  <2> HIDE DEF len
  <2>2. /\ e \in DataState /\ e.file = d.file /\ e.dir = d.dir /\ e.dirent = d.dirent
        /\ e.got = d.got + len /\ e.kept = d.kept /\ e.total = d.total
        /\ e.mixed = d.mixed /\ e.crossed = d.crossed
    <3>1. used \in 0..FifoSpace /\ d.got + len \in Nat
      BY <1>f, <2>a, FtpAssumption
    <3>2. e = [[d EXCEPT !.used = used] EXCEPT !.got = d.got + len]
      BY <1>t DEF DataState
    <3> QED BY Zenon, <1>t, <3>1, <3>2 DEF DataState
  <2>3. Remains(s, data, e)
    BY <2>1
  <2> HIDE DEF e
  <2>4. /\ broken' = broken /\ UNCHANGED <<currentAccessor, virtualRootCycler>>
        /\ UNCHANGED <<FileHandleArray, DirectoryHandleArray>> /\ VirtualRootTypeOK'
    BY <1>4, <1>i DEF pathVars, handleVars, VirtualRootTypeOK, FileSlots, DirSlots, CycleEnd
  <2>5. Ok(e, state[s], currentAccessor', virtualRootCycler')
    BY <1>t, <1>4, <2>2, <2>4, <2>a DEF Ok, RetrOk, Transfers
  <2>6. SlotsOk(Sessions, FileSlots, With(FileOwner, s, e.file), FileHandleArray', broken')
    BY <1>t, <1>o, <2>2, <2>4, FilesKept, Zenon
  <2>7. SlotsOk(Sessions, DirSlots, With(DirOwner, s, e.dir), DirectoryHandleArray', broken')
    BY <1>t, <1>o, <2>2, <2>4, DirsKept, Zenon
  <2> QED BY <1>o, <2>2, <2>3, <2>4, <2>5, <2>6, <2>7, OthersSame, RemainsStep
<1> QED BY Zenon, <1>1, <1>2, <1>3, <1>4 DEF send_file

\* The others when session s reads a directory.
LEMMA OthersListed ==
  ASSUME FtpInv, NEW s \in Sessions, NEW cyc
  PROVE  /\ Listed(s) \in [Sessions -> DataState]
         /\ \A t \in Sessions : Listed(s)[t].file = data[t].file /\ Listed(s)[t].dir = data[t].dir
         /\ \A t \in Sessions \ {s} : Ok(Listed(s)[t], state[t], currentAccessor, cyc)
<1>1. data \in [Sessions -> DataState] /\ \A t \in Sessions : Ok(data[t], state[t], currentAccessor, virtualRootCycler)
  BY DEF FtpInv, FtpTypeOK
<1> DEFINE entry(t) == IF t # s /\ state[t] = "LIST"
                       THEN [data[t] EXCEPT !.crossed = TRUE, !.dirent = IF @ = "own" THEN "other" ELSE @]
                       ELSE data[t]
<1>2. Listed(s) = [t \in Sessions |-> entry(t)]
  BY DEF Listed
<1>3. ASSUME NEW t \in Sessions
      PROVE  /\ entry(t) \in DataState /\ entry(t).file = data[t].file /\ entry(t).dir = data[t].dir
             /\ t # s => Ok(entry(t), state[t], currentAccessor, cyc)
  <2>1. CASE t = s
    BY <2>1, <1>1
  <2>2. CASE t # s
    <3>1. entry(t) = ListedData(data[t], state[t])
      BY <2>2 DEF ListedData
    <3>2. data[t] \in DataState /\ Ok(data[t], state[t], currentAccessor, virtualRootCycler)
      BY <1>1
    <3> DEFINE e == ListedData(data[t], state[t])
    <3>3. e \in DataState /\ e.file = data[t].file /\ e.dir = data[t].dir /\ Ok(e, state[t], currentAccessor, cyc)
      BY <3>2, OkWhenListed
    <3> HIDE DEF entry
    <3> QED BY <3>1, <3>3
  <2> QED BY <2>1, <2>2
<1> HIDE DEF entry
<1> QED BY <1>2, <1>3

\* How many entries go into the queue, and where that leaves the listing.
LEMMA ListNumbers ==
  ASSUME FtpInv, NEW s \in Sessions, NEW d, Current(s, d), state[s] = "LIST", d.dir # 0,
         NEW space, space = FifoSpace - d.used, space >= Waiting(d),
         NEW left, left = Left(d.dir, d.got + Waiting(d)),
         NEW n, n = Lower(space - Waiting(d), left),
         NEW got, got = Lower(d.got + Waiting(d) + n, d.total + 1)
  PROVE  /\ left \in Nat /\ n \in Nat /\ n <= left /\ d.used + Waiting(d) + n \in 0..FifoSpace
         /\ got \in Nat /\ got <= d.total + 1
         /\ d.dir \in DirSlots /\ left > n => got + 1 <= Entries
         /\ d.dir = VirtualRootDirHandle /\ left > n =>
              virtualRootCycler + n + 1 \in 0..Partitions /\ virtualRootCycler + n + 1 <= Partitions
         /\ d.dir = VirtualRootDirHandle /\ left > n /\ ~d.crossed => got = virtualRootCycler + n
         /\ left = n /\ ~d.crossed => got = d.total
         /\ ~d.crossed => Passed(d.dir, d.got + Waiting(d)) = d.got + Waiting(d)
<1>1. /\ d \in DataState /\ ListOk(d, currentAccessor, virtualRootCycler) /\ d.dir = data[s].dir
  BY DEF Current, Ok
<1>2. /\ d.used \in 0..FifoSpace /\ d.got \in Nat /\ d.total \in Nat /\ d.crossed \in BOOLEAN
      /\ d.dir \in DirSlots \cup {VirtualRootDirHandle}
  BY <1>1 DEF DataState
<1>3. Waiting(d) \in {0, 1}
  BY DEF Waiting
<1>4. VirtualRootDirHandle \notin DirSlots
  BY OwnerTypes
<1>5. virtualRootCycler \in 0..Partitions \cup {CycleEnd} /\ Partitions \in Nat /\ Entries \in Nat /\ FifoSpace \in Nat
      /\ Partitions < CycleEnd /\ CycleEnd \in Nat
  BY VirtualRootAssumption, FtpAssumption DEF FtpInv, FtpTypeOK, VirtualRootTypeOK, CycleEnd
<1>6. CASE d.dir = VirtualRootDirHandle
  <2>1. left = IF virtualRootCycler < Partitions THEN Partitions - virtualRootCycler ELSE 0
    BY <1>6 DEF Left
  <2>2. Passed(d.dir, d.got + Waiting(d)) = virtualRootCycler
    BY <1>6 DEF Passed
  <2>3. ~d.crossed => /\ d.total = Partitions /\ virtualRootCycler = d.got + Waiting(d)
                      /\ virtualRootCycler <= Partitions
    BY <1>1, <1>6 DEF ListOk
  <2>4. /\ left \in Nat /\ n \in Nat /\ n <= left /\ d.used + Waiting(d) + n \in 0..FifoSpace
        /\ got \in Nat /\ got <= d.total + 1
    <3>1. left \in Nat
      BY <2>1, <1>5
    <3> QED BY <3>1, <1>2, <1>3, <1>5 DEF Lower
  <2>5. left > n => virtualRootCycler + n + 1 \in 0..Partitions /\ virtualRootCycler + n + 1 <= Partitions
    BY <2>1, <2>4, <1>5
  <2>6. left > n /\ ~d.crossed => got = virtualRootCycler + n
    BY <2>1, <2>3, <2>4, <1>2, <1>3, <1>5 DEF Lower
  <2>7. left = n /\ ~d.crossed => got = d.total
    BY <2>1, <2>3, <2>4, <1>2, <1>3, <1>5 DEF Lower
  <2> QED BY <2>2, <2>3, <2>4, <2>5, <2>6, <2>7, <1>4, <1>6
<1>7. CASE d.dir \in DirSlots
  <2>1. d.dir # VirtualRootDirHandle
    BY <1>4, <1>7
  <2>2. left = IF currentAccessor /\ DirectoryHandleArray[d.dir] THEN Entries - (d.got + Waiting(d)) ELSE 0
    BY <2>1 DEF Left
  <2>3. Passed(d.dir, d.got + Waiting(d)) = d.got + Waiting(d)
    BY <2>1 DEF Passed
  <2>4. d.total = Entries /\ d.got + Waiting(d) <= Entries /\ (~d.crossed => currentAccessor)
    BY <1>1, <1>7 DEF ListOk
  <2>5. DirectoryHandleArray[d.dir]
    BY <1>1, <1>7, OwnerTypes DEF FtpInv, SlotInv, SlotsOk
  <2>6. left = Entries - (d.got + Waiting(d)) \/ (d.crossed /\ left = 0)
    BY <2>2, <2>4, <2>5
  <2>7. /\ left \in Nat /\ n \in Nat /\ n <= left /\ d.used + Waiting(d) + n \in 0..FifoSpace
        /\ got \in Nat /\ got <= d.total + 1
    BY <2>6, <2>4, <1>2, <1>3, <1>5 DEF Lower
  <2>8. left > n => got + 1 <= Entries
    BY <2>6, <2>7, <2>4, <1>2, <1>3, <1>5 DEF Lower
  <2>9. left = n /\ ~d.crossed => got = d.total
    BY <2>6, <2>7, <2>4, <1>2, <1>3, <1>5 DEF Lower
  <2> QED BY <2>1, <2>3, <2>7, <2>8, <2>9
<1> QED BY <1>2, <1>6, <1>7

\* A step of a listing that only moves the cycler of the virtual root.
LEMMA CyclerMoves ==
  ASSUME VirtualRootTypeOK, virtualRootCycler' \in 0..Partitions \cup {CycleEnd},
         UNCHANGED <<pathVars, FileHandleArray, DirectoryHandleArray>>
  PROVE  /\ VirtualRootTypeOK' /\ currentAccessor' = currentAccessor
         /\ FileHandleArray' = FileHandleArray /\ DirectoryHandleArray' = DirectoryHandleArray
<1>1. /\ cwd' = cwd /\ currentAccessor' = currentAccessor /\ fatDir' = fatDir
      /\ FileHandleArray' = FileHandleArray /\ DirectoryHandleArray' = DirectoryHandleArray
  BY DEF pathVars
<1> QED BY <1>1 DEF VirtualRootTypeOK, FileSlots, DirSlots, CycleEnd

\* A listing goes on: the entries found are in the queue and one more waits.
LEMMA ListGoesOn ==
  ASSUME FtpInv, NEW s \in Sessions, NEW d, Current(s, d), state[s] = "LIST", d.dir # 0,
         NEW left, left = Left(d.dir, d.got + Waiting(d)), FifoSpace - d.used >= Waiting(d),
         NEW n, n = Lower(FifoSpace - d.used - Waiting(d), left), left > n,
         NEW got, got = Lower(d.got + Waiting(d) + n, d.total + 1),
         NEW mixed, mixed = (d.mixed \/ d.dirent = "other"
                             \/ (n > 0 /\ Passed(d.dir, d.got + Waiting(d)) # d.got + Waiting(d))),
         NEW e \in DataState, e.file = d.file, e.kept = d.kept, e.total = d.total, e.crossed = d.crossed,
         e.got = got, e.mixed = mixed, e.dirent = "own", e.dir = d.dir,
         virtualRootCycler' = CyclerAfter(d.dir, n + 1, FALSE), Remains(s, Listed(s), e),
         UNCHANGED <<broken, pathVars, FileHandleArray, DirectoryHandleArray>>
  PROVE  FtpInv'
<1>1. /\ d \in DataState /\ ListOk(d, currentAccessor, virtualRootCycler)
      /\ d.dir = data[s].dir /\ d.file = data[s].file
  BY ZenonT(30) DEF Current, Ok
<1>2. /\ left \in Nat /\ n \in Nat /\ n <= left /\ d.used + Waiting(d) + n \in 0..FifoSpace
      /\ got \in Nat /\ got <= d.total + 1
      /\ d.dir \in DirSlots => got + 1 <= Entries
      /\ d.dir = VirtualRootDirHandle =>
           virtualRootCycler + n + 1 \in 0..Partitions /\ virtualRootCycler + n + 1 <= Partitions
      /\ d.dir = VirtualRootDirHandle /\ ~d.crossed => got = virtualRootCycler + n
      /\ ~d.crossed => Passed(d.dir, d.got + Waiting(d)) = d.got + Waiting(d)
  BY ListNumbers
<1>4. mixed \in BOOLEAN /\ (~d.crossed => mixed = FALSE)
  BY Zenon, <1>1, <1>2 DEF ListOk, DataState
<1>5. /\ e.file = d.file /\ e.kept = d.kept /\ e.total = d.total
      /\ e.crossed = d.crossed /\ e.got = got /\ e.mixed = mixed /\ e.dirent = "own" /\ e.dir = d.dir
  OBVIOUS
<1>6. /\ VirtualRootTypeOK /\ VirtualRootDirHandle \notin DirSlots /\ broken \in BOOLEAN
      /\ virtualRootCycler \in 0..Partitions \cup {CycleEnd}
  BY OwnerTypes DEF FtpInv, FtpTypeOK, VirtualRootTypeOK
<1>7. /\ d.dir # VirtualRootDirHandle => virtualRootCycler' = virtualRootCycler
      /\ d.dir = VirtualRootDirHandle => virtualRootCycler' = virtualRootCycler + n + 1
  <2>1. virtualRootCycler \in Nat
    BY <1>6, VirtualRootAssumption DEF CycleEnd
  <2>2. virtualRootCycler + (n + 1) = virtualRootCycler + n + 1
    BY <2>1, <1>2
  <2> QED BY <2>2 DEF CyclerAfter
<1>8. virtualRootCycler' \in 0..Partitions \cup {CycleEnd}
  <2>1. CASE d.dir = VirtualRootDirHandle
    BY Zenon, <2>1, <1>2, <1>7
  <2>2. CASE d.dir # VirtualRootDirHandle
    BY Zenon, <2>2, <1>6, <1>7
  <2> QED BY Zenon, <2>1, <2>2
<1>9. /\ VirtualRootTypeOK' /\ broken' = broken /\ currentAccessor' = currentAccessor
      /\ FileHandleArray' = FileHandleArray /\ DirectoryHandleArray' = DirectoryHandleArray
  BY Zenon, <1>6, <1>8, CyclerMoves
<1>10. Waiting(e) = 1
  BY <1>5 DEF Waiting
<1>11. ListOk(e, currentAccessor', virtualRootCycler')
  <2>1. /\ e.file = 0 /\ e.kept = 0 /\ e.got <= e.total + 1 /\ e.dir # 0
        /\ d.crossed \in BOOLEAN
    BY Zenon, <1>1, <1>2, <1>5 DEF ListOk, DataState
  <2>2. e.dir \in DirSlots => e.total = Entries /\ e.got + Waiting(e) <= Entries
    BY <1>1, <1>2, <1>5, <1>10 DEF ListOk
  <2>3. ASSUME ~d.crossed
        PROVE  /\ ~e.mixed /\ e.dirent # "other" /\ (e.dir \in DirSlots => currentAccessor')
               /\ e.dir = VirtualRootDirHandle =>
                    /\ ~currentAccessor' /\ e.total = Partitions
                    /\ virtualRootCycler' = e.got + Waiting(e) /\ virtualRootCycler' <= Partitions
    <3>1. ~e.mixed /\ e.dirent # "other" /\ (e.dir \in DirSlots => currentAccessor')
      BY <2>3, <1>1, <1>4, <1>5, <1>9 DEF ListOk
    <3>2. ASSUME e.dir = VirtualRootDirHandle
          PROVE  /\ ~currentAccessor' /\ e.total = Partitions
                 /\ virtualRootCycler' = e.got + Waiting(e) /\ virtualRootCycler' <= Partitions
      <4>1. d.dir = VirtualRootDirHandle /\ ~currentAccessor' /\ e.total = Partitions
            /\ virtualRootCycler <= Partitions
        BY <3>2, <2>3, <1>1, <1>5, <1>9 DEF ListOk
      <4>2. virtualRootCycler' = e.got + 1 /\ virtualRootCycler' <= Partitions
        <5>1. virtualRootCycler' = e.got + 1
          BY Zenon, <4>1, <2>3, <1>2, <1>5, <1>7
        <5>2. virtualRootCycler + n + 1 <= Partitions /\ virtualRootCycler' = virtualRootCycler + n + 1
          BY Zenon, <4>1, <1>2, <1>7
        <5>4. virtualRootCycler' <= Partitions
          BY <5>2, Zenon
        <5> QED BY Zenon, <5>1, <5>4
      <4> QED BY Zenon, <4>1, <4>2, <1>10
    <3> QED BY Zenon, <3>1, <3>2
  <2> QED BY Zenon, <2>1, <2>2, <2>3, <1>5 DEF ListOk
<1>12. Ok(e, state[s], currentAccessor', virtualRootCycler')
  BY ZenonT(30), <1>11 DEF Ok, Transfers
<1>a. e.file = data[s].file /\ e.dir = data[s].dir /\ broken' \in BOOLEAN /\ (broken => broken')
  BY <1>1, <1>5, <1>6, <1>9
<1>13. SlotsOk(Sessions, FileSlots, With(FileOwner, s, e.file), FileHandleArray', broken')
  BY ZenonT(30), <1>a, <1>9, FilesKept
<1>14. SlotsOk(Sessions, DirSlots, With(DirOwner, s, e.dir), DirectoryHandleArray', broken')
  BY <1>a, <1>9, DirsKept
<1>15. /\ Listed(s) \in [Sessions -> DataState]
       /\ \A t \in Sessions : Listed(s)[t].file = data[t].file /\ Listed(s)[t].dir = data[t].dir
       /\ \A t \in Sessions \ {s} : Ok(Listed(s)[t], state[t], currentAccessor', virtualRootCycler')
  BY Zenon, <1>9, OthersListed
<1> QED BY ZenonT(30), <1>5, <1>6, <1>9, <1>12, <1>13, <1>14, <1>15, RemainsStep

\* The end of a listing closes the directory.
LEMMA ListCloses ==
  ASSUME FtpInv, NEW s \in Sessions, NEW d, Current(s, d), state[s] = "LIST", d.dir # 0,
         DirectoryHandleArray' = closedirSlots(d.dir), virtualRootCycler' = closedirCycler(d.dir),
         broken' = (broken \/ (currentAccessor <=> d.dir = VirtualRootDirHandle)),
         UNCHANGED <<pathVars, FileHandleArray>>
  PROVE  /\ VirtualRootTypeOK' /\ broken' \in BOOLEAN /\ currentAccessor' = currentAccessor
         /\ SlotsOk(Sessions, FileSlots, With(FileOwner, s, 0), FileHandleArray', broken')
         /\ SlotsOk(Sessions, DirSlots, With(DirOwner, s, 0), DirectoryHandleArray', broken')
<1>1. /\ d \in DataState /\ d.dir = data[s].dir /\ data[s].file = 0
  BY DEF Current, Ok, ListOk
<1>2. d.dir \in DirSlots \cup {VirtualRootDirHandle}
  BY <1>1 DEF DataState
<1>3. /\ VirtualRootTypeOK /\ VirtualRootDirHandle \notin DirSlots /\ 0 \notin DirSlots
      /\ broken \in BOOLEAN /\ currentAccessor \in BOOLEAN
      /\ virtualRootCycler \in 0..Partitions \cup {CycleEnd} /\ DirectoryHandleArray \in [DirSlots -> BOOLEAN]
  BY Zenon, OwnerTypes DEF FtpInv, FtpTypeOK, VirtualRootTypeOK
<1>4. broken' \in BOOLEAN /\ (broken => broken')
  BY <1>3, Zenon
<1>5. virtualRootCycler' \in 0..Partitions \cup {CycleEnd}
  <2>1. virtualRootCycler' \in {0, CycleEnd, virtualRootCycler}
    BY DEF closedirCycler, CyclerAfter
  <2>2. 0 \in 0..Partitions
    BY VirtualRootAssumption
  <2> QED BY <2>1, <2>2, <1>3
<1>6. DirectoryHandleArray' \in [DirSlots -> BOOLEAN]
  <2>1. CASE currentAccessor /\ d.dir \in DirSlots
    BY <2>1, <1>3 DEF closedirSlots
  <2>2. CASE ~(currentAccessor /\ d.dir \in DirSlots)
    BY <2>2, <1>3 DEF closedirSlots
  <2> QED BY <2>1, <2>2
<1>7. VirtualRootTypeOK' /\ currentAccessor' = currentAccessor /\ FileHandleArray' = FileHandleArray
  <2>1. /\ cwd' = cwd /\ currentAccessor' = currentAccessor /\ fatDir' = fatDir
        /\ FileHandleArray' = FileHandleArray
    BY Zenon DEF pathVars
  <2>2. VirtualRootTypeOK BY Zenon, <1>3
  <2> QED BY ONLY <2>1, <2>2, <1>5, <1>6 DEF VirtualRootTypeOK, FileSlots, DirSlots, CycleEnd
<1>8. SlotsOk(Sessions, FileSlots, With(FileOwner, s, 0), FileHandleArray', broken')
  BY <1>1, <1>4, <1>7, FilesKept
<1>9. SlotsOk(Sessions, DirSlots, With(DirOwner, s, 0), DirectoryHandleArray', broken')
  <2>1. CASE currentAccessor /\ d.dir \in DirSlots
    <3>1. DirectoryHandleArray' = With(DirectoryHandleArray, data[s].dir, FALSE) /\ data[s].dir \in DirSlots
      BY <2>1, <1>1 DEF closedirSlots, With
    <3>2. ~(currentAccessor <=> d.dir = VirtualRootDirHandle)
      BY <2>1, <1>3, Zenon
    <3>3. broken' = broken
      BY <3>2, <1>3, Zenon
    <3> QED BY Zenon, <3>1, <3>3, DirsGiven
  <2>2. CASE ~(currentAccessor /\ d.dir \in DirSlots)
    <3>1. DirectoryHandleArray' = DirectoryHandleArray
      BY <2>2 DEF closedirSlots
    <3>2. data[s].dir \notin DirSlots \/ broken'
      BY <2>2, <1>1, <1>3, Zenon
    <3> QED BY <3>1, <3>2, <1>3, <1>4, DirsLost
  <2> QED BY <2>1, <2>2
<1> QED BY <1>4, <1>7, <1>8, <1>9

\* send_next_directory at the end of the listing keeps FtpInv.
LEMMA ListEnds ==
  ASSUME FtpInv, NEW s \in Sessions, NEW d, Current(s, d), state[s] = "LIST", d.dir # 0,
         NEW left, left = Left(d.dir, d.got + Waiting(d)), FifoSpace - d.used >= Waiting(d),
         NEW n, n = Lower(FifoSpace - d.used - Waiting(d), left), left = n,
         NEW got, got = Lower(d.got + Waiting(d) + n, d.total + 1),
         NEW mixed, mixed = (d.mixed \/ d.dirent = "other"
                             \/ (n > 0 /\ Passed(d.dir, d.got + Waiting(d)) # d.got + Waiting(d))),
         NEW e \in DataState, e.file = d.file, e.kept = d.kept, e.total = d.total, e.crossed = d.crossed,
         e.got = got, e.mixed = mixed, e.dirent = "NULL", e.dir = 0,
         DirectoryHandleArray' = closedirSlots(d.dir), virtualRootCycler' = closedirCycler(d.dir),
         broken' = (broken \/ (currentAccessor <=> d.dir = VirtualRootDirHandle)),
         Remains(s, Listed(s), e), UNCHANGED <<pathVars, FileHandleArray>>
  PROVE  FtpInv'
<1>1. /\ d \in DataState /\ ListOk(d, currentAccessor, virtualRootCycler) /\ d.file = 0
  BY ZenonT(30) DEF Current, Ok, ListOk
<1>2. /\ got \in Nat /\ got <= d.total + 1
      /\ ~d.crossed => got = d.total
      /\ ~d.crossed => Passed(d.dir, d.got + Waiting(d)) = d.got + Waiting(d)
  BY ListNumbers
<1>3. ~d.crossed => mixed = FALSE
  BY <1>1, <1>2 DEF ListOk, DataState
<1>4. /\ e.file = 0 /\ e.kept = 0 /\ e.total = d.total
      /\ e.crossed = d.crossed /\ e.got = got /\ e.mixed = mixed /\ e.dirent = "NULL" /\ e.dir = 0
  BY <1>1 DEF ListOk
<1>5. 0 \notin DirSlots /\ VirtualRootDirHandle # 0
  BY OwnerTypes DEF VirtualRootDirHandle
<1>6. /\ VirtualRootTypeOK' /\ broken' \in BOOLEAN /\ currentAccessor' = currentAccessor
      /\ SlotsOk(Sessions, FileSlots, With(FileOwner, s, 0), FileHandleArray', broken')
      /\ SlotsOk(Sessions, DirSlots, With(DirOwner, s, 0), DirectoryHandleArray', broken')
  BY Zenon, ListCloses
<1>7. ListOk(e, currentAccessor', virtualRootCycler')
  BY <1>2, <1>3, <1>4, <1>5 DEF ListOk
<1>8. Ok(e, state[s], currentAccessor', virtualRootCycler')
  BY ZenonT(30), <1>7 DEF Ok, Transfers
<1>9. /\ Listed(s) \in [Sessions -> DataState]
      /\ \A t \in Sessions : Listed(s)[t].file = data[t].file /\ Listed(s)[t].dir = data[t].dir
      /\ \A t \in Sessions \ {s} : Ok(Listed(s)[t], state[t], currentAccessor', virtualRootCycler')
  BY Zenon, <1>6, OthersListed
<1>10. /\ SlotsOk(Sessions, FileSlots, With(FileOwner, s, e.file), FileHandleArray', broken')
       /\ SlotsOk(Sessions, DirSlots, With(DirOwner, s, e.dir), DirectoryHandleArray', broken')
  BY <1>4, <1>6, Zenon
<1> QED BY ZenonT(30), <1>6, <1>8, <1>9, <1>10, RemainsStep

=============================================================================
