--------------------------- MODULE FlashJobProofs ---------------------------
(***************************************************************************)
(* What a job of the flash engine does to the chip, proved for every chip   *)
(* and bank layout: which cells it may touch, and that a chip that obeys    *)
(* makes no job fail. It rests on IInv of FlashDriverProofs and on JobInv,  *)
(* which says what the states of Flash_executeFlashFSM know about the job   *)
(* they work on.                                                            *)
(***************************************************************************)
EXTENDS FlashDriverProofs

Scanning == {"PendingOp", "EraseInProgress", "ReadInProgress"}

\* Jobs start from an idle engine whose last job was freed, settings are saved in the
\* OS bank, and a scan starts at 0 and stays below the size of the buffer.
JobInv ==
  /\ currentFlashOp = "Idle" =>
       /\ currentFlashTask = "NoTask" /\ currentAddr = 0
       /\ flashErrorCode \notin {"FailedErase", "FailedVerify"}
  /\ currentFlashTask \in WriteTasks => booted /\ currentFlashOp # "Idle"
  /\ currentFlashTask = "WriteSettings" => currentFlashBank = "OSBank"
  /\ currentFlashOp = "PendingOp" => currentAddr = 0
  /\ currentFlashOp \in Scanning => currentAddr < biosBufferSize
  /\ currentFlashOp \in {"EraseInProgress", "WriteInProgress", "VerifyInProgress"} =>
       currentFlashTask \in WriteTasks

\* Flash_SaveXBlastOSSettings starts a job on the settings it found in the flash.
SaveStarted ==
  /\ MayCall /\ currentFlashBank = "OSBank" /\ currentFlashOp' = "PendingOp"
  /\ startingOffset' = SettingsOffset("OSBank") /\ startingOffset' # 0
  /\ eraseSequenceMethod' = "Sector" /\ firstEraseTry' = TRUE
  /\ biosBufferSize' = getEraseMethodSize("Sector")
  /\ history'.snapshot = flash
  /\ UNCHANGED <<chipVars, biosBuffer, currentAddr, envVars>>

\* Flash_WriteBios starts a job. In the OS bank of an XBlast chip it comes from
\* Flash_XBlastOSBankFlash: an image that passed validateOSImage, with the settings.
BiosStarted ==
  /\ MayCall
  /\ \E img \in Images, withSettings \in BOOLEAN, n \in 1 .. BufferLength :
       /\ WriteBiosJob(img, n, withSettings)
       /\ OnLPC /\ currentFlashBank = "OSBank" =>
            withSettings /\ img.size = Image256KB /\ n = Image256KB
  /\ UNCHANGED <<chipVars, currentAddr, envVars>>

Outside ==
  /\ chipOp' = NoChipOp
  /\ currentFlashOp' \in {"Idle", "PendingOp", "Completed", "Error"}
  /\ flashErrorCode' \notin {"FailedErase", "FailedVerify"}
  /\ currentFlashTask' = "WriteSettings" => SaveStarted
  /\ currentFlashTask' = "WriteBios" =>
       /\ booted'
       /\ (BiosStarted /\ currentFlashOp' = "PendingOp") \/ currentFlashOp' = "Error"
  /\ currentFlashOp' \in {"Idle", "PendingOp"} => currentAddr' = 0
  /\ currentFlashOp' = "Idle" => currentFlashTask' = "NoTask"
  /\ currentFlashOp' = "PendingOp" => currentAddr' < biosBufferSize'

\* An image of 256KB is written as it is: mirrorimage has nothing to double.
LEMMA NothingToMirror ==
  ASSUME NEW n \in MirroredSizes(Image256KB, Image256KB)
  PROVE  n = Image256KB
<1>1. PICK k \in 0 .. MaxDoublings : /\ n = Image256KB * 2^k
                                     /\ k # 0 => Image256KB * 2^(k - 1) < Image256KB
  BY DEF MirroredSizes
<1>2. k = 0
  <2>1. SUFFICES ASSUME k # 0 PROVE FALSE
    OBVIOUS
  <2>2. 2^0 = 1 /\ 2^1 = 2 /\ 2^2 = 4 /\ 2^3 = 8
    OBVIOUS
  <2>3. k - 1 \in {0, 1, 2, 3}
    BY <2>1 DEF MaxDoublings
  <2>4. 2^(k - 1) \in {1, 2, 4, 8}
    BY Zenon, <2>2, <2>3
  <2>5. QED
    BY <1>1, <2>1, <2>4, SizesAssumption
<1>3. QED
  BY <1>1, <1>2, SizesAssumption

\* What Flash_WriteBios leaves of an idle engine.
LEMMA WriteBiosEffect ==
  ASSUME IInv, JobInv, MayCall, NEW img \in Images, NEW bank,
         NEW withSettings \in BOOLEAN, Flash_WriteBios(img, bank, withSettings),
         OnLPC /\ currentFlashBank = "OSBank" =>
           withSettings /\ img.size = Image256KB /\ bank = "OSBank"
  PROVE  Outside
<1> USE DEF chipVars, pollVars, bufVars, stateVars, rangeVars, eraseVars, envVars
<1>1. /\ currentFlashOp = "Idle" /\ currentFlashTask = "NoTask" /\ currentAddr = 0
      /\ chipOp = NoChipOp /\ booted
  BY DEF MayCall, JobInv, IInv, QuietChip
<1>2. /\ flashErrorCode' \in {"NoError", "FileSizeError", "UndefinedError"}
      /\ UNCHANGED <<chipVars, currentAddr, envVars>>
  BY DEF Flash_WriteBios, checkImageSize
<1>3. CASE flashErrorCode' # "NoError"
  <2>1. UNCHANGED <<currentFlashOp, currentFlashTask>>
    BY <1>3 DEF Flash_WriteBios
  <2>2. QED
    BY <1>1, <1>2, <2>1 DEF Outside
<1>4. CASE flashErrorCode' = "NoError"
  <2>1. PICK n \in MirroredSizes(img.size, MirrorTarget(bank)) :
          WriteBiosJob(img, n, withSettings)
    BY <1>4 DEF Flash_WriteBios
  <2>2. n \in 1 .. BufferLength
    BY DEF MirroredSizes
  <2>3. OnLPC /\ currentFlashBank = "OSBank" => n = Image256KB
    BY <2>1, NothingToMirror DEF MirrorTarget
  <2>4. BiosStarted
    BY <1>2, <2>1, <2>2, <2>3 DEF BiosStarted
  <2>5. currentFlashOp' = "PendingOp" /\ currentFlashTask' = "WriteBios"
        /\ biosBufferSize' = n
    BY <2>1 DEF WriteBiosJob
  <2>6. currentAddr' < biosBufferSize'
    BY <1>1, <1>2, <2>2, <2>5
  <2>7. QED
    BY <1>1, <1>2, <2>4, <2>5, <2>6 DEF Outside
<1>5. QED
  BY <1>3, <1>4

\* The calls from the menus and the boot code, and a power cut.
LEMMA OutsideCalls ==
  ASSUME IInv, JobInv, Next, ~ChipCompletes, ~Flash_executeFlashFSM
  PROVE  Outside
<1> USE DEF chipVars, pollVars, bufVars, stateVars, rangeVars, eraseVars, envVars
<1>1. currentFlashOp = "Idle" =>
        /\ currentFlashTask = "NoTask" /\ currentAddr = 0 /\ chipOp = NoChipOp
        /\ flashErrorCode \notin {"FailedErase", "FailedVerify"}
  BY DEF JobInv, IInv, QuietChip
<1>2. ASSUME NEW img \in Images, NEW override \in BOOLEAN,
             Flash_XBlastOSBankFlash(img, override)
      PROVE  Outside
  <2> DEFINE check == IF override THEN "NoError" ELSE validateOSImage(img)
  <2>1. MayCall /\ currentFlashBank = "OSBank" /\ OnLPC
    BY <1>2 DEF Flash_XBlastOSBankFlash
  <2>2. CASE check = "NoError" /\ Flash_WriteBios(img, "OSBank", TRUE)
    <3>1. validateOSImage(img) \in {"NoError", "DowngradeWarning"}
      BY <1>2, <2>2 DEF Flash_XBlastOSBankFlash
    <3>2. img.size = Image256KB
      BY <3>1 DEF validateOSImage
    <3>3. QED
      BY Zenon, <2>1, <2>2, <3>2, WriteBiosEffect
  <2>3. CASE /\ flashErrorCode' = check
             /\ UNCHANGED <<chipVars, pollVars, bufVars, currentFlashOp,
                            currentFlashTask, rangeVars, eraseVars, envVars, history>>
    <3>1. check \notin {"FailedErase", "FailedVerify"}
      BY DEF validateOSImage
    <3>2. QED
      BY <1>1, <2>1, <2>3, <3>1 DEF Outside, MayCall
  <2>4. QED
    BY Zenon, <1>2, <2>2, <2>3 DEF Flash_XBlastOSBankFlash
<1>3. ASSUME NEW img \in Images, Flash_XBlastUserBankFlash(img)
      PROVE  Outside
  BY Zenon, <1>3, WriteBiosEffect DEF Flash_XBlastUserBankFlash
<1>4. ASSUME NEW img \in Images, Flash_SimpleBIOSBankFlash(img)
      PROVE  Outside
  BY Zenon, <1>4, WriteBiosEffect DEF Flash_SimpleBIOSBankFlash
<1>5. CASE Flash_ReadBIOSBank
  <2>1. MirrorTarget(currentFlashBank) > 0
    BY SizesAssumption DEF MirrorTarget
  <2>2. /\ currentFlashOp = "Idle" /\ UNCHANGED <<chipOp, flashErrorCode, currentAddr>>
        /\ \/ /\ currentFlashOp' = "PendingOp" /\ currentFlashTask' = "ReadBios"
              /\ biosBufferSize' = MirrorTarget(currentFlashBank)
           \/ UNCHANGED <<currentFlashOp, currentFlashTask>>
    BY <1>5 DEF Flash_ReadBIOSBank, MayCall
  <2>3. QED
    BY <1>1, <2>1, <2>2 DEF Outside
<1>6. CASE Flash_SaveXBlastOSSettings
  <2>1. /\ MayCall /\ currentFlashOp = "Idle" /\ currentFlashBank = "OSBank"
        /\ UNCHANGED <<chipVars, biosBuffer, currentAddr, envVars>>
    BY <1>6 DEF Flash_SaveXBlastOSSettings, MayCall
  <2>2. CASE currentFlashOp' = "PendingOp"
    <3>1. /\ startingOffset' = SettingsOffset("OSBank") /\ startingOffset' # 0
          /\ eraseSequenceMethod' = "Sector" /\ firstEraseTry' = TRUE
          /\ biosBufferSize' = getEraseMethodSize("Sector")
          /\ currentFlashTask' = "WriteSettings" /\ UNCHANGED flashErrorCode
          /\ Remember({LPCmodSettings})
      BY <1>6, <2>2 DEF Flash_SaveXBlastOSSettings
    <3>2. history'.snapshot = flash
      BY <3>1 DEF Remember, IInv, TypeOK
    <3>3. getEraseMethodSize("Sector") > 0
      BY SizesAssumption DEF getEraseMethodSize
    <3>4. QED
      BY <1>1, <2>1, <2>2, <3>1, <3>2, <3>3 DEF Outside, SaveStarted
  <2>3. CASE currentFlashOp' # "PendingOp"
    <3>1. /\ currentFlashOp' = "Error" /\ UNCHANGED currentFlashTask
          /\ flashErrorCode' \in {"FlashContentError", "WriteProtect", "UnknownFlash"}
      BY <1>6, <2>3 DEF Flash_SaveXBlastOSSettings
    <3>2. QED
      BY <1>1, <2>1, <3>1 DEF Outside
  <2>4. QED
    BY <2>2, <2>3
<1>7. CASE Flash_ReadXBlastOSSettingsRequest
  <2>1. /\ currentFlashOp = "Idle" /\ UNCHANGED <<chipOp, flashErrorCode, currentAddr>>
        /\ \/ /\ currentFlashOp' \in {"PendingOp", "Completed"}
              /\ currentFlashTask' = "ReadSettings" /\ biosBufferSize' = 2
           \/ currentFlashOp' = "Error" /\ UNCHANGED currentFlashTask
    BY <1>7 DEF Flash_ReadXBlastOSSettingsRequest
  <2>2. QED
    BY <1>1, <2>1 DEF Outside
<1>8. CASE Flash_ReadDeviceInfo \/ JobFreed \/ bootReadXBlastOSSettings
  <2>1. Flash_freeFlashFSM /\ UNCHANGED chipOp /\ chipOp = NoChipOp
    BY <1>8 DEF Flash_ReadDeviceInfo, JobFreed, bootReadXBlastOSSettings, MayCall,
                IInv, QuietChip
  <2>2. QED
    BY <2>1 DEF Outside, Flash_freeFlashFSM
<1>9. CASE Flash_forceUserAbort
  BY <1>1, <1>9 DEF Flash_forceUserAbort, MayCall, Outside
<1>10. CASE (\E bank \in Banks : switchOSBank(bank)) \/ \E p \in Payloads : SettingsEdited(p)
  BY <1>1, <1>10 DEF switchOSBank, SettingsEdited, MayCall, Outside
<1>11. CASE PowerCut
  BY <1>11 DEF PowerCut, PowerUp, Outside
<1>12. QED
  BY <1>2, <1>3, <1>4, <1>5, <1>6, <1>7, <1>8, <1>9, <1>10, <1>11 DEF Next

\* A poll that answers "busy" leaves the job alone.
LEMMA BusyKeepsJob == BusyWait => UNCHANGED <<flash, chipOp, biosBuffer, biosBufferSize,
                        currentFlashOp, currentFlashTask, flashErrorCode, startingOffset,
                        currentAddr, currentFlashBank, LPCmodSettings, booted, history>>
BY DEF BusyWait, chipVars, bufVars, stateVars, rangeVars, envVars

\* JobInv is an invariant.
LEMMA JobStep == IInv /\ JobInv /\ [Next]_vars => JobInv'
<1> SUFFICES ASSUME IInv, JobInv, [Next]_vars PROVE JobInv'
  OBVIOUS
<1> USE DEF chipVars, pollVars, bufVars, stateVars, rangeVars, eraseVars, envVars
<1>1. CASE UNCHANGED vars
  BY <1>1 DEF vars, JobInv
<1>2. CASE ChipCompletes
  BY <1>2 DEF ChipCompletes, JobInv
<1>3. CASE BusyWait
  BY <1>3, BusyKeepsJob DEF JobInv
<1>4. CASE FsmPending
  BY <1>4 DEF FsmPending, JobInv, Scanning, WriteTasks
<1>5. CASE FsmErase /\ ~BusyWait
  <2>1. currentFlashOp = "EraseInProgress" /\ currentFlashTask \in WriteTasks
    BY Zenon, <1>5 DEF FsmErase, FsmEraseBusy, EraseNotNeeded, EraseIssued, EraseWidened,
                EraseFailed, ErasePolled, JobInv
  <2>2. CASE EraseNotNeeded
    BY <2>1, <2>2 DEF EraseNotNeeded, JobInv, Scanning, IInv, TypeOK
  <2>3. CASE EraseIssued \/ EraseFailed
    BY Zenon, <2>1, <2>3 DEF EraseIssued, EraseFailed, JobInv, Scanning
  <2>4. CASE EraseWidened
    <3>1. biosBufferSize' > 0
      BY <2>4, SizesFit DEF EraseWidened, NextEraseMethod, Methods
    <3>2. QED
      BY <2>1, <2>4, <3>1 DEF EraseWidened, JobInv, Scanning
  <2>5. QED
    BY <1>5, <2>2, <2>3, <2>4 DEF FsmErase, FsmEraseBusy
<1>6. CASE FsmWrite /\ ~BusyWait
  <2>1. /\ currentFlashOp = "WriteInProgress"
        /\ currentFlashOp' \in {"WriteInProgress", "VerifyInProgress"}
        /\ UNCHANGED <<currentFlashTask, currentFlashBank, booted>>
    BY Zenon, <1>6 DEF FsmWrite, WriteOver, WriteNextByte
  <2>2. QED
    BY <2>1 DEF JobInv, Scanning
<1>7. CASE FsmVerify /\ ~BusyWait
  <2>1. /\ currentFlashOp = "VerifyInProgress"
        /\ currentFlashOp' \in {"Completed", "VerifyInProgress", "Error"}
        /\ UNCHANGED <<currentFlashTask, currentFlashBank, booted>>
    BY Zenon, <1>7 DEF FsmVerify
  <2>2. QED
    BY <2>1 DEF JobInv, Scanning
<1>8. CASE FsmRead /\ ~BusyWait
  <2>1. /\ currentFlashOp = "ReadInProgress"
        /\ UNCHANGED <<currentFlashTask, currentFlashBank, booted, biosBufferSize>>
        /\ \/ /\ currentFlashOp' = "ReadInProgress"
              /\ currentAddr + 1 < biosBufferSize /\ currentAddr' = currentAddr + 1
           \/ /\ currentFlashOp' = "EraseInProgress" /\ currentAddr' = 0
              /\ currentFlashTask = "WriteSettings"
           \/ currentFlashOp' = "Completed"
    BY Zenon, <1>8 DEF FsmRead
  <2>2. currentAddr < biosBufferSize
    BY <2>1 DEF JobInv, Scanning
  <2>3. QED
    BY <2>1, <2>2 DEF JobInv, Scanning, WriteTasks, IInv, TypeOK
<1>9. CASE Next /\ ~ChipCompletes /\ ~Flash_executeFlashFSM
  <2>1. Outside
    BY <1>9, OutsideCalls
  <2>2. QED
    BY <2>1 DEF Outside, SaveStarted, MayCall, JobInv, Scanning, WriteTasks
<1>10. QED
  BY Zenon, <1>1, <1>2, <1>3, <1>4, <1>5, <1>6, <1>7, <1>8, <1>9 DEF Next, Flash_executeFlashFSM

\* IInv and JobInv hold in every state.
LEMMA JobInvariant == Spec => [](IInv /\ JobInv)
<1>1. Init => JobInv
  BY DEF Init, JobInv, Scanning, WriteTasks
<1>2. QED
  BY <1>1, JobStep, Invariance, PTL DEF Spec

-----------------------------------------------------------------------------
(* Which cells a job touches.                                              *)

\* What the quotient of a division says about the number.
LEMMA Quotient ==
  ASSUME NEW u \in Nat \ {0}, NEW d \in Nat
  PROVE  d \div u \in Nat /\ u * (d \div u) <= d /\ d < u * (d \div u) + u
OBVIOUS

\* A number that leaves no remainder is a multiple.
LEMMA Multiple ==
  ASSUME NEW u \in Nat \ {0}, NEW d \in Nat, d % u = 0
  PROVE  \E q \in Nat : d = u * q
<1>1. d \div u \in Nat /\ d = u * (d \div u)
  OBVIOUS
<1>2. QED
  BY <1>1

\* Multiplication is monotonic.
LEMMA Monotonic ==
  ASSUME NEW u \in Nat, NEW p \in Nat, NEW q \in Nat, p <= q
  PROVE  u * p <= u * q
OBVIOUS

\* A number between u * q and u * (q + 1) has the quotient q, and no other number does.
LEMMA QuotientIs ==
  ASSUME NEW u \in Nat \ {0}, NEW q \in Nat, NEW d \in Nat
  PROVE  d \div u = q <=> u * q <= d /\ d < u * q + u
<1> DEFINE k == d \div u
<1>1. k \in Nat /\ u * k <= d /\ d < u * k + u
  BY Quotient
<1>2. ASSUME u * q <= d, d < u * q + u PROVE k = q
  <2>1. ASSUME k + 1 <= q PROVE FALSE
    <3>1. u * (k + 1) <= u * q
      BY <1>1, <2>1, Monotonic
    <3>2. u * (k + 1) = u * k + u
      BY <1>1
    <3>3. QED
      BY <1>1, <1>2, <3>1, <3>2
  <2>2. ASSUME q + 1 <= k PROVE FALSE
    <3>1. u * (q + 1) <= u * k
      BY <1>1, <2>2, Monotonic
    <3>2. u * (q + 1) = u * q + u
      OBVIOUS
    <3>3. QED
      BY <1>1, <1>2, <3>1, <3>2
  <2>3. QED
    BY <1>1, <2>1, <2>2
<1>3. QED
  BY <1>1, <1>2

\* Sectors and blocks divide the banks.
LEMMA BankAligned ==
  ASSUME NEW bank \in Banks, NEW u \in {Sector4KB, Block64KB}
  PROVE  \E p, q \in Nat : BankBase[bank] = u * p /\ BankSize[bank] = u * q
<1>1. /\ BankBase[bank] \in Nat /\ BankSize[bank] \in Nat
      /\ BankBase[bank] % Block64KB = 0 /\ BankSize[bank] % Block64KB = 0
      /\ Block64KB % Sector4KB = 0
      /\ Sector4KB \in Nat \ {0} /\ Block64KB \in Nat \ {0}
  BY BanksAssumption, GeometryAssumption, SizesAssumption
<1>2. PICK p, q \in Nat : BankBase[bank] = Block64KB * p /\ BankSize[bank] = Block64KB * q
  <2>1. \E p \in Nat : BankBase[bank] = Block64KB * p
    BY Zenon, <1>1, Multiple
  <2>2. \E q \in Nat : BankSize[bank] = Block64KB * q
    BY Zenon, <1>1, Multiple
  <2>3. QED
    BY <2>1, <2>2
<1>3. PICK k \in Nat : Block64KB = Sector4KB * k
  <2>1. Block64KB \in Nat
    BY <1>1
  <2>2. QED
    BY Zenon, <1>1, <2>1, Multiple
<1>4. Block64KB * p = Sector4KB * (k * p) /\ Block64KB * q = Sector4KB * (k * q)
  BY <1>1, <1>3
<1>5. k * p \in Nat /\ k * q \in Nat
  OBVIOUS
<1>6. QED
  BY <1>2, <1>4, <1>5

\* An address below the size of the bank is mapped as it is.
LEMMA WindowBelowSize ==
  ASSUME NEW bank \in Banks, NEW i \in 0 .. (BankSize[bank] - 1)
  PROVE  WindowOf(bank, i) = BankBase[bank] + i
BY BanksAssumption DEF WindowOf

\* Every address reaches a cell of the mapped bank.
LEMMA WindowInBank ==
  ASSUME NEW bank \in Banks, NEW a \in Nat
  PROVE  /\ a % BankSize[bank] \in 0 .. (BankSize[bank] - 1)
         /\ WindowOf(bank, a) = WindowOf(bank, a % BankSize[bank])
<1>1. a % BankSize[bank] \in 0 .. (BankSize[bank] - 1)
  BY BanksAssumption
<1>2. QED
  BY <1>1, WindowBelowSize DEF WindowOf

\* Erasing the sector or the block of a cell stays in the bank of that cell.
LEMMA EraseStaysInBank ==
  ASSUME NEW bank \in Banks, NEW a \in Nat, NEW meth \in Methods \ {"Chip"},
         NEW d \in EraseCells(meth, WindowOf(bank, a))
  PROVE  \E i \in 0 .. (BankSize[bank] - 1) : d = WindowOf(bank, i)
<1> DEFINE u == EraseExtent(meth)
           c == WindowOf(bank, a)
<1>1. u \in {Sector4KB, Block64KB} /\ u \in Nat \ {0}
  BY SizesAssumption DEF EraseExtent, Methods
<1>2. PICK p, q \in Nat : BankBase[bank] = u * p /\ BankSize[bank] = u * q
  BY <1>1, BankAligned
<1>3. c \in Nat /\ u * p <= c /\ c < u * p + u * q
  BY <1>2, BanksAssumption DEF WindowOf
<1>4. d \in Nat /\ d \div u = c \div u
  BY SizesAssumption DEF EraseCells, Cells
<1> HIDE DEF u, c
<1> DEFINE k == c \div u
<1>5. /\ k \in Nat /\ u * k <= c /\ c < u * k + u
      /\ u * k <= d /\ d < u * k + u
  BY <1>1, <1>3, <1>4, Quotient
<1> HIDE DEF k
<1>6. p <= k
  <2>1. SUFFICES ASSUME k + 1 <= p PROVE FALSE
    BY <1>5
  <2>2. u * (k + 1) <= u * p /\ u * (k + 1) = u * k + u
    BY <1>1, <1>5, <2>1, Monotonic
  <2>3. QED
    BY <1>1, <1>3, <1>5, <2>2
<1>7. k + 1 <= p + q
  <2>1. SUFFICES ASSUME p + q <= k PROVE FALSE
    BY <1>5
  <2>2. u * (p + q) <= u * k /\ u * (p + q) = u * p + u * q
    BY <1>1, <1>5, <2>1, Monotonic
  <2>3. QED
    BY <1>1, <1>3, <1>5, <2>2
<1>8. u * p <= u * k /\ u * (k + 1) <= u * (p + q)
  BY <1>1, <1>5, <1>6, <1>7, Monotonic
<1>9. u * (k + 1) = u * k + u /\ u * (p + q) = u * p + u * q
  BY <1>1, <1>5
<1>10. u * p <= d /\ d < u * p + u * q
  BY <1>1, <1>4, <1>5, <1>8, <1>9
<1>11. d - BankBase[bank] \in 0 .. (BankSize[bank] - 1)
  BY <1>1, <1>2, <1>4, <1>10
<1>12. QED
  BY <1>4, <1>11, WindowBelowSize, BanksAssumption

\* What the chip is busy with was started by the state the engine is in, and lies in
\* the mapped bank unless it is a chip erase.
InBank(c) == \E i \in 0 .. (BankSize[currentFlashBank] - 1) : c = Window(i)
WorksInBank ==
  /\ currentFlashOp = "EraseInProgress" => chipOp.kind # "program"
  /\ currentFlashOp = "WriteInProgress" => chipOp.kind # "erase"
  /\ chipOp.kind = "program" => InBank(chipOp.cell)
  /\ chipOp.kind = "erase" /\ eraseSequenceMethod # "Chip" =>
       \A c \in chipOp.cells : InBank(c)

\* An erase command of the erase state concerns the unit of the byte under the scan.
LEMMA EraseCommand ==
  ASSUME IInv, EraseIssued
  PROVE  /\ chipOp = NoChipOp
         /\ \/ chipOp' = NoChipOp
            \/ chipOp' = [kind |-> "erase", cells |-> {}]
            \/ chipOp' = [kind |-> "erase", cells |->
                 EraseCells(eraseSequenceMethod', Window(startingOffset + currentAddr))]
<1>1. chipOp = NoChipOp
  BY NotBusyIsIdle DEF IInv, EraseIssued, ErasePolled
<1>2. InitiateErase(eraseSequenceMethod', startingOffset + currentAddr)
  BY DEF EraseIssued
<1>3. QED
  BY Zenon, <1>1, <1>2 DEF InitiateErase

\* A byte is programmed where the scan of the write state is.
LEMMA ProgramCommand ==
  ASSUME IInv, WriteNextByte
  PROVE  /\ chipOp = NoChipOp
         /\ \/ chipOp' = NoChipOp /\ ByteAtCurrentAddr = biosBuffer[currentAddr]
            \/ \E b \in {biosBuffer[currentAddr], Bits} :
                 /\ chipOp' = [kind |-> "program",
                               cell |-> Window(startingOffset + currentAddr), byte |-> b]
                 /\ b = biosBuffer[currentAddr] \/ WeakCells # {}
<1>1. chipOp = NoChipOp
  BY NotBusyIsIdle DEF IInv, WriteNextByte
<1>2. CASE ByteAtCurrentAddr = biosBuffer[currentAddr]
  BY Zenon, <1>1, <1>2 DEF WriteNextByte
<1>3. CASE ByteAtCurrentAddr # biosBuffer[currentAddr]
  <2>1. FlashLowLevel_WriteByte(biosBuffer[currentAddr], startingOffset + currentAddr)
    BY Zenon, <1>3 DEF WriteNextByte
  <2>2. QED
    BY <1>1, <2>1 DEF FlashLowLevel_WriteByte
<1>4. QED
  BY <1>2, <1>3

\* The other steps of Flash_executeFlashFSM start nothing.
LEMMA OtherStepsStartNothing ==
  ASSUME Flash_executeFlashFSM, ~EraseIssued, ~WriteNextByte
  PROVE  UNCHANGED <<flash, chipOp>>
<1> USE DEF chipVars
<1>1. CASE FsmPending \/ FsmVerify \/ FsmRead
  BY Zenon, <1>1 DEF FsmPending, FsmVerify, FsmRead, BusyWait
<1>2. CASE FsmErase
  BY Zenon, <1>2 DEF FsmErase, FsmEraseBusy, BusyWait, EraseNotNeeded, EraseWidened, EraseFailed
<1>3. CASE FsmWrite
  BY Zenon, <1>3 DEF FsmWrite, BusyWait, WriteOver
<1>4. QED
  BY <1>1, <1>2, <1>3 DEF Flash_executeFlashFSM

\* With a busy chip Flash_executeFlashFSM can only poll.
LEMMA BusyChipWaits ==
  ASSUME IInv, Flash_executeFlashFSM, chipOp # NoChipOp
  PROVE  BusyWait /\ UNCHANGED <<eraseSequenceMethod, firstEraseTry>>
<1>1. currentFlashOp \in {"EraseInProgress", "WriteInProgress"} /\ ~DeviceIsBusy(FALSE)
  BY Zenon, NotBusyIsIdle DEF IInv, QuietChip
<1>2. QED
  BY Zenon, <1>1 DEF Flash_executeFlashFSM, FsmPending, FsmErase, FsmEraseBusy,
     EraseNotNeeded, EraseIssued, EraseWidened, EraseFailed, ErasePolled, FsmWrite,
     WriteOver, WriteNextByte, FsmVerify, FsmRead, eraseVars

\* The steps of Flash_executeFlashFSM keep the bank, the task and the settings.
LEMMA FsmKeepsBank ==
  ASSUME Flash_executeFlashFSM
  PROVE  UNCHANGED <<currentFlashBank, LPCmodSettings, history, currentFlashTask>>
<1> USE DEF envVars, stateVars, eraseVars
<1>1. CASE FsmPending \/ FsmVerify \/ FsmRead
  BY Zenon, <1>1 DEF FsmPending, FsmVerify, FsmRead, BusyWait
<1>2. CASE FsmErase
  BY Zenon, <1>2 DEF FsmErase, FsmEraseBusy, BusyWait, EraseNotNeeded, EraseIssued,
     EraseWidened, EraseFailed
<1>3. CASE FsmWrite
  BY Zenon, <1>3 DEF FsmWrite, BusyWait, WriteOver, WriteNextByte
<1>4. QED
  BY <1>1, <1>2, <1>3 DEF Flash_executeFlashFSM

\* WorksInBank is an invariant.
LEMMA WorksInBankStep == IInv /\ JobInv /\ WorksInBank /\ [Next]_vars => WorksInBank'
<1> SUFFICES ASSUME IInv, JobInv, WorksInBank, [Next]_vars PROVE WorksInBank'
  OBVIOUS
<1>1. startingOffset + currentAddr \in Nat /\ currentFlashBank \in Banks
  BY DEF IInv, TypeOK
<1>2. CASE chipOp' = NoChipOp
  BY <1>2 DEF WorksInBank, NoChipOp
<1>3. CASE UNCHANGED <<chipOp, currentFlashBank, eraseSequenceMethod, currentFlashOp>>
  BY Zenon, <1>3 DEF WorksInBank, InBank, Window
<1>4. CASE EraseIssued
  <2>1. /\ UNCHANGED currentFlashBank /\ eraseSequenceMethod' \in Methods
        /\ currentFlashOp' = "EraseInProgress"
    BY <1>4 DEF EraseIssued, ErasePolled, envVars, stateVars, NextEraseMethod, Methods,
                IInv, TypeOK
  <2>2. CASE chipOp' = [kind |-> "erase", cells |->
                 EraseCells(eraseSequenceMethod', Window(startingOffset + currentAddr))]
    <3>1. ASSUME eraseSequenceMethod' # "Chip",
                 NEW c \in EraseCells(eraseSequenceMethod', Window(startingOffset + currentAddr))
          PROVE  InBank(c)'
      BY Zenon, <1>1, <2>1, <3>1, EraseStaysInBank DEF InBank, Window
    <3>2. QED
      BY <2>1, <2>2, <3>1 DEF WorksInBank
  <2>3. CASE chipOp' = [kind |-> "erase", cells |-> {}]
    BY <2>1, <2>3 DEF WorksInBank
  <2>4. QED
    BY <1>2, <1>4, <2>2, <2>3, EraseCommand
<1>5. CASE WriteNextByte
  <2>1. UNCHANGED currentFlashBank /\ currentFlashOp' = "WriteInProgress"
    BY <1>5 DEF WriteNextByte, envVars, stateVars
  <2>2. CASE chipOp' # NoChipOp
    <3>1. chipOp'.kind = "program" /\ chipOp'.cell = Window(startingOffset + currentAddr)
      BY <1>5, <2>2, ProgramCommand
    <3>2. \E i \in 0 .. (BankSize[currentFlashBank] - 1) :
            Window(startingOffset + currentAddr) = WindowOf(currentFlashBank, i)
      BY Zenon, <1>1, WindowInBank DEF Window
    <3>3. InBank(chipOp.cell)'
      BY Zenon, <2>1, <3>1, <3>2 DEF InBank, Window
    <3>4. QED
      BY <2>1, <3>1, <3>3 DEF WorksInBank
  <2>3. QED
    BY <1>2, <2>2
<1>6. CASE Flash_executeFlashFSM /\ ~EraseIssued /\ ~WriteNextByte
  BY <1>2, <1>3, <1>6, OtherStepsStartNothing, BusyChipWaits, BusyKeepsJob
<1>7. CASE UNCHANGED vars
  BY <1>3, <1>7 DEF vars, chipVars, envVars, eraseVars, stateVars
<1>8. QED
  BY <1>2, <1>4, <1>5, <1>6, <1>7, OutsideCalls DEF ChipCompletes, Outside

\* A write to one bank, an erase that a power cut interrupts included, changes cells
\* of that bank only, as long as the engine has not fallen back to the chip erase:
\* sectors and blocks never straddle two banks.
THEOREM OneBankAtATime == Spec => OtherBanksUntouched
<1> DEFINE Untouched == \A c \in Cells : flash'[c] # flash[c] =>
             \/ \E i \in 0 .. (BankSize[currentFlashBank] - 1) : c = Window(i)
             \/ eraseSequenceMethod = "Chip"
<1>1. Init => WorksInBank
  BY DEF Init, WorksInBank, NoChipOp
<1>2. ASSUME IInv, JobInv, WorksInBank, [Next]_vars
      PROVE  Untouched
  <2>1. SUFFICES ASSUME NEW c \in Cells, flash'[c] # flash[c], eraseSequenceMethod # "Chip"
                 PROVE  InBank(c)
    BY DEF InBank
  <2>2. \/ chipOp.kind = "erase" /\ c \in chipOp.cells
        \/ chipOp.kind = "program" /\ c = chipOp.cell
    <3>1. flash \in [Cells -> Byte] /\ chipOp \in ChipOps
      BY <1>2 DEF IInv, TypeOK
    <3>2. CASE ChipCompletes
      BY <2>1, <3>1, <3>2 DEF ChipCompletes, ChipOps, NoChipOp
    <3>3. CASE PowerCut
      BY <2>1, <3>1, <3>3 DEF PowerCut, ChipOps
    <3>4. ChipCompletes \/ PowerCut
      <4>1. ~Flash_executeFlashFSM
        BY Zenon, <2>1, OtherStepsStartNothing DEF EraseIssued, WriteNextByte
      <4>2. QED
        BY Zenon, <1>2, <2>1, <4>1 DEF Next, Flash_XBlastOSBankFlash,
           Flash_XBlastUserBankFlash, Flash_SimpleBIOSBankFlash, Flash_ReadBIOSBank,
           Flash_SaveXBlastOSSettings, Flash_ReadXBlastOSSettingsRequest, JobFreed,
           Flash_ReadDeviceInfo, bootReadXBlastOSSettings, Flash_forceUserAbort,
           switchOSBank, SettingsEdited, Flash_WriteBios, vars, chipVars
    <3>5. QED
      BY <3>2, <3>3, <3>4
  <2>3. QED
    BY <1>2, <2>1, <2>2 DEF WorksInBank
<1>3. IInv /\ JobInv /\ WorksInBank /\ [Next]_vars => [Untouched]_vars
  BY <1>2
<1>4. QED
  BY <1>1, <1>3, WorksInBankStep, JobInvariant, PTL DEF Spec, OtherBanksUntouched

-----------------------------------------------------------------------------
(* A chip that obeys.                                                      *)

\* What a job knows about a chip that obeys when its range fits the bank. Erasing:
\* the bytes that the scan has passed can be written, and the byte under the scan is
\* erased as soon as the chip erase was tried on it. Writing: the bytes behind the
\* scan are written, the last one perhaps about to be; those ahead can be written.
Place(i) == Window(startingOffset + i)
Writable(i) == biosBuffer[i] \subseteq flash[Place(i)]
Written(i) == flash[Place(i)] = biosBuffer[i]
BeingWritten(i) ==
  chipOp = [kind |-> "program", cell |-> Place(i), byte |-> biosBuffer[i]]
Fits == biosBufferSize <= BankSize[currentFlashBank]
EraseGood ==
  currentFlashOp = "EraseInProgress" =>
    /\ \A i \in 0 .. (currentAddr - 1) : Writable(i)
    /\ ~firstEraseTry /\ eraseSequenceMethod = "Chip" =>
         IF chipOp = NoChipOp THEN ByteAtCurrentAddr = Bits ELSE chipOp.cells = Cells
WriteGood ==
  currentFlashOp = "WriteInProgress" =>
    /\ \A i \in currentAddr .. (biosBufferSize - 1) : Writable(i)
    /\ \A i \in 0 .. (biosBufferSize - 1) :
         i < currentAddr => Written(i) \/ (BeingWritten(i) /\ Writable(i))
    /\ chipOp = NoChipOp \/ \E i \in 0 .. (biosBufferSize - 1) :
                              i < currentAddr /\ BeingWritten(i)
VerifyGood ==
  currentFlashOp = "VerifyInProgress" => \A i \in 0 .. (biosBufferSize - 1) : Written(i)
FailureExcused ==
  flashErrorCode \in {"FailedErase", "FailedVerify"} => currentFlashOp = "Error" /\ ~Fits
StartsFresh ==
  currentFlashOp \in {"PendingOp", "ReadInProgress"} /\ currentFlashTask \in WriteTasks
    => firstEraseTry
GoodFacts ==
  FailureExcused /\ StartsFresh /\ (Fits => EraseGood /\ WriteGood /\ VerifyGood)
GoodInv == ChipObeys => GoodFacts

\* The bytes of a job that fits its bank have a cell each.
LEMMA PlacesDiffer ==
  ASSUME NEW bank \in Banks, NEW a \in Nat,
         NEW i \in 0 .. (BankSize[bank] - 1), NEW j \in 0 .. (BankSize[bank] - 1), i < j
  PROVE  WindowOf(bank, a + i) # WindowOf(bank, a + j)
<1> DEFINE n == BankSize[bank]
           p == (a + i) \div n
           q == (a + j) \div n
<1>1. n \in Nat \ {0} /\ BankBase[bank] \in Nat /\ n > j - i
  BY BanksAssumption
<1>2. SUFFICES ASSUME (a + i) % n = (a + j) % n PROVE FALSE
  <2>1. (a + i) % n \in Nat /\ (a + j) % n \in Nat
    BY <1>1
  <2>2. /\ WindowOf(bank, a + i) = BankBase[bank] + ((a + i) % n)
        /\ WindowOf(bank, a + j) = BankBase[bank] + ((a + j) % n)
    BY Zenon DEF WindowOf
  <2> DEFINE x == (a + i) % n
             y == (a + j) % n
  <2> HIDE DEF x, y, n
  <2>3. BankBase[bank] + x = BankBase[bank] + y => x = y
    BY <1>1, <2>1 DEF x, y
  <2>4. QED
    BY Zenon, <2>2, <2>3 DEF x, y
<1> HIDE DEF n
<1>3. /\ p \in Nat /\ q \in Nat
      /\ a + i = n * p + ((a + i) % n) /\ a + j = n * q + ((a + j) % n)
  BY <1>1
<1> HIDE DEF p, q
<1>4. a + i - n * p = a + j - n * q
  BY <1>1, <1>2, <1>3
<1>5. n * p < n * q
  BY <1>1, <1>3, <1>4
<1>6. p + 1 <= q
  <2>1. SUFFICES ASSUME q <= p PROVE FALSE
    BY <1>3
  <2>2. n * q <= n * p
    BY <1>1, <1>3, <2>1, Monotonic
  <2>3. QED
    BY <1>1, <1>3, <1>5, <2>2
<1>7. n * (p + 1) <= n * q /\ n * (p + 1) = n * p + n
  BY <1>1, <1>3, <1>6, Monotonic
<1>8. QED
  BY <1>1, <1>3, <1>4, <1>7

\* Where the bytes of a job are.
LEMMA PlaceFacts ==
  ASSUME IInv, Fits
  PROVE  /\ \A i \in 0 .. (biosBufferSize - 1) :
              Place(i) \in Cells /\ biosBuffer[i] \subseteq Bits
         /\ \A i, j \in 0 .. (biosBufferSize - 1) : Place(i) = Place(j) => i = j
<1>1. /\ startingOffset \in Nat /\ currentFlashBank \in Banks /\ biosBufferSize \in Nat
      /\ biosBufferSize <= BufferLength /\ biosBuffer \in [BufIndex -> Byte]
      /\ BankSize[currentFlashBank] \in Nat /\ BufferLength \in Nat
  BY BanksAssumption, SizesAssumption DEF IInv, TypeOK
<1>2. ASSUME NEW i \in 0 .. (biosBufferSize - 1)
      PROVE  Place(i) \in Cells /\ biosBuffer[i] \subseteq Bits
  <2>1. startingOffset + i \in Nat /\ i \in BufIndex
    BY <1>1 DEF BufIndex
  <2>2. QED
    BY <1>1, <2>1, WindowInCells DEF Place, Window, Byte
<1>3. ASSUME NEW i \in 0 .. (biosBufferSize - 1), NEW j \in 0 .. (biosBufferSize - 1), i < j
      PROVE  Place(i) # Place(j)
  <2>1. /\ i \in 0 .. (BankSize[currentFlashBank] - 1)
        /\ j \in 0 .. (BankSize[currentFlashBank] - 1)
    BY <1>1 DEF Fits
  <2>2. QED
    BY Zenon, <1>1, <1>3, <2>1, PlacesDiffer DEF Place, Window
<1>4. ASSUME NEW i \in 0 .. (biosBufferSize - 1), NEW j \in 0 .. (biosBufferSize - 1),
             Place(i) = Place(j)
      PROVE  i = j
  <2>1. ~(i < j) /\ ~(j < i)
    BY <1>3, <1>4
  <2>2. QED
    BY <1>1, <2>1
<1>5. QED
  BY <1>2, <1>4

\* Steps that leave the chip and the job alone.
LEMMA GoodUndisturbed ==
  ASSUME GoodFacts,
         UNCHANGED <<flash, chipOp, biosBuffer, biosBufferSize, currentFlashOp,
                     currentFlashTask, flashErrorCode, startingOffset, currentAddr,
                     currentFlashBank, eraseSequenceMethod, firstEraseTry>>
  PROVE  GoodFacts'
<1>1. Fits' = Fits /\ FailureExcused' /\ StartsFresh'
  BY Zenon DEF GoodFacts, Fits, FailureExcused, StartsFresh
<1>2. EraseGood' = EraseGood /\ WriteGood' = WriteGood /\ VerifyGood' = VerifyGood
  BY Zenon DEF EraseGood, WriteGood, VerifyGood, Writable, Written, BeingWritten, Place,
     Window, ByteAtCurrentAddr, FlashLowLevel_ReadByte
<1>3. QED
  BY <1>1, <1>2 DEF GoodFacts

\* The calls from outside start a job afresh or end it.
LEMMA GoodOutside ==
  ASSUME Outside
  PROVE  GoodFacts'
<1>1. FailureExcused'
  BY DEF Outside, FailureExcused
<1>2. StartsFresh'
  BY DEF Outside, StartsFresh, WriteTasks, SaveStarted, BiosStarted, WriteBiosJob
<1>3. EraseGood' /\ WriteGood' /\ VerifyGood'
  BY DEF Outside, EraseGood, WriteGood, VerifyGood
<1>4. QED
  BY <1>1, <1>2, <1>3 DEF GoodFacts

\* What is not a failure while a job works.
LEMMA WorkingIsNoFailure ==
  ASSUME GoodFacts, currentFlashOp # "Error"
  PROVE  flashErrorCode \notin {"FailedErase", "FailedVerify"}
BY DEF GoodFacts, FailureExcused

\* The chip finishes an erase or a byte.
LEMMA GoodChipStep ==
  ASSUME IInv, JobInv, WorksInBank, GoodFacts, ChipCompletes
  PROVE  GoodFacts'
<1>1. /\ UNCHANGED <<biosBuffer, biosBufferSize, currentFlashOp, currentFlashTask,
                     flashErrorCode, startingOffset, currentAddr, currentFlashBank,
                     eraseSequenceMethod, firstEraseTry>>
      /\ chipOp # NoChipOp /\ chipOp' = NoChipOp
      /\ flash \in [Cells -> Byte] /\ chipOp \in ChipOps
  BY DEF ChipCompletes, IInv, TypeOK, pollVars, bufVars, stateVars, rangeVars, eraseVars,
         envVars
<1>2. Fits' = Fits /\ FailureExcused' /\ StartsFresh' /\ \A i : Place(i)' = Place(i)
  BY <1>1 DEF GoodFacts, Fits, FailureExcused, StartsFresh, Place, Window
<1>3. SUFFICES ASSUME Fits PROVE EraseGood' /\ WriteGood' /\ VerifyGood'
  BY <1>2 DEF GoodFacts
<1>4. CASE currentFlashOp = "EraseInProgress"
  <2>1. chipOp.kind = "erase"
    BY <1>1, <1>4 DEF WorksInBank, ChipOps, NoChipOp
  <2>2. flash' = [c \in Cells |-> IF c \in chipOp.cells THEN Bits ELSE flash[c]]
    BY <2>1 DEF ChipCompletes
  <2>3. \A c \in Cells : flash[c] \subseteq flash'[c]
    BY <1>1, <2>2 DEF Byte
  <2>4. currentAddr \in 0 .. (biosBufferSize - 1)
    BY <1>4 DEF JobInv, Scanning, IInv, TypeOK
  <2>5. ASSUME NEW i \in 0 .. (currentAddr - 1) PROVE Writable(i)'
    <3>1. i \in 0 .. (biosBufferSize - 1) /\ Writable(i)
      BY <1>3, <1>4, <2>4 DEF GoodFacts, EraseGood, IInv, TypeOK
    <3>2. QED
      BY <1>1, <1>2, <1>3, <2>3, <3>1, PlaceFacts DEF Writable
  <2>6. ASSUME ~firstEraseTry, eraseSequenceMethod = "Chip" PROVE ByteAtCurrentAddr' = Bits
    <3>1. chipOp.cells = Cells
      BY Zenon, <1>1, <1>3, <1>4, <2>6 DEF GoodFacts, EraseGood
    <3>2. flash'[Place(currentAddr)] = Bits
      BY <1>3, <2>2, <2>4, <3>1, PlaceFacts
    <3>3. QED
      BY <1>1, <3>2 DEF ByteAtCurrentAddr, FlashLowLevel_ReadByte, Place, Window
  <2>7. /\ currentFlashOp' # "WriteInProgress" /\ currentFlashOp' # "VerifyInProgress"
        /\ currentAddr' = currentAddr /\ firstEraseTry' = firstEraseTry
        /\ eraseSequenceMethod' = eraseSequenceMethod /\ chipOp' = NoChipOp
    BY <1>1, <1>4
  <2>8. EraseGood'
    BY Zenon, <2>5, <2>6, <2>7 DEF EraseGood
  <2>9. QED
    BY Zenon, <2>7, <2>8 DEF WriteGood, VerifyGood
<1>5. CASE currentFlashOp = "WriteInProgress"
  <2>1. PICK j \in 0 .. (biosBufferSize - 1) : j < currentAddr /\ BeingWritten(j)
    BY <1>1, <1>3, <1>5 DEF GoodFacts, WriteGood
  <2>2. /\ flash' = [flash EXCEPT ![Place(j)] = @ \cap biosBuffer[j]]
        /\ Place(j) \in Cells
    BY <1>3, <2>1, PlaceFacts DEF ChipCompletes, BeingWritten
  <2>3. Written(j)'
    <3>1. biosBuffer[j] \subseteq flash[Place(j)]
      BY <1>3, <1>5, <2>1 DEF GoodFacts, WriteGood, Writable, Written
    <3>2. flash'[Place(j)] = biosBuffer[j]
      BY <1>1, <2>2, <3>1
    <3>3. QED
      BY <1>1, <1>2, <3>2 DEF Written
  <2>4. ASSUME NEW i \in 0 .. (biosBufferSize - 1), i # j
        PROVE  flash'[Place(i)] = flash[Place(i)] /\ ~BeingWritten(i)
    <3>1. Place(i) # Place(j)
      BY <1>3, <2>4, PlaceFacts
    <3>2. QED
      BY <1>1, <2>1, <2>2, <3>1 DEF BeingWritten
  <2>5. ASSUME NEW i \in 0 .. (biosBufferSize - 1), i < currentAddr PROVE Written(i)'
    <3>1. CASE i # j
      <4>1. Written(i)
        BY <1>3, <1>5, <2>4, <2>5, <3>1 DEF GoodFacts, WriteGood
      <4>2. QED
        BY <1>1, <1>2, <2>4, <3>1, <4>1 DEF Written
    <3>2. QED
      BY <2>3, <3>1
  <2>6. ASSUME NEW i \in currentAddr .. (biosBufferSize - 1) PROVE Writable(i)'
    <3>1. i \in 0 .. (biosBufferSize - 1) /\ i # j /\ Writable(i)
      BY <1>3, <1>5, <2>1 DEF GoodFacts, WriteGood, IInv, TypeOK
    <3>2. QED
      BY <1>1, <1>2, <2>4, <3>1 DEF Writable
  <2>7. QED
    BY <1>1, <1>5, <2>5, <2>6 DEF EraseGood, WriteGood, VerifyGood
<1>6. QED
  BY <1>1, <1>4, <1>5 DEF IInv, QuietChip

\* The scan of the erase state moves on, or erases with a method that works in the end.
LEMMA GoodEraseStep ==
  ASSUME IInv, JobInv, ChipObeys, GoodFacts, FsmErase, ~FsmEraseBusy
  PROVE  GoodFacts'
<1> USE DEF chipVars, bufVars, stateVars, rangeVars, envVars
<1>1. /\ currentFlashOp = "EraseInProgress" /\ chipOp = NoChipOp
      /\ ErasePolled /\ currentFlashTask \in WriteTasks
  BY Zenon, NotBusyIsIdle DEF FsmErase, EraseNotNeeded, EraseIssued, EraseWidened,
     EraseFailed, ErasePolled, IInv, JobInv
<1>2. /\ currentAddr \in 0 .. (biosBufferSize - 1) /\ biosBufferSize \in Nat
      /\ ByteAtCurrentAddr = flash[Place(currentAddr)]
      /\ flashErrorCode \notin {"FailedErase", "FailedVerify"}
  BY <1>1, WorkingIsNoFailure DEF JobInv, Scanning, IInv, TypeOK, ByteAtCurrentAddr, Place,
     FlashLowLevel_ReadByte
<1>3. CASE EraseNotNeeded
  <2>1. /\ UNCHANGED <<flash, chipOp, biosBuffer, biosBufferSize, flashErrorCode,
                       startingOffset, currentFlashBank>>
        /\ firstEraseTry' = TRUE
    BY <1>3 DEF EraseNotNeeded
  <2>2. Fits' = Fits /\ FailureExcused' /\ StartsFresh'
    BY <1>2, <2>1 DEF Fits, FailureExcused, StartsFresh
  <2>3. SUFFICES ASSUME Fits PROVE EraseGood' /\ WriteGood' /\ VerifyGood'
    BY <2>2 DEF GoodFacts
  <2>4. \A i : Writable(i)' = Writable(i)
    BY <2>1 DEF Writable, Place, Window
  <2>5. \A i \in 0 .. currentAddr : Writable(i)
    <3>1. Writable(currentAddr)
      BY <1>2, <1>3 DEF EraseNotNeeded, canWrite, Writable
    <3>2. \A i \in 0 .. (currentAddr - 1) : Writable(i)
      BY <1>1, <2>3 DEF GoodFacts, EraseGood
    <3>3. QED
      BY <1>2, <3>1, <3>2
  <2>6. CASE currentAddr + 1 >= biosBufferSize
    <3>1. currentFlashOp' = "WriteInProgress" /\ currentAddr' = 0
      BY <1>3, <2>6 DEF EraseNotNeeded
    <3>2. \A i \in 0 .. (biosBufferSize - 1) : Writable(i)
      BY <1>2, <2>5, <2>6
    <3>3. QED
      BY <1>1, <2>1, <2>4, <3>1, <3>2 DEF EraseGood, WriteGood, VerifyGood
  <2>7. CASE ~(currentAddr + 1 >= biosBufferSize)
    <3>1. currentFlashOp' = "EraseInProgress" /\ currentAddr' = currentAddr + 1
      BY <1>1, <1>3, <2>7 DEF EraseNotNeeded
    <3>2. \A i \in 0 .. (currentAddr' - 1) : Writable(i)
      BY <1>2, <2>5, <3>1
    <3>3. QED
      BY <2>1, <2>4, <3>1, <3>2 DEF EraseGood, WriteGood, VerifyGood
  <2>8. QED
    BY <2>6, <2>7
<1>4. CASE EraseIssued
  <2>1. /\ UNCHANGED <<flash, biosBuffer, biosBufferSize, flashErrorCode, currentFlashOp,
                       currentFlashTask, startingOffset, currentAddr, currentFlashBank>>
        /\ InitiateErase(eraseSequenceMethod', startingOffset + currentAddr)
    BY <1>4 DEF EraseIssued
  <2>2. Fits' = Fits /\ FailureExcused' /\ StartsFresh'
    BY <1>1, <1>2, <2>1 DEF Fits, FailureExcused, StartsFresh
  <2>3. SUFFICES ASSUME Fits PROVE EraseGood' /\ WriteGood' /\ VerifyGood'
    BY <2>2 DEF GoodFacts
  <2>4. ASSUME eraseSequenceMethod' = "Chip"
        PROVE  chipOp' = [kind |-> "erase", cells |-> Cells]
    <3>1. chipOp' = [kind |-> "erase", cells |-> EraseCells("Chip", Place(currentAddr))]
      BY <2>1, <2>4 DEF InitiateErase, ChipObeys, Place
    <3>2. \A d \in Cells : d \div ChipLength = 0
      BY SizesAssumption DEF Cells
    <3>3. EraseCells("Chip", Place(currentAddr)) = Cells
      BY <1>2, <2>3, <3>2, PlaceFacts DEF EraseCells, EraseExtent
    <3>4. QED
      BY <3>1, <3>3
  <2>5. \A i : Writable(i)' = Writable(i)
    BY <2>1 DEF Writable, Place, Window
  <2>6. QED
    BY <1>1, <2>1, <2>3, <2>4, <2>5 DEF GoodFacts, EraseGood, WriteGood, VerifyGood, NoChipOp
<1>5. CASE EraseWidened
  <2>1. /\ currentFlashOp' = "ReadInProgress" /\ firstEraseTry' = TRUE
        /\ UNCHANGED flashErrorCode
    BY <1>5 DEF EraseWidened
  <2>2. QED
    BY <1>2, <2>1 DEF GoodFacts, FailureExcused, StartsFresh, EraseGood, WriteGood, VerifyGood
<1>6. CASE EraseFailed
  <2>1. /\ currentFlashOp' = "Error" /\ UNCHANGED <<biosBufferSize, currentFlashBank>>
        /\ ~canWrite(ByteAtCurrentAddr, biosBuffer[currentAddr])
        /\ ~firstEraseTry /\ eraseSequenceMethod = "Chip"
    BY <1>6 DEF EraseFailed, EraseNeverHappened
  <2>2. ~Fits
    <3>1. SUFFICES ASSUME Fits PROVE FALSE
      OBVIOUS
    <3>2. ByteAtCurrentAddr = Bits
      BY Zenon, <1>1, <2>1, <3>1 DEF GoodFacts, EraseGood
    <3>3. QED
      BY <1>2, <2>1, <3>1, <3>2, PlaceFacts DEF canWrite
  <2>3. QED
    BY <2>1, <2>2 DEF GoodFacts, Fits, FailureExcused, StartsFresh
<1>7. QED
  BY <1>3, <1>4, <1>5, <1>6 DEF FsmErase

\* The write state programs the next byte or hands over to the verification.
LEMMA GoodWriteStep ==
  ASSUME IInv, ChipObeys, GoodFacts, WriteOver \/ WriteNextByte
  PROVE  GoodFacts'
<1> USE DEF chipVars, bufVars, stateVars, rangeVars, eraseVars, envVars
<1>1. currentFlashOp = "WriteInProgress" /\ chipOp = NoChipOp
  BY Zenon, NotBusyIsIdle DEF WriteOver, WriteNextByte, IInv
<1>2. /\ currentAddr \in Nat /\ biosBufferSize \in Nat
      /\ ByteAtCurrentAddr = flash[Place(currentAddr)]
      /\ flashErrorCode \notin {"FailedErase", "FailedVerify"}
  BY <1>1, WorkingIsNoFailure DEF IInv, TypeOK, ByteAtCurrentAddr, Place, FlashLowLevel_ReadByte
<1>3. /\ UNCHANGED <<flash, biosBuffer, biosBufferSize, flashErrorCode, startingOffset,
                     currentFlashBank>>
      /\ currentFlashOp' \in {"WriteInProgress", "VerifyInProgress"}
  BY Zenon, <1>1 DEF WriteOver, WriteNextByte
<1>4. Fits' = Fits /\ FailureExcused' /\ StartsFresh'
  BY <1>2, <1>3 DEF Fits, FailureExcused, StartsFresh
<1>5. SUFFICES ASSUME Fits PROVE EraseGood' /\ WriteGood' /\ VerifyGood'
  BY <1>4 DEF GoodFacts
<1>6. \A i : Writable(i)' = Writable(i) /\ Written(i)' = Written(i) /\ Place(i)' = Place(i)
  BY <1>3 DEF Writable, Written, Place, Window
<1>7. \A i \in 0 .. (biosBufferSize - 1) : i < currentAddr => Written(i)
  <2>1. \A i : ~BeingWritten(i)
    BY <1>1 DEF BeingWritten, NoChipOp
  <2>2. QED
    BY Zenon, <1>1, <1>5, <2>1 DEF GoodFacts, WriteGood
<1>8. CASE WriteOver
  <2>1. currentFlashOp' = "VerifyInProgress" /\ currentAddr >= biosBufferSize
    BY <1>8 DEF WriteOver
  <2>2. \A i \in 0 .. (biosBufferSize - 1) : Written(i)
    BY <1>2, <1>7, <2>1
  <2>3. QED
    BY <1>3, <1>6, <2>1, <2>2 DEF EraseGood, WriteGood, VerifyGood
<1>9. CASE WriteNextByte
  <2>1. /\ currentFlashOp' = "WriteInProgress" /\ currentAddr' = currentAddr + 1
        /\ currentAddr \in 0 .. (biosBufferSize - 1)
    BY <1>1, <1>2, <1>9 DEF WriteNextByte
  <2>2. \A i \in currentAddr .. (biosBufferSize - 1) : Writable(i)
    BY <1>1, <1>5 DEF GoodFacts, WriteGood
  <2>3. \A i \in currentAddr' .. (biosBufferSize - 1) : Writable(i)
    BY <1>2, <2>1, <2>2
  <2>4. CASE chipOp' = NoChipOp
    <3>1. Written(currentAddr)
      BY <1>2, <1>9, <2>4, ProgramCommand DEF Written, NoChipOp
    <3>2. \A i \in 0 .. (biosBufferSize - 1) : i < currentAddr' => Written(i)
      BY <1>2, <1>7, <2>1, <3>1
    <3>3. QED
      BY <1>3, <1>6, <2>1, <2>3, <2>4, <3>2 DEF EraseGood, WriteGood, VerifyGood
  <2>5. CASE chipOp' # NoChipOp
    <3>1. chipOp' = [kind |-> "program", cell |-> Place(currentAddr),
                     byte |-> biosBuffer[currentAddr]]
      BY <1>9, <2>5, ProgramCommand DEF ChipObeys, Place
    <3>2. ASSUME NEW i, i = currentAddr PROVE BeingWritten(i)'
      BY <1>3, <1>6, <3>1, <3>2 DEF BeingWritten
    <3>3. \A i \in 0 .. (biosBufferSize - 1) :
            i < currentAddr' => Written(i)' \/ (BeingWritten(i)' /\ Writable(i)')
      BY <1>2, <1>6, <1>7, <2>1, <2>2, <3>2
    <3>4. \E i \in 0 .. (biosBufferSize - 1) : i < currentAddr' /\ BeingWritten(i)'
      BY <1>2, <2>1, <3>2
    <3>5. QED
      BY <1>3, <1>6, <2>1, <2>3, <3>3, <3>4 DEF EraseGood, WriteGood, VerifyGood
  <2>6. QED
    BY <2>4, <2>5
<1>10. QED
  BY <1>8, <1>9

\* The verification finds every byte.
LEMMA GoodVerifyStep ==
  ASSUME IInv, GoodFacts, FsmVerify, ~BusyWait
  PROVE  GoodFacts'
<1> USE DEF chipVars, bufVars, stateVars, rangeVars, eraseVars, envVars
<1>1. /\ currentFlashOp = "VerifyInProgress"
      /\ UNCHANGED <<flash, biosBuffer, biosBufferSize, startingOffset, currentFlashBank>>
      /\ \/ currentFlashOp' \in {"Completed", "VerifyInProgress"} /\ UNCHANGED flashErrorCode
         \/ /\ currentFlashOp' = "Error" /\ ~(currentAddr >= biosBufferSize)
            /\ ByteAtCurrentAddr # biosBuffer[currentAddr]
  BY Zenon DEF FsmVerify
<1>2. /\ currentAddr \in Nat /\ biosBufferSize \in Nat
      /\ ByteAtCurrentAddr = flash[Place(currentAddr)]
      /\ flashErrorCode \notin {"FailedErase", "FailedVerify"}
  BY <1>1, WorkingIsNoFailure DEF IInv, TypeOK, ByteAtCurrentAddr, Place, FlashLowLevel_ReadByte
<1>3. Fits' = Fits /\ StartsFresh'
  BY <1>1 DEF Fits, StartsFresh
<1>4. Fits => \A i \in 0 .. (biosBufferSize - 1) : Written(i)
  BY <1>1 DEF GoodFacts, VerifyGood
<1>5. FailureExcused'
  BY <1>1, <1>2, <1>3, <1>4 DEF FailureExcused, Written
<1>6. \A i : Written(i)' = Written(i)
  BY <1>1 DEF Written, Place, Window
<1>7. QED
  BY <1>1, <1>3, <1>4, <1>5, <1>6 DEF GoodFacts, EraseGood, WriteGood, VerifyGood

\* GoodInv is an invariant.
LEMMA GoodStep ==
  IInv /\ JobInv /\ WorksInBank /\ GoodInv /\ [Next]_vars => GoodInv'
<1> SUFFICES ASSUME IInv, JobInv, WorksInBank, GoodFacts, ChipObeys, [Next]_vars
             PROVE  GoodFacts'
  BY DEF GoodInv, ChipObeys
<1> USE DEF chipVars, bufVars, stateVars, rangeVars, eraseVars, envVars
<1>1. CASE UNCHANGED vars
  BY <1>1, GoodUndisturbed DEF vars
<1>2. CASE ChipCompletes
  BY <1>2, GoodChipStep
<1>3. CASE BusyWait /\ UNCHANGED <<eraseSequenceMethod, firstEraseTry>>
  BY <1>3, BusyKeepsJob, GoodUndisturbed
<1>4. CASE FsmPending
  <2>1. /\ currentFlashOp = "PendingOp"
        /\ currentFlashOp' = IF currentFlashTask = "WriteBios" THEN "EraseInProgress"
                                                               ELSE "ReadInProgress"
        /\ UNCHANGED <<flashErrorCode, currentFlashTask, currentAddr, firstEraseTry>>
        /\ currentAddr = 0
    BY <1>4 DEF FsmPending, JobInv
  <2>2. QED
    BY <2>1 DEF GoodFacts, FailureExcused, StartsFresh, EraseGood, WriteGood, VerifyGood,
       WriteTasks
<1>5. CASE FsmRead /\ ~BusyWait
  <2>1. /\ currentFlashOp = "ReadInProgress"
        /\ UNCHANGED <<flashErrorCode, currentFlashTask, firstEraseTry>>
        /\ \/ currentFlashOp' \in {"ReadInProgress", "Completed"}
           \/ /\ currentFlashOp' = "EraseInProgress" /\ currentAddr' = 0
              /\ currentFlashTask = "WriteSettings"
    BY Zenon, <1>5 DEF FsmRead
  <2>2. QED
    BY <2>1 DEF GoodFacts, FailureExcused, StartsFresh, EraseGood, WriteGood, VerifyGood,
       WriteTasks
<1>6. CASE Next /\ ~ChipCompletes /\ ~Flash_executeFlashFSM
  BY <1>6, OutsideCalls, GoodOutside
<1>7. CASE FsmErase
  BY Zenon, <1>3, <1>7, GoodEraseStep DEF FsmEraseBusy
<1>8. CASE FsmWrite
  BY Zenon, <1>3, <1>8, GoodWriteStep DEF FsmWrite
<1>9. CASE FsmVerify \/ FsmRead
  BY Zenon, <1>3, <1>5, <1>9, GoodVerifyStep DEF FsmVerify, FsmRead
<1>10. QED
  BY Zenon, <1>1, <1>2, <1>4, <1>6, <1>7, <1>8, <1>9 DEF Flash_executeFlashFSM

\* A chip whose chip erase works and whose bytes all program makes no job fail that fits
\* its bank, whatever smaller erase commands it ignores: the fallback of
\* Flash_executeFlashFSM from sector to block to chip always gets there.
THEOREM GoodChipsSucceed == Spec => []GoodChipNoFailure
<1>1. Init => WorksInBank /\ GoodInv
  BY DEF Init, WorksInBank, NoChipOp, GoodInv, GoodFacts, FailureExcused, StartsFresh,
         EraseGood, WriteGood, VerifyGood
<1>2. GoodInv => GoodChipNoFailure
  BY DEF GoodInv, GoodFacts, FailureExcused, Fits, GoodChipNoFailure
<1>3. QED
  BY <1>1, <1>2, WorksInBankStep, GoodStep, JobInvariant, PTL DEF Spec

=============================================================================
