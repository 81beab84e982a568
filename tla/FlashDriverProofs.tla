-------------------------- MODULE FlashDriverProofs --------------------------
(***************************************************************************)
(* Proofs about FlashDriver, for every chip, bank layout, set of images and *)
(* settings. The argument: a poll that answers "not busy" is right          *)
(* (PollSound), so the chip is quiet in every state but the erasing and the *)
(* writing one (QuietChip), so nothing changes what the verify state has    *)
(* already compared (VerifiedPrefix).                                       *)
(***************************************************************************)
EXTENDS FlashDriver, TLAPS

\* A working chip has been read at least once, or the next poll says busy anyway.
PollSound == chipOp # NoChipOp => firstBusyRead \/ lastStatus = "busy"

\* Only the erase and write states ever leave the chip working.
QuietChip ==
  currentFlashOp \notin {"EraseInProgress", "WriteInProgress"} => chipOp = NoChipOp

\* A BIOS write never passes through the read state.
ReadsAreNotWrites == currentFlashOp = "ReadInProgress" => currentFlashTask # "WriteBios"

\* The bytes that the verify state has passed are in the flash.
VerifiedPrefix ==
  currentFlashOp = "VerifyInProgress" =>
    \A i \in 0 .. (currentAddr - 1) : flash[Window(startingOffset + i)] = biosBuffer[i]

IInv == /\ TypeOK /\ PollSound /\ QuietChip /\ ReadsAreNotWrites
        /\ VerifiedPrefix /\ VerifiedMeansWritten

\* Every address the window maps is a cell of the chip.
LEMMA WindowInCells ==
  ASSUME NEW bank \in Banks, NEW a \in Nat
  PROVE  WindowOf(bank, a) \in Cells
<1>1. /\ BankSize[bank] \in Nat \ {0} /\ BankBase[bank] \in Nat
      /\ BankBase[bank] + BankSize[bank] <= ChipLength
  BY BanksAssumption
<1>2. a % BankSize[bank] \in 0 .. (BankSize[bank] - 1)
  BY <1>1
<1>3. QED
  BY <1>1, <1>2, SizesAssumption DEF WindowOf, Cells

\* FlashLowLevel_DeviceIsBusy answers "not busy" only when the chip is idle, and
\* whatever it answers the next poll is sound again.
LEMMA NotBusyIsIdle ==
  ASSUME TypeOK, PollSound, DeviceIsBusy(FALSE)
  PROVE  chipOp = NoChipOp /\ firstBusyRead' = TRUE /\ lastStatus' \in {"array", "busy"}
BY Zenon DEF TypeOK, PollSound, DeviceIsBusy

\* A poll that answers "busy" has read the working chip.
LEMMA BusyKeepsPollSound ==
  ASSUME TypeOK, PollSound, DeviceIsBusy(TRUE), UNCHANGED chipOp
  PROVE  PollSound' /\ firstBusyRead' = FALSE /\ lastStatus' \in {"array", "busy"}
BY Zenon DEF TypeOK, PollSound, DeviceIsBusy, NoChipOp

\* A job's buffer sizes fit in biosBuffer.
LEMMA SizesFit ==
  /\ \A meth \in Methods : getEraseMethodSize(meth) \in 1 .. BufferLength
  /\ \A bank \in Banks : MirrorTarget(bank) \in 1 .. BufferLength
BY SizesAssumption DEF getEraseMethodSize, MirrorTarget, Methods

\* injectSettingsInBuf keeps biosBuffer a buffer.
LEMMA InjectType ==
  ASSUME NEW buf \in [BufIndex -> Byte], NEW size, NEW offset, TypeOK
  PROVE  injectSettingsInBuf(buf, size, offset) \in [BufIndex -> Byte]
<1>1. LPCmodSettings \in Byte /\ Crc[LPCmodSettings] \in Byte
  BY DataAssumption DEF TypeOK
<1>2. QED
  BY Zenon, <1>1 DEF injectSettingsInBuf

\* Where the settings are is an address.
LEMMA OffsetInNat ==
  ASSUME NEW id \in [header : Nat, named : BOOLEAN, saveBit : BOOLEAN, biosSize : Nat]
  PROVE  getXBlastOSSettingStartingOffset(id) \in Nat
<1>1. (id.biosSize + Sector4KB - 1) % Sector4KB \in Nat
  BY SizesAssumption
<1>2. 3 * Block64KB \in Nat
  BY SizesAssumption
<1>3. QED
  BY <1>1, <1>2 DEF getXBlastOSSettingStartingOffset

\* Where the image in the flash keeps its settings is an address.
LEMMA SettingsOffsetInNat ==
  ASSUME TypeOK, NEW bank \in Banks
  PROVE  SettingsOffset(bank) \in Nat
<1>1. WindowOf(bank, Image256KB - 1) \in Cells
  BY WindowInCells, SizesAssumption
<1>2. getBiosIdentifierFromFlash(bank)
        \in [header : Nat, named : BOOLEAN, saveBit : BOOLEAN, biosSize : Nat]
  BY <1>1, DataAssumption DEF TypeOK, getBiosIdentifierFromFlash
<1>3. QED
  BY <1>2, OffsetInNat DEF SettingsOffset

\* Power-up: nothing runs and the chip is quiet.
LEMMA InitInv == Init => IInv
<1> SUFFICES ASSUME Init PROVE IInv
  OBVIOUS
<1>1. TypeOK
  <2>1. flash \in [Cells -> Byte]
    BY DataAssumption DEF Init
  <2>2. history \in [snapshot : [Cells -> Byte], cuts : Nat, jobs : Nat,
                     saved : SUBSET Payloads]
    BY <2>1 DEF Init
  <2>3. [i \in BufIndex |-> {}] \in [BufIndex -> Byte]
    BY DEF Byte
  <2>4. biosBuffer \in [BufIndex -> Byte] /\ biosBufferSize \in 0 .. BufferLength
    BY <2>3, SizesAssumption DEF Init
  <2>5. chipOp \in ChipOps
    BY DEF Init, ChipOps, NoChipOp
  <2>6. startingOffset \in Nat /\ currentAddr \in 0 .. BufferLength
    BY SizesAssumption DEF Init
  <2>7. currentFlashBank \in Banks /\ LPCmodSettings \in Payloads
    BY BanksAssumption, DataAssumption DEF Init
  <2>8. /\ lastStatus \in {"array", "busy"}
        /\ currentFlashOp \in FlashOps /\ currentFlashTask \in FlashTasks
        /\ flashErrorCode \in Errorcodes /\ eraseSequenceMethod \in Methods
    BY DEF Init, FlashOps, FlashTasks, Errorcodes, Methods
  <2>9. /\ firstBusyRead \in BOOLEAN /\ firstEraseTry \in BOOLEAN
        /\ booted \in BOOLEAN
    BY Zenon DEF Init
  <2>10. eraseBusyCount \in 0 .. EraseBusyCountMin
    BY DEF Init, EraseBusyCountMin
  <2>11. QED
    BY <2>1, <2>2, <2>4, <2>5, <2>6, <2>7, <2>8, <2>9, <2>10 DEF TypeOK
<1>2. QED
  BY <1>1 DEF Init, IInv, PollSound, QuietChip, ReadsAreNotWrites, VerifiedPrefix,
              VerifiedMeansWritten

\* What the chip does on its own leaves the engine alone and only happens in
\* the erase and write states.
LEMMA ChipStep == IInv /\ ChipCompletes => IInv'
<1> SUFFICES ASSUME IInv, ChipCompletes PROVE IInv'
  OBVIOUS
<1>1. currentFlashOp \in {"EraseInProgress", "WriteInProgress"}
  BY DEF IInv, QuietChip, ChipCompletes
<1>2. flash' \in [Cells -> Byte]
  <2>1. chipOp.kind = "erase" => flash' = [c \in Cells |->
                                   IF c \in chipOp.cells THEN Bits ELSE flash[c]]
    BY DEF ChipCompletes
  <2>2. chipOp.kind # "erase" =>
          flash' = [flash EXCEPT ![chipOp.cell] = flash[chipOp.cell] \cap chipOp.byte]
    BY DEF ChipCompletes
  <2>3. flash \in [Cells -> Byte]
    BY DEF IInv, TypeOK
  <2>4. CASE chipOp.kind = "erase"
    BY <2>1, <2>3, <2>4 DEF Byte
  <2>5. CASE chipOp.kind # "erase"
    <3>1. chipOp.cell \in Cells /\ chipOp.byte \in Byte
      BY <2>5 DEF IInv, TypeOK, ChipCompletes, ChipOps, NoChipOp
    <3>2. flash[chipOp.cell] \cap chipOp.byte \in Byte
      BY <3>1, <2>3 DEF Byte
    <3>3. QED
      BY <3>2, <2>2, <2>3, <2>5
  <2>6. QED
    BY <2>4, <2>5
<1>3. TypeOK'
  BY <1>2 DEF IInv, TypeOK, ChipCompletes, ChipOps, NoChipOp, pollVars, bufVars,
              stateVars, rangeVars, eraseVars, envVars
<1>4. QED
  BY <1>1, <1>3 DEF IInv, ChipCompletes, PollSound, QuietChip, ReadsAreNotWrites,
     VerifiedPrefix, VerifiedMeansWritten, stateVars

\* A poll that answers "busy" changes nothing but the poll's own state and
\* eraseBusyCount.
LEMMA BusyStep ==
  ASSUME IInv, BusyWait, eraseBusyCount' \in 0 .. EraseBusyCountMin,
         UNCHANGED <<eraseSequenceMethod, firstEraseTry>>
  PROVE  IInv'
<1>1. PollSound' /\ firstBusyRead' \in BOOLEAN /\ lastStatus' \in {"array", "busy"}
  BY BusyKeepsPollSound DEF IInv, BusyWait, chipVars
<1>2. TypeOK'
  BY <1>1 DEF IInv, TypeOK, BusyWait, chipVars, bufVars, stateVars, rangeVars, envVars
<1>3. VerifiedPrefix' /\ VerifiedMeansWritten'
  BY DEF IInv, BusyWait, VerifiedPrefix, VerifiedMeansWritten, Window, WindowOf,
         chipVars, bufVars, stateVars, rangeVars, envVars
<1>4. QED
  BY <1>1, <1>2, <1>3 DEF IInv, BusyWait, QuietChip, ReadsAreNotWrites,
     chipVars, stateVars

\* The step out of PendingOp touches nothing but currentFlashOp.
LEMMA PendingStep == IInv /\ FsmPending => IInv'
<1> SUFFICES ASSUME IInv, FsmPending PROVE IInv'
  OBVIOUS
<1> USE DEF FsmPending, chipVars, pollVars, bufVars, rangeVars, eraseVars, envVars
<1>1. TypeOK'
  BY DEF IInv, TypeOK, FlashOps
<1>2. QED
  BY <1>1 DEF IInv, PollSound, QuietChip, ReadsAreNotWrites,
     VerifiedPrefix, VerifiedMeansWritten


\* Reading the byte under the scan gives a byte.
LEMMA ScannedByte ==
  ASSUME TypeOK
  PROVE  Window(startingOffset + currentAddr) \in Cells /\ ByteAtCurrentAddr \in Byte
<1>1. startingOffset + currentAddr \in Nat
  BY DEF TypeOK
<1>2. Window(startingOffset + currentAddr) \in Cells
  BY <1>1, WindowInCells DEF TypeOK, Window
<1>3. QED
  BY <1>2 DEF TypeOK, ByteAtCurrentAddr, FlashLowLevel_ReadByte

\* An erase command leaves the chip idle or busy with cells of its own.
LEMMA EraseType ==
  ASSUME NEW meth \in Methods, NEW a, chipOp \in ChipOps, InitiateErase(meth, a)
  PROVE  chipOp' \in ChipOps
<1>1. EraseCells(meth, Window(a)) \in SUBSET Cells
  BY DEF EraseCells
<1>2. PICK r \in EraseResponse[meth] :
        chipOp' = CASE r = "erases"    -> [kind |-> "erase",
                                           cells |-> EraseCells(meth, Window(a))]
                    [] r = "protected" -> [kind |-> "erase", cells |-> {}]
                    [] OTHER           -> chipOp
  BY DEF InitiateErase
<1>3. CASE r = "erases"
  BY <1>1, <1>2, <1>3 DEF ChipOps
<1>4. CASE r = "protected"
  <2>1. chipOp' = [kind |-> "erase", cells |-> {}]
    BY <1>2, <1>4
  <2>2. QED
    BY <2>1 DEF ChipOps
<1>5. CASE r \notin {"erases", "protected"}
  <2>1. chipOp' = chipOp
    BY <1>2, <1>5
  <2>2. QED
    BY <2>1
<1>6. QED
  BY <1>3, <1>4, <1>5

\* The erase state: only EraseIssued starts the chip, after a poll that found it idle.
LEMMA EraseStep == IInv /\ FsmErase => IInv'
<1> SUFFICES ASSUME IInv, FsmErase PROVE IInv'
  OBVIOUS
<1> USE DEF chipVars, pollVars, bufVars, stateVars, rangeVars, eraseVars, envVars
<1>1. CASE FsmEraseBusy
  <2>1. eraseBusyCount' \in 0 .. EraseBusyCountMin
    BY <1>1 DEF FsmEraseBusy, IInv, TypeOK, EraseBusyCountMin
  <2>2. QED
    BY <1>1, <2>1, BusyStep DEF FsmEraseBusy
<1>2. CASE ErasePolled
  <2>1. /\ currentFlashOp = "EraseInProgress" /\ chipOp = NoChipOp
        /\ firstBusyRead' = TRUE /\ lastStatus' \in {"array", "busy"}
    BY <1>2, NotBusyIsIdle DEF ErasePolled, IInv
  <2>2. PollSound'
    BY <2>1 DEF PollSound
  <2>3. CASE EraseNotNeeded
    <3>1. currentAddr' \in 0 .. BufferLength /\ currentFlashOp' \in FlashOps
      BY <2>3, SizesAssumption DEF EraseNotNeeded, IInv, TypeOK, FlashOps
    <3>2. TypeOK'
      BY <2>1, <2>3, <3>1 DEF EraseNotNeeded, IInv, TypeOK, EraseBusyCountMin
    <3>3. QED
      BY <2>1, <2>2, <2>3, <3>2 DEF EraseNotNeeded, IInv, QuietChip,
         ReadsAreNotWrites, VerifiedPrefix, VerifiedMeansWritten
  <2>4. CASE EraseIssued
    <3>1. eraseSequenceMethod' \in Methods
      BY <2>4 DEF EraseIssued, NextEraseMethod, IInv, TypeOK, Methods
    <3>2. chipOp' \in ChipOps
      BY <2>4, <3>1, EraseType DEF EraseIssued, IInv, TypeOK
    <3>3. eraseBusyCount' \in 0 .. EraseBusyCountMin
      BY <2>4 DEF EraseIssued, IInv, TypeOK, EraseBusyCountMin
    <3>4. TypeOK'
      BY Zenon, <2>1, <2>4, <3>1, <3>2, <3>3 DEF EraseIssued, IInv, TypeOK
    <3>5. QED
      BY <2>1, <2>2, <2>4, <3>4 DEF EraseIssued, IInv, QuietChip,
         ReadsAreNotWrites, VerifiedPrefix, VerifiedMeansWritten
  <2>5. CASE EraseWidened
    <3>1. NextEraseMethod \in Methods
      BY DEF NextEraseMethod, Methods
    <3>2. biosBufferSize' \in 1 .. BufferLength
      BY <2>5, <3>1, SizesFit DEF EraseWidened
    <3>3. startingOffset' \in Nat
      BY <2>5, <3>2, SizesAssumption DEF EraseWidened, IInv, TypeOK
    <3>4. TypeOK'
      BY <2>1, <2>5, <3>1, <3>2, <3>3, SizesAssumption
      DEF EraseWidened, IInv, TypeOK, FlashOps, EraseBusyCountMin
    <3>5. QED
      BY <2>1, <2>2, <2>5, <3>4 DEF EraseWidened, IInv, QuietChip,
         ReadsAreNotWrites, VerifiedPrefix, VerifiedMeansWritten
  <2>6. CASE EraseFailed
    <3>1. TypeOK'
      BY <2>1, <2>6 DEF EraseFailed, IInv, TypeOK, FlashOps, Errorcodes,
                        EraseBusyCountMin
    <3>2. QED
      BY <2>1, <2>2, <2>6, <3>1 DEF EraseFailed, IInv, QuietChip,
         ReadsAreNotWrites, VerifiedPrefix, VerifiedMeansWritten
  <2>7. QED
    BY <1>2, <2>3, <2>4, <2>5, <2>6 DEF FsmErase, FsmEraseBusy, BusyWait,
       DeviceIsBusy, ErasePolled
<1>3. QED
  BY <1>1, <1>2 DEF FsmErase, EraseNotNeeded, EraseIssued, EraseWidened, EraseFailed


\* The write state hands over to the verify state with an idle chip.
LEMMA WriteStep == IInv /\ FsmWrite => IInv'
<1> SUFFICES ASSUME IInv, FsmWrite PROVE IInv'
  OBVIOUS
<1> USE DEF chipVars, pollVars, bufVars, stateVars, rangeVars, eraseVars, envVars
<1>1. CASE BusyWait /\ UNCHANGED eraseVars
  BY <1>1, BusyStep DEF IInv, TypeOK
<1>2. CASE WriteOver
  <2>1. /\ chipOp = NoChipOp /\ firstBusyRead' = TRUE
        /\ lastStatus' \in {"array", "busy"}
    BY <1>2, NotBusyIsIdle DEF IInv, WriteOver
  <2>2. TypeOK'
    BY <1>2, <2>1, SizesAssumption DEF WriteOver, IInv, TypeOK, FlashOps
  <2>3. QED
    BY <1>2, <2>1, <2>2 DEF WriteOver, IInv, PollSound, QuietChip, ReadsAreNotWrites,
                            VerifiedPrefix, VerifiedMeansWritten
<1>3. CASE WriteNextByte
  <2>1. firstBusyRead' = TRUE /\ lastStatus' \in {"array", "busy"}
    BY <1>3, NotBusyIsIdle DEF IInv, WriteNextByte
  <2>2. currentAddr \in BufIndex /\ currentAddr' \in 0 .. BufferLength
    BY <1>3, SizesAssumption DEF WriteNextByte, IInv, TypeOK, BufIndex
  <2>3. chipOp' \in ChipOps
    <3>1. biosBuffer[currentAddr] \in Byte /\ Bits \in Byte
      BY <2>2 DEF IInv, TypeOK, Byte
    <3>2. CASE UNCHANGED chipOp
      BY <3>2 DEF IInv, TypeOK
    <3>3. CASE FlashLowLevel_WriteByte(biosBuffer[currentAddr],
                                       startingOffset + currentAddr)
      <4>1. PICK b \in Byte : chipOp' = [kind |-> "program",
                 cell |-> Window(startingOffset + currentAddr), byte |-> b]
        BY <3>1, <3>3 DEF FlashLowLevel_WriteByte
      <4>2. QED
        BY <4>1, ScannedByte DEF IInv, ChipOps
    <3>4. QED
      BY <1>3, <3>2, <3>3 DEF WriteNextByte
  <2>4. UNCHANGED <<flash, bufVars, stateVars, startingOffset, eraseVars, envVars, history>>
    BY <1>3 DEF WriteNextByte
  <2>5. TypeOK'
    BY <2>1, <2>2, <2>3, <2>4 DEF IInv, TypeOK
  <2>6. currentFlashOp' = "WriteInProgress"
    BY <1>3 DEF WriteNextByte
  <2>7. QED
    BY <2>1, <2>5, <2>6 DEF IInv, PollSound, QuietChip, ReadsAreNotWrites,
                            VerifiedPrefix, VerifiedMeansWritten
<1>4. QED
  BY <1>1, <1>2, <1>3 DEF FsmWrite

\* The verify state extends the compared prefix by one byte.
LEMMA VerifyStep == IInv /\ FsmVerify => IInv'
<1> SUFFICES ASSUME IInv, FsmVerify PROVE IInv'
  OBVIOUS
<1> USE DEF chipVars, pollVars, bufVars, stateVars, rangeVars, eraseVars, envVars
<1>1. CASE BusyWait
  BY <1>1, BusyStep DEF FsmVerify, IInv, TypeOK
<1>2. CASE ~BusyWait
  <2>1. DeviceIsBusy(FALSE) /\ currentFlashOp = "VerifyInProgress"
    BY Zenon, <1>2 DEF FsmVerify
  <2>2. /\ chipOp = NoChipOp /\ firstBusyRead' = TRUE
        /\ lastStatus' \in {"array", "busy"}
    BY <2>1, NotBusyIsIdle DEF IInv
  <2>3. PollSound' /\ chipOp' = NoChipOp
    BY Zenon, <1>2, <2>2 DEF PollSound, FsmVerify
  <2>4. UNCHANGED <<flash, biosBuffer, biosBufferSize, startingOffset, currentFlashBank>>
    BY Zenon, <1>2 DEF FsmVerify
  <2>5. \A i \in 0 .. (currentAddr - 1) :
          flash[Window(startingOffset + i)] = biosBuffer[i]
    BY <2>1 DEF IInv, VerifiedPrefix
  <2>6. CASE currentAddr >= biosBufferSize
    <3>1. currentFlashOp' = "Completed" /\ UNCHANGED currentAddr
      BY Zenon, <1>2, <2>6 DEF FsmVerify
    <3>2. TypeOK'
      BY Zenon, <1>2, <2>2, <2>6 DEF FsmVerify, IInv, TypeOK, FlashOps
    <3>3. VerifiedMeansWritten'
      BY <2>4, <2>5, <2>6 DEF VerifiedMeansWritten, Window, WindowOf, IInv, TypeOK
    <3>4. QED
      BY <2>3, <3>1, <3>2, <3>3 DEF IInv, QuietChip, ReadsAreNotWrites, VerifiedPrefix
  <2>7. CASE ~(currentAddr >= biosBufferSize) /\ ByteAtCurrentAddr = biosBuffer[currentAddr]
    <3>1. currentFlashOp' = "VerifyInProgress" /\ currentAddr' = currentAddr + 1
      BY Zenon, <1>2, <2>1, <2>7 DEF FsmVerify
    <3>2. TypeOK'
      <4>1. currentAddr' \in 0 .. BufferLength
        BY <2>7, <3>1, SizesAssumption DEF IInv, TypeOK
      <4>2. QED
        BY Zenon, <1>2, <2>2, <2>7, <4>1 DEF FsmVerify, IInv, TypeOK, FlashOps
    <3>3. \A i \in 0 .. currentAddr : flash[Window(startingOffset + i)] = biosBuffer[i]
      BY <2>5, <2>7 DEF IInv, TypeOK, ByteAtCurrentAddr, FlashLowLevel_ReadByte
    <3>4. VerifiedPrefix'
      BY <2>4, <3>1, <3>3 DEF VerifiedPrefix, Window, WindowOf, IInv, TypeOK
    <3>5. QED
      BY <2>3, <3>1, <3>2, <3>4 DEF IInv, QuietChip, ReadsAreNotWrites,
         VerifiedMeansWritten
  <2>8. CASE ~(currentAddr >= biosBufferSize) /\ ByteAtCurrentAddr # biosBuffer[currentAddr]
    <3>1. currentFlashOp' = "Error" /\ flashErrorCode' = "FailedVerify"
      BY Zenon, <1>2, <2>8 DEF FsmVerify
    <3>2. TypeOK'
      BY ZenonT(30), <1>2, <2>2, <2>8 DEF FsmVerify, IInv, TypeOK, FlashOps, Errorcodes
    <3>3. QED
      BY <2>3, <3>1, <3>2 DEF IInv, QuietChip, ReadsAreNotWrites, VerifiedPrefix,
         VerifiedMeansWritten
  <2>9. QED
    BY <2>6, <2>7, <2>8
<1>3. QED
  BY <1>1, <1>2


\* The read state fills the buffer, and starts a settings job's erase state.
LEMMA ReadStep == IInv /\ FsmRead => IInv'
<1> SUFFICES ASSUME IInv, FsmRead PROVE IInv'
  OBVIOUS
<1> USE DEF chipVars, pollVars, bufVars, stateVars, rangeVars, eraseVars, envVars
<1>1. CASE BusyWait
  BY <1>1, BusyStep DEF FsmRead, IInv, TypeOK
<1>2. CASE ~BusyWait
  <2> DEFINE readBack == [biosBuffer EXCEPT ![currentAddr] = ByteAtCurrentAddr]
  <2>1. DeviceIsBusy(FALSE) /\ currentFlashOp = "ReadInProgress"
    BY Zenon, <1>2 DEF FsmRead
  <2>2. /\ chipOp = NoChipOp /\ firstBusyRead' = TRUE
        /\ lastStatus' \in {"array", "busy"}
    BY <2>1, NotBusyIsIdle DEF IInv
  <2>3. PollSound' /\ chipOp' = NoChipOp
    BY Zenon, <1>2, <2>2 DEF PollSound, FsmRead
  <2>4. UNCHANGED <<flash, biosBufferSize, currentFlashTask, flashErrorCode,
                    startingOffset, eraseVars, envVars, history>>
    BY Zenon, <1>2 DEF FsmRead
  <2>5. readBack \in [BufIndex -> Byte]
    BY Zenon, ScannedByte DEF IInv, TypeOK
  <2>6. biosBuffer' \in [BufIndex -> Byte]
    <3>1. \/ biosBuffer' = readBack
          \/ biosBuffer' = injectSettingsInBuf(readBack, biosBufferSize,
                                               SettingsOffset(currentFlashBank))
      BY Zenon, <1>2 DEF FsmRead
    <3>2. injectSettingsInBuf(readBack, biosBufferSize, SettingsOffset(currentFlashBank))
            \in [BufIndex -> Byte]
      BY Zenon, <2>5, InjectType DEF IInv
    <3>3. QED
      BY Zenon, <2>5, <3>1, <3>2
  <2>7. currentAddr' \in 0 .. BufferLength
    <3>1. \/ currentAddr' = 0
          \/ currentAddr + 1 < biosBufferSize /\ currentAddr' = currentAddr + 1
      BY Zenon, <1>2 DEF FsmRead
    <3>2. QED
      BY <3>1, SizesAssumption DEF IInv, TypeOK
  <2>8. /\ currentFlashOp' \in {"ReadInProgress", "EraseInProgress", "Completed"}
        /\ currentFlashOp' = "Completed" => currentFlashTask # "WriteSettings"
    BY Zenon, <1>2, <2>1 DEF FsmRead
  <2>9. TypeOK'
    BY <2>2, <2>3, <2>4, <2>6, <2>7, <2>8 DEF IInv, TypeOK, FlashOps, ChipOps, NoChipOp
  <2>10. currentFlashTask' # "WriteBios"
    BY <2>1, <2>4 DEF IInv, ReadsAreNotWrites
  <2>11. QED
    BY <2>3, <2>4, <2>8, <2>9, <2>10 DEF IInv, QuietChip, ReadsAreNotWrites,
       VerifiedPrefix, VerifiedMeansWritten, WriteTasks
<1>3. QED
  BY <1>1, <1>2

\* A call that leaves an idle engine idle, pending or in error keeps the
\* invariant as soon as it keeps the types.
LEMMA CallStep ==
  ASSUME IInv, TypeOK', currentFlashOp = "Idle",
         currentFlashOp' \in {"Idle", "PendingOp", "Error"},
         UNCHANGED chipOp
  PROVE  IInv'
BY DEF IInv, PollSound, QuietChip, ReadsAreNotWrites, VerifiedPrefix, VerifiedMeansWritten

\* Starting a job keeps the history well formed.
LEMMA RememberType ==
  ASSUME TypeOK, NEW update \in SUBSET Payloads, Remember(update)
  PROVE  history' \in [snapshot : [Cells -> Byte], cuts : Nat, jobs : Nat,
                       saved : SUBSET Payloads]
<1>1. /\ history.cuts \in Nat /\ history.jobs + 1 \in Nat
      /\ history.saved \cup update \in SUBSET Payloads
      /\ flash \in [Cells -> Byte]
  BY DEF TypeOK
<1>2. history' = [snapshot |-> flash, cuts |-> history.cuts, jobs |-> history.jobs + 1,
                  saved |-> history.saved \cup update]
  BY Zenon DEF TypeOK, Remember
<1>3. QED
  BY <1>1, <1>2

\* Flash_WriteBios starts a job or refuses the image.
LEMMA WriteBiosStep ==
  ASSUME IInv, currentFlashOp = "Idle", NEW img \in Images, NEW bank,
         NEW withSettings \in BOOLEAN, Flash_WriteBios(img, bank, withSettings)
  PROVE  IInv'
<1> USE DEF chipVars, pollVars, bufVars, stateVars, rangeVars, eraseVars, envVars
<1>1. /\ firstBusyRead' = TRUE /\ UNCHANGED lastStatus
      /\ flashErrorCode' \in Errorcodes
      /\ UNCHANGED <<chipVars, currentAddr, envVars>>
  BY DEF Flash_WriteBios, FlashLowLevel_ReadDevice, checkImageSize, Errorcodes
<1>2. CASE flashErrorCode' # "NoError"
  <2>1. UNCHANGED <<bufVars, currentFlashOp, currentFlashTask, startingOffset,
                    eraseVars, history>>
    BY <1>2 DEF Flash_WriteBios
  <2>2. TypeOK'
    BY <1>1, <2>1 DEF IInv, TypeOK
  <2>3. QED
    BY <1>1, <2>1, <2>2, CallStep
<1>3. CASE flashErrorCode' = "NoError"
  <2>1. PICK n \in MirroredSizes(img.size, MirrorTarget(bank)) :
          WriteBiosJob(img, n, withSettings)
    BY <1>3 DEF Flash_WriteBios
  <2>2. n \in 1 .. BufferLength
    BY DEF MirroredSizes
  <2>3. MirroredImage(img, n) \in [BufIndex -> Byte]
    <3>1. \A i \in BufIndex : i % img.size \in 0 .. (img.size - 1)
      BY DataAssumption, SizesAssumption DEF BufIndex
    <3>2. \A i \in BufIndex : img.data[i % img.size] \in Byte
      BY <3>1, DataAssumption
    <3>3. QED
      BY <3>2 DEF IInv, TypeOK, MirroredImage
  <2>4. biosBuffer' \in [BufIndex -> Byte]
    <3>1. WithSettings(MirroredImage(img, n), n) \in [BufIndex -> Byte]
      BY <2>3, InjectType DEF IInv, WithSettings
    <3>2. QED
      BY <2>1, <2>3, <3>1 DEF WriteBiosJob
  <2>5. history' \in [snapshot : [Cells -> Byte], cuts : Nat, jobs : Nat,
                      saved : SUBSET Payloads]
    <3>1. (IF withSettings THEN {LPCmodSettings} ELSE {}) \in SUBSET Payloads
      BY DEF IInv, TypeOK
    <3>2. QED
      BY <2>1, <3>1, RememberType DEF IInv, WriteBiosJob
  <2>6. /\ biosBufferSize' \in 0 .. BufferLength /\ startingOffset' \in Nat
        /\ eraseSequenceMethod' \in Methods /\ eraseBusyCount' \in 0 .. EraseBusyCountMin
        /\ firstEraseTry' \in BOOLEAN
        /\ currentFlashOp' = "PendingOp" /\ currentFlashTask' = "WriteBios"
    BY <2>1, <2>2, SizesAssumption DEF WriteBiosJob, Methods, EraseBusyCountMin
  <2>7. TypeOK'
    BY <1>1, <2>4, <2>5, <2>6 DEF IInv, TypeOK, FlashOps, FlashTasks
  <2>8. QED
    BY <1>1, <2>6, <2>7, CallStep
<1>4. QED
  BY <1>2, <1>3


\* Flash_ReadBIOSBank starts a read job or does nothing.
LEMMA ReadBIOSBankStep == IInv /\ Flash_ReadBIOSBank => IInv'
<1> SUFFICES ASSUME IInv, Flash_ReadBIOSBank PROVE IInv'
  OBVIOUS
<1> USE DEF chipVars, pollVars, bufVars, stateVars, rangeVars, eraseVars, envVars
<1>1. PICK found \in BOOLEAN :
        /\ FlashLowLevel_ReadDevice(found)
        /\ IF found
            THEN /\ currentFlashOp' = "PendingOp"
                 /\ currentFlashTask' = "ReadBios"
                 /\ biosBufferSize' = MirrorTarget(currentFlashBank)
                 /\ startingOffset' = 0
                 /\ Remember({})
            ELSE UNCHANGED <<currentFlashOp, currentFlashTask, biosBufferSize,
                             startingOffset, history>>
  BY DEF Flash_ReadBIOSBank
<1>2. /\ currentFlashOp = "Idle" /\ firstBusyRead' = TRUE /\ UNCHANGED lastStatus
      /\ UNCHANGED <<chipVars, biosBuffer, flashErrorCode, currentAddr, eraseVars, envVars>>
  BY <1>1 DEF Flash_ReadBIOSBank, MayCall, FlashLowLevel_ReadDevice
<1>3. CASE found
  <2>1. biosBufferSize' \in 0 .. BufferLength
    <3>1. MirrorTarget(currentFlashBank) \in 1 .. BufferLength
      BY SizesFit DEF IInv, TypeOK
    <3>2. QED
      BY <1>1, <1>3, <3>1, SizesAssumption
  <2>2. history' \in [snapshot : [Cells -> Byte], cuts : Nat, jobs : Nat,
                      saved : SUBSET Payloads]
    BY <1>1, <1>3, RememberType DEF IInv
  <2>3. TypeOK'
    BY <1>1, <1>2, <1>3, <2>1, <2>2 DEF IInv, TypeOK, FlashOps, FlashTasks
  <2>4. QED
    BY <1>1, <1>2, <1>3, <2>3, CallStep
<1>4. CASE ~found
  <2>1. TypeOK'
    BY <1>1, <1>2, <1>4 DEF IInv, TypeOK
  <2>2. QED
    BY <1>1, <1>2, <1>4, <2>1, CallStep
<1>5. QED
  BY <1>3, <1>4

\* Flash_SaveXBlastOSSettings starts a settings job or fails at once.
LEMMA SaveStep == IInv /\ Flash_SaveXBlastOSSettings => IInv'
<1> SUFFICES ASSUME IInv, Flash_SaveXBlastOSSettings PROVE IInv'
  OBVIOUS
<1> USE DEF chipVars, pollVars, bufVars, stateVars, rangeVars, eraseVars, envVars
<1>1. /\ currentFlashOp = "Idle" /\ firstBusyRead' = TRUE /\ UNCHANGED lastStatus
      /\ UNCHANGED <<chipVars, biosBuffer, currentAddr, envVars>>
  BY DEF Flash_SaveXBlastOSSettings, MayCall, FlashLowLevel_ReadDevice
<1>2. startingOffset' \in Nat
  <2>1. startingOffset' = SettingsOffset("OSBank") \/ UNCHANGED startingOffset
    BY DEF Flash_SaveXBlastOSSettings
  <2>2. QED
    BY <2>1, SettingsOffsetInNat, BanksAssumption DEF IInv, TypeOK
<1>3. CASE /\ eraseSequenceMethod' = "Sector"
           /\ eraseBusyCount' = 0
           /\ firstEraseTry' = TRUE
           /\ biosBufferSize' = getEraseMethodSize("Sector")
           /\ currentFlashOp' = "PendingOp"
           /\ currentFlashTask' = "WriteSettings"
           /\ UNCHANGED flashErrorCode
           /\ Remember({LPCmodSettings})
  <2>1. biosBufferSize' \in 0 .. BufferLength
    BY <1>3, SizesFit, SizesAssumption DEF Methods
  <2>2. history' \in [snapshot : [Cells -> Byte], cuts : Nat, jobs : Nat,
                      saved : SUBSET Payloads]
    BY <1>3, RememberType DEF IInv, TypeOK
  <2>3. TypeOK'
    BY <1>1, <1>2, <1>3, <2>1, <2>2
    DEF IInv, TypeOK, FlashOps, FlashTasks, Methods, EraseBusyCountMin
  <2>4. QED
    BY <1>1, <1>3, <2>3, CallStep
<1>4. CASE /\ currentFlashOp' = "Error"
           /\ flashErrorCode' \in {"FlashContentError", "WriteProtect", "UnknownFlash"}
           /\ UNCHANGED <<eraseVars, biosBufferSize, currentFlashTask, history>>
  <2>1. TypeOK'
    BY <1>1, <1>2, <1>4 DEF IInv, TypeOK, FlashOps, Errorcodes
  <2>2. QED
    BY <1>1, <1>4, <2>1, CallStep
<1>5. QED
  BY Zenon, <1>3, <1>4 DEF Flash_SaveXBlastOSSettings

\* The boot-time request to read the settings.
LEMMA ReadRequestStep == IInv /\ Flash_ReadXBlastOSSettingsRequest => IInv'
<1> SUFFICES ASSUME IInv, Flash_ReadXBlastOSSettingsRequest PROVE IInv'
  OBVIOUS
<1> USE DEF chipVars, pollVars, bufVars, stateVars, rangeVars, eraseVars, envVars
<1>1. /\ currentFlashOp = "Idle" /\ firstBusyRead' = TRUE /\ UNCHANGED lastStatus
      /\ UNCHANGED <<chipVars, flashErrorCode, currentAddr, eraseVars, envVars, history>>
  BY DEF Flash_ReadXBlastOSSettingsRequest, FlashLowLevel_ReadDevice
<1>2. biosBuffer' \in [BufIndex -> Byte]
  <2>1. biosBuffer' = [biosBuffer EXCEPT ![0] = Bits] \/ UNCHANGED biosBuffer
    BY DEF Flash_ReadXBlastOSSettingsRequest
  <2>2. QED
    BY <2>1 DEF IInv, TypeOK, Byte
<1>3. startingOffset' \in Nat
  <2>1. startingOffset' = SettingsOffset("OSBank") \/ UNCHANGED startingOffset
    BY DEF Flash_ReadXBlastOSSettingsRequest
  <2>2. QED
    BY <2>1, SettingsOffsetInNat, BanksAssumption DEF IInv, TypeOK
<1>4. /\ biosBufferSize' = 2 \/ UNCHANGED biosBufferSize
      /\ \/ /\ currentFlashOp' \in {"Completed", "PendingOp"}
            /\ currentFlashTask' = "ReadSettings"
         \/ currentFlashOp' = "Error" /\ UNCHANGED currentFlashTask
  BY DEF Flash_ReadXBlastOSSettingsRequest
<1>5. biosBufferSize' \in 0 .. BufferLength
  BY <1>4, SizesAssumption DEF IInv, TypeOK
<1>6. TypeOK'
  BY <1>1, <1>2, <1>3, <1>4, <1>5 DEF IInv, TypeOK, FlashOps, FlashTasks
<1>7. QED
  BY <1>1, <1>4, <1>6 DEF IInv, PollSound, QuietChip, ReadsAreNotWrites,
     VerifiedPrefix, VerifiedMeansWritten, WriteTasks


\* Freeing a job that is over.
LEMMA FreeStep ==
  ASSUME IInv, currentFlashOp \in {"Completed", "Error"}, Flash_freeFlashFSM,
         LPCmodSettings' \in Payloads, booted' \in BOOLEAN,
         UNCHANGED <<chipVars, pollVars, biosBuffer, startingOffset, eraseVars, history>>
  PROVE  IInv'
<1> USE DEF chipVars, pollVars, bufVars, stateVars, rangeVars, eraseVars, envVars
<1>1. currentFlashBank' \in Banks
  BY BanksAssumption DEF Flash_freeFlashFSM, IInv, TypeOK
<1>2. TypeOK'
  BY <1>1, SizesAssumption
  DEF Flash_freeFlashFSM, IInv, TypeOK, FlashOps, FlashTasks, Errorcodes
<1>3. QED
  BY <1>2 DEF Flash_freeFlashFSM, IInv, PollSound, QuietChip, ReadsAreNotWrites,
     VerifiedPrefix, VerifiedMeansWritten

\* A power cut leaves some flash and a fresh engine.
LEMMA PowerCutStep == IInv /\ PowerCut => IInv'
<1> SUFFICES ASSUME IInv, PowerCut PROVE IInv'
  OBVIOUS
<1>1. flash \in [Cells -> Byte] /\ chipOp \in ChipOps
  BY DEF IInv, TypeOK
<1>2. flash' \in [Cells -> Byte]
  <2>1. CASE chipOp.kind = "erase"
    <3>1. PICK k \in Cells : flash' = [c \in Cells |->
                 IF c \in chipOp.cells /\ c <= k THEN Bits ELSE flash[c]]
      BY <2>1 DEF PowerCut
    <3>2. QED
      BY <1>1, <3>1 DEF Byte
  <2>2. CASE chipOp.kind = "program"
    <3>1. PICK b \in Byte :
            flash' = [flash EXCEPT ![chipOp.cell] = flash[chipOp.cell] \cap b]
      BY <2>2 DEF PowerCut
    <3>2. chipOp.cell \in Cells
      BY <1>1, <2>2 DEF ChipOps
    <3>3. flash[chipOp.cell] \cap b \in Byte
      BY <1>1, <3>2 DEF Byte
    <3>4. QED
      BY Zenon, <1>1, <3>1, <3>3
  <2>3. CASE chipOp.kind \notin {"erase", "program"}
    <3>1. UNCHANGED flash
      BY <2>3 DEF PowerCut
    <3>2. QED
      BY <1>1, <3>1
  <2>4. QED
    BY <2>1, <2>2, <2>3
<1>3. history' \in [snapshot : [Cells -> Byte], cuts : Nat, jobs : Nat,
                    saved : SUBSET Payloads]
  <2>1. history' = [history EXCEPT !.cuts = history.cuts + 1]
    BY DEF PowerCut
  <2>2. QED
    BY <2>1 DEF IInv, TypeOK
<1>4. PowerUp
  BY DEF PowerCut
<1>5. biosBuffer' \in [BufIndex -> Byte] /\ biosBufferSize' \in 0 .. BufferLength
  BY <1>4, SizesAssumption DEF PowerUp, Byte
<1>6. /\ chipOp' \in ChipOps /\ lastStatus' \in {"array", "busy"}
      /\ currentFlashOp' \in FlashOps /\ currentFlashTask' \in FlashTasks
      /\ flashErrorCode' \in Errorcodes /\ eraseSequenceMethod' \in Methods
  BY <1>4 DEF PowerUp, ChipOps, NoChipOp, FlashOps, FlashTasks, Errorcodes, Methods
<1>7. firstBusyRead' \in BOOLEAN /\ firstEraseTry' \in BOOLEAN /\ booted' \in BOOLEAN
  BY <1>4, Zenon DEF PowerUp
<1>8. /\ startingOffset' \in Nat /\ currentAddr' \in 0 .. BufferLength
      /\ eraseBusyCount' \in 0 .. EraseBusyCountMin
  BY <1>4, SizesAssumption DEF PowerUp, EraseBusyCountMin
<1>9. currentFlashBank' \in Banks /\ LPCmodSettings' \in Payloads
  BY <1>4, BanksAssumption, DataAssumption DEF PowerUp
<1>10. TypeOK'
  BY <1>2, <1>3, <1>5, <1>6, <1>7, <1>8, <1>9 DEF TypeOK
<1>11. chipOp' = NoChipOp /\ currentFlashOp' = "Idle"
  BY <1>4 DEF PowerUp
<1>12. QED
  BY <1>10, <1>11 DEF IInv, PollSound, QuietChip, ReadsAreNotWrites,
     VerifiedPrefix, VerifiedMeansWritten

\* The inductive step: one case per action of Next.
LEMMA NextInv == IInv /\ [Next]_vars => IInv'
<1> SUFFICES ASSUME IInv, [Next]_vars PROVE IInv'
  OBVIOUS
<1> USE DEF chipVars, pollVars, bufVars, stateVars, rangeVars, eraseVars, envVars
<1>1. CASE ChipCompletes
  BY <1>1, ChipStep
<1>2. CASE Flash_executeFlashFSM
  BY <1>2, PendingStep, EraseStep, WriteStep, VerifyStep, ReadStep
  DEF Flash_executeFlashFSM
<1>3. ASSUME NEW img \in Images, NEW override \in BOOLEAN,
             Flash_XBlastOSBankFlash(img, override)
      PROVE  IInv'
  <2> DEFINE check == IF override THEN "NoError" ELSE validateOSImage(img)
  <2>1. currentFlashOp = "Idle"
    BY <1>3 DEF Flash_XBlastOSBankFlash, MayCall
  <2>2. CASE Flash_WriteBios(img, "OSBank", TRUE)
    BY Zenon, <2>1, <2>2, WriteBiosStep
  <2>3. CASE /\ flashErrorCode' = check
             /\ UNCHANGED <<chipVars, pollVars, bufVars, currentFlashOp,
                            currentFlashTask, rangeVars, eraseVars, envVars, history>>
    <3>1. validateOSImage(img) \in Errorcodes
      BY DEF validateOSImage, Errorcodes
    <3>2. flashErrorCode' \in Errorcodes
      BY <2>3, <3>1 DEF Errorcodes
    <3>3. TypeOK'
      BY <2>3, <3>2 DEF IInv, TypeOK
    <3>4. QED
      BY <2>1, <2>3, <3>3, CallStep
  <2>4. QED
    BY Zenon, <1>3, <2>2, <2>3 DEF Flash_XBlastOSBankFlash
<1>4. ASSUME NEW img \in Images, Flash_XBlastUserBankFlash(img)
      PROVE  IInv'
  BY Zenon, <1>4, WriteBiosStep DEF Flash_XBlastUserBankFlash, MayCall
<1>5. ASSUME NEW img \in Images, Flash_SimpleBIOSBankFlash(img)
      PROVE  IInv'
  BY Zenon, <1>5, WriteBiosStep DEF Flash_SimpleBIOSBankFlash, MayCall
<1>6. CASE JobFreed
  BY <1>6, FreeStep DEF JobFreed, IInv, TypeOK
<1>7. CASE bootReadXBlastOSSettings
  <2>1. LPCmodSettings' \in Payloads
    BY <1>7, DataAssumption DEF bootReadXBlastOSSettings, LoadedSettings
  <2>2. booted' \in BOOLEAN
    BY Zenon, <1>7 DEF bootReadXBlastOSSettings
  <2>3. QED
    BY Zenon, <1>7, <2>1, <2>2, FreeStep DEF bootReadXBlastOSSettings
<1>8. CASE Flash_forceUserAbort
  <2>1. TypeOK'
    BY <1>8 DEF Flash_forceUserAbort, IInv, TypeOK, FlashOps, FlashTasks, Errorcodes
  <2>2. QED
    BY <1>8, <2>1, CallStep DEF Flash_forceUserAbort, MayCall
<1>9. ASSUME NEW bank \in Banks, switchOSBank(bank)
      PROVE  IInv'
  <2>1. TypeOK'
    BY <1>9 DEF switchOSBank, IInv, TypeOK
  <2>2. QED
    BY <1>9, <2>1, CallStep DEF switchOSBank, MayCall
<1>10. ASSUME NEW p \in Payloads, SettingsEdited(p)
       PROVE  IInv'
  <2>1. TypeOK'
    BY <1>10 DEF SettingsEdited, IInv, TypeOK
  <2>2. QED
    BY <1>10, <2>1, CallStep DEF SettingsEdited, MayCall
<1>11. CASE UNCHANGED vars
  <2>1. TypeOK'
    BY <1>11 DEF vars, IInv, TypeOK
  <2>2. QED
    BY <1>11, <2>1 DEF vars, IInv, PollSound, QuietChip, ReadsAreNotWrites,
       VerifiedPrefix, VerifiedMeansWritten, Window, WindowOf
<1>12. CASE Flash_ReadDeviceInfo
  <2>1. currentFlashBank' \in Banks
    BY <1>12, BanksAssumption DEF Flash_ReadDeviceInfo, Flash_freeFlashFSM, IInv, TypeOK
  <2>2. /\ firstBusyRead' = TRUE /\ UNCHANGED lastStatus
    BY <1>12 DEF Flash_ReadDeviceInfo, FlashLowLevel_ReadDevice
  <2>3. TypeOK'
    BY <1>12, <2>1, <2>2, SizesAssumption
    DEF Flash_ReadDeviceInfo, Flash_freeFlashFSM, IInv, TypeOK, FlashOps, FlashTasks,
        Errorcodes
  <2>4. QED
    BY <1>12, <2>3, CallStep DEF Flash_ReadDeviceInfo, Flash_freeFlashFSM, MayCall
<1>13. QED
  BY <1>1, <1>2, <1>3, <1>4, <1>5, <1>6, <1>7, <1>8, <1>9, <1>10, <1>11, <1>12,
     ReadBIOSBankStep, SaveStep, ReadRequestStep, PowerCutStep DEF Next

\* IInv is an invariant.
LEMMA Invariance == Spec => []IInv
BY InitInv, NextInv, PTL DEF Spec

\* The engine's variables keep their types, whatever the images, the bank layout
\* and the chip's behaviour; in particular the scans of Flash_executeFlashFSM keep
\* currentAddr within the buffer that the job was given.
THEOREM TypeCorrect == Spec => []TypeOK
BY Invariance, PTL DEF IInv

\* A write job that Flash_executeFlashFSM reports as Completed left every byte
\* of biosBuffer in the flash, on every chip, weak or protected, and through
\* every sequence of jobs and power cuts.
THEOREM CompletedIsWritten == Spec => []VerifiedMeansWritten
BY Invariance, PTL DEF IInv

\* FlashLowLevel_DeviceIsBusy with its firstBusyRead protocol keeps every state
\* of the engine off a chip that is erasing or programming.
THEOREM ChipLeftAlone == Spec => NoAccessWhileBusy
<1> USE DEF chipVars, pollVars, bufVars, stateVars, rangeVars, eraseVars, envVars
<1>1. ASSUME IInv, Next, chipOp # NoChipOp
      PROVE  chipOp' = NoChipOp \/ UNCHANGED <<chipOp, bufVars, stateVars, rangeVars>>
  <2>1. currentFlashOp \in {"EraseInProgress", "WriteInProgress"}
    BY <1>1 DEF IInv, QuietChip
  <2>2. ~DeviceIsBusy(FALSE)
    BY Zenon, <1>1, NotBusyIsIdle DEF IInv
  <2>3. CASE Flash_executeFlashFSM
    <3>1. BusyWait
      BY Zenon, <2>1, <2>2, <2>3 DEF Flash_executeFlashFSM, FsmPending, FsmErase, FsmEraseBusy,
         EraseNotNeeded, EraseIssued, EraseWidened, EraseFailed, ErasePolled, FsmWrite,
         WriteOver, WriteNextByte, FsmVerify, FsmRead
    <3>2. QED
      BY <3>1 DEF BusyWait
  <2>4. CASE ChipCompletes \/ PowerCut
    BY <2>4 DEF ChipCompletes, PowerCut, PowerUp
  <2>5. QED
    BY Zenon, <1>1, <2>1, <2>3, <2>4 DEF Next, Flash_XBlastOSBankFlash,
       Flash_XBlastUserBankFlash, Flash_SimpleBIOSBankFlash, Flash_ReadBIOSBank,
       Flash_SaveXBlastOSSettings, Flash_ReadXBlastOSSettingsRequest, JobFreed,
       Flash_ReadDeviceInfo, bootReadXBlastOSSettings, Flash_forceUserAbort, switchOSBank, SettingsEdited,
       MayCall
<1>2. IInv /\ [Next]_vars =>
        [chipOp # NoChipOp =>
           \/ chipOp' = NoChipOp
           \/ UNCHANGED <<chipOp, bufVars, stateVars, rangeVars>>]_vars
  BY <1>1
<1>3. QED
  BY <1>2, Invariance, PTL DEF Spec, NoAccessWhileBusy

-----------------------------------------------------------------------------
(* FlashDriver implements FlashEngine: every step of the driver is a step of   *)
(* the abstract engine or leaves it alone. The one fact needed about the       *)
(* states of the driver is that only a job that writes is ever erasing,        *)
(* writing or verifying.                                                       *)

WriteStates == {"EraseInProgress", "WriteInProgress", "VerifyInProgress"}
WriteStatesOfWriteTasks == currentFlashOp \in WriteStates => currentFlashTask \in WriteTasks

\* The states that touch the flash belong to WriteBios and WriteSettings: FsmPending
\* sends only WriteBios to the erase state, FsmRead only WriteSettings.
LEMMA WriteStatesStep ==
  TypeOK /\ WriteStatesOfWriteTasks /\ [Next]_vars => WriteStatesOfWriteTasks'
<1> SUFFICES ASSUME TypeOK, WriteStatesOfWriteTasks, [Next]_vars
             PROVE  WriteStatesOfWriteTasks'
  OBVIOUS
<1> USE DEF WriteStatesOfWriteTasks, WriteStates, WriteTasks, stateVars
<1>1. CASE FsmPending
  BY <1>1 DEF FsmPending
<1>2. CASE FsmErase
  BY Zenon, <1>2 DEF FsmErase, FsmEraseBusy, BusyWait, EraseNotNeeded, ErasePolled, EraseIssued,
     EraseWidened, EraseFailed
<1>3. CASE FsmWrite \/ FsmVerify
  BY Zenon, <1>3 DEF FsmWrite, WriteOver, WriteNextByte, FsmVerify, BusyWait
<1>4. CASE FsmRead
  BY Zenon, <1>4 DEF FsmRead, BusyWait
<1>5. CASE Next /\ ~Flash_executeFlashFSM
  <2>1. \/ UNCHANGED <<currentFlashOp, currentFlashTask>>
        \/ currentFlashOp' \in {"Idle", "PendingOp", "Completed", "Error"}
    BY Zenon, <1>5 DEF Next, ChipCompletes, Flash_XBlastOSBankFlash, Flash_XBlastUserBankFlash,
       Flash_SimpleBIOSBankFlash, Flash_WriteBios, WriteBiosJob, Flash_ReadBIOSBank,
       Flash_SaveXBlastOSSettings, Flash_ReadXBlastOSSettingsRequest,
       Flash_ReadDeviceInfo, JobFreed, Flash_freeFlashFSM, bootReadXBlastOSSettings,
       Flash_forceUserAbort, switchOSBank, SettingsEdited, PowerCut, PowerUp
  <2>2. QED
    BY <2>1
<1>6. QED
  BY <1>1, <1>2, <1>3, <1>4, <1>5 DEF Flash_executeFlashFSM, vars

\* The driver starts where the abstract engine starts.
LEMMA InitRefines == Init => Engine!EngineInit
BY DEF Init, Engine!EngineInit, VisibleOp

\* A step of Flash_executeFlashFSM is Run, Finish, Break or no step at all.
LEMMA FsmRefines ==
  ASSUME TypeOK, WriteStatesOfWriteTasks, Flash_executeFlashFSM
  PROVE  Engine!EngineNext \/ UNCHANGED Engine!engine
<1> USE DEF VisibleOp, stateVars, Engine!engine
<1>1. CASE FsmPending
  <2>1. Engine!Run
    BY <1>1 DEF FsmPending, Engine!Run
  <2>2. QED
    BY <2>1 DEF Engine!EngineNext
<1>2. CASE FsmErase
  <2>1. \/ UNCHANGED Engine!engine
        \/ Engine!Break("FailedErase")
    BY Zenon, <1>2 DEF FsmErase, FsmEraseBusy, BusyWait, EraseNotNeeded, ErasePolled,
       EraseIssued, EraseWidened, EraseFailed, WriteStatesOfWriteTasks, WriteStates,
       WriteTasks, Engine!Break, Engine!WritingTasks
  <2>2. QED
    BY <2>1 DEF Engine!EngineNext, Engine!BreakErrors
<1>3. CASE FsmWrite
  BY Zenon, <1>3 DEF FsmWrite, WriteOver, WriteNextByte, BusyWait
<1>4. CASE FsmVerify
  <2>1. \/ UNCHANGED Engine!engine
        \/ Engine!Finish
        \/ Engine!Break("FailedVerify")
    BY Zenon, <1>4 DEF FsmVerify, BusyWait, WriteStatesOfWriteTasks, WriteStates,
       WriteTasks, Engine!Break, Engine!Finish, Engine!WritingTasks
  <2>2. QED
    BY <2>1 DEF Engine!EngineNext, Engine!BreakErrors
<1>5. CASE FsmRead
  <2>1. UNCHANGED Engine!engine \/ Engine!Finish
    BY Zenon, <1>5 DEF FsmRead, BusyWait, Engine!Finish
  <2>2. QED
    BY <2>1 DEF Engine!EngineNext
<1>6. QED
  BY <1>1, <1>2, <1>3, <1>4, <1>5 DEF Flash_executeFlashFSM

\* Flash_WriteBios starts a job or only leaves its error code.
LEMMA WriteBiosRefines ==
  ASSUME currentFlashOp = "Idle", NEW img, NEW bank, NEW withSettings,
         Flash_WriteBios(img, bank, withSettings)
  PROVE  Engine!EngineNext \/ UNCHANGED Engine!engine
<1>1. flashErrorCode' \in Errorcodes
  BY DEF Flash_WriteBios, checkImageSize, Errorcodes
<1>2. Engine!StartJob("WriteBios") \/ Engine!Refuse(flashErrorCode')
  BY DEF Flash_WriteBios, WriteBiosJob, VisibleOp, Engine!StartJob, Engine!Refuse
<1>3. QED
  BY <1>1, <1>2 DEF Engine!EngineNext, Engine!EngineTasks, Engine!WritingTasks

\* Every other call of a menu or of the boot code.
LEMMA CallRefines ==
  ASSUME TypeOK, TypeOK', Next, ~Flash_executeFlashFSM
  PROVE  Engine!EngineNext \/ UNCHANGED Engine!engine
<1> USE DEF VisibleOp, stateVars, Engine!engine
<1>1. CASE ChipCompletes \/ (\E bank \in Banks : switchOSBank(bank))
             \/ (\E p \in Payloads : SettingsEdited(p))
  BY <1>1 DEF ChipCompletes, switchOSBank, SettingsEdited
<1>2. ASSUME NEW img \in Images, NEW override \in BOOLEAN,
             Flash_XBlastOSBankFlash(img, override)
      PROVE  Engine!EngineNext \/ UNCHANGED Engine!engine
  <2>1. currentFlashOp = "Idle"
    BY <1>2 DEF Flash_XBlastOSBankFlash, MayCall
  <2>2. CASE Flash_WriteBios(img, "OSBank", TRUE)
    BY Zenon, <2>1, <2>2, WriteBiosRefines
  <2>3. CASE UNCHANGED <<currentFlashOp, currentFlashTask>>
    <3>1. Engine!Refuse(flashErrorCode')
      BY <2>1, <2>3 DEF Engine!Refuse
    <3>2. QED
      BY <3>1 DEF Engine!EngineNext, TypeOK
  <2>4. QED
    BY Zenon, <1>2, <2>2, <2>3 DEF Flash_XBlastOSBankFlash
<1>3. ASSUME NEW img \in Images,
             Flash_XBlastUserBankFlash(img) \/ Flash_SimpleBIOSBankFlash(img)
      PROVE  Engine!EngineNext \/ UNCHANGED Engine!engine
  BY Zenon, <1>3, WriteBiosRefines
  DEF Flash_XBlastUserBankFlash, Flash_SimpleBIOSBankFlash, MayCall
<1>4. CASE Flash_ReadBIOSBank
  <2>1. Engine!StartJob("ReadBios") \/ UNCHANGED Engine!engine
    BY <1>4 DEF Flash_ReadBIOSBank, MayCall, Engine!StartJob
  <2>2. QED
    BY <2>1 DEF Engine!EngineNext, Engine!EngineTasks
<1>5. CASE Flash_SaveXBlastOSSettings
  <2>1. Engine!StartJob("WriteSettings") \/ Engine!FailAtOnce(flashErrorCode')
    BY <1>5 DEF Flash_SaveXBlastOSSettings, MayCall, Engine!StartJob, Engine!FailAtOnce
  <2>2. QED
    BY <2>1 DEF Engine!EngineNext, Engine!EngineTasks, Engine!WritingTasks, TypeOK
<1>6. CASE Flash_ReadXBlastOSSettingsRequest
  <2>1. \/ Engine!StartJob("ReadSettings")
        \/ Engine!NothingToRead
        \/ Engine!FailAtOnce(flashErrorCode')
    BY <1>6 DEF Flash_ReadXBlastOSSettingsRequest, Engine!StartJob,
       Engine!NothingToRead, Engine!FailAtOnce
  <2>2. QED
    BY <2>1 DEF Engine!EngineNext, Engine!EngineTasks, TypeOK
<1>7. CASE Flash_forceUserAbort
  <2>1. Engine!UserAbort
    BY <1>7 DEF Flash_forceUserAbort, MayCall, Engine!UserAbort
  <2>2. QED
    BY <2>1 DEF Engine!EngineNext
<1>8. CASE Flash_ReadDeviceInfo \/ JobFreed \/ bootReadXBlastOSSettings \/ PowerCut
  <2>1. Engine!Reset
    BY <1>8 DEF Flash_ReadDeviceInfo, JobFreed, bootReadXBlastOSSettings,
       Flash_freeFlashFSM, PowerCut, PowerUp, Engine!Reset
  <2>2. QED
    BY <2>1 DEF Engine!EngineNext
<1>9. QED
  BY <1>1, <1>2, <1>3, <1>4, <1>5, <1>6, <1>7, <1>8 DEF Next

\* What FlashDriver.c does is what its callers rely on: seen through
\* Flash_getProgress, Spec is the abstract engine.
THEOREM DriverIsEngine == Spec => ImplementsEngine
<1>1. IInv /\ IInv' /\ WriteStatesOfWriteTasks /\ [Next]_vars
        => [Engine!EngineNext]_(Engine!engine)
  <2> SUFFICES ASSUME IInv, IInv', WriteStatesOfWriteTasks, [Next]_vars
               PROVE  Engine!EngineNext \/ UNCHANGED Engine!engine
    OBVIOUS
  <2>1. CASE Flash_executeFlashFSM
    BY <2>1, FsmRefines DEF IInv
  <2>2. CASE Next /\ ~Flash_executeFlashFSM
    BY <2>2, CallRefines DEF IInv
  <2>3. CASE UNCHANGED vars
    BY <2>3 DEF vars, stateVars, VisibleOp, Engine!engine
  <2>4. QED
    BY <2>1, <2>2, <2>3
<1>2. Init => WriteStatesOfWriteTasks
  BY DEF Init, WriteStatesOfWriteTasks, WriteStates
<1>3. IInv /\ WriteStatesOfWriteTasks /\ [Next]_vars => WriteStatesOfWriteTasks'
  BY WriteStatesStep DEF IInv
<1>4. QED
  BY <1>1, <1>2, <1>3, InitRefines, Invariance, PTL
  DEF Spec, ImplementsEngine, Engine!EngineSpec

=============================================================================
