----------------------------- MODULE FlashDriver -----------------------------
(***************************************************************************)
(* The non-blocking flash engine of XBlast OS: drivers/flash/FlashDriver.c *)
(* (the state machine and the calls that start, poll and free a job) over  *)
(* drivers/flash/FlashLowLevel.c (the chip protocol), together with the    *)
(* flash chip itself, which erases and programs concurrently with the      *)
(* program and may lose power at any time.                                 *)
(*                                                                         *)
(* A byte is the set of its one-bits, so erasing a byte makes it Bits,     *)
(* programming it can only remove bits and canWrite is set inclusion.      *)
(* Sizes are counted in cells (the model's bytes); every size that the     *)
(* code names is a constant.                                               *)
(***************************************************************************)
EXTENDS Naturals

CONSTANTS
  Bits,               \* bit positions of a byte
  ChipLength,         \* flashType.m_dwLengthInBytes
  Sector4KB,          \* FlashSectorSize_4KB
  Block64KB,          \* FlashBlockSize_64KB
  Image256KB,         \* ImageSize256KB
  Image512KB,         \* ImageSize512KB
  BufferLength,       \* addressable part of biosBuffer in the model
  Support4KBErase,    \* flashType.m_support4KBErase
  OnLPC,              \* isXBlastOnLPC()
  IsX3,               \* isXecuter3()
  Banks,              \* flash banks the hardware can map
  BankBase, BankSize, \* where a bank lies in the chip
  EraseResponse,      \* what the chip may do with each erase command
  WeakCells,          \* cells that may fail to program
  BiosIdOf,           \* BiosIdentifier stored as a byte
  Images,             \* BIOS images a user may submit
  Payloads,           \* contents of _LPCmodSettings of the current version
  DeviceFound,        \* results FlashLowLevel_ReadDevice may give
  InitFlash,          \* contents the chip may have at first power-up
  MaxCuts,            \* bound: how many times power is cut
  MaxJobs,            \* bound: how many jobs the menus start
  DefaultPayload,     \* what populateSettingsStructWithDefault produces
  Crc                 \* calculateSettingsStructCRC32Value

Byte == SUBSET Bits
Cells == 0 .. (ChipLength - 1)
BufIndex == 0 .. (BufferLength - 1)
Methods == {"Sector", "Block", "Chip"}
FlashOps == {"Idle", "PendingOp", "EraseInProgress", "WriteInProgress",
             "VerifyInProgress", "ReadInProgress", "Completed", "Error"}
FlashTasks == {"NoTask", "WriteBios", "ReadBios", "WriteSettings", "ReadSettings"}
Errorcodes == {"NoError", "UserAbort", "FailedErase", "FailedVerify",
               "UnknownFlash", "WriteProtect", "FileSizeError",
               "InvalidUpdateFile", "MD5Mismatch", "FlashContentError",
               "DowngradeWarning", "UndefinedError"}
EraseBusyCountMin == 3
ChipOps == [kind : {"none"}] \cup [kind : {"erase"}, cells : SUBSET Cells]
             \cup [kind : {"program"}, cell : Cells, byte : Byte]
NoChipOp == [kind |-> "none"]

ASSUME SizesAssumption ==
  /\ ChipLength \in Nat \ {0} /\ BufferLength \in Nat \ {0}
  /\ Sector4KB \in Nat \ {0} /\ Block64KB \in Nat \ {0}
  /\ Image256KB \in Nat \ {0} /\ Image512KB \in Nat \ {0}
  /\ Image256KB <= BufferLength /\ Image512KB <= BufferLength
  /\ ChipLength <= BufferLength
  /\ Block64KB <= BufferLength /\ Sector4KB <= BufferLength /\ 2 <= BufferLength
ASSUME FlagsAssumption ==
  /\ Support4KBErase \in BOOLEAN
  /\ OnLPC \in BOOLEAN /\ IsX3 \in BOOLEAN
ASSUME BanksAssumption ==
  /\ "OSBank" \in Banks
  /\ BankSize \in [Banks -> Nat \ {0}] /\ BankBase \in [Banks -> Nat]
  /\ \A b \in Banks : BankBase[b] + BankSize[b] <= ChipLength
\* 4KB sectors make up 64KB blocks, four of which make up a 256KB image. A bank is
\* 256KB, 512KB or the whole chip, and the chips of flashtypes.h have 256KB to 1MB.
ASSUME GeometryAssumption ==
  /\ 2 <= Sector4KB /\ Sector4KB < Block64KB /\ Block64KB % Sector4KB = 0
  /\ Image256KB = 4 * Block64KB /\ Image256KB <= BankSize["OSBank"]
  /\ \A b \in Banks : BankBase[b] % Block64KB = 0 /\ BankSize[b] % Block64KB = 0
ASSUME ResponseAssumption ==
  /\ EraseResponse \in [Methods -> SUBSET {"ignored", "erases", "protected"}]
  /\ WeakCells \subseteq Cells
  /\ DeviceFound \subseteq BOOLEAN
ASSUME DataAssumption ==
  /\ Payloads \subseteq Byte /\ DefaultPayload \in Payloads
  /\ Crc \in [Payloads -> Byte]
  /\ InitFlash \subseteq [Cells -> Byte] /\ MaxCuts \in Nat /\ MaxJobs \in Nat
  /\ BiosIdOf \in [Byte -> [header : Nat, named : BOOLEAN,
                            saveBit : BOOLEAN, biosSize : Nat]]
  /\ \A img \in Images : /\ img.size \in 1 .. BufferLength
                         /\ img.data \in [0 .. (img.size - 1) -> Byte]
                         /\ img.md5ok \in BOOLEAN

VARIABLES
  flash,               \* contents of the chip
  chipOp,              \* what the chip is busy with
  lastStatus,          \* lastStatusRegisterState: was it read from a busy chip
  firstBusyRead,
  biosBuffer, biosBufferSize,
  currentFlashOp, currentFlashTask, flashErrorCode,
  startingOffset, currentAddr,
  eraseSequenceMethod, eraseBusyCount, firstEraseTry,
  currentFlashBank,
  LPCmodSettings,      \* the settings in RAM (their payload)
  booted,              \* bootReadXBlastOSSettings has returned
  history              \* what the properties remember: see Remember

chipVars == <<flash, chipOp>>
pollVars == <<lastStatus, firstBusyRead>>
bufVars == <<biosBuffer, biosBufferSize>>
stateVars == <<currentFlashOp, currentFlashTask, flashErrorCode>>
rangeVars == <<startingOffset, currentAddr>>
eraseVars == <<eraseSequenceMethod, eraseBusyCount, firstEraseTry>>
envVars == <<currentFlashBank, LPCmodSettings, booted>>
vars == <<chipVars, pollVars, bufVars, stateVars, rangeVars, eraseVars, envVars,
          history>>

-----------------------------------------------------------------------------
(* The memory window and the chip.                                         *)

\* The cell that window address a reaches; a bank repeats above its size.
WindowOf(bank, a) == BankBase[bank] + (a % BankSize[bank])
Window(a) == WindowOf(currentFlashBank, a)
FlashLowLevel_ReadByte(a) == flash[Window(a)]

\* What one erase command really clears on the chip.
EraseExtent(m) ==
  CASE m = "Sector" -> IF Support4KBErase THEN Sector4KB ELSE Block64KB
    [] m = "Block"  -> Block64KB
    [] OTHER        -> ChipLength
EraseCells(m, c) ==
  {d \in Cells : d \div EraseExtent(m) = c \div EraseExtent(m)}

\* The chip's answer to an erase command: "ignored" when it does not know the
\* command, "protected" when it goes busy and clears nothing.
InitiateErase(m, a) ==
  \E r \in EraseResponse[m] :
    chipOp' = CASE r = "erases"    -> [kind |-> "erase",
                                       cells |-> EraseCells(m, Window(a))]
                [] r = "protected" -> [kind |-> "erase", cells |-> {}]
                [] OTHER           -> chipOp

FlashLowLevel_WriteByte(v, a) ==
  \E b \in {v} \cup (IF Window(a) \in WeakCells THEN {Bits} ELSE {}) :
    chipOp' = [kind |-> "program", cell |-> Window(a), byte |-> b]

\* The chip finishes what it was asked to do.
ChipCompletes ==
  /\ chipOp # NoChipOp
  /\ flash' = IF chipOp.kind = "erase"
                THEN [c \in Cells |-> IF c \in chipOp.cells THEN Bits ELSE flash[c]]
                ELSE [flash EXCEPT ![chipOp.cell] = @ \cap chipOp.byte]
  /\ chipOp' = NoChipOp
  /\ UNCHANGED <<pollVars, bufVars, stateVars, rangeVars, eraseVars, envVars, history>>

\* Mutant: a "not busy" does not arm firstBusyRead again.
DeviceIsBusyOnce(b) ==
  LET status == IF chipOp = NoChipOp THEN "array" ELSE "busy"
  IN /\ b \in {r \in BOOLEAN : /\ firstBusyRead => r
                               /\ (~firstBusyRead /\ lastStatus = status)
                                    => (r <=> status = "busy")}
     /\ firstBusyRead' = FALSE
     /\ lastStatus' = status

\* _29xxxDeviceIsBusy() returns b: the first poll after a "not busy" always
\* says busy, a later one compares the toggle bit with the previous read. Two
\* reads of a busy chip differ and two reads of an idle chip agree; one read of
\* each may do either.
DeviceIsBusy(b) ==
  LET status == IF chipOp = NoChipOp THEN "array" ELSE "busy"
  IN /\ b \in {r \in BOOLEAN : /\ firstBusyRead => r
                               /\ (~firstBusyRead /\ lastStatus = status)
                                    => (r <=> status = "busy")}
     /\ firstBusyRead' = ~b
     /\ lastStatus' = status

\* Mutant: no byte ever needs an erase.
canAlwaysWrite(flashByte, bufferByte) == TRUE

canWrite(flashByte, bufferByte) == bufferByte \subseteq flashByte

\* Mutant: a chip erase is taken for a block erase.
getBlockSizeForChip(m) ==
  IF m = "Sector" /\ Support4KBErase THEN Sector4KB ELSE Block64KB

getEraseMethodSize(m) ==
  CASE m = "Sector" -> IF Support4KBErase THEN Sector4KB ELSE Block64KB
    [] m = "Block"  -> Block64KB
    [] OTHER        -> Image256KB

-----------------------------------------------------------------------------
(* Where the settings live and how they are put in the buffer.             *)

getBiosIdentifierFromFlash(bank) == BiosIdOf[flash[WindowOf(bank, Image256KB - 1)]]

getBiosIdentifierFromBuffer(buf, size) ==
  IF size = Image256KB /\ BiosIdOf[buf[size - 1]].named
    THEN BiosIdOf[buf[size - 1]]
    ELSE BiosIdOf[Bits]

getXBlastOSSettingStartingOffset(id) ==
  IF ~(id.header \in {1, 2} /\ id.named /\ id.saveBit) THEN 0
  ELSE IF id.biosSize >= Image256KB THEN 0
  ELSE IF id.biosSize < 3 * Block64KB THEN 3 * Block64KB
  ELSE (id.biosSize + Sector4KB - 1) % Sector4KB

SettingsOffset(bank) ==
  getXBlastOSSettingStartingOffset(getBiosIdentifierFromFlash(bank))

\* Mutant: crc32Value is not brought up to date.
injectSettingsStaleCrc(buf, size, offset) ==
  IF offset = 0 THEN buf ELSE [buf EXCEPT ![offset % size] = LPCmodSettings]

\* _LPCmodSettings takes two cells: its contents, then crc32Value.
injectSettingsInBuf(buf, size, offset) ==
  IF offset = 0 THEN buf
  ELSE [buf EXCEPT ![offset % size] = LPCmodSettings,
                   ![(offset % size) + 1] = Crc[LPCmodSettings]]

-----------------------------------------------------------------------------
(* Flash_executeFlashFSM, one action per state of the machine. The states  *)
(* Idle, Completed and Error do nothing.                                   *)

FsmPending ==
  /\ currentFlashOp = "PendingOp"
  /\ currentFlashOp' = IF currentFlashTask = "WriteBios" THEN "EraseInProgress"
                                                         ELSE "ReadInProgress"
  /\ UNCHANGED <<chipVars, pollVars, bufVars, currentFlashTask, flashErrorCode,
                 rangeVars, eraseVars, envVars, history>>

BusyWait ==
  /\ DeviceIsBusy(TRUE)
  /\ UNCHANGED <<chipVars, bufVars, stateVars, rangeVars, envVars, history>>

\* Only eraseBusyCount < EraseBusyCountMin is ever asked, so the count stops there.
FsmEraseBusy ==
  /\ currentFlashOp = "EraseInProgress"
  /\ BusyWait
  /\ eraseBusyCount' = IF eraseBusyCount < EraseBusyCountMin
                         THEN eraseBusyCount + 1 ELSE eraseBusyCount
  /\ UNCHANGED <<eraseSequenceMethod, firstEraseTry>>

ByteAtCurrentAddr == FlashLowLevel_ReadByte(startingOffset + currentAddr)

ErasePolled ==
  /\ currentFlashOp = "EraseInProgress"
  /\ DeviceIsBusy(FALSE)

EraseNotNeeded ==
  /\ ErasePolled
  /\ canWrite(ByteAtCurrentAddr, biosBuffer[currentAddr])
  /\ firstEraseTry' = TRUE
  /\ eraseBusyCount' = 0
  /\ IF currentAddr + 1 >= biosBufferSize
       THEN currentFlashOp' = "WriteInProgress" /\ currentAddr' = 0
       ELSE currentAddr' = currentAddr + 1 /\ UNCHANGED currentFlashOp
  /\ UNCHANGED <<chipVars, bufVars, currentFlashTask, flashErrorCode,
                 startingOffset, eraseSequenceMethod, envVars, history>>

\* Mutant: the poll that always says busy counts as a busy chip.
EraseNeverHappenedAtAll == ~firstEraseTry /\ eraseBusyCount < 1

\* The byte was erased once and the chip was hardly busy: the command is not
\* supported.
EraseNeverHappened == ~firstEraseTry /\ eraseBusyCount < EraseBusyCountMin

NextEraseMethod ==
  IF eraseSequenceMethod = "Sector" /\ Support4KBErase THEN "Block" ELSE "Chip"

\* Erase, or erase again, the unit the byte is in, with the next method when
\* the current one had no effect.
EraseIssued ==
  /\ ErasePolled
  /\ ~canWrite(ByteAtCurrentAddr, biosBuffer[currentAddr])
  /\ IF EraseNeverHappened
       THEN /\ eraseSequenceMethod # "Chip"
            /\ currentFlashTask # "WriteSettings"
            /\ eraseSequenceMethod' = NextEraseMethod
            /\ eraseBusyCount' = 0
       ELSE UNCHANGED <<eraseSequenceMethod, eraseBusyCount>>
  /\ InitiateErase(eraseSequenceMethod', startingOffset + currentAddr)
  /\ firstEraseTry' = FALSE
  /\ UNCHANGED <<flash, bufVars, stateVars, rangeVars, envVars, history>>

\* Mutant: evaluateReadBackRange forgets the size of the buffer.
EraseWidenedSameSize ==
  /\ ErasePolled
  /\ ~canWrite(ByteAtCurrentAddr, biosBuffer[currentAddr])
  /\ EraseNeverHappened
  /\ eraseSequenceMethod # "Chip"
  /\ currentFlashTask = "WriteSettings"
  /\ eraseSequenceMethod' = NextEraseMethod
  /\ firstEraseTry' = TRUE
  /\ eraseBusyCount' = 0
  /\ currentAddr' = 0
  /\ currentFlashOp' = "ReadInProgress"
  /\ UNCHANGED <<chipVars, bufVars, startingOffset, currentFlashTask,
                 flashErrorCode, envVars, history>>

\* evaluateReadBackRange: a larger unit is about to be erased, so a settings
\* job starts over by reading all of it.
EraseWidened ==
  /\ ErasePolled
  /\ ~canWrite(ByteAtCurrentAddr, biosBuffer[currentAddr])
  /\ EraseNeverHappened
  /\ eraseSequenceMethod # "Chip"
  /\ currentFlashTask = "WriteSettings"
  /\ eraseSequenceMethod' = NextEraseMethod
  /\ firstEraseTry' = TRUE
  /\ eraseBusyCount' = 0
  /\ biosBufferSize' = getEraseMethodSize(NextEraseMethod)
  /\ startingOffset' = (startingOffset \div biosBufferSize') * biosBufferSize'
  /\ currentAddr' = 0
  /\ currentFlashOp' = "ReadInProgress"
  /\ UNCHANGED <<chipVars, biosBuffer, currentFlashTask, flashErrorCode,
                 envVars, history>>

EraseFailed ==
  /\ ErasePolled
  /\ ~canWrite(ByteAtCurrentAddr, biosBuffer[currentAddr])
  /\ EraseNeverHappened
  /\ eraseSequenceMethod = "Chip"
  /\ firstEraseTry' = TRUE
  /\ eraseBusyCount' = 0
  /\ currentFlashOp' = "Error"
  /\ flashErrorCode' = "FailedErase"
  /\ UNCHANGED <<chipVars, bufVars, currentFlashTask, rangeVars,
                 eraseSequenceMethod, envVars, history>>

FsmErase ==
  \/ FsmEraseBusy
  \/ EraseNotNeeded
  \/ EraseIssued
  \/ EraseWidened
  \/ EraseFailed

WriteOver ==
  /\ currentFlashOp = "WriteInProgress"
  /\ DeviceIsBusy(FALSE)
  /\ currentAddr >= biosBufferSize
  /\ currentFlashOp' = "VerifyInProgress"
  /\ currentAddr' = 0
  /\ UNCHANGED <<chipVars, bufVars, currentFlashTask, flashErrorCode,
                 startingOffset, eraseVars, envVars, history>>

WriteNextByte ==
  /\ currentFlashOp = "WriteInProgress"
  /\ DeviceIsBusy(FALSE)
  /\ currentAddr < biosBufferSize
  /\ \/ /\ ByteAtCurrentAddr # biosBuffer[currentAddr]
        /\ FlashLowLevel_WriteByte(biosBuffer[currentAddr], startingOffset + currentAddr)
     \/ /\ ByteAtCurrentAddr = biosBuffer[currentAddr]
        /\ UNCHANGED chipOp
  /\ currentAddr' = currentAddr + 1
  /\ UNCHANGED <<flash, bufVars, stateVars, startingOffset, eraseVars, envVars,
                 history>>

FsmWrite ==
  \/ currentFlashOp = "WriteInProgress" /\ BusyWait /\ UNCHANGED eraseVars
  \/ WriteOver
  \/ WriteNextByte

\* Mutant: the verification stops one byte early.
FsmVerifyShort ==
  /\ currentFlashOp = "VerifyInProgress"
  /\ \/ BusyWait
     \/ /\ DeviceIsBusy(FALSE)
        /\ IF currentAddr + 1 >= biosBufferSize
             THEN /\ currentFlashOp' = "Completed"
                  /\ UNCHANGED <<currentAddr, flashErrorCode>>
             ELSE IF ByteAtCurrentAddr = biosBuffer[currentAddr]
               THEN /\ currentAddr' = currentAddr + 1
                    /\ UNCHANGED <<currentFlashOp, flashErrorCode>>
               ELSE /\ currentFlashOp' = "Error" /\ flashErrorCode' = "FailedVerify"
                    /\ UNCHANGED currentAddr
        /\ UNCHANGED <<chipVars, bufVars, currentFlashTask, startingOffset,
                       envVars, history>>
  /\ UNCHANGED eraseVars

FsmVerify ==
  /\ currentFlashOp = "VerifyInProgress"
  /\ \/ BusyWait
     \/ /\ DeviceIsBusy(FALSE)
        /\ IF currentAddr >= biosBufferSize
             THEN /\ currentFlashOp' = "Completed"
                  /\ UNCHANGED <<currentAddr, flashErrorCode>>
             ELSE IF ByteAtCurrentAddr = biosBuffer[currentAddr]
               THEN /\ currentAddr' = currentAddr + 1
                    /\ UNCHANGED <<currentFlashOp, flashErrorCode>>
               ELSE /\ currentFlashOp' = "Error" /\ flashErrorCode' = "FailedVerify"
                    /\ UNCHANGED currentAddr
        /\ UNCHANGED <<chipVars, bufVars, currentFlashTask, startingOffset,
                       envVars, history>>
  /\ UNCHANGED eraseVars

FsmRead ==
  /\ currentFlashOp = "ReadInProgress"
  /\ \/ BusyWait
     \/ /\ DeviceIsBusy(FALSE)
        /\ LET readBack == [biosBuffer EXCEPT ![currentAddr] = ByteAtCurrentAddr]
           IN IF currentAddr + 1 < biosBufferSize
                THEN /\ biosBuffer' = readBack
                     /\ currentAddr' = currentAddr + 1
                     /\ UNCHANGED currentFlashOp
                ELSE /\ currentAddr' = 0
                     /\ IF currentFlashTask = "WriteSettings"
                          THEN /\ biosBuffer' = injectSettingsInBuf(readBack,
                                                  biosBufferSize, SettingsOffset(currentFlashBank))
                               /\ currentFlashOp' = "EraseInProgress"
                          ELSE /\ biosBuffer' = readBack
                               /\ currentFlashOp' = "Completed"
        /\ UNCHANGED <<chipVars, biosBufferSize, currentFlashTask,
                       flashErrorCode, startingOffset, envVars, history>>
  /\ UNCHANGED eraseVars

Flash_executeFlashFSM ==
  FsmPending \/ FsmErase \/ FsmWrite \/ FsmVerify \/ FsmRead

-----------------------------------------------------------------------------
(* Starting a job. Every call is made with the engine idle: FlashUi.c and   *)
(* the boot code look at Flash_getProgress first, and each call looks again. *)

\* A job is started: the properties remember the flash it found and the
\* settings it is to store.
Remember(update) ==
  history' = [history EXCEPT !.snapshot = flash, !.jobs = @ + 1,
                             !.saved = @ \cup update]

MayCall == booted /\ currentFlashOp = "Idle" /\ history.jobs < MaxJobs

FlashLowLevel_ReadDevice(found) ==
  /\ found \in DeviceFound
  /\ firstBusyRead' = TRUE
  /\ UNCHANGED lastStatus

\* "size % ImageSize256KB" is (size % 256) * 1024 once the macro is expanded:
\* any multiple of 256 bytes passes, and a cell is one.
checkImageSize(size) ==
  IF size > 0 /\ size <= ChipLength THEN "NoError" ELSE "FileSizeError"

MirrorTarget(bank) ==
  CASE bank \in {"OSBank", "256Bank"} -> Image256KB
    [] bank \in {"512Bank", "SplitTSOP0Bank", "SplitTSOP1Bank"} -> Image512KB
    [] OTHER -> ChipLength

\* mirrorimage doubles the image until it fills the bank.
MaxDoublings == 4
MirroredSizes(size, target) ==
  {n \in 1 .. BufferLength : \E k \in 0 .. MaxDoublings :
      /\ n = size * 2^k /\ n >= target
      /\ k # 0 => size * 2^(k - 1) < target}

validateOSImage(img) ==
  LET id == BiosIdOf[img.data[img.size - 1]]
  IN IF img.size # Image256KB THEN "FileSizeError"
     ELSE IF ~(id.named /\ id.header \in {1, 2}) THEN "InvalidUpdateFile"
     ELSE IF ~img.md5ok THEN "MD5Mismatch"
     ELSE IF id.header = 1 THEN "DowngradeWarning"
     ELSE "NoError"

\* biosBuffer filled with n bytes of the mirrored image and, for the OS bank,
\* with the current settings where that image expects them.
MirroredImage(img, n) ==
  [i \in BufIndex |-> IF i < n THEN img.data[i % img.size] ELSE biosBuffer[i]]

WithSettings(buf, n) ==
  injectSettingsInBuf(buf, n,
    getXBlastOSSettingStartingOffset(getBiosIdentifierFromBuffer(buf, n)))

WriteBiosJob(img, n, withSettings) ==
  /\ biosBuffer' = IF withSettings THEN WithSettings(MirroredImage(img, n), n)
                                   ELSE MirroredImage(img, n)
  /\ biosBufferSize' = n
  /\ startingOffset' = 0
  /\ eraseSequenceMethod' = "Sector"
  /\ eraseBusyCount' = 0
  /\ firstEraseTry' = TRUE
  /\ currentFlashOp' = "PendingOp"
  /\ currentFlashTask' = "WriteBios"
  /\ Remember(IF withSettings THEN {LPCmodSettings} ELSE {})

\* Flash_WriteBios, with its result in flashErrorCode.
Flash_WriteBios(img, bank, withSettings) ==
  \E found \in BOOLEAN :
    /\ FlashLowLevel_ReadDevice(found)
    /\ flashErrorCode' = IF found THEN checkImageSize(img.size) ELSE "UndefinedError"
    /\ IF flashErrorCode' = "NoError"
         THEN \E n \in MirroredSizes(img.size, MirrorTarget(bank)) :
                WriteBiosJob(img, n, withSettings)
         ELSE UNCHANGED <<bufVars, currentFlashOp, currentFlashTask,
                          startingOffset, eraseVars, history>>
    /\ UNCHANGED <<chipVars, currentAddr, envVars>>

\* setBiosJob overrides the checks only once the user has accepted the warning
\* about this image, and frees the engine first, which clears flashErrorCode.
Flash_XBlastOSBankFlash(img, overrideChecks) ==
  LET check == IF overrideChecks THEN "NoError" ELSE validateOSImage(img)
  IN /\ MayCall
     /\ OnLPC /\ currentFlashBank = "OSBank"
     /\ overrideChecks => flashErrorCode = "DowngradeWarning"
                          /\ validateOSImage(img) = "DowngradeWarning"
     /\ \/ /\ check = "NoError"
           /\ Flash_WriteBios(img, "OSBank", TRUE)
        \/ /\ check # "NoError"
           /\ flashErrorCode' = check
           /\ UNCHANGED <<chipVars, pollVars, bufVars, currentFlashOp,
                          currentFlashTask, rangeVars, eraseVars, envVars, history>>

Flash_XBlastUserBankFlash(img) ==
  /\ MayCall
  /\ OnLPC /\ currentFlashBank # "OSBank"
  /\ Flash_WriteBios(img, currentFlashBank, FALSE)

Flash_SimpleBIOSBankFlash(img) ==
  /\ MayCall
  /\ ~OnLPC
  /\ Flash_WriteBios(img, "NoBank", FALSE)

Flash_ReadBIOSBank ==
  /\ MayCall
  /\ \E found \in BOOLEAN :
       /\ FlashLowLevel_ReadDevice(found)
       /\ IF found
            THEN /\ currentFlashOp' = "PendingOp"
                 /\ currentFlashTask' = "ReadBios"
                 /\ biosBufferSize' = MirrorTarget(currentFlashBank)
                 /\ startingOffset' = 0
                 /\ Remember({})
            ELSE UNCHANGED <<currentFlashOp, currentFlashTask, biosBufferSize,
                             startingOffset, history>>
  /\ UNCHANGED <<chipVars, biosBuffer, flashErrorCode, currentAddr, eraseVars,
                 envVars>>

\* The failing paths leave currentFlashTask at NoTask.
Flash_SaveXBlastOSSettings ==
  /\ MayCall /\ currentFlashBank = "OSBank"
  /\ \E found \in BOOLEAN :
       /\ FlashLowLevel_ReadDevice(found)
       /\ startingOffset' = IF found THEN SettingsOffset("OSBank") ELSE startingOffset
       /\ IF found /\ startingOffset' # 0
            THEN /\ eraseSequenceMethod' = "Sector"
                 /\ eraseBusyCount' = 0
                 /\ firstEraseTry' = TRUE
                 /\ biosBufferSize' = getEraseMethodSize("Sector")
                 /\ currentFlashOp' = "PendingOp"
                 /\ currentFlashTask' = "WriteSettings"
                 /\ UNCHANGED flashErrorCode
                 /\ Remember({LPCmodSettings})
            ELSE /\ currentFlashOp' = "Error"
                 /\ flashErrorCode' = IF found THEN "FlashContentError"
                                      ELSE IF IsX3 THEN "WriteProtect"
                                      ELSE "UnknownFlash"
                 /\ UNCHANGED <<eraseVars, biosBufferSize, currentFlashTask, history>>
  /\ UNCHANGED <<chipVars, biosBuffer, currentAddr, envVars>>

Flash_ReadXBlastOSSettingsRequest ==
  /\ ~booted /\ currentFlashOp = "Idle"
  /\ \E found \in BOOLEAN :
       /\ FlashLowLevel_ReadDevice(found)
       /\ IF found \/ IsX3
            THEN /\ currentFlashTask' = "ReadSettings"
                 /\ biosBufferSize' = 2
                 /\ startingOffset' = SettingsOffset("OSBank")
                 /\ IF startingOffset' = 0
                      THEN /\ currentFlashOp' = "Completed"
                           /\ biosBuffer' = [biosBuffer EXCEPT ![0] = Bits]
                      ELSE /\ currentFlashOp' = "PendingOp"
                           /\ UNCHANGED biosBuffer
            ELSE /\ currentFlashOp' = "Error"
                 /\ UNCHANGED <<currentFlashTask, bufVars, startingOffset>>
  /\ UNCHANGED <<chipVars, flashErrorCode, currentAddr, eraseVars, envVars, history>>

-----------------------------------------------------------------------------
(* The end of a job, and what happens around the engine.                   *)

\* Mutant: a freed job leaves its error code behind.
freeKeepsErrorCode ==
  /\ biosBufferSize' = 0
  /\ currentFlashOp' = "Idle"
  /\ UNCHANGED flashErrorCode
  /\ currentAddr' = 0
  /\ currentFlashTask' = "NoTask"
  /\ currentFlashBank' = IF OnLPC THEN "OSBank" ELSE currentFlashBank

\* With switchOSBank(FlashBank_OSBank), which only an XBlast chip on LPC obeys.
Flash_freeFlashFSM ==
  /\ biosBufferSize' = 0
  /\ currentFlashOp' = "Idle"
  /\ flashErrorCode' = "NoError"
  /\ currentAddr' = 0
  /\ currentFlashTask' = "NoTask"
  /\ currentFlashBank' = IF OnLPC THEN "OSBank" ELSE currentFlashBank

\* Flash_ReadDeviceInfo, from the flash information menu.
Flash_ReadDeviceInfo ==
  /\ MayCall
  /\ \E found \in BOOLEAN : FlashLowLevel_ReadDevice(found)
  /\ Flash_freeFlashFSM
  /\ UNCHANGED <<chipVars, biosBuffer, startingOffset, eraseVars, LPCmodSettings,
                 booted, history>>

\* The user interface frees a job whose end it has seen.
JobFreed ==
  /\ booted /\ currentFlashOp \in {"Completed", "Error"}
  /\ Flash_freeFlashFSM
  /\ UNCHANGED <<chipVars, pollVars, biosBuffer, startingOffset, eraseVars,
                 LPCmodSettings, booted, history>>

\* Mutants: the settings are taken without a look at their CRC, or at anything.
LoadedSettingsNoCrc ==
  IF /\ currentFlashOp = "Completed" /\ currentFlashTask = "ReadSettings"
     /\ biosBuffer[0] \in Payloads
    THEN biosBuffer[0] ELSE DefaultPayload
LoadedSettingsUnchecked ==
  IF currentFlashOp = "Completed" /\ currentFlashTask = "ReadSettings"
    THEN biosBuffer[0] ELSE DefaultPayload

\* Flash_LoadXBlastOSSettings on the buffer: version and CRC must be right.
LoadedSettings ==
  IF /\ currentFlashOp = "Completed" /\ currentFlashTask = "ReadSettings"
     /\ biosBuffer[0] \in Payloads
     /\ biosBuffer[1] = Crc[biosBuffer[0]]
    THEN biosBuffer[0] ELSE DefaultPayload

\* bootReadXBlastOSSettings sees the end of its read job.
bootReadXBlastOSSettings ==
  /\ ~booted /\ currentFlashOp \in {"Completed", "Error"}
  /\ LPCmodSettings' = LoadedSettings
  /\ booted' = TRUE
  /\ Flash_freeFlashFSM
  /\ UNCHANGED <<chipVars, pollVars, biosBuffer, startingOffset, eraseVars, history>>

Flash_forceUserAbort ==
  /\ MayCall
  /\ currentFlashTask' = "WriteBios"
  /\ currentFlashOp' = "Error"
  /\ flashErrorCode' = "UserAbort"
  /\ UNCHANGED <<chipVars, pollVars, bufVars, rangeVars, eraseVars, envVars, history>>

\* Mutant: the bank may be switched while a job runs.
switchOSBankAnytime(bank) ==
  /\ booted /\ OnLPC
  /\ currentFlashBank' = bank
  /\ UNCHANGED <<chipVars, pollVars, bufVars, stateVars, rangeVars, eraseVars,
                 LPCmodSettings, booted, history>>

switchOSBank(bank) ==
  /\ MayCall /\ OnLPC
  /\ currentFlashBank' = bank
  /\ UNCHANGED <<chipVars, pollVars, bufVars, stateVars, rangeVars, eraseVars,
                 LPCmodSettings, booted, history>>

\* A menu changes a setting.
SettingsEdited(p) ==
  /\ MayCall
  /\ LPCmodSettings' = p
  /\ UNCHANGED <<chipVars, pollVars, bufVars, stateVars, rangeVars, eraseVars,
                 currentFlashBank, booted, history>>

\* Flash_Init and the hardware identification at power-up.
PowerUp ==
  /\ chipOp' = NoChipOp /\ lastStatus' = "array" /\ firstBusyRead' = FALSE
  /\ biosBuffer' = [i \in BufIndex |-> {}] /\ biosBufferSize' = 0
  /\ currentFlashOp' = "Idle" /\ currentFlashTask' = "NoTask"
  /\ flashErrorCode' = "NoError"
  /\ startingOffset' = 0 /\ currentAddr' = 0
  /\ eraseSequenceMethod' = "Sector" /\ eraseBusyCount' = 0 /\ firstEraseTry' = FALSE
  /\ currentFlashBank' = "OSBank"
  /\ LPCmodSettings' = DefaultPayload /\ booted' = FALSE

\* Power is lost: an erase in progress got as far as some cell, a byte being
\* programmed lost some of the bits it was to lose; everything in RAM is lost.
PowerCut ==
  /\ history.cuts < MaxCuts
  /\ CASE chipOp.kind = "erase" ->
            \E k \in Cells : flash' = [c \in Cells |->
                 IF c \in chipOp.cells /\ c <= k THEN Bits ELSE flash[c]]
       [] chipOp.kind = "program" ->
            \E b \in Byte : /\ chipOp.byte \subseteq b
                            /\ flash' = [flash EXCEPT ![chipOp.cell] = @ \cap b]
       [] OTHER -> UNCHANGED flash
  /\ PowerUp
  /\ history' = [history EXCEPT !.cuts = @ + 1]

Init ==
  /\ flash \in InitFlash
  /\ chipOp = NoChipOp /\ lastStatus = "array" /\ firstBusyRead = FALSE
  /\ biosBuffer = [i \in BufIndex |-> {}] /\ biosBufferSize = 0
  /\ currentFlashOp = "Idle" /\ currentFlashTask = "NoTask"
  /\ flashErrorCode = "NoError"
  /\ startingOffset = 0 /\ currentAddr = 0
  /\ eraseSequenceMethod = "Sector" /\ eraseBusyCount = 0 /\ firstEraseTry = FALSE
  /\ currentFlashBank = "OSBank"
  /\ LPCmodSettings = DefaultPayload /\ booted = FALSE
  /\ history = [snapshot |-> flash, cuts |-> 0, jobs |-> 0,
                saved |-> {p \in Payloads : LET o == SettingsOffset("OSBank")
                             IN /\ o # 0
                                /\ flash[WindowOf("OSBank", o)] = p
                                /\ flash[WindowOf("OSBank", o + 1)] = Crc[p]}]

Next ==
  \/ ChipCompletes
  \/ Flash_executeFlashFSM
  \/ \E img \in Images, override \in BOOLEAN : Flash_XBlastOSBankFlash(img, override)
  \/ \E img \in Images : Flash_XBlastUserBankFlash(img)
  \/ \E img \in Images : Flash_SimpleBIOSBankFlash(img)
  \/ Flash_ReadBIOSBank
  \/ Flash_SaveXBlastOSSettings
  \/ Flash_ReadXBlastOSSettingsRequest
  \/ Flash_ReadDeviceInfo
  \/ JobFreed
  \/ bootReadXBlastOSSettings
  \/ Flash_forceUserAbort
  \/ \E bank \in Banks : switchOSBank(bank)
  \/ \E p \in Payloads : SettingsEdited(p)
  \/ PowerCut

Spec == Init /\ [][Next]_vars

\* Whoever started a job loops over Flash_executeFlashFSM ("Call perpetually"),
\* and the chip finishes what it began.
Fairness ==
  /\ WF_vars(ChipCompletes)
  /\ WF_vars(Flash_executeFlashFSM)

FairSpec == Spec /\ Fairness

\* What the callers see of the engine, with the states of Flash_executeFlashFSM
\* between PendingOp and the end of the job made one.
VisibleOp ==
  IF currentFlashOp \in {"EraseInProgress", "WriteInProgress", "VerifyInProgress",
                         "ReadInProgress"} THEN "Working" ELSE currentFlashOp
Engine == INSTANCE FlashEngine WITH EngineErrors <- Errorcodes, op <- VisibleOp,
                                    task <- currentFlashTask, err <- flashErrorCode

-----------------------------------------------------------------------------
(* Correctness.                                                            *)

TypeOK ==
  /\ flash \in [Cells -> Byte]
  /\ chipOp \in ChipOps
  /\ lastStatus \in {"array", "busy"} /\ firstBusyRead \in BOOLEAN
  /\ biosBuffer \in [BufIndex -> Byte] /\ biosBufferSize \in 0 .. BufferLength
  /\ currentFlashOp \in FlashOps /\ currentFlashTask \in FlashTasks
  /\ flashErrorCode \in Errorcodes
  /\ startingOffset \in Nat /\ currentAddr \in 0 .. BufferLength
  /\ eraseSequenceMethod \in Methods
  /\ eraseBusyCount \in 0 .. EraseBusyCountMin /\ firstEraseTry \in BOOLEAN
  /\ currentFlashBank \in Banks
  /\ LPCmodSettings \in Payloads /\ booted \in BOOLEAN
  /\ history \in [snapshot : [Cells -> Byte], cuts : Nat, jobs : Nat,
                  saved : SUBSET Payloads]

WriteTasks == {"WriteBios", "WriteSettings"}

\* The state machine keeps the promise that its callers are written against: a
\* call is refused, fails at once or starts a job; a job works, then is Completed
\* or, if it writes, in Error; only a free or a power cut makes it Idle.
ImplementsEngine == Engine!EngineSpec

\* A write job that reports Completed (FlashOp_Completed out of the verify
\* state) left every byte of biosBuffer in the part of the chip it was aimed at.
VerifiedMeansWritten ==
  currentFlashOp = "Completed" /\ currentFlashTask \in WriteTasks =>
    \A i \in 0 .. (biosBufferSize - 1) :
      flash[Window(startingOffset + i)] = biosBuffer[i]

\* While the chip erases or programs, the engine neither takes a byte from it
\* nor sends it a command nor advances: the toggle-bit poll with firstBusyRead
\* never lets a state of Flash_executeFlashFSM past a busy chip.
NoAccessWhileBusy ==
  [][chipOp # NoChipOp =>
       \/ chipOp' = NoChipOp
       \/ UNCHANGED <<chipOp, bufVars, stateVars, rangeVars>>]_vars

\* A settings save that completes changed nothing but the settings: the rest of
\* the erased unit was read back and rewritten (readback, injectSettingsInBuf and
\* evaluateReadBackRange agree on the range). A chip erase of a chip larger than
\* the 256KB that getEraseMethodSize reads back is the exception.
SettingsCells(offset) == {WindowOf("OSBank", offset), WindowOf("OSBank", offset + 1)}
ChipEraseReadBack == eraseSequenceMethod = "Chip" => ChipLength <= Image256KB
SavePreservesImage ==
  /\ currentFlashOp = "Completed" /\ currentFlashTask = "WriteSettings"
  /\ ChipEraseReadBack
  => \A c \in Cells \ SettingsCells(SettingsOffset("OSBank")) :
       flash[c] = history.snapshot[c]

\* At any moment of a settings job, what the flash has lost is in biosBuffer.
DestroyedIsBuffered ==
  /\ currentFlashTask = "WriteSettings"
  /\ ChipEraseReadBack
  => \A c \in Cells : flash[c] # history.snapshot[c] =>
       \E i \in 0 .. (biosBufferSize - 1) :
         /\ c = Window(startingOffset + i)
         /\ \/ biosBuffer[i] = history.snapshot[c]
            \/ c \in SettingsCells(3 * Block64KB)

\* What a settings job erases it has read back before ("Previous read back data
\* is obviously not covering the new range we're about to erase").
ReadBackCoversErase ==
  [][currentFlashTask = "WriteSettings" /\ chipOp' # chipOp /\ chipOp'.kind = "erase" =>
       \A c \in chipOp'.cells : \E i \in 0 .. (biosBufferSize - 1) :
         c = Window(startingOffset + i)]_vars

\* The settings are never stored below the 192KB mark of the OS image, so that
\* they lie in its last 64KB sector.
SettingsAbove192KB ==
  currentFlashTask = "WriteSettings" /\ currentFlashOp = "PendingOp"
    => startingOffset >= 3 * Block64KB

\* Writing one bank leaves the other banks alone, unless the engine has fallen
\* back to erasing the whole chip.
OtherBanksUntouched ==
  [][\A c \in Cells : flash'[c] # flash[c] =>
       \/ \E i \in 0 .. (BankSize[currentFlashBank] - 1) : c = Window(i)
       \/ eraseSequenceMethod = "Chip"]_vars

\* Whatever was interrupted by a power cut, the settings that the next boot
\* loads are the defaults or ones that were saved as a whole.
LoadedSettingsGenuine ==
  [][~booted /\ booted' =>
       LPCmodSettings' \in history.saved \cup {DefaultPayload}]_vars

\* After an OS update the flash holds the current settings where the new image
\* will look for them ("OS settings are carried over OS updates").
SettingsCarriedOver ==
  /\ currentFlashOp = "Completed" /\ currentFlashTask = "WriteBios"
  /\ OnLPC /\ currentFlashBank = "OSBank"
  /\ SettingsOffset("OSBank") # 0
  => LET c == WindowOf("OSBank", SettingsOffset("OSBank"))
     IN flash[c] = LPCmodSettings /\ flash[c + 1] = Crc[LPCmodSettings]

\* As long as the chip erase works and every byte programs, no job fails, whatever
\* smaller erase commands the chip ignores: the fallback from sector to block to
\* chip always gets there. An image larger than its bank is the exception.
ChipObeys == /\ EraseResponse["Chip"] = {"erases"}
             /\ \A m \in Methods : "protected" \notin EraseResponse[m]
             /\ WeakCells = {}
GoodChipNoFailure ==
  ChipObeys /\ biosBufferSize <= BankSize[currentFlashBank]
    => flashErrorCode \notin {"FailedErase", "FailedVerify"}

\* A job that was started ends, in success or in an error that the user
\* interface can report.
JobTerminates ==
  currentFlashOp = "PendingOp" ~> currentFlashOp \in {"Completed", "Error", "Idle"}

=============================================================================
