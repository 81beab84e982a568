------------------------ MODULE FlashSettingsProofs -------------------------
(***************************************************************************)
(* What the flash engine does to the settings and to the image they lie in, *)
(* proved for every chip and bank layout from the facts of FlashJobProofs   *)
(* about the jobs: an update of the OS carries the settings over, and a     *)
(* save of the settings keeps the image.                                    *)
(***************************************************************************)
EXTENDS FlashJobProofs

(* An update of the OS.                                                    *)

\* Settings that have a place are below the identifier of their image.
LEMMA OffsetFits ==
  ASSUME NEW id \in [header : Nat, named : BOOLEAN, saveBit : BOOLEAN, biosSize : Nat],
         getXBlastOSSettingStartingOffset(id) # 0
  PROVE  /\ getXBlastOSSettingStartingOffset(id) \in 1 .. (Image256KB - 3)
         /\ id.named
<1>1. (id.biosSize + Sector4KB - 1) % Sector4KB \in 0 .. (Sector4KB - 1)
  BY SizesAssumption
<1>2. Sector4KB - 1 <= Image256KB - 3 /\ 3 * Block64KB <= Image256KB - 3
  BY SizesAssumption, GeometryAssumption
<1>3. QED
  BY <1>1, <1>2, SizesAssumption DEF getXBlastOSSettingStartingOffset

\* A write to the OS bank carries the settings where the image in the buffer expects them.
Expected == getXBlastOSSettingStartingOffset(BiosIdOf[biosBuffer[Image256KB - 1]])
CarriesSettings ==
  /\ currentFlashTask = "WriteBios" /\ OnLPC /\ currentFlashBank = "OSBank"
  /\ currentFlashOp # "Error"
  => /\ startingOffset = 0 /\ biosBufferSize = Image256KB
     /\ Expected # 0 => /\ biosBuffer[Expected] = LPCmodSettings
                        /\ biosBuffer[Expected + 1] = Crc[LPCmodSettings]

\* The identifiers are read from bytes.
LEMMA IdType ==
  ASSUME NEW b \in Byte
  PROVE  BiosIdOf[b] \in [header : Nat, named : BOOLEAN, saveBit : BOOLEAN, biosSize : Nat]
BY DataAssumption

\* injectSettingsInBuf with the offset of the image puts the settings in, and does not
\* touch the identifier that the offset comes from.
LEMMA InjectedWhereExpected ==
  ASSUME IInv, NEW buf \in [BufIndex -> Byte], biosBuffer' = WithSettings(buf, Image256KB),
         Expected' # 0
  PROVE  /\ biosBuffer'[Expected'] = LPCmodSettings
         /\ biosBuffer'[Expected' + 1] = Crc[LPCmodSettings]
<1> DEFINE last == Image256KB - 1
           id == getBiosIdentifierFromBuffer(buf, Image256KB)
           o == getXBlastOSSettingStartingOffset(id)
<1>1. /\ last \in BufIndex /\ buf[last] \in Byte /\ Bits \in Byte
      /\ 0 .. last \subseteq BufIndex
  BY SizesAssumption DEF BufIndex, Byte
<1>2. id \in [header : Nat, named : BOOLEAN, saveBit : BOOLEAN, biosSize : Nat]
  BY <1>1, IdType DEF getBiosIdentifierFromBuffer
<1>3. biosBuffer' = injectSettingsInBuf(buf, Image256KB, o)
  BY DEF WithSettings
<1>4. o = 0 => biosBuffer' = buf
  BY <1>3 DEF injectSettingsInBuf
<1>5. o # 0 => /\ o \in 1 .. (Image256KB - 3) /\ o % Image256KB = o
               /\ o \in BufIndex /\ o + 1 \in BufIndex /\ last # o /\ last # o + 1
  <2>1. o # 0 => o \in 1 .. (Image256KB - 3)
    BY <1>2, OffsetFits
  <2>2. QED
    BY <2>1, SizesAssumption DEF BufIndex
<1>6. o # 0 => biosBuffer' = [buf EXCEPT ![o] = LPCmodSettings, ![o + 1] = Crc[LPCmodSettings]]
  BY Zenon, <1>3, <1>5 DEF injectSettingsInBuf
<1> HIDE DEF o, id
<1>7. biosBuffer'[last] = buf[last]
  BY <1>1, <1>4, <1>5, <1>6
<1>8. Expected' = getXBlastOSSettingStartingOffset(BiosIdOf[buf[last]])
  BY <1>7 DEF Expected
<1>9. BiosIdOf[buf[last]].named
  BY <1>1, <1>8, IdType, OffsetFits
<1>10. Expected' = o
  BY <1>8, <1>9 DEF o, id, getBiosIdentifierFromBuffer
<1>11. QED
  BY <1>5, <1>6, <1>10

\* A job that writes an image keeps its buffer and its range.
LEMMA ImageKept ==
  ASSUME IInv, Flash_executeFlashFSM, currentFlashTask = "WriteBios"
  PROVE  UNCHANGED <<biosBuffer, biosBufferSize, startingOffset>> /\ currentFlashOp # "Error"
<1> USE DEF bufVars, rangeVars
<1>1. CASE FsmPending \/ FsmVerify
  BY Zenon, <1>1 DEF FsmPending, FsmVerify, BusyWait
<1>2. CASE FsmErase
  BY Zenon, <1>2 DEF FsmErase, FsmEraseBusy, BusyWait, EraseNotNeeded, EraseIssued,
     EraseWidened, EraseFailed, ErasePolled
<1>3. CASE FsmWrite
  BY Zenon, <1>3 DEF FsmWrite, BusyWait, WriteOver, WriteNextByte
<1>4. ~FsmRead
  BY Zenon DEF FsmRead, IInv, ReadsAreNotWrites
<1>5. QED
  BY <1>1, <1>2, <1>3, <1>4 DEF Flash_executeFlashFSM

\* CarriesSettings is an invariant.
LEMMA CarriesStep == IInv /\ JobInv /\ CarriesSettings /\ [Next]_vars => CarriesSettings'
<1> SUFFICES ASSUME IInv, JobInv, CarriesSettings, [Next]_vars,
                    currentFlashTask' = "WriteBios", OnLPC, currentFlashBank' = "OSBank",
                    currentFlashOp' # "Error"
             PROVE  CarriesSettings'
  BY DEF CarriesSettings
<1> USE DEF chipVars, bufVars, stateVars, rangeVars, envVars
<1>1. CASE /\ UNCHANGED <<biosBuffer, biosBufferSize, startingOffset, currentFlashBank,
                          LPCmodSettings, currentFlashTask>>
           /\ currentFlashOp # "Error"
  BY <1>1 DEF CarriesSettings, Expected
<1>2. CASE UNCHANGED vars \/ ChipCompletes
  BY <1>1, <1>2 DEF vars, ChipCompletes
<1>3. CASE Flash_executeFlashFSM
  BY <1>1, <1>3, ImageKept, FsmKeepsBank
<1>4. CASE Next /\ ~ChipCompletes /\ ~Flash_executeFlashFSM
  <2>1. BiosStarted
    BY <1>4, OutsideCalls DEF Outside
  <2>2. PICK img \in Images : WriteBiosJob(img, Image256KB, TRUE) /\ img.size = Image256KB
    BY Zenon, <2>1 DEF BiosStarted
  <2>3. UNCHANGED LPCmodSettings
    BY <2>1 DEF BiosStarted
  <2>4. MirroredImage(img, Image256KB) \in [BufIndex -> Byte]
    <3>1. \A i \in BufIndex : i % img.size \in 0 .. (img.size - 1)
      BY DataAssumption, SizesAssumption DEF BufIndex
    <3>2. \A i \in BufIndex : img.data[i % img.size] \in Byte
      BY <3>1, DataAssumption
    <3>3. QED
      BY <3>2 DEF IInv, TypeOK, MirroredImage
  <2>5. /\ biosBuffer' = WithSettings(MirroredImage(img, Image256KB), Image256KB)
        /\ biosBufferSize' = Image256KB /\ startingOffset' = 0
    BY <2>2 DEF WriteBiosJob
  <2>6. Expected' # 0 => /\ biosBuffer'[Expected'] = LPCmodSettings
                         /\ biosBuffer'[Expected' + 1] = Crc[LPCmodSettings]
    BY Zenon, <2>4, <2>5, InjectedWhereExpected
  <2>7. QED
    BY <2>3, <2>5, <2>6 DEF CarriesSettings
<1>5. QED
  BY <1>2, <1>3, <1>4

\* Flash_XBlastOSBankFlash carries the settings over: once an update of the OS bank is
\* reported as Completed, the flash holds the settings of the running OS and their CRC
\* where the new image will look for them, for every image, chip and sequence of jobs.
THEOREM UpdatesCarrySettings == Spec => []SettingsCarriedOver
<1>1. Init => CarriesSettings
  BY DEF Init, CarriesSettings
<1>2. IInv /\ JobInv /\ CarriesSettings => SettingsCarriedOver
  <2> SUFFICES ASSUME IInv, JobInv, CarriesSettings,
                      currentFlashOp = "Completed", currentFlashTask = "WriteBios",
                      OnLPC, currentFlashBank = "OSBank", SettingsOffset("OSBank") # 0
               PROVE  LET c == WindowOf("OSBank", SettingsOffset("OSBank"))
                      IN flash[c] = LPCmodSettings /\ flash[c + 1] = Crc[LPCmodSettings]
    BY DEF SettingsCarriedOver
  <2> DEFINE o == SettingsOffset("OSBank")
  <2>1. \A i \in 0 .. (Image256KB - 1) : flash[WindowOf("OSBank", 0 + i)] = biosBuffer[i]
    BY DEF IInv, VerifiedMeansWritten, CarriesSettings, WriteTasks, Window
  <2>2. o = Expected
    BY <2>1, SizesAssumption DEF SettingsOffset, getBiosIdentifierFromFlash, Expected
  <2>3. o \in 1 .. (Image256KB - 3)
    <3>1. biosBuffer[Image256KB - 1] \in Byte
      BY SizesAssumption DEF IInv, TypeOK, BufIndex
    <3>2. QED
      BY <2>2, <3>1, IdType, OffsetFits DEF Expected
  <2>4. biosBuffer[o] = LPCmodSettings /\ biosBuffer[o + 1] = Crc[LPCmodSettings]
    BY <2>2 DEF CarriesSettings
  <2>5. flash[WindowOf("OSBank", o)] = biosBuffer[o]
        /\ flash[WindowOf("OSBank", o + 1)] = biosBuffer[o + 1]
    BY <2>1, <2>3, SizesAssumption
  <2>6. WindowOf("OSBank", o + 1) = WindowOf("OSBank", o) + 1
    <3>1. /\ o \in 0 .. (BankSize["OSBank"] - 1) /\ o + 1 \in 0 .. (BankSize["OSBank"] - 1)
          /\ BankBase["OSBank"] \in Nat /\ "OSBank" \in Banks
      BY <2>3, GeometryAssumption, BanksAssumption, SizesAssumption
    <3>2. QED
      BY <3>1, WindowBelowSize
  <2>7. QED
    BY <2>4, <2>5, <2>6
<1>3. QED
  BY <1>1, <1>2, CarriesStep, JobInvariant, PTL DEF Spec

-----------------------------------------------------------------------------
(* A save of the settings.                                                 *)

\* Every image keeps its settings at the 192KB mark or does not keep any: the images
\* of 192KB and more, whose settings getXBlastOSSettingStartingOffset puts into the
\* first sector of the bank, are excluded.
SettingsAt192KB ==
  \A b \in Byte : getXBlastOSSettingStartingOffset(BiosIdOf[b]) \in {0, 3 * Block64KB}

\* The unit that a settings job reads back, erases and writes.
OSBase == BankBase["OSBank"]
UnitStart(m) == IF m = "Chip" THEN 0 ELSE 3 * Block64KB
Unit(m) == {c \in Cells : /\ OSBase + UnitStart(m) <= c
                          /\ c < OSBase + UnitStart(m) + getEraseMethodSize(m)}
ReadBackWhole(m) == m = "Chip" => ChipLength <= Image256KB

\* The unit lies in the first 256KB of the OS bank and has the settings in it.
LEMMA UnitInImage ==
  ASSUME NEW m \in Methods
  PROVE  /\ getEraseMethodSize(m) \in Nat \ {0} /\ UnitStart(m) \in Nat
         /\ UnitStart(m) + getEraseMethodSize(m) <= Image256KB
         /\ UnitStart(m) <= 3 * Block64KB
         /\ 3 * Block64KB + 1 < UnitStart(m) + getEraseMethodSize(m)
         /\ OSBase \in Nat /\ OSBase + Image256KB <= ChipLength
BY SizesAssumption, GeometryAssumption, BanksAssumption
   DEF Methods, getEraseMethodSize, UnitStart, OSBase

\* The i-th byte of the buffer belongs to the i-th cell of the unit.
LEMMA UnitWindow ==
  ASSUME NEW m \in Methods, NEW i \in 0 .. (getEraseMethodSize(m) - 1)
  PROVE  /\ WindowOf("OSBank", UnitStart(m) + i) = OSBase + UnitStart(m) + i
         /\ OSBase + UnitStart(m) + i \in Unit(m)
<1>1. /\ getEraseMethodSize(m) \in Nat \ {0} /\ UnitStart(m) \in Nat
      /\ UnitStart(m) + getEraseMethodSize(m) <= Image256KB
      /\ OSBase \in Nat /\ OSBase + Image256KB <= ChipLength
  BY UnitInImage
<1>2. UnitStart(m) + i \in 0 .. (BankSize["OSBank"] - 1) /\ "OSBank" \in Banks
  BY <1>1, GeometryAssumption, BanksAssumption, SizesAssumption
<1>3. WindowOf("OSBank", UnitStart(m) + i) = BankBase["OSBank"] + (UnitStart(m) + i)
  BY <1>2, WindowBelowSize
<1>4. QED
  BY <1>1, <1>3, SizesAssumption DEF OSBase, Unit, Cells

\* An erase command aimed at the unit clears the unit and nothing else.
LEMMA UnitErased ==
  ASSUME NEW m \in Methods, ReadBackWhole(m), NEW c \in Unit(m)
  PROVE  EraseCells(m, c) = Unit(m)
<1>1. /\ getEraseMethodSize(m) \in Nat \ {0} /\ UnitStart(m) \in Nat
      /\ OSBase \in Nat /\ OSBase + Image256KB <= ChipLength
      /\ Cells \subseteq Nat /\ c \in Cells
  BY UnitInImage, SizesAssumption DEF Cells, Unit
<1>2. CASE m = "Chip"
  <2>1. OSBase = 0 /\ ChipLength = Image256KB /\ ChipLength \in Nat \ {0}
    BY <1>1, <1>2, SizesAssumption DEF ReadBackWhole
  <2>2. Unit(m) = Cells
    BY <1>2, <2>1 DEF Unit, UnitStart, getEraseMethodSize, Cells
  <2>3. \A d \in Cells : d \div ChipLength = 0
    <3>1. SUFFICES ASSUME NEW d \in Cells PROVE d \div ChipLength = 0
      OBVIOUS
    <3>2. ChipLength * 0 = 0 /\ d \in Nat /\ d < ChipLength
      BY <2>1 DEF Cells
    <3>3. QED
      BY <2>1, <3>2, QuotientIs
  <2>4. QED
    BY <1>1, <1>2, <2>2, <2>3 DEF EraseCells, EraseExtent
<1>3. CASE m # "Chip"
  <2> DEFINE u == EraseExtent(m)
  <2>1. u \in {Sector4KB, Block64KB} /\ u \in Nat \ {0} /\ getEraseMethodSize(m) = u
    BY <1>3, SizesAssumption DEF EraseExtent, getEraseMethodSize, Methods
  <2>2. PICK p \in Nat : OSBase = u * p
    BY <2>1, BankAligned, BanksAssumption DEF OSBase
  <2>3. PICK k \in Nat : Block64KB = u * k
    <3>1. CASE u = Block64KB
      <4>1. Block64KB = u * 1
        BY <2>1, <3>1
      <4>2. QED
        BY <4>1
    <3>2. CASE u = Sector4KB
      <4>1. Block64KB \in Nat /\ Block64KB % u = 0
        BY <3>2, GeometryAssumption, SizesAssumption
      <4>2. QED
        BY Zenon, <2>1, <4>1, Multiple
    <3>3. QED
      BY <2>1, <3>1, <3>2
  <2> DEFINE q == p + 3 * k
  <2>4. q \in Nat /\ OSBase + UnitStart(m) = u * q
    BY <1>3, <2>1, <2>2, <2>3 DEF UnitStart
  <2>5. Unit(m) = {d \in Cells : u * q <= d /\ d < u * q + u}
    BY <2>1, <2>4 DEF Unit
  <2> HIDE DEF u, q
  <2>6. \A d \in Cells : d \div u = q <=> u * q <= d /\ d < u * q + u
    BY Zenon, <1>1, <2>1, <2>4, QuotientIs
  <2>7. c \div u = q
    BY <1>1, <2>5, <2>6
  <2>8. QED
    BY <2>5, <2>6, <2>7 DEF EraseCells, u
<1>4. QED
  BY <1>2, <1>3

\* Where injectSettingsInBuf puts the settings, and where evaluateReadBackRange moves
\* the range when the erase method changes.
LEMMA UnitArithmetic ==
  ASSUME NEW m \in Methods
  PROVE  /\ (3 * Block64KB) % getEraseMethodSize(m) = 3 * Block64KB - UnitStart(m)
         /\ m # "Sector" => ((3 * Block64KB) \div getEraseMethodSize(m)) * getEraseMethodSize(m)
                              = UnitStart(m)
<1> DEFINE u == getEraseMethodSize(m)
<1>1. Block64KB \in Nat \ {0} /\ Sector4KB \in Nat \ {0} /\ Block64KB % Sector4KB = 0
      /\ Image256KB = 4 * Block64KB
  BY SizesAssumption, GeometryAssumption
<1>2. CASE m = "Chip"
  <2>1. u = 4 * Block64KB /\ u \in Nat \ {0} /\ UnitStart(m) = 0
    BY <1>1, <1>2 DEF getEraseMethodSize, UnitStart
  <2>2. 3 * Block64KB \in 0 .. (u - 1)
    BY <1>1, <2>1
  <2> HIDE DEF u
  <2>3. (3 * Block64KB) \div u = 0 /\ (3 * Block64KB) % u = 3 * Block64KB
    BY <2>1, <2>2
  <2>4. QED
    BY <1>1, <2>1, <2>3 DEF u
<1>3. CASE u = Block64KB /\ m # "Chip"
  <2>1. (3 * Block64KB) \div Block64KB = 3
    <3>1. Block64KB * 3 <= 3 * Block64KB /\ 3 * Block64KB < Block64KB * 3 + Block64KB
      BY <1>1
    <3>2. QED
      BY <1>1, <3>1, QuotientIs
  <2>2. (3 * Block64KB) % Block64KB = 0
    BY <1>1, <2>1
  <2>3. QED
    BY <1>3, <2>1, <2>2, <1>1 DEF UnitStart
<1>4. CASE m = "Sector" /\ u = Sector4KB
  <2>1. PICK k \in Nat : Block64KB = Sector4KB * k
    <3>1. Block64KB \in Nat
      BY <1>1
    <3>2. QED
      BY Zenon, <1>1, <3>1, Multiple
  <2>2. 3 * Block64KB = Sector4KB * (3 * k) /\ 3 * k \in Nat
    BY <1>1, <2>1
  <2>3. (3 * Block64KB) \div Sector4KB = 3 * k
    BY <1>1, <2>2, QuotientIs
  <2>4. (3 * Block64KB) % Sector4KB = 0
    BY <1>1, <2>2, <2>3
  <2>5. QED
    BY <1>4, <2>4, <1>1 DEF UnitStart
<1>5. QED
  BY <1>2, <1>3, <1>4 DEF getEraseMethodSize, Methods

\* What a settings job knows: its range is the unit of the erase method. Until the
\* unit is read back the flash is the one the job found. From then on the buffer has
\* what the unit held, the flash outside the unit is the one the job found, and the
\* erase state has erased all of the unit or none of it.
Snapshot == history.snapshot
Before == {"PendingOp", "ReadInProgress"}
SettingsCell(c) == c \in {OSBase + 3 * Block64KB, OSBase + 3 * Block64KB + 1}
ReadBack(i) == biosBuffer[i] = Snapshot[OSBase + startingOffset + i]
Saving == /\ SettingsAt192KB /\ currentFlashTask = "WriteSettings"
          /\ ReadBackWhole(eraseSequenceMethod)
SaveRange ==
  /\ biosBufferSize = getEraseMethodSize(eraseSequenceMethod)
  /\ startingOffset = UnitStart(eraseSequenceMethod)
  /\ getXBlastOSSettingStartingOffset(BiosIdOf[Snapshot[OSBase + Image256KB - 1]])
       = 3 * Block64KB
SaveBuffer ==
  IF currentFlashOp \in Before
    THEN /\ flash = Snapshot
         /\ currentFlashOp = "ReadInProgress" => \A i \in 0 .. (currentAddr - 1) : ReadBack(i)
    ELSE \A i \in 0 .. (biosBufferSize - 1) :
           SettingsCell(OSBase + startingOffset + i) \/ ReadBack(i)
SaveFlash ==
  LET unit == Unit(eraseSequenceMethod)
  IN /\ \A c \in Cells \ unit : flash[c] = Snapshot[c]
     /\ chipOp.kind = "erase" => chipOp.cells \in {{}, unit}
     /\ chipOp.kind = "program" => chipOp.cell \in unit
     /\ currentFlashOp = "EraseInProgress" =>
          flash = Snapshot \/ \A c \in unit : flash[c] = Bits
SaveFacts == SaveRange /\ SaveBuffer /\ SaveFlash
SaveInv == Saving => SaveFacts

\* Flash_SaveXBlastOSSettings finds the settings at the 192KB mark.
LEMMA SaveStarts ==
  ASSUME IInv, JobInv, SettingsAt192KB, SaveStarted
  PROVE  SaveFacts'
<1> USE DEF chipVars, envVars
<1>1. /\ chipOp = NoChipOp /\ flash' = flash /\ chipOp' = chipOp /\ Snapshot' = flash
  BY DEF SaveStarted, MayCall, IInv, QuietChip, Snapshot
<1>2. WindowOf("OSBank", Image256KB - 1) = OSBase + Image256KB - 1
  <2>1. Image256KB - 1 \in 0 .. (BankSize["OSBank"] - 1) /\ "OSBank" \in Banks
    BY GeometryAssumption, BanksAssumption, SizesAssumption
  <2>2. WindowOf("OSBank", Image256KB - 1) = BankBase["OSBank"] + (Image256KB - 1)
    BY <2>1, WindowBelowSize
  <2>3. QED
    BY <2>2, BanksAssumption, SizesAssumption DEF OSBase
<1>3. SettingsOffset("OSBank") = 3 * Block64KB
  <2>1. flash[WindowOf("OSBank", Image256KB - 1)] \in Byte
    BY WindowInCells, BanksAssumption, SizesAssumption DEF IInv, TypeOK
  <2>2. QED
    BY <2>1 DEF SettingsAt192KB, SaveStarted, SettingsOffset, getBiosIdentifierFromFlash
<1>4. SaveRange'
  BY <1>1, <1>2, <1>3 DEF SaveStarted, SaveRange, UnitStart, SettingsOffset,
                          getBiosIdentifierFromFlash, getEraseMethodSize
<1>5. SaveBuffer'
  BY <1>1 DEF SaveStarted, SaveBuffer, Before
<1>6. SaveFlash'
  BY <1>1 DEF SaveStarted, SaveFlash, NoChipOp
<1>7. QED
  BY <1>4, <1>5, <1>6 DEF SaveFacts

\* Steps that change neither the flash nor the buffer nor the range.
LEMMA SaveUndisturbed ==
  ASSUME SaveFacts,
         UNCHANGED <<flash, chipOp, biosBuffer, biosBufferSize, startingOffset,
                     eraseSequenceMethod, history>>,
         \/ UNCHANGED <<currentFlashOp, currentAddr>>
         \/ /\ currentFlashOp \notin Before
            /\ currentFlashOp' \notin Before \cup {"EraseInProgress"}
  PROVE  SaveFacts'
<1>1. SaveRange'
  BY DEF SaveFacts, SaveRange, Snapshot
<1>2. SaveBuffer'
  BY Zenon DEF SaveFacts, SaveBuffer, Snapshot, ReadBack
<1>3. SaveFlash'
  BY Zenon DEF SaveFacts, SaveFlash, Snapshot
<1>4. QED
  BY <1>1, <1>2, <1>3 DEF SaveFacts

\* The chip clears the unit or a byte of it.
LEMMA SaveChipStep ==
  ASSUME IInv, WorksInBank, SaveFacts, ChipCompletes
  PROVE  SaveFacts'
<1> DEFINE unit == Unit(eraseSequenceMethod)
<1>1. /\ UNCHANGED <<biosBuffer, biosBufferSize, startingOffset, eraseSequenceMethod,
                     history, currentFlashOp, currentAddr>>
      /\ chipOp' = NoChipOp /\ currentFlashOp \notin Before
      /\ flash \in [Cells -> Byte] /\ chipOp \in ChipOps /\ unit' = unit
  BY DEF ChipCompletes, IInv, TypeOK, QuietChip, Before, Unit, pollVars, bufVars, stateVars,
         rangeVars, eraseVars, envVars
<1>2. SaveRange'
  BY <1>1 DEF SaveFacts, SaveRange, Snapshot
<1>3. SaveBuffer'
  BY Zenon, <1>1 DEF SaveFacts, SaveBuffer, Snapshot, ReadBack
<1>4. CASE chipOp.kind = "erase"
  <2>1. currentFlashOp = "EraseInProgress"
    BY <1>4 DEF WorksInBank, IInv, QuietChip, ChipCompletes
  <2>2. flash' = [c \in Cells |-> IF c \in chipOp.cells THEN Bits ELSE flash[c]]
    BY <1>4 DEF ChipCompletes
  <2>3. CASE chipOp.cells = {}
    <3>1. flash' = flash
      BY <1>1, <2>2, <2>3
    <3>2. QED
      BY <1>1, <1>2, <1>3, <3>1 DEF SaveFacts, SaveFlash, NoChipOp, Snapshot
  <2>4. CASE chipOp.cells = unit
    <3>1. /\ \A c \in Cells \ unit : flash'[c] = flash[c]
          /\ \A c \in unit : flash'[c] = Bits
      BY <2>2, <2>4 DEF Unit
    <3>2. QED
      BY <1>1, <1>2, <1>3, <3>1 DEF SaveFacts, SaveFlash, NoChipOp, Snapshot
  <2>5. QED
    BY <1>4, <2>3, <2>4 DEF SaveFacts, SaveFlash
<1>5. CASE chipOp.kind # "erase"
  <2>1. chipOp.kind = "program" /\ currentFlashOp # "EraseInProgress"
    BY <1>1, <1>5 DEF WorksInBank, ChipOps, ChipCompletes, NoChipOp
  <2>2. \A c \in Cells \ unit : flash'[c] = flash[c]
    BY <1>1, <1>5, <2>1 DEF ChipCompletes, SaveFacts, SaveFlash
  <2>3. QED
    BY <1>1, <1>2, <1>3, <2>1, <2>2 DEF SaveFacts, SaveFlash, NoChipOp, Snapshot
<1>6. QED
  BY <1>4, <1>5

\* The byte under the scan of a settings job is a cell of the unit.
LEMMA SaveScan ==
  ASSUME IInv, JobInv, Saving, SaveRange, currentAddr < biosBufferSize
  PROVE  /\ Window(startingOffset + currentAddr) = OSBase + startingOffset + currentAddr
         /\ OSBase + startingOffset + currentAddr \in Unit(eraseSequenceMethod)
         /\ ByteAtCurrentAddr = flash[OSBase + startingOffset + currentAddr]
<1>1. currentFlashBank = "OSBank"
  BY DEF JobInv, Saving
<1>2. /\ eraseSequenceMethod \in Methods
      /\ currentAddr \in 0 .. (getEraseMethodSize(eraseSequenceMethod) - 1)
  BY DEF IInv, TypeOK, SaveRange
<1>3. QED
  BY <1>1, <1>2, UnitWindow DEF SaveRange, Window, ByteAtCurrentAddr, FlashLowLevel_ReadByte

\* The read state fills the buffer from the flash the job found, then puts the
\* settings where that flash has them.
LEMMA SaveReadStep ==
  ASSUME IInv, JobInv, Saving, SaveFacts, FsmRead, ~BusyWait
  PROVE  SaveFacts'
<1> USE DEF chipVars, pollVars, bufVars, stateVars, rangeVars, eraseVars, envVars
<1> DEFINE readBack == [biosBuffer EXCEPT ![currentAddr] = ByteAtCurrentAddr]
           m == eraseSequenceMethod
           s == 3 * Block64KB - startingOffset
<1>1. /\ currentFlashOp = "ReadInProgress" /\ currentFlashTask = "WriteSettings"
      /\ UNCHANGED <<flash, chipOp, biosBufferSize, startingOffset, eraseSequenceMethod,
                     history>>
      /\ \/ /\ currentAddr + 1 < biosBufferSize
            /\ biosBuffer' = readBack /\ currentAddr' = currentAddr + 1
            /\ currentFlashOp' = "ReadInProgress"
         \/ /\ ~(currentAddr + 1 < biosBufferSize)
            /\ biosBuffer' = injectSettingsInBuf(readBack, biosBufferSize,
                                                 SettingsOffset(currentFlashBank))
            /\ currentFlashOp' = "EraseInProgress"
  BY Zenon DEF FsmRead, Saving
<1>2. /\ chipOp = NoChipOp /\ currentAddr < biosBufferSize /\ currentFlashBank = "OSBank"
      /\ flash = Snapshot /\ \A i \in 0 .. (currentAddr - 1) : ReadBack(i)
  BY <1>1 DEF IInv, QuietChip, JobInv, Scanning, SaveFacts, SaveBuffer, Before
<1>3. /\ currentAddr \in Nat /\ biosBufferSize \in Nat /\ startingOffset \in Nat
      /\ biosBufferSize <= BufferLength /\ biosBuffer \in [BufIndex -> Byte]
      /\ currentAddr \in BufIndex /\ OSBase \in Nat /\ m \in Methods
  BY <1>2, BanksAssumption, SizesAssumption DEF IInv, TypeOK, BufIndex, OSBase
<1>4. ByteAtCurrentAddr = Snapshot[OSBase + startingOffset + currentAddr]
  BY <1>2, SaveScan DEF SaveFacts
<1>5. /\ readBack[currentAddr] = ByteAtCurrentAddr
      /\ \A i \in 0 .. (currentAddr - 1) : readBack[i] = biosBuffer[i]
  BY <1>3
<1>6. \A i \in 0 .. currentAddr : readBack[i] = Snapshot[OSBase + startingOffset + i]
  <2>1. SUFFICES ASSUME NEW i \in 0 .. currentAddr
                 PROVE  readBack[i] = Snapshot[OSBase + startingOffset + i]
    OBVIOUS
  <2>2. CASE i = currentAddr
    BY <1>4, <1>5, <2>2
  <2>3. CASE i # currentAddr
    BY <1>2, <1>3, <1>5, <2>3 DEF ReadBack
  <2>4. QED
    BY <2>2, <2>3
<1>7. readBack \in [BufIndex -> Byte]
  BY <1>3, ScannedByte DEF IInv
<1> HIDE DEF readBack
<1>8. SaveRange'
  BY <1>1 DEF SaveFacts, SaveRange, Snapshot
<1>9. SaveFlash'
  BY <1>1, <1>2 DEF SaveFlash, NoChipOp, Snapshot
<1>10. CASE currentAddr + 1 < biosBufferSize
  <2>1. SaveBuffer'
    BY <1>1, <1>2, <1>3, <1>6, <1>10 DEF SaveBuffer, Before, Snapshot, ReadBack
  <2>2. QED
    BY <1>8, <1>9, <2>1 DEF SaveFacts
<1>11. CASE ~(currentAddr + 1 < biosBufferSize)
  <2>1. biosBufferSize - 1 = currentAddr
    BY <1>2, <1>3, <1>11
  <2>2. SettingsOffset("OSBank") = 3 * Block64KB
    <3>1. WindowOf("OSBank", Image256KB - 1) = OSBase + Image256KB - 1
      <4>1. Image256KB - 1 \in 0 .. (BankSize["OSBank"] - 1) /\ "OSBank" \in Banks
        BY GeometryAssumption, BanksAssumption, SizesAssumption
      <4>2. WindowOf("OSBank", Image256KB - 1) = BankBase["OSBank"] + (Image256KB - 1)
        BY <4>1, WindowBelowSize
      <4>3. QED
        BY <4>2, BanksAssumption, SizesAssumption DEF OSBase
    <3>2. QED
      BY <1>2, <3>1 DEF SaveFacts, SaveRange, SettingsOffset, getBiosIdentifierFromFlash
  <2>3. /\ (3 * Block64KB) % biosBufferSize = s
        /\ s \in 0 .. (biosBufferSize - 2)
    BY <1>3, UnitArithmetic, UnitInImage, SizesAssumption DEF SaveFacts, SaveRange
  <2>4. biosBuffer' = [readBack EXCEPT ![s] = LPCmodSettings, ![s + 1] = Crc[LPCmodSettings]]
    <3>1. 3 * Block64KB # 0
      BY SizesAssumption
    <3>2. QED
      BY Zenon, <1>1, <1>2, <1>11, <2>2, <2>3, <3>1 DEF injectSettingsInBuf
  <2>5. \A i \in 0 .. (biosBufferSize - 1) :
          i \in {s, s + 1} \/ biosBuffer'[i] = readBack[i]
    <3>1. \A i \in BufIndex : i # s /\ i # s + 1 => biosBuffer'[i] = readBack[i]
      BY Zenon, <1>7, <2>4
    <3>2. 0 .. (biosBufferSize - 1) \subseteq BufIndex
      BY <1>3, SizesAssumption DEF BufIndex
    <3>3. QED
      BY Zenon, <3>1, <3>2
  <2>6. \A i \in {s, s + 1} : SettingsCell(OSBase + startingOffset + i)
    BY <1>3, <2>3, SizesAssumption DEF SettingsCell
  <2>7. SaveBuffer'
    BY Zenon, <1>1, <1>2, <1>6, <1>11, <2>1, <2>5, <2>6 DEF SaveBuffer, Before, Snapshot,
       ReadBack, SettingsCell
  <2>8. QED
    BY <1>8, <1>9, <2>7 DEF SaveFacts
<1>12. QED
  BY <1>10, <1>11

\* An erase command of a settings job is for the unit that was read back.
LEMMA SaveEraseStep ==
  ASSUME IInv, JobInv, Saving, SaveFacts, EraseIssued
  PROVE  SaveFacts'
<1> USE DEF bufVars, stateVars, rangeVars, envVars
<1> DEFINE m == eraseSequenceMethod
<1>1. /\ UNCHANGED <<flash, biosBuffer, biosBufferSize, startingOffset, history,
                     currentFlashOp, currentAddr>>
      /\ currentFlashOp = "EraseInProgress"
      /\ UNCHANGED eraseSequenceMethod
  BY Zenon DEF EraseIssued, ErasePolled, Saving
<1>2. currentAddr < biosBufferSize
  BY <1>1 DEF JobInv, Scanning
<1>3. EraseCells(m, Window(startingOffset + currentAddr)) = Unit(m)
  BY <1>2, SaveScan, UnitErased DEF SaveFacts, Saving, IInv, TypeOK
<1>4. \/ chipOp' = NoChipOp
      \/ chipOp'.kind = "erase" /\ chipOp'.cells \in {{}, Unit(m)}
  BY <1>1, <1>3, EraseCommand
<1>5. SaveRange' /\ SaveBuffer'
  BY Zenon, <1>1 DEF SaveFacts, SaveRange, SaveBuffer, Snapshot, ReadBack
<1>6. SaveFlash'
  BY <1>1, <1>4 DEF SaveFacts, SaveFlash, NoChipOp, Snapshot
<1>7. QED
  BY <1>5, <1>6 DEF SaveFacts

\* evaluateReadBackRange gives up a method only while the flash is still the one the
\* job found, and moves to the range of the next method.
LEMMA SaveWidenStep ==
  ASSUME IInv, JobInv, Saving, SaveFacts, EraseWidened
  PROVE  SaveFacts'
<1> USE DEF chipVars
<1> DEFINE m == eraseSequenceMethod
<1>1. /\ currentFlashOp = "EraseInProgress" /\ currentFlashOp' = "ReadInProgress"
      /\ currentAddr' = 0 /\ UNCHANGED <<flash, chipOp, biosBuffer, history>>
      /\ m # "Chip" /\ m' = NextEraseMethod
      /\ biosBufferSize' = getEraseMethodSize(NextEraseMethod)
      /\ startingOffset' = (startingOffset \div biosBufferSize') * biosBufferSize'
      /\ ~canWrite(ByteAtCurrentAddr, biosBuffer[currentAddr])
  BY DEF EraseWidened, ErasePolled
<1>2. currentAddr < biosBufferSize /\ m \in Methods /\ chipOp = NoChipOp
  BY Zenon, <1>1, NotBusyIsIdle DEF JobInv, Scanning, IInv, TypeOK, EraseWidened, ErasePolled
<1>3. flash = Snapshot
  <2>1. biosBuffer[currentAddr] \in Byte
    BY <1>2, SizesAssumption DEF IInv, TypeOK, BufIndex
  <2>2. ByteAtCurrentAddr # Bits
    BY <1>1, <2>1 DEF canWrite, Byte
  <2>3. QED
    BY <1>1, <1>2, <2>2, SaveScan DEF SaveFacts, SaveFlash
<1>4. NextEraseMethod \in Methods \ {"Sector"}
  BY DEF NextEraseMethod, Methods
<1>5. startingOffset = 3 * Block64KB
  BY <1>1 DEF SaveFacts, SaveRange, UnitStart
<1>6. SaveRange'
  <2>1. startingOffset' = UnitStart(NextEraseMethod)
    BY <1>1, <1>4, <1>5, UnitArithmetic
  <2>2. QED
    BY <1>1, <2>1 DEF SaveFacts, SaveRange, Snapshot
<1>7. SaveBuffer'
  BY <1>1, <1>3 DEF SaveBuffer, Before, Snapshot
<1>8. SaveFlash'
  BY <1>1, <1>2, <1>3 DEF SaveFlash, NoChipOp, Snapshot
<1>9. QED
  BY <1>6, <1>7, <1>8 DEF SaveFacts

\* The write state programs cells of the unit.
LEMMA SaveWriteStep ==
  ASSUME IInv, JobInv, Saving, SaveFacts, WriteNextByte
  PROVE  SaveFacts'
<1> USE DEF bufVars, stateVars, eraseVars, envVars
<1>1. /\ UNCHANGED <<flash, biosBuffer, biosBufferSize, startingOffset, history,
                     currentFlashOp, eraseSequenceMethod>>
      /\ currentFlashOp = "WriteInProgress" /\ currentAddr < biosBufferSize
  BY Zenon DEF WriteNextByte
<1>2. \/ chipOp' = NoChipOp
      \/ chipOp'.kind = "program" /\ chipOp'.cell = Window(startingOffset + currentAddr)
  BY ProgramCommand
<1>3. Window(startingOffset + currentAddr) \in Unit(eraseSequenceMethod)
  BY <1>1, SaveScan DEF SaveFacts
<1>4. SaveRange' /\ SaveBuffer'
  BY Zenon, <1>1 DEF SaveFacts, SaveRange, SaveBuffer, Snapshot, ReadBack, Before
<1>5. SaveFlash'
  BY <1>1, <1>2, <1>3 DEF SaveFacts, SaveFlash, NoChipOp, Snapshot
<1>6. QED
  BY <1>4, <1>5 DEF SaveFacts

\* SaveInv is an invariant.
LEMMA SaveInvStep == IInv /\ JobInv /\ WorksInBank /\ SaveInv /\ [Next]_vars => SaveInv'
<1> SUFFICES ASSUME IInv, JobInv, WorksInBank, SaveInv, [Next]_vars, Saving'
             PROVE  SaveFacts'
  BY DEF SaveInv
<1> USE DEF chipVars, pollVars, bufVars, stateVars, rangeVars, eraseVars, envVars
<1>1. CASE Next /\ ~ChipCompletes /\ ~Flash_executeFlashFSM
  <2>1. SettingsAt192KB /\ currentFlashTask' = "WriteSettings"
    BY DEF Saving
  <2>2. SaveStarted
    BY <1>1, <2>1, OutsideCalls DEF Outside
  <2>3. QED
    BY <2>1, <2>2, SaveStarts
<1>2. CASE UNCHANGED vars \/ ChipCompletes
  <2>1. Saving
    BY <1>2 DEF vars, ChipCompletes, Saving
  <2>2. CASE UNCHANGED vars
    BY <2>1, <2>2, SaveUndisturbed DEF SaveInv, vars
  <2>3. QED
    BY <1>2, <2>1, <2>2, SaveChipStep DEF SaveInv
<1>3. CASE Flash_executeFlashFSM
  <2>1. SettingsAt192KB /\ currentFlashTask = "WriteSettings"
    BY <1>3, FsmKeepsBank DEF Saving
  <2>2. UNCHANGED eraseSequenceMethod \/ EraseWidened
    BY Zenon, <1>3, <2>1 DEF Flash_executeFlashFSM, FsmPending, FsmErase, FsmEraseBusy,
       EraseNotNeeded, EraseIssued, EraseFailed, FsmWrite, WriteOver, WriteNextByte,
       FsmVerify, FsmRead
  <2>3. Saving /\ SaveFacts
    BY <2>1, <2>2 DEF Saving, ReadBackWhole, EraseWidened, SaveInv
  <2>4. CASE BusyWait
    <3>1. UNCHANGED eraseSequenceMethod
      BY Zenon, <2>2, <2>4, BusyKeepsJob DEF EraseWidened, ErasePolled
    <3>2. QED
      BY <2>3, <2>4, <3>1, BusyKeepsJob, SaveUndisturbed
  <2>5. CASE FsmPending
    <3>1. /\ currentFlashOp = "PendingOp" /\ currentFlashOp' = "ReadInProgress"
          /\ currentAddr' = 0
          /\ UNCHANGED <<flash, chipOp, biosBuffer, biosBufferSize, startingOffset,
                         eraseSequenceMethod, history>>
      BY <2>1, <2>5 DEF FsmPending, JobInv
    <3>2. QED
      BY <2>3, <3>1 DEF SaveFacts, SaveRange, SaveBuffer, SaveFlash, Before, Snapshot, ReadBack
  <2>6. CASE EraseNotNeeded
    <3>1. CASE currentFlashOp' = "WriteInProgress"
      BY <2>3, <2>6, <3>1, SaveUndisturbed DEF EraseNotNeeded, ErasePolled, Before
    <3>2. CASE currentFlashOp' # "WriteInProgress"
      <4>1. /\ currentFlashOp = "EraseInProgress" /\ currentFlashOp' = "EraseInProgress"
            /\ UNCHANGED <<flash, chipOp, biosBuffer, biosBufferSize, startingOffset,
                           eraseSequenceMethod, history>>
        BY <2>6, <3>2 DEF EraseNotNeeded, ErasePolled
      <4>2. QED
        BY Zenon, <2>3, <4>1 DEF SaveFacts, SaveRange, SaveBuffer, SaveFlash, Before, Snapshot, ReadBack
    <3>3. QED
      BY <3>1, <3>2
  <2>7. CASE EraseFailed
    BY <2>3, <2>7, SaveUndisturbed DEF EraseFailed, ErasePolled, Before
  <2>8. CASE WriteOver
    BY <2>3, <2>8, SaveUndisturbed DEF WriteOver, Before
  <2>9. CASE FsmVerify /\ ~BusyWait
    <3>1. /\ currentFlashOp = "VerifyInProgress"
          /\ currentFlashOp' \in {"Completed", "VerifyInProgress", "Error"}
          /\ UNCHANGED <<flash, chipOp, biosBuffer, biosBufferSize, startingOffset,
                         eraseSequenceMethod, history>>
      BY Zenon, <2>9 DEF FsmVerify
    <3>2. QED
      BY <2>3, <3>1, SaveUndisturbed DEF Before
  <2>10. QED
    BY Zenon, <1>3, <2>3, <2>4, <2>5, <2>6, <2>7, <2>8, <2>9, SaveReadStep, SaveEraseStep,
       SaveWidenStep, SaveWriteStep DEF Flash_executeFlashFSM, FsmErase, FsmEraseBusy, FsmWrite
<1>4. QED
  BY <1>1, <1>2, <1>3

\* IInv, JobInv, WorksInBank and SaveInv hold in every state.
LEMMA SaveInvariant == Spec => [](IInv /\ JobInv /\ SaveInv)
<1>1. Init => WorksInBank /\ SaveInv
  BY DEF Init, WorksInBank, NoChipOp, SaveInv, Saving
<1>2. QED
  BY <1>1, SaveInvStep, WorksInBankStep, JobInvariant, PTL DEF Spec

\* Whatever a settings job has destroyed is in its buffer: the cells that differ from
\* the flash it found are those of the settings, or biosBuffer has what they held. So
\* long as power stays, Flash_executeFlashFSM can still restore them.
THEOREM DestroyedCanBeRestored == Spec => [](SettingsAt192KB => DestroyedIsBuffered)
<1>1. IInv /\ JobInv /\ SaveInv => (SettingsAt192KB => DestroyedIsBuffered)
  <2> SUFFICES ASSUME IInv, JobInv, SaveInv, SettingsAt192KB, currentFlashTask = "WriteSettings",
                      ChipEraseReadBack, NEW c \in Cells, flash[c] # history.snapshot[c]
               PROVE  \E i \in 0 .. (biosBufferSize - 1) :
                        /\ c = Window(startingOffset + i)
                        /\ \/ biosBuffer[i] = history.snapshot[c]
                           \/ c \in SettingsCells(3 * Block64KB)
    BY DEF DestroyedIsBuffered
  <2> DEFINE m == eraseSequenceMethod
             i == c - (OSBase + startingOffset)
  <2>1. Saving /\ SaveFacts /\ m \in Methods /\ currentFlashBank = "OSBank"
    BY DEF SaveInv, Saving, ReadBackWhole, ChipEraseReadBack, IInv, TypeOK, JobInv
  <2>2. c \in Unit(m) /\ currentFlashOp \notin Before
    BY <2>1 DEF SaveFacts, SaveFlash, SaveBuffer, Snapshot
  <2>3. /\ biosBufferSize = getEraseMethodSize(m) /\ startingOffset = UnitStart(m)
        /\ OSBase \in Nat /\ startingOffset \in Nat /\ biosBufferSize \in Nat
    BY <2>1, UnitInImage DEF SaveFacts, SaveRange
  <2>4. i \in 0 .. (biosBufferSize - 1) /\ c = OSBase + startingOffset + i
    BY <2>2, <2>3, SizesAssumption DEF Unit, Cells
  <2> HIDE DEF i
  <2>5. c = Window(startingOffset + i)
    BY <2>1, <2>3, <2>4, UnitWindow DEF Window
  <2>6. SettingsCell(c) \/ biosBuffer[i] = history.snapshot[c]
    BY <2>1, <2>2, <2>4 DEF SaveFacts, SaveBuffer, ReadBack, Snapshot
  <2>7. SettingsCell(c) => c \in SettingsCells(3 * Block64KB)
    <3>1. /\ 3 * Block64KB \in 0 .. (BankSize["OSBank"] - 1) /\ "OSBank" \in Banks
          /\ 3 * Block64KB + 1 \in 0 .. (BankSize["OSBank"] - 1)
      BY GeometryAssumption, SizesAssumption, BanksAssumption
    <3>2. /\ WindowOf("OSBank", 3 * Block64KB) = BankBase["OSBank"] + 3 * Block64KB
          /\ WindowOf("OSBank", 3 * Block64KB + 1) = BankBase["OSBank"] + (3 * Block64KB + 1)
      BY <3>1, WindowBelowSize
    <3>3. QED
      BY <3>2, BanksAssumption, SizesAssumption DEF SettingsCell, SettingsCells, OSBase
  <2>8. QED
    BY <2>4, <2>5, <2>6, <2>7
<1>2. QED
  BY <1>1, SaveInvariant, PTL

\* A settings job that Flash_executeFlashFSM reports as Completed changed nothing but
\* the two cells of the settings, whatever erase commands the chip turned out not to
\* know: the range that was read back is the one that was erased and written again.
THEOREM SavesPreserveImage == Spec => [](SettingsAt192KB => SavePreservesImage)
<1>1. IInv /\ JobInv /\ SaveInv => (SettingsAt192KB => SavePreservesImage)
  <2> SUFFICES ASSUME IInv, JobInv, SaveInv, SettingsAt192KB, currentFlashOp = "Completed",
                      currentFlashTask = "WriteSettings", ChipEraseReadBack,
                      NEW c \in Cells \ SettingsCells(SettingsOffset("OSBank"))
               PROVE  flash[c] = history.snapshot[c]
    BY DEF SavePreservesImage
  <2> DEFINE m == eraseSequenceMethod
  <2>1. /\ Saving /\ SaveFacts /\ m \in Methods /\ currentFlashBank = "OSBank"
        /\ currentFlashOp \notin Before
    BY DEF SaveInv, Saving, ReadBackWhole, ChipEraseReadBack, IInv, TypeOK, JobInv, Before
  <2>2. /\ biosBufferSize = getEraseMethodSize(m) /\ startingOffset = UnitStart(m)
        /\ OSBase \in Nat /\ startingOffset \in Nat /\ biosBufferSize \in Nat
        /\ OSBase + Image256KB <= ChipLength /\ 3 * Block64KB \in Nat
    BY <2>1, UnitInImage, SizesAssumption DEF SaveFacts, SaveRange
  <2>3. ASSUME NEW d \in Cells, ~SettingsCell(d)
        PROVE  flash[d] = Snapshot[d]
    <3>1. CASE d \notin Unit(m)
      BY <2>1, <3>1 DEF SaveFacts, SaveFlash
    <3>2. CASE d \in Unit(m)
      <4> DEFINE i == d - (OSBase + startingOffset)
      <4>1. i \in 0 .. (biosBufferSize - 1) /\ d = OSBase + startingOffset + i
        BY <2>2, <3>2, SizesAssumption DEF Unit, Cells
      <4> HIDE DEF i
      <4>2. d = Window(startingOffset + i)
        BY <2>1, <2>2, <4>1, UnitWindow DEF Window
      <4>3. flash[d] = biosBuffer[i]
        BY <4>1, <4>2 DEF IInv, VerifiedMeansWritten, WriteTasks
      <4>4. biosBuffer[i] = Snapshot[d]
        BY <2>1, <2>3, <4>1 DEF SaveFacts, SaveBuffer, ReadBack
      <4>5. QED
        BY <4>3, <4>4
    <3>3. QED
      BY <3>1, <3>2
  <2>4. /\ WindowOf("OSBank", Image256KB - 1) = OSBase + Image256KB - 1
        /\ WindowOf("OSBank", 3 * Block64KB) = OSBase + 3 * Block64KB
        /\ WindowOf("OSBank", 3 * Block64KB + 1) = OSBase + 3 * Block64KB + 1
    <3>1. /\ 3 * Block64KB \in 0 .. (BankSize["OSBank"] - 1) /\ "OSBank" \in Banks
          /\ 3 * Block64KB + 1 \in 0 .. (BankSize["OSBank"] - 1)
          /\ Image256KB - 1 \in 0 .. (BankSize["OSBank"] - 1)
      BY GeometryAssumption, SizesAssumption, BanksAssumption
    <3>2. /\ WindowOf("OSBank", 3 * Block64KB) = BankBase["OSBank"] + 3 * Block64KB
          /\ WindowOf("OSBank", 3 * Block64KB + 1) = BankBase["OSBank"] + (3 * Block64KB + 1)
          /\ WindowOf("OSBank", Image256KB - 1) = BankBase["OSBank"] + (Image256KB - 1)
      BY <3>1, WindowBelowSize
    <3>3. QED
      BY <2>2, <3>2, SizesAssumption DEF OSBase
  <2>5. SettingsOffset("OSBank") = 3 * Block64KB
    <3>1. OSBase + Image256KB - 1 \in Cells /\ ~SettingsCell(OSBase + Image256KB - 1)
      BY <2>2, GeometryAssumption, SizesAssumption DEF Cells, SettingsCell
    <3>2. flash[OSBase + Image256KB - 1] = Snapshot[OSBase + Image256KB - 1]
      BY <2>3, <3>1
    <3>3. QED
      BY <2>1, <2>4, <3>2 DEF SettingsOffset, getBiosIdentifierFromFlash, SaveFacts, SaveRange
  <2>6. ~SettingsCell(c)
    BY <2>4, <2>5 DEF SettingsCells, SettingsCell
  <2>7. QED
    BY <2>3, <2>6 DEF Snapshot
<1>2. QED
  BY <1>1, SaveInvariant, PTL

=============================================================================
