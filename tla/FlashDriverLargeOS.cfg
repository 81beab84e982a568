\* An OS image of 224KB.
CONSTANTS
  Bits <- MCBits
  ChipLength = 16
  BufferLength = 16
  Sector4KB = 2
  Block64KB = 4
  Image256KB = 16
  Image512KB = 16
  Support4KBErase = TRUE
  OnLPC = FALSE
  IsX3 = FALSE
  Banks <- PlainBanks
  BankBase <- PlainBase
  BankSize <- PlainSize
  EraseResponse <- AnyErase
  WeakCells = {}
  BiosIdOf <- LargeBiosIdOf
  Images = {}
  Payloads <- MCPayloads
  Crc <- MCCrc
  DeviceFound = {TRUE}
  InitFlash <- PlainFlash
  MaxCuts = 0
  MaxJobs = 1
  DefaultPayload <- MCDefault
SPECIFICATION Spec
CHECK_DEADLOCK FALSE
INVARIANTS SettingsAbove192KB
