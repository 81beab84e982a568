\* A 256KB chip with 4KB sectors; every erase command may be unsupported.
CONSTANTS
  Bits <- MCBits
  ChipLength = 16
  BufferLength = 16
  Sector4KB = 2
  Block64KB = 4
  Image256KB = 16
  Image512KB = 16
  Support4KBErase = TRUE
  OnLPC = FALSE
  IsX3 = FALSE
  Banks <- PlainBanks
  BankBase <- PlainBase
  BankSize <- PlainSize
  EraseResponse <- AnyErase
  WeakCells = {3, 13}
  BiosIdOf <- MCBiosIdOf
  Images <- PlainImages
  Payloads <- MCPayloads
  Crc <- MCCrc
  DeviceFound = {TRUE, FALSE}
  InitFlash <- PlainFlash
  MaxCuts = 1
  MaxJobs = 2
  DefaultPayload <- MCDefault
SPECIFICATION Spec
CHECK_DEADLOCK FALSE
INVARIANTS TypeOK VerifiedMeansWritten SavePreservesImage DestroyedIsBuffered
PROPERTIES ImplementsEngine NoAccessWhileBusy LoadedSettingsGenuine
