\* A chip of 64KB sectors; every erase command may be unsupported; the job still ends.
CONSTANTS
  Bits <- MCBits
  ChipLength = 16
  BufferLength = 16
  Sector4KB = 2
  Block64KB = 4
  Image256KB = 16
  Image512KB = 16
  Support4KBErase = FALSE
  OnLPC = FALSE
  IsX3 = TRUE
  Banks <- PlainBanks
  BankBase <- PlainBase
  BankSize <- PlainSize
  EraseResponse <- AnyErase
  WeakCells = {13}
  BiosIdOf <- MCBiosIdOf
  Images <- PlainImages
  Payloads <- MCPayloads
  Crc <- MCCrc
  DeviceFound = {TRUE, FALSE}
  InitFlash <- PlainFlash
  MaxCuts = 1
  MaxJobs = 1
  DefaultPayload <- MCDefault
SPECIFICATION FairSpec
CHECK_DEADLOCK FALSE
PROPERTIES JobTerminates
