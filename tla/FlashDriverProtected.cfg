\* A write-protected block: the chip goes busy on an erase and clears nothing.
CONSTANTS
  Bits <- MCBits
  ChipLength = 16
  BufferLength = 16
  Sector4KB = 2
  Block64KB = 4
  Image256KB = 16
  Image512KB = 16
  Support4KBErase = TRUE
  OnLPC = FALSE
  IsX3 = FALSE
  Banks <- PlainBanks
  BankBase <- PlainBase
  BankSize <- PlainSize
  EraseResponse <- ProtectedErase
  WeakCells = {}
  BiosIdOf <- MCBiosIdOf
  Images <- PlainImages
  Payloads <- MCPayloads
  Crc <- MCCrc
  DeviceFound = {TRUE, FALSE}
  InitFlash <- PlainFlash
  MaxCuts = 0
  MaxJobs = 1
  DefaultPayload <- MCDefault
SPECIFICATION FairSpec
CHECK_DEADLOCK FALSE
PROPERTIES JobTerminates
