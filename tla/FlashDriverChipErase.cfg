\* A 512KB chip that only knows the chip erase.
CONSTANTS
  Bits <- MCBits
  ChipLength = 32
  BufferLength = 32
  Sector4KB = 2
  Block64KB = 4
  Image256KB = 16
  Image512KB = 32
  Support4KBErase = TRUE
  OnLPC = FALSE
  IsX3 = FALSE
  Banks <- PlainBanks
  BankBase <- PlainBase
  BankSize <- Plain512Size
  EraseResponse <- ChipEraseOnly
  WeakCells = {}
  BiosIdOf <- MCBiosIdOf
  Images = {}
  Payloads <- MCPayloads
  Crc <- MCCrc
  DeviceFound = {TRUE}
  InitFlash <- Plain512Flash
  MaxCuts = 0
  MaxJobs = 1
  DefaultPayload <- MCDefault
SPECIFICATION Spec
CHECK_DEADLOCK FALSE
PROPERTIES ReadBackCoversErase
