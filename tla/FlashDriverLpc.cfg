\* A 1MB XBlast chip with three banks; the smaller erase commands may be unsupported.
CONSTANTS
  Bits <- MCBits
  ChipLength = 64
  BufferLength = 64
  Sector4KB = 2
  Block64KB = 4
  Image256KB = 16
  Image512KB = 32
  Support4KBErase = TRUE
  OnLPC = TRUE
  IsX3 = FALSE
  Banks <- LpcBanks
  BankBase <- LpcBase
  BankSize <- LpcSize
  EraseResponse <- ChipErases
  WeakCells = {}
  BiosIdOf <- MCBiosIdOf
  Images <- LpcImages
  Payloads <- MCPayloads
  Crc <- MCCrc
  DeviceFound = {TRUE}
  InitFlash <- LpcFlash
  MaxCuts = 1
  MaxJobs = 1
  DefaultPayload <- MCDefault
SPECIFICATION Spec
CHECK_DEADLOCK FALSE
INVARIANTS SettingsCarriedOver GoodChipNoFailure
PROPERTIES OtherBanksUntouched
