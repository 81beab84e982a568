\* Images that are refused.
CONSTANTS
  EngineErrors <- MCErrors
  Consoles <- MCConsoles
  UserBanks <- MCBanks
  Checks <- MCChecks
  WriteResults <- MCWriteResults
  SaveErrors <- MCSaveErrors
SPECIFICATION Spec
INVARIANTS RefusalShown
