\* A refused image, then a declined one.
CONSTANTS
  EngineErrors <- MCErrors
  Consoles <- MCConsoles
  UserBanks <- MCBanks
  Checks <- MCChecks
  WriteResults <- MCWriteResults
  SaveErrors <- MCSaveErrors
SPECIFICATION Spec
PROPERTIES AbortShown
