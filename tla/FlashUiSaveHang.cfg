\* A settings save that cannot start.
CONSTANTS
  EngineErrors <- MCErrors
  Consoles <- MCConsoles
  UserBanks <- MCBanks
  Checks <- MCChecks
  WriteResults <- MCWriteResults
  SaveErrors <- MCSaveErrors
SPECIFICATION FairSpec
PROPERTIES SaveEnds
