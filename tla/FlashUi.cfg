\* Every kind of modchip, with jobs that are refused, fail or succeed.
CONSTANTS
  EngineErrors <- MCErrors
  Consoles <- MCConsoles
  UserBanks <- MCBanks
  Checks <- MCChecks
  WriteResults <- MCWriteResults
  SaveErrors <- MCSaveErrors
SPECIFICATION FairSpec
INVARIANTS TypeOK MenuIsQuiet ExitCommits
PROPERTIES RestartsExactlyAfterOS FlashingEnds StartedSaveEnds
