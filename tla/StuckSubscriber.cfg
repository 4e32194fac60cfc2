SPECIFICATION FairSpec
CONSTANTS
  MaxCalls = 2
  MaxRound = 3
  MaxPerBlock = 1
  MaxRoundsToSync = 2
  MaxFailures = 1
  MaxCrashes = 0
PROPERTY
  EverythingSaved
CHECK_DEADLOCK FALSE
