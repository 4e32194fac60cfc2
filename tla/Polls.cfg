SPECIFICATION StatsSpec
CONSTANTS
  MaxCalls = 4
  MaxRound = 4
  MaxPerBlock = 2
  MaxRoundsToSync = 2
  MaxFailures = 1
  MaxCrashes = 1
INVARIANTS
  TypeOK
  SubscriberInv
  RootLagsByDeposits
  SpoiledOnlyWhenLost
  StatsAgree
  PageWrapsOnlyByLoss
PROPERTIES
  LostOnlyWithProcess
  WatermarkBackOnlyInPoll
  MirrorsChain
  SavedUnlessBlocked
CHECK_DEADLOCK FALSE
