SPECIFICATION Spec
CONSTANTS
  MaxCalls = 3
  MaxRound = 4
  MaxPerBlock = 1
  MaxRoundsToSync = 3
  MaxFailures = 0
  MaxCrashes = 1
INVARIANT
  NoNoteSkipped
CHECK_DEADLOCK FALSE
