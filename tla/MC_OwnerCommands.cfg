SPECIFICATION FairSpec
CONSTANTS
  Contract <- MCContract
  Left <- MCLeft
  Modes <- MCModes
  Ownerships <- MCOwnerships
  batchSize = 2
  waitsForSafe = TRUE
  MaxRuns = 6
  MaxCrashes = 1
INVARIANTS
  FileIsTrue
  OrderKept
PROPERTIES
  EventuallySettled
CHECK_DEADLOCK FALSE
