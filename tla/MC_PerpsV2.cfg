SPECIFICATION FairSpec
CONSTANTS
  Market <- MCMarket
  Offchain <- MCOffchain
  Kind <- MCKind
  Functions <- MCFunctions
  Existing = {"BTC"}
  paused = {"ocETH"}
  Releases <- MCReleases
  Options <- MCOptions
  MaxReleases = 1
  MaxCrashes = 1
  MaxPauses = 1
INVARIANTS
  MarketsConsistent
PROPERTIES
  PausesRespected
  LegacyLinkedWhilePaused
  EventuallyUpgraded
CHECK_DEADLOCK FALSE
