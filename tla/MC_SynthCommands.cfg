SPECIFICATION FairSpec
CONSTANTS
  Synth <- MCSynth
  Lists <- MCLists
  shortingRewards <- MCShorting
  stakingRewards <- MCStaking
  rewardsToken <- MCToken
  Suspensions <- MCSuspensions
  MaxCommands = 2
  MaxCrashes = 1
  MaxTrades = 1
  MaxSupply = 2
INVARIANTS
  HoldersKeepTheirs
  FilesFollowChain
PROPERTIES
  EventuallyLive
CHECK_DEADLOCK FALSE
