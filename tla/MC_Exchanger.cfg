SPECIFICATION Spec
CONSTANTS
  a = a
  b = b
  zUSD = zUSD
  zETH = zETH
  FEE_ADDRESS = FEE_ADDRESS
  Account <- OneAccount
  Synth <- MCSynth
  Unit = 10
  Factor = 30
  StalePeriod = 1
  ExchangeFeeRate <- MCFeeRate
  MaxDynamicFee = 4
  DynamicFeeRounds = 3
  DynamicFeeThreshold = 25
  WeightDecay = 5
  Price <- Jumps
  FirstPrice <- MCFirstPrice
  FirstBalance <- MCFirstBalance
  Amount <- Five
  WaitingPeriod <- TwoPeriods
  FirstWaitingPeriod = 2
  ResetValue <- BackToFirst
  Suspension <- MaySuspend
  maxEntriesInQueue = 2
  MaxTime = 4
  MaxRounds = 3
INVARIANTS
  BurnsCovered
PROPERTIES
  NoTradeOnJump
  NothingLeavesWhileWaiting
  SettlingIsNeutral
  EntitlementFixedAfterPeriod
