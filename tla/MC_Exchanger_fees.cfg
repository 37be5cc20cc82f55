SPECIFICATION Spec
CONSTANTS
  a = a
  b = b
  zUSD = zUSD
  zETH = zETH
  FEE_ADDRESS = FEE_ADDRESS
  Account <- OneAccount
  Synth <- MCSynth
  Unit = 10
  Factor = 30
  StalePeriod = 3
  ExchangeFeeRate <- MCFeeRate
  MaxDynamicFee = 10
  DynamicFeeRounds = 0
  DynamicFeeThreshold = 5
  WeightDecay = 9
  Price <- Halved
  FirstPrice <- MCFirstPrice
  FirstBalance <- TenOfzETH
  Amount <- OneAmount
  WaitingPeriod <- FixedPeriod
  FirstWaitingPeriod = 2
  ResetValue <- NoReset
  Suspension <- Active
  maxEntriesInQueue = 2
  MaxTime = 4
  MaxRounds = 3
INVARIANTS
  FeesPooled
