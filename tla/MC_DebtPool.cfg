SPECIFICATION Spec
CONSTANTS
  zUSD = zUSD
  zETH = zETH
  Synth <- MCSynth
  Unit = 2
  Reading <- MCReading
  FirstRate <- MCFirstRate
  Amount <- MCAmount
  Difference <- MCDifference
  FirstListed <- MCFirstListed
  WrappedSynth <- OnlyzETH
  SupplyCap <- MCSupplyCap
  DebtCap = 1
  OthersCap = 0
  CacheCap = 2
INVARIANTS
  CachedDebtSound
  CacheExactWhileUndisturbed
PROPERTIES
  PartialUpdatesKeepGap
  ValidityIsHonest
