SPECIFICATION Spec
CONSTANTS
  a1 = a1
  a2 = a2
  Account <- MCAccount
  Nobody = Nobody
  Unit = 100
  PreciseUnit = 1000
  Uint128 = 100000
  Price <- MCPrice
  FirstHZN = 500
  FirstEscrow = 300
  FirstDebt = 100
  IssuanceRatio = 20
  LiquidationRatio = 30
  SnxLiquidationPenalty = 30
  SelfLiquidationPenalty = 20
  FlagReward = 10
  LiquidateReward = 20
  MinimumStakeTime = 1
  LiquidationDelay = 1
  Amount <- MCAmount
  TransferAmount <- MCTransfer
  DebtChange <- MCDebtChange
  Migration <- MCMigration
  MaxDebt = 400
  MaxTime = 3
  MaxCalls = 4
SYMMETRY AccountSymmetry
INVARIANTS
  PromisesCovered
PROPERTIES
  RatioRespected
  OthersUnharmed
  NoExitBeforeStakeTime
