SPECIFICATION PoolSpec
CONSTANTS
  a1 = a1
  a2 = a2
  operator = operator
  Account <- MCAccount
  Operator <- MCOperator
  Issuer = issuer
  Amount <- MCAmount
  MaxPeriodId = 4
  MaxPeriodIterate = 2
  Uint128 = 3
  SupplyCap = 2
  Unit = 3
  RewardAmount <- MCRewards
  FeePeriodDuration = 1
  RewardCap = 3
  FeeCap = 3
  SameSecondRelay = FALSE
SYMMETRY AccountSymmetry
INVARIANTS
  ClaimsPayable
PROPERTIES
  PaidInFullAndOnce
  EntitlementFixed
