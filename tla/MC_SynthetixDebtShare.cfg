SPECIFICATION Spec
CONSTANTS
  a1 = a1
  a2 = a2
  issuer = issuer
  operator = operator
  Account <- MCAccount
  Operator <- MCOperator
  Issuer = issuer
  Amount <- MCAmount
  MaxPeriodId = 3
  MaxPeriodIterate = 2
  Uint128 = 3
  SupplyCap = 2
INVARIANTS
  TypeOK
  PeriodSupplyIsSum
  ScanIsExactOrReverts
PROPERTIES
  ClosedPeriodsFrozen
  ImplementsBook
SYMMETRY AccountSymmetry
