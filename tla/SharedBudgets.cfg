CONSTANTS
  ann = ann
  bob = bob
  vault = vault
  nobody = nobody
  zero = zero
  usd = usd
  eur = eur
  Users <- MCUsers
  Contract = vault
  ZeroAddress = zero
  Tokens <- MCTokens
  MemberLists <- MCFirstMember
  Rules <- MCOneRule
  Amounts <- MCAmounts
  Retentions <- MCRetentions
  SweepLimits <- MCSweeps
  MAX_BUDGET_MEMBERS = 1
  MAX_SPENDING_RULES = 1
  F64Below <- MCF64Below
  Opening <- MCModest
  EarlyCalls = FALSE
  MaxBudgets = 2
  MaxContributions = 2
  MaxTime = 1
  None = nobody
  Instances = {"money", "tokens", "membership"}
SPECIFICATION MCSpec
CHECK_DEADLOCK FALSE
INVARIANTS TypeOK MoneyBacked RegisterAgrees
PROPERTIES FrozenWhenInactive ArchiveRespectsRetention
