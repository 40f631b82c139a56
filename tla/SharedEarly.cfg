CONSTANTS
  ann = ann
  bob = bob
  vault = vault
  nobody = nobody
  zero = zero
  usd = usd
  eur = eur
  Users <- MCUsers
  Contract = vault
  ZeroAddress = zero
  Tokens <- MCTokens
  MemberLists <- MCMembers
  Rules <- MCNoRules
  Amounts <- MCAmounts
  Retentions <- MCNoRetentions
  SweepLimits <- MCSweeps
  MAX_BUDGET_MEMBERS = 2
  MAX_SPENDING_RULES = 1
  F64Below <- MCF64Below
  Opening <- MCOpening
  EarlyCalls = TRUE
  MaxBudgets = 2
  MaxContributions = 2
  MaxTime = 0
  None = nobody
  Instances = {"money"}
SPECIFICATION MCSpec
CHECK_DEADLOCK FALSE
INVARIANTS EveryBudgetIsCounted
