CONSTANTS
  Contracts = {"limits", "throttling", "token", "stellar fee", "fees", "budget", "budget suspension", "budget deletion", "budget inheritance", "verified wallets", "linked wallets", "delegation", "categories", "overdraft", "rate limit"}
  ann = ann
  bob = bob
  contract = contract
  car = car
  van = van
  Users <- MCUsers
  Contract = contract
  Unset = unset
  I128_MAX = 2
  LimitsUsers <- MCAnn
  LimitsCategories = {"food"}
  NoCategory = none
  LimitBatches <- MCLimitBatches
  Overrides = {0, 3}
  Spends = {3, 9}
  HOUR = 1
  DAY = 2
  MONTH = 4
  MIN_SPENDING_LIMIT = 1
  MAX_SPENDING_LIMIT = 11
  MAX_BATCH_SIZE = 3
  MaxBatches = 1
  MaxRecorded = 3
  LimitsMaxTime = 5
  ThrottleConfigs <- MCThrottleConfigs
  MaxChecks = 3
  ThrottlingMaxTime = 2
  Caps <- MCCaps
  TokenAmounts = {0, 1}
  Assets = {"xlm", "usd"}
  Priorities = {0, 1}
  Rates = {1000, 20000}
  Multipliers <- MCMultipliers
  DefaultMultipliers <- MCDefaultMultipliers
  Bounds <- MCBounds
  PaymentAmounts = {0, 1, 10}
  Batches <- MCBatches
  MaxCollected = 4
  MaxLogs = 1
  FeesUsers <- MCAnn
  Treasuries = {"treasury"}
  Recipients = {"ops", "dev"}
  FeeCategories = {"standard", "vip"}
  DEFAULT_CATEGORY = "standard"
  Percentages = {5000, 20000}
  FeesBounds <- MCFeesBounds
  FeesAmounts = {0, 1}
  Periods = {0, 1}
  Distributions <- MCDistributions
  FeesMaxCollected = 2
  MaxSnapshots = 1
  Owners <- MCAnn
  BudgetAssets = {"usd"}
  BudgetCategories = {"food", "rent"}
  BudgetAmounts = {1, 3}
  Rules <- MCRules
  BeneficiaryLists <- MCBeneficiaryLists
  Expirations = {2}
  DELETION_COOLDOWN = 1
  Timeouts = {1}
  DEFAULT_TIMEOUT = 9
  MaxAllocated = 3
  BudgetMaxTime = 2
  WalletAddresses <- MCWalletAddresses
  Nicknames = {"one", "two"}
  DelegationLimits = {0, 1, 2}
  DelegatedAmounts = {0, 1, 2}
  EXPIRY = 1
  CloseTimes = {1, 2}
  MaxNonce = 1
  WalletsMaxTime = 1
  CategoryNames = {"food", "rent", "long"}
  ReservedNames = {"long"}
  BudgetLists <- MCBudgetLists
  CategoryLimits <- MCCategoryLimits
  RecordedAmounts = {0, 1}
  RateConfigs <- MCRateConfigs
  DefaultRate <- MCDefaultRate
  MaxCategories = 3
  MaxSpent = 2
  RecordsMaxTime = 3
SPECIFICATION Spec
CHECK_DEADLOCK FALSE
INVARIANTS TypesOK RecordsAgree PermissionsHold
PROPERTIES BlocksHold StepsKeepBooks
