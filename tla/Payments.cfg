CONSTANTS
  Contracts = {"refunds", "conditional", "recurring", "savings", "withdrawals", "allowances", "fee escrow", "fee settings"}
  ann = ann
  bob = bob
  contract = contract
  Users <- MCUsers
  Contract = contract
  Unset = unset
  I128_MAX = 4
  MaxTime = 3
  RefundTransactions = {1}
  RefundAmounts = {0, 1, 3}
  ReasonLengths = {1, 2}
  DefaultConfig <- MCDefaultConfig
  RefundConfigs <- MCRefundConfigs
  MaxRefunds = 2
  RefundsMaxTime = 2
  Offers <- MCOffers
  ConditionalOpening <- MCConditionalOpening
  ConditionalAllowances = {3}
  MAX_CONDITIONS = 2
  MAX_SIGNERS = 3
  MaxPayments = 2
  PaymentOffers <- MCPaymentOffers
  StreamOffers <- MCStreamOffers
  RecurringOpening <- MCRecurringOpening
  MaxEachRecurring = 1
  RecurringMaxTime = 5
  ScheduleOffers <- MCScheduleOffers
  MIN_INTERVAL_SECS = 1
  SavingsOpening <- MCSavingsOpening
  SavingsLimits = {0, 2}
  MaxSchedules = 2
  ApproverLists <- MCApproverLists
  Quorums = {1, 2}
  WithdrawalThresholds <- MCWithdrawalThresholds
  WithdrawalAmounts = {0, 1}
  MaxWithdrawals = 2
  Grants <- MCGrants
  Thresholds = {1}
  AllowanceLimits = {2}
  EndDates = {0, 3}
  AllowanceOpening <- MCAllowanceOpening
  MaxAllowances = 1
  MaxListed = 2
  AllowancesMaxTime = 4
  Treasuries <- MCTreasuries
  FeeRates = {0, 300}
  MinFees <- MCMinFees
  MaxFees = {1, 3}
  Tiers = {"gold"}
  Fees = {0, 1, 4}
  FeeBatches <- MCFeeBatches
  MAX_FEE_BPS = 10000
  DEFAULT_FEE_BPS = 500
  DEFAULT_MIN_FEE = 0
  DEFAULT_MAX_FEE = 3
  MAX_BATCH_SIZE = 2
  DECAY_FLOOR = 2
  OpeningWallet <- MCOpeningWallet
  MaxCycle = 3
  MaxBatchCalls = 1
  FeeMaxTime = 2
SPECIFICATION Spec
CHECK_DEADLOCK FALSE
INVARIANTS TypesOK MoneyAccounted
PROPERTIES ImplementsEscrow NothingTwice CatchesUp
