CONSTANTS
  ann = ann
  bob = bob
  car = car
  trip = trip
  home = home
  k1 = k1
  k2 = k2
  k3 = k3
  empty = empty
  Users <- MCOne
  Names <- MCNames
  NewNames <- MCNoNames
  IdempotencyTokens <- MCTokens
  EmptyToken = empty
  GoalRequests <- MCTwoSmall
  MilestoneRequests <- MCMarks
  PrereqLists <- MCNoPrereqs
  ThresholdLists <- MCNoThresholds
  Amounts <- MCAmounts
  DefaultThresholds <- MCDefaults
  CloseTimes <- MCCloseTimes
  MAX_BATCH_SIZE = 3
  MIN_GOAL_AMOUNT = 1
  MAX_GOAL_AMOUNT = 8
  MAX_FUTURE_LEDGERS = 4
  REVERSAL_PERIOD_SECS = 1
  U32 = 65536
  MaxGoals = 2
  MaxContributions = 2
  MaxAchievements = 1
  MaxSnapshots = 0
  MaxBatches = 1
  MaxSequence = 0
  None = nobody
  Instances = {"money", "creation", "chains"}
SPECIFICATION MCSpec
CHECK_DEADLOCK FALSE
INVARIANTS TypesOK ProgressAgrees TokensSpendOnce RegisterAgrees PrereqsAcyclic
PROPERTIES ContributionsBackBalances
SYMMETRY MCTokenSymmetry
