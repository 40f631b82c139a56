CONSTANTS
  ann = ann
  bob = bob
  unset = unset
  Users <- MCUsers
  Unset = unset
  Payments <- MCPayments
  SignerLists <- MCSignerLists
  Thresholds = {1, 2, 3}
  HighValues <- MCHighValues
  Grants <- MCGrants
  Blockable <- MCBlockable
  ScheduleTimes = {0, 1}
  I128_MAX = 4
  MaxPending = 2
  MaxTimelocked = 1
  MaxTime = 1
SPECIFICATION Spec
CHECK_DEADLOCK FALSE
INVARIANTS TypeOK CountsAgree TimelockHonoured
PROPERTIES HighValueNeedsConsent ImplementsOrders
