CONSTANTS
  ann = ann
  bob = bob
  eve = eve
  fee = fee
  cap = cap
  empty = empty
  low = low
  high = high
  long = long
  unset = unset
  Users <- MCUsers
  Unset = unset
  Keys <- MCKeys
  BadKeys <- MCBadKeys
  Values <- MCValues
  BadValues <- MCBadValues
  Thresholds <- MCThresholds
  Durations <- MCDurations
  MaxProposals = 2
  MaxTime = 2
SPECIFICATION Spec
SYMMETRY MCSymmetry
CHECK_DEADLOCK FALSE
INVARIANTS TypeOK ApprovalsAreVotes ConfigHasMandate
PROPERTIES DecisionsAreFinal ImplementsMandates
