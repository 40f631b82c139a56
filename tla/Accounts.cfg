CONSTANTS
  ann = ann
  bob = bob
  cid = cid
  car = car
  van = van
  unset = unset
  Contracts = {"freezes", "preferences", "records", "users", "audit", "history", "batch payments", "batch rewards", "batch counts", "batch wallets", "batch budgets", "allocation", "analytics", "analytics refunds", "analytics reports", "analytics fees", "upgrade", "roles", "pausable", "currency wallet", "calls", "archive", "snapshots", "sequence", "merchants", "rewards", "milestones", "category analytics", "compliance", "fraud"}
SPECIFICATION Spec
CHECK_DEADLOCK FALSE
INVARIANTS TypesOK RecordsAgree
PROPERTIES StatusHolds
