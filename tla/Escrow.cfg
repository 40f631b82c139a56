CONSTANTS
  ann = ann
  bob = bob
  eve = eve
  vault = vault
  none = none
  Users <- MCUsers
  Contract = vault
  NoAddress = none
  Terms <- MCTerms
  Batches <- MCBatches
  Opening <- MCOpening
  MAX_BATCH_SIZE = 2
  MaxEscrows = 3
  MaxBatchCalls = 1
  MaxLedger = 1
SPECIFICATION Spec
CHECK_DEADLOCK FALSE
INVARIANTS TypeOK Solvent BooksAgree AlwaysReleasable
PROPERTIES SettlementIsFinal ImplementsLedger
