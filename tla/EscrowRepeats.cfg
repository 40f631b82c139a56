CONSTANTS
  ann = ann
  bob = bob
  eve = eve
  vault = vault
  none = none
  Users <- MCUsers
  Contract = vault
  NoAddress = none
  Terms <- MCSmallTerms
  Batches <- MCAnyBatches
  Opening <- MCOpening
  MAX_BATCH_SIZE = 2
  MaxEscrows = 2
  MaxBatchCalls = 1
  MaxLedger = 0
SPECIFICATION Spec
CHECK_DEADLOCK FALSE
INVARIANT Solvent
