SPECIFICATION FairSpec
CONSTANTS
  d1 = d1
  d2 = d2
  c1 = c1
  c2 = c2
  Dists <- TwoDists
  Contracts = {c1, c2}
  ContractOf <- OwnContract
  Abortable = {d1, d2}
  PollLimit = 1
  ReadLocks = TRUE
  MaxErrors = 1
INVARIANTS
  LoopTypeOK
  AbortHolds
  SavedWithState
PROPERTIES
  ImplementsLife
  LoopEndsDistributions
  ContractsPolled
CHECK_DEADLOCK FALSE
