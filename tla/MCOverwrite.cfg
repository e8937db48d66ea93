SPECIFICATION Spec
CONSTANTS
  d1 = d1
  d2 = d2
  c1 = c1
  c2 = c2
  Dists <- TwoDists
  Contracts = {c1, c2}
  ContractOf <- OwnContract
  Abortable = {d1}
  PollLimit = 1
  ReadLocks = FALSE
  MaxErrors = 0
INVARIANTS
  AbortHolds
CHECK_DEADLOCK FALSE
