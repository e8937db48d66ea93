SPECIFICATION Spec
CONSTANTS
  issuer = issuer
  alice = alice
  pds = pds
  c1 = c1
  c2 = c2
  d1 = d1
  d2 = d2
  p1 = p1
  p2 = p2
  p3 = p3
  x1 = x1
  x2 = x2
  x3 = x3
  Issuer = issuer
  Escrow = pds
  Accounts = {issuer}
  Contracts = {c1, c2}
  Dists <- TwoDists
  Packs <- TwoPacks
  Collectibles <- OneCollectible
  Contents <- SameInBoth
  ContractOf <- OwnContract
  PackRows <- RowEach
  CollectibleRows <- SameCollectibleRows
  MintingBatchSize = 1
  SettlementBatchSize = 1
  MaxBlocksPerCheck = 1
  Abortable = {}
  Moves <- NoMoves
  Sales <- NoSales
  Disclosed = {}
  Lossy = FALSE
  MaxRequests = 1
  MaxHeight = 0
INVARIANTS
  EscrowBacked
CHECK_DEADLOCK FALSE
