SPECIFICATION FairSpec
CONSTANTS
  issuer = issuer
  alice = alice
  pds = pds
  c1 = c1
  c2 = c2
  d1 = d1
  d2 = d2
  p1 = p1
  p2 = p2
  p3 = p3
  x1 = x1
  x2 = x2
  x3 = x3
  Issuer = issuer
  Escrow = pds
  Accounts = {issuer}
  Contracts = {c1, c2}
  Dists <- TwoDists
  Packs <- ThreePacks
  Collectibles <- ThreeCollectibles
  Contents <- OneEachOfThree
  ContractOf <- OwnContract
  PackRows <- TwoRowsAndOne
  CollectibleRows <- TwoCollectibleRowsAndOne
  MintingBatchSize = 2
  SettlementBatchSize = 2
  MaxBlocksPerCheck = 0
  Abortable = {d1}
  Moves <- NoMoves
  Sales <- NoSales
  Disclosed = {}
  Lossy = FALSE
  MaxRequests = 0
  MaxHeight = 1
INVARIANTS
  NoMintSkipped
  CompleteMeansSealed
  Consistent
PROPERTIES
  ImplementsLife
  DistributionsEnd
CHECK_DEADLOCK FALSE
