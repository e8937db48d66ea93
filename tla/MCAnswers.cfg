SPECIFICATION FairSpec
CONSTANTS
  issuer = issuer
  alice = alice
  pds = pds
  c1 = c1
  c2 = c2
  d1 = d1
  d2 = d2
  p1 = p1
  p2 = p2
  p3 = p3
  x1 = x1
  x2 = x2
  x3 = x3
  Issuer = issuer
  Escrow = pds
  Accounts = {issuer, alice}
  Contracts = {c1}
  Dists <- OneDist
  Packs <- OnePack
  Collectibles <- TwoCollectibles
  Contents <- BothInOne
  ContractOf <- OneContract
  PackRows <- OnePackRow
  CollectibleRows <- TwoCollectibleRows
  MintingBatchSize = 1
  SettlementBatchSize = 1
  MaxBlocksPerCheck = 1
  Abortable = {}
  Moves <- NoMoves
  Sales <- FirstSale
  Disclosed = {p1}
  Lossy = FALSE
  MaxRequests = 1
  MaxHeight = 2
INVARIANTS
  PollNeverStuck
PROPERTIES
  RequestsAnswered
  OpeningAnswered
CHECK_DEADLOCK FALSE
