SPECIFICATION Spec
CONSTANTS
  client1 = client1
  issuer = issuer
  pds = pds
  null = null
  x1 = x1
  x2 = x2
  x3 = x3
  x4 = x4
  x5 = x5
  Clients = {client1}
  Requests <- AllRequests
  Admin = pds
  NoID = null
  MaxInt = 15
  MaxAlloc = 7
  BatchInsertSize = 1
INVARIANTS
  CreationTypeOK
  AllOrNothing
  EachOnce
  AcceptsExactly
  FollowsTemplate
  FairDraw
CHECK_DEADLOCK FALSE
