SPECIFICATION FairSpec
CONSTANTS
  r1 = r1
  r2 = r2
  caller1 = caller1
  poller = poller
  Poller = poller
  Rows <- TwoRows
  Callers <- OneCaller
  NumKeys = 1
  Faulty = FALSE
  MaxSends = 8
  MaxCrashes = 1
INVARIANTS
  KeyHeldUntilFinal
  NoGap
PROPERTIES
  RowsEnd
  KeysReturn
CHECK_DEADLOCK FALSE
