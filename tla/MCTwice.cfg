SPECIFICATION Spec
CONSTANTS
  r1 = r1
  r2 = r2
  caller1 = caller1
  poller = poller
  Poller = poller
  Rows <- OneRow
  Callers <- NoCaller
  NumKeys = 1
  Faulty = FALSE
  MaxSends = 2
  MaxCrashes = 1
INVARIANTS
  AtMostOnce
CHECK_DEADLOCK FALSE
