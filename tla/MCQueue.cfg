SPECIFICATION Spec
CONSTANTS
  r1 = r1
  r2 = r2
  caller1 = caller1
  poller = poller
  Poller = poller
  Rows <- OneRow
  Callers <- OneCaller
  NumKeys = 2
  Faulty = TRUE
  MaxSends = 2
  MaxCrashes = 1
INVARIANTS
  QueueTypeOK
  OneHolder
  SavedOnce
PROPERTIES
  ImplementsLife
CHECK_DEADLOCK FALSE
