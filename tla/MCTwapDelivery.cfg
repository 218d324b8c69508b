SPECIFICATION FairSpec
CONSTANTS
  c1 = c1
  c2 = c2
  None = None
  Sessions = {c1, c2}
  Capacity = 1
  RedisOutlasts = FALSE
  MaxEvents = 3
  MaxFaults = 2
  MaxRestarts = 2
CHECK_DEADLOCK FALSE
INVARIANTS
  NoSilentLoss
PROPERTIES
  SessionsSettle
