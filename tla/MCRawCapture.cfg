SPECIFICATION FairSpec
CONSTANTS
  Buckets = {0, 1, 2}
  QueueMax = 2
  BatchMax = 2
  MaxMessages = 3
  MaxConns = 2
INVARIANTS TypeOK Accounted PersistedIsTrue
PROPERTIES OneTracePerBucket SuspendedStoresNothing StopCompletes
CHECK_DEADLOCK FALSE
