SPECIFICATION MicroSpec
CONSTANTS
  Core = core
  Own = {own}
  None = None
  QueueMax = 2
  RowsMax = 1
  Cooldown = 2
  MaxNow = 3
  MaxFrames = 1
  MaxFailures = 1
INVARIANTS HealthyIsWhole FollowsSockets HistoryKept
CHECK_DEADLOCK FALSE
