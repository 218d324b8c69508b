SPECIFICATION FairSpec
CONSTANTS
  Seconds = {1, 2}
  Capacity = 1
  IdleMax = 2
  MaxTicks = 3
  MaxFaults = 1
INVARIANTS TypeOK NothingForgotten LiveFirst
PROPERTIES Flows SilentFeedReplaced
CHECK_DEADLOCK FALSE
