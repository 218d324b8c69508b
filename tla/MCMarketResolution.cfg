SPECIFICATION FairSpec
CONSTANTS
  up = up
  down = down
  None = None
  Markets = {1, 2, 3}
  Legacy = {2}
  Live = {3}
  Broken = {1}
  Batch = 1
  MaxBackoff = 2
  Winners = {up, down}
  Official <- MCOfficial
  MaxFaults = 1
INVARIANTS OfficialStands
PROPERTIES NothingUnlearned EachSettles
CHECK_DEADLOCK FALSE
