SPECIFICATION FairSpec
CONSTANTS
  c1 = c1
  b1 = b1
  b2 = b2
  c2 = c2
  Clients = {c1}
  MaxClients = 1
  BufferSize = 1
  Life = 4
  Bodies = {b1}
  Bad = bad
  None = None
  Ack = Ack
  Absent = Absent
  Waiting = Waiting
  MaxNow = 3
  MaxIssues = 1
  MaxFaults = 2
PROPERTIES NeverStale Restored
CHECK_DEADLOCK FALSE
