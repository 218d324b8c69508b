SPECIFICATION Spec
CONSTANTS
  c1 = c1
  b1 = b1
  b2 = b2
  c2 = c2
  Clients = {c1}
  MaxClients = 1
  BufferSize = 1
  Life = 2
  Bodies = {b1, b2}
  Bad = bad
  None = None
  Ack = Ack
  Absent = Absent
  Waiting = Waiting
  MaxNow = 0
  MaxIssues = 2
  MaxFaults = 2
INVARIANTS NothingMissed
PROPERTIES OneStory SwitchesAreTold
CHECK_DEADLOCK FALSE
