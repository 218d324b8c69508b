SPECIFICATION FairSpec
CONSTANTS
  d1 = d1
  d2 = d2
  h1 = h1
  h2 = h2
  v1 = v1
  v2 = v2
  None = None
  Decisions = {d1}
  Horizons = {h1}
  Stamps = {1}
  Values = {v1, v2}
  Aim <- MCAim
  Priced <- MCPriced
  Continuous = TRUE
  AuditMax = 2
  LateMax = 1
  MaxPrices = 0
  MaxFaults = 1
  MaxRestarts = 1
  MaxEvents = 2
CHECK_DEADLOCK FALSE
PROPERTIES
  RecordsSettle
  SuspensionEnds
