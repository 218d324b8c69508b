SPECIFICATION Spec
CONSTANTS
  d1 = d1
  d2 = d2
  h1 = h1
  h2 = h2
  v1 = v1
  v2 = v2
  None = None
  Decisions = {d1}
  Horizons = {h1, h2}
  Stamps = {1, 2}
  Values = {v1, v2}
  Aim <- MCAim
  Priced <- MCPriced
  Continuous = TRUE
  AuditMax = 2
  LateMax = 1
  MaxPrices = 2
  MaxFaults = 2
  MaxRestarts = 2
  MaxEvents = 2
SYMMETRY MCSymmetry
CHECK_DEADLOCK FALSE
INVARIANTS
  TypeOK
  EvidenceIsTrue
  AckIsTrue
  EvidenceIsKept
  ReferencesLive
PROPERTIES
  StopIsFinal
  LedgerRefined
