SPECIFICATION RetentionFairSpec
CONSTANTS
  Retired = {"flip_evaluations", "flip_events"}
  History <- MCHistory
  Arrivals <- MCArrivals
  BatchSize = 1
  MaxErrors = 1
INVARIANTS ExpiryIsExact
PROPERTIES ExpiresInTheEnd
