SPECIFICATION FairSpec
CONSTANTS
  None = None
  Conns = {1, 2}
  Quotes = {"q1"}
  Offers <- MCOffers
  MetadataMax = 1
  ControlMax = 1
  QuoteMax = 1
  BatchSize = 2
  MaxLossScopes = 1
  LiveMax = 2
  PageSize = 1
  MaxFaults = 1
INVARIANTS EndsAreTrue
CHECK_DEADLOCK FALSE
PROPERTIES Settles
