SPECIFICATION Spec
CONSTANTS
  Window = 30
  Preload = 5
  Grace = 3
  Notice = 3
  CallMax = 2
  PauseMax = 6
  StopMax = 3
  MaxNow = 72
  MaxFaults = 2
INVARIANTS OneTaskEach CollectionResumes SamplesInOrder
CHECK_DEADLOCK FALSE
