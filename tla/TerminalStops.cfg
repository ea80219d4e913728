SPECIFICATION FairSpec
CONSTANTS
  w1 = w1
  EventCount = 2
  AtSource = {2}
  EnrollmentCount = 2
  Scope <- OneThenAll
  StopCount = 1
  Workers = {w1}
  DrainLimit = 1
  MaxAttempts = 2
  MaxFaults = 2
  None = None
INVARIANTS
  TypeOK
  ConsumedStopsAll
PROPERTIES
  OnlyEarlierStopped
  EveryStopApplied
CHECK_DEADLOCK FALSE
