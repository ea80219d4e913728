SPECIFICATION FairSpec
CONSTANTS
  a1 = a1
  a2 = a2
  Accounts = {a1}
  MaxMessages = 3
  MaxGrants = 1
  MaxExpiries = 2
  MaxFaults = 1
  Overlap = 2
  BaselineSpan = 2
  None = None
INVARIANTS
  TypeOK
  CoverageProved
PROPERTIES
  EventuallyCaughtUp
CHECK_DEADLOCK FALSE
