SPECIFICATION FairSpec
CONSTANTS
  w1 = w1
  w2 = w2
  j1 = j1
  j2 = j2
  Workers = {w1, w2}
  Jobs = {j1, j2}
  Owners = {"worker:0"}
  OwnerOf <- SharedOwner
  Protection <- UniqueAndOutside
  MaxAttempts = 2
  ChunkCountLimit = 1
  MaxRequeues = 1
  None = None
INVARIANTS
  UnitsCommittedOnce
  OneLiveClaim
PROPERTIES
  RefinesLedger
  EveryJobSettles
CHECK_DEADLOCK FALSE
