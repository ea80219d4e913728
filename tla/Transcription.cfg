SPECIFICATION FairSpec
CONSTANTS
  w1 = w1
  w2 = w2
  aws = aws
  deepgram = deepgram
  None = None
  Workers = {w1, w2}
  Serves <- Deployed
  Providers = {aws, deepgram}
  Async = {aws}
  MaxClaims = 2
  MaxPaid = 2
  MaxRows = 3
  MaxJobs = 2
  MaxChanges = 1
INVARIANTS
  TypeOK
  BilledIsCharged
  PaidAtMostTwice
  OneOpenAttempt
PROPERTIES
  EveryAttemptCloses
CHECK_DEADLOCK FALSE
