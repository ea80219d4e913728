SPECIFICATION FairSpec
CONSTANTS
  m = m
  k = k
  t = t
  c = c
  a = a
  ck = ck
  ak = ak
  Stops = {m, k, t}
  Lifts = {c, a, ck, ak}
  Target <- MCTarget
  Copy <- MCCopy
  Manual = {m, k}
  Named = {m}
  Old = {}
  Corrections = {c, ck}
  Legacy = {a}
  Window = 1
  Margin = 0
  LastTick = 1
  MaxRestores = 1
  None = None
INVARIANTS
  TypeOK
  OneDecision
  HeldWhileUndecided
  AckedStopsKept
  LiftReachesSurvivor
PROPERTIES
  ReplayIdempotent
  EveryWindowCloses
CHECK_DEADLOCK FALSE
