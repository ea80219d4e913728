SPECIFICATION Spec
CONSTANTS
  d1 = d1
  d2 = d2
  s1 = s1
  s2 = s2
  f1 = f1
  f2 = f2
  a1 = a1
  a2 = a2
  Fences = {f1, f2}
  Firms = {a1}
  FirmOf <- OneFirm
  Dispatchers = {d1, d2}
  Sweepers = {}
  Cap = 1
  LastDay = 2
  None = None
SYMMETRY ActorSymmetry
INVARIANTS
  TypeOK
  DayCountExplained
PROPERTIES
  NoClaimUnderStop
CHECK_DEADLOCK FALSE
