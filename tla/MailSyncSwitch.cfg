SPECIFICATION Spec
CONSTANTS
  a1 = a1
  a2 = a2
  Accounts = {a1, a2}
  MaxMessages = 1
  MaxGrants = 2
  MaxExpiries = 0
  MaxFaults = 1
  Overlap = 2
  BaselineSpan = 2
  None = None
SYMMETRY AccountSymmetry
INVARIANTS
  HoldsMatchMailbox
PROPERTIES
  StaleRunLeavesMailbox
CHECK_DEADLOCK FALSE
