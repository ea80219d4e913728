SPECIFICATION Spec
CONSTANTS
  None = None
  w1 = w1
  w2 = w2
  LastStep = 2
  Channel <- EmailThenCall
  Workers = {w1, w2}
  MaxAttempts = 2
  MaxFaults = 1
  MaxWaits = 2
INVARIANT NeverStranded
CHECK_DEADLOCK FALSE
