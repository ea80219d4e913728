SPECIFICATION Spec
CONSTANTS
  LastDay = 4
  Inactivity = 2
  Scheduled <- MCScheduled
  LastStage = 1
  Stages <- MCStages
  StageDays = 1
  Settled = 1
  Streak = 1
  RaiseLimit = 2
  Ceiling = 2
  Lowerings = {0}
  Raises = {2}
  MaxSends = 3
  MaxRaces = 1
  MaxSignals = 2
  MaxCommands = 1
  None = None
INVARIANTS
  TypeOK
  DaysCounted
PROPERTIES
  CapRisesOnlyEarned
