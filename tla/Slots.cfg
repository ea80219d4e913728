SPECIFICATION LanesFairSpec
CONSTANTS
  Concurrency = 2
  UrgentStreakLimit = 3
  MaxWaiting = 2
INVARIANTS
  UrgentRunsBounded
PROPERTIES
  BulkIsClaimed
