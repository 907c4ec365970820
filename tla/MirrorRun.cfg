SPECIFICATION FairSpec
CONSTANTS
  Interval = 20
  Floor = 3
  RefreshTimeout = 3
  MaxRetries = 3
INVARIANTS
  WakeUpsAreKept
  PressAnsweredInTime
  RetriesBounded
PROPERTIES
  FloorBetweenAttempts
  CancelReturns
CHECK_DEADLOCK FALSE
