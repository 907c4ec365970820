SPECIFICATION FairSpec
CONSTANTS
  Requests = {r1, r2}
  MaxBudget = 2
  MaxStarts = 2
  MaxFailures = 1
CHECK_DEADLOCK FALSE
INVARIANTS
  ExitCodeIsTrue
  CutOnlyAfterBudget
  StopsInTime
  ReachableWhileUp
PROPERTIES
  SignalStops
