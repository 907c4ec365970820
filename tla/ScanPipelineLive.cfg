SPECIFICATION FairSpec
CONSTANTS
  r1 = r1
  r2 = r2
  Requests = {r1, r2}
  Profile <- CombinedAndImage
  NumSheets = 2
  Blank <- NoBlank
  KeepScanOutput = TRUE
  MaxCrashes = 1
  None = None
CHECK_DEADLOCK FALSE
INVARIANTS
  SubmittedIsComplete
  ErrorMeansNothingDelivered
PROPERTIES
  EveryRequestEnds
  SlotsFreed
