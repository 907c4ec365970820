SPECIFICATION Spec
CONSTANTS
  r1 = r1
  r2 = r2
  Requests = {r1, r2}
  Profile <- ImageAndPerPage
  NumSheets = 3
  Blank <- FirstBlank
  KeepScanOutput = FALSE
  MaxCrashes = 1
  None = None
CHECK_DEADLOCK FALSE
INVARIANTS
  SlotsMatchWork
  RefusalFeedsNothing
PROPERTIES
  ImplementsService
