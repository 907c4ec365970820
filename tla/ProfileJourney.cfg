SPECIFICATION Spec
CONSTANTS
  TagIds = {1, 2, 3}
  TypeIds = {7}
  ConfiguredTags <- MCConfigured
  CallerTags <- MCCaller
  None = None
  Scenarios <- MCScenarios
  Targets = {"paperless"}
  Installed = {"deu", "eng"}
  Text <- MCText
  MaxImages = 3
CHECK_DEADLOCK FALSE
INVARIANTS
  TypeOK
  RefusalsAreKnown
  EveryDestinationAnswered
  StoredAsAsked
