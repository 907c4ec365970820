SPECIFICATION ServingSpec
CONSTANTS
  a1 = a1
  a2 = a2
  b1 = b1
  ta = ta
  tb = tb
  None = None
  Tags = {ta, tb}
  Gens = {a1, a2, b1}
  Renderable = {a1, a2, b1}
  TagOf <- MCTagOf
  MaxUpstream = 2
  MaxFaults = 1
  MaxCrashes = 1
  MaxDamage = 0
INVARIANTS
  OneGeneration
PROPERTIES
  InstallFindsItsFile
  UnreadableIsReal
  NotFoundIsNotCarried
