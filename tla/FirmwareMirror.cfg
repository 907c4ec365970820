SPECIFICATION Spec
CONSTANTS
  a1 = a1
  a2 = a2
  b1 = b1
  bX = bX
  ta = ta
  tb = tb
  None = None
  Tags = {ta, tb}
  Gens = {a1, a2, b1, bX}
  Renderable = {a1, a2, b1}
  TagOf <- MCTagOf
  MaxUpstream = 3
  MaxFaults = 2
  MaxCrashes = 1
  MaxDamage = 1
INVARIANTS
  OrderingInvariant
  TwoGenerations
  RecordedIsCached
  CleanAtRest
  BoundedCache
