SPECIFICATION Spec
CONSTANTS
  a1 = a1
  a2 = a2
  b1 = b1
  bX = bX
  ta = ta
  tb = tb
  None = None
  Tags = {ta, tb}
  Gens = {a1, a2, b1}
  Renderable = {a1, a2, b1}
  TagOf <- MCTagOf
  MaxUpstream = 1
  MaxFaults = 0
  MaxCrashes = 1
  MaxDamage = 0
INVARIANTS
  RestartKeepsServing
