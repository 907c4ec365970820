SPECIFICATION FairSpec
CONSTANTS
  a1 = a1
  a2 = a2
  b1 = b1
  bX = bX
  ta = ta
  tb = tb
  None = None
  Tags = {ta, tb}
  Gens = {a1, a2, b1}
  Renderable = {a1, a2, b1}
  TagOf <- MCTagOf
  MaxUpstream = 2
  MaxFaults = 1
  MaxCrashes = 1
  MaxDamage = 1
PROPERTIES
  Convergence
