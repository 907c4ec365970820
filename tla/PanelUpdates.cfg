SPECIFICATION Spec
CONSTANTS
  None = None
  Bridges = {b1, b2}
  Supervisor = 3
  Fast = 3
  Slow = 8
  CheckTimeout = 2
  Window = 15
  Wrap = 32
  MaxBlock = 3
INVARIANTS
  SettledIsTrue
  PickedUpInTime
  NoticedInTime
  SettlesAgain
SYMMETRY Symmetry
PROPERTIES
  ChecksFollowURL
