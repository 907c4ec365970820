SPECIFICATION Spec
CONSTANTS
  NumPages = 2
  None = None
CHECK_DEADLOCK FALSE
INVARIANTS DeadlineIs504
