CONSTANTS
  Counters = {}
  Swappers = {s1, s2}
  Size = 3
  NULL = NULL
  NoThread = NoThread
SPECIFICATION Spec
INVARIANT LocksTheFirstNode
CHECK_DEADLOCK FALSE
