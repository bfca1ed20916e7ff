\* main1.c: a counter and two swappers on three nodes.  main.c: two of each on up to
\* three nodes.  The process ends, hence no deadlock check.
CONSTANTS
  Counters = {c}
  Swappers = {s1, s2}
  Size = 3
  RwCounters = {c, d}
  RwSwappers = {s1, s2}
  MaxSize = 3
  NULL = NULL
  NoThread = NoThread
SPECIFICATION BothSpec
INVARIANTS TypeOK HoldsExactly WorksOnNeighbours NoDeadlock PairIsCurrent
PROPERTIES KeepsTheSequence Stops
CHECK_DEADLOCK FALSE
