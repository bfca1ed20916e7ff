CONSTANTS
  MAX_THREADS = 3
  MaxWanted = 3
  MaxRounds = 2
SPECIFICATION Spec
INVARIANT AllThreadsComplete
CHECK_DEADLOCK FALSE
