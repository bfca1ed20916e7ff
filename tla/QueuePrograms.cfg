\* queue-threads.c of src/sync (w and r) and queue-example.c (main).  The race may
\* kill the process and main ends, hence no deadlock check.
CONSTANTS
  Writers = {w, main}
  Readers = {r, main}
  main = main
  Adds = 2
  Gets = 4
  Variants = {"race", "any", "sync", "2.2a", "2.2e", "2.2f", "2.2g"}
  Node = {n1, n2, n3}
  NULL = NULL
  NoThread = NoThread
  MaxCount = 2
  Modulus = 3
  ResetsLast = FALSE
SPECIFICATION FairSpec
INVARIANTS CountInRange ReaderStaysOnHeap CleanDestroy
PROPERTIES SequentialImplementsFifo RefusingExampleEnds
CHECK_DEADLOCK FALSE
