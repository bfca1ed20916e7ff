\* queue-example.c in the directories where it asks a queue that can refuse, and
\* where the queue waits.  main may end, hence no deadlock check.
CONSTANTS
  Writers = {main}
  Readers = {main}
  main = main
  Adds = 2
  Gets = 4
  Variants = {"sync", "2.2a", "2.2e", "2.2f", "2.2g"}
  Node = {n1, n2, n3}
  NULL = NULL
  NoThread = NoThread
  MaxCount = 2
  Modulus = 3
  ResetsLast = FALSE
SPECIFICATION FairSpec
PROPERTY ExampleEnds
CHECK_DEADLOCK FALSE
