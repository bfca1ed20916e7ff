\* The writer and the reader of queue-threads.c, and the monitor of src/2.4.
CONSTANTS
  Writers = {w}
  Readers = {r}
  monitor = monitor
  Node = {n1, n2}
  NULL = NULL
  NoThread = NoThread
  MaxCount = 2
  Modulus = 3
  ResetsLast = FALSE
SPECIFICATION FairPrograms
INVARIANTS InOrder SnapshotConsistent
PROPERTIES ImplementsFifo KeepsDelivering
