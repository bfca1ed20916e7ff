\* Two writers and two readers on every queue that takes a lock of the C library.
CONSTANTS
  Writers = {w1, w2}
  Readers = {r1, r2}
  Node = {n1, n2}
  NULL = NULL
  NoThread = NoThread
  MaxCount = 2
  Modulus = 3
  ResetsLast = FALSE
SPECIFICATION Spec
INVARIANTS TypeOK Consistent NeverRefuses NoLostSignal TokensMatchCount
PROPERTY ImplementsFifo
SYMMETRY Symmetry
