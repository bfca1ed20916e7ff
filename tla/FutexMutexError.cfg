CONSTANTS
  Threads = {t1, t2}
  TryLockers = {}
  NoThread = NoThread
SPECIFICATION Spec
INVARIANT NoMutexError
