\* Four threads, one of which also tries the lock.
CONSTANTS
  Threads = {t1, t2, t3, t4}
  TryLockers = {t1}
  NoThread = NoThread
SPECIFICATION FairSpec
INVARIANTS TypeOK MutualExclusion StateMatchesHolder NoLostWakeup
PROPERTIES ImplementsLock ContentionResolves
