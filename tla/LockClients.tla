----------------------------- MODULE LockClients -----------------------------
(***************************************************************************)
(* Who uses a lock of src/2.4, the same for the mutex and the spinlock.    *)
(***************************************************************************)
CONSTANTS Threads,     \* the threads that use the lock
          TryLockers,  \* those that may also call mutex_trylock, spinlock_trylock
          NoThread     \* nobody; the value of an owner field nobody has written

ASSUME ClientsAssumption == TryLockers \subseteq Threads /\ NoThread \notin Threads
=============================================================================
