----------------------------- MODULE LockPromise -----------------------------
(***************************************************************************)
(* What a lock promises its callers: at most one thread holds it.  The     *)
(* futex mutex and the spinlock of src/2.4 are shown to implement it, and  *)
(* the queues of src/2.2a .. src/2.2g, which use the locks of the C        *)
(* library, are modelled on top of it.                                     *)
(***************************************************************************)
CONSTANTS Threads,  \* the threads of the process
          NoThread  \* "nobody", the holder of a free lock; not one of Threads

VARIABLE holder

LockInit == holder = NoThread

Acquire(t) == holder = NoThread /\ holder' = t

Release(t) == holder = t /\ holder' = NoThread

LockNext == \E t \in Threads : Acquire(t) \/ Release(t)

LockSpec == LockInit /\ [][LockNext]_holder
=============================================================================
