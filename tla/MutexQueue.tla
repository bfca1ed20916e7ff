------------------------------ MODULE MutexQueue ------------------------------
(***************************************************************************)
(* src/2.4/mutex: the monitored queue on the futex mutex of mutex.c.       *)
(***************************************************************************)
EXTENDS MonitoredQueue

VARIABLES state, owner, mtx, error  \* the state of FutexMutex

Mutex == INSTANCE FutexMutex
  WITH Threads <- QueueThreads, TryLockers <- {}, pc <- mtx

mutex == <<state, owner, mtx, error>>
vars == <<queueVars, stats, mutex>>

Init == QueueInit /\ MonitorInit /\ Mutex!Init

(* A step of mutex_lock; the one that leads to "cs" returns to the queue. *)
LockQ(t) ==
  /\ AtLock(t)
  /\ Mutex!LockFast(t) \/ Mutex!InLock(t) \/ Mutex!SpuriousWake(t)
  /\ IF mtx'[t] = "cs" THEN Enter(t) ELSE UNCHANGED <<queueVars, stats>>

(* A step of mutex_unlock; the one that leads to "idle" returns. *)
UnlockQ(t) ==
  /\ AtUnlock(t)
  /\ Mutex!Unlock(t)
  /\ IF mtx'[t] = "idle" THEN Leave(t) ELSE UNCHANGED <<queueVars, stats>>

Next ==
  /\ fault = "none"
  /\ \E t \in QueueThreads : LockQ(t) \/ UnlockQ(t) \/ (Inside(t) /\ UNCHANGED mutex)

Spec == Init /\ [][Next]_vars
-----------------------------------------------------------------------------
TypeOK ==
  /\ QueueTypeOK({"idle"} \cup AddLabels \cup GetLabels)
  /\ mpc \in {"idle", "count", "counts", "printed"}
  /\ Mutex!TypeOK
=============================================================================
