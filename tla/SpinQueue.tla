------------------------------ MODULE SpinQueue ------------------------------
(***************************************************************************)
(* src/2.4/spinlock: the monitored queue on the spinlock of spinlock.c.    *)
(***************************************************************************)
EXTENDS MonitoredQueue

VARIABLES lock, spc  \* the state of SpinLock

Spin == INSTANCE SpinLock
  WITH Threads <- QueueThreads, TryLockers <- {}, pc <- spc

spin == <<lock, spc>>
vars == <<queueVars, stats, spin>>

Init == QueueInit /\ MonitorInit /\ Spin!Init

(* Mutant: the monitor tries the lock once and prints all the same. *)
MonitorTriesOnce(t) ==
  /\ AtLock(t)
  /\ Spin!LockCAS(t)
  /\ IF t = monitor \/ spc'[t] = "cs" THEN Enter(t) ELSE UNCHANGED <<queueVars, stats>>

LockQ(t) ==
  /\ AtLock(t)
  /\ Spin!LockCAS(t)
  /\ IF spc'[t] = "cs" THEN Enter(t) ELSE UNCHANGED <<queueVars, stats>>

UnlockQ(t) == Spin!Unlock(t) /\ Leave(t)

Next ==
  /\ fault = "none"
  /\ \E t \in QueueThreads : LockQ(t) \/ UnlockQ(t) \/ (Inside(t) /\ UNCHANGED spin)

Spec == Init /\ [][Next]_vars
-----------------------------------------------------------------------------
TypeOK ==
  /\ QueueTypeOK({"idle"} \cup AddLabels \cup GetLabels)
  /\ mpc \in {"idle", "count", "counts", "printed"}
  /\ Spin!TypeOK
=============================================================================
