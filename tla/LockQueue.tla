------------------------------ MODULE LockQueue ------------------------------
(***************************************************************************)
(* The queues of src/2.2a (pthread spinlock) and src/2.2e (pthread mutex): *)
(* the body of LinkedQueue between taking and releasing one lock.  The     *)
(* lock belongs to the C library and keeps the promise of LockPromise.     *)
(* A writer or reader that is "idle" is at the lock, about to call again.  *)
(***************************************************************************)
EXTENDS HolderQueue

CONSTANT GetAsserts  \* does queue_get assert count >= 0?  (src/2.2a does)

vars == <<queueVars, holder>>

Init == QueueInit /\ Lock!LockInit

LockAdd(t) ==
  /\ pc[t] = "idle" /\ t \in Writers
  /\ Lock!Acquire(t)
  /\ Call(t, "add_assert")

(* Mutant: queue_get goes on without the lock. *)
GetWithoutLock(t) ==
  /\ pc[t] = "idle" /\ t \in Readers
  /\ UNCHANGED holder
  /\ Call(t, IF GetAsserts THEN "get_assert" ELSE "get_test")

LockGet(t) ==
  /\ pc[t] = "idle" /\ t \in Readers
  /\ Lock!Acquire(t)
  /\ Call(t, IF GetAsserts THEN "get_assert" ELSE "get_test")

(* Mutant: the return 0 for a full or empty queue leaves the lock taken. *)
UnlockOnSuccess(t) ==
  /\ IF pc[t] \in {"add_full", "get_empty"} THEN UNCHANGED holder ELSE Lock!Release(t)
  /\ Return(t)

Unlock(t) == Lock!Release(t) /\ Return(t)

QueueAdd(t) == LockAdd(t) \/ (AddBody(t) /\ UNCHANGED holder)

QueueGet(t) == LockGet(t) \/ (GetBody(t) /\ UNCHANGED holder)

Step(t) == QueueAdd(t) \/ QueueGet(t) \/ Unlock(t)

Next == fault = "none" /\ \E t \in Threads : Step(t)

Spec == Init /\ [][Next]_vars
-----------------------------------------------------------------------------
TypeOK ==
  /\ QueueTypeOK({"idle"} \cup AddLabels \cup GetLabels)
  /\ holder \in Threads \cup {NoThread}
=============================================================================
