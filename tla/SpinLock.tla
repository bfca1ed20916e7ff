------------------------------ MODULE SpinLock ------------------------------
(***************************************************************************)
(* The compare-and-swap spinlock of src/2.4/spinlock/spinlock.c.           *)
(***************************************************************************)
EXTENDS Naturals, LockClients

VARIABLES lock,  \* lock->lock
          pc     \* where each thread is

vars == <<lock, pc>>

Move(t, l) == pc' = [pc EXCEPT ![t] = l]

Init == lock = 0 /\ pc = [t \in Threads |-> "idle"]

(* Mutant: spinlock_lock returns whatever its compare-and-swap says. *)
LockIgnoresCAS(t) ==
  /\ pc[t] \in {"idle", "spin"}
  /\ lock' = 1
  /\ Move(t, "cs")

(* One round of the loop of spinlock_lock: the CAS succeeds, or goes round again. *)
LockCAS(t) ==
  /\ pc[t] \in {"idle", "spin"}
  /\ IF lock = 0
       THEN lock' = 1 /\ Move(t, "cs")
       ELSE UNCHANGED lock /\ Move(t, "spin")

TryLock(t) ==
  /\ pc[t] = "idle" /\ t \in TryLockers
  /\ lock = 0
  /\ lock' = 1
  /\ Move(t, "cs")

Unlock(t) ==
  /\ pc[t] = "cs"
  /\ lock' = 0
  /\ Move(t, "idle")

Next == \E t \in Threads : LockCAS(t) \/ TryLock(t) \/ Unlock(t)

Spec == Init /\ [][Next]_vars

-----------------------------------------------------------------------------
TypeOK == lock \in {0, 1} /\ pc \in [Threads -> {"idle", "spin", "cs"}]

(* At most one thread is between its successful compare-and-swap and the     *)
(* store in spinlock_unlock.                                                 *)
MutualExclusion == \A t, u \in Threads : pc[t] = "cs" /\ pc[u] = "cs" => t = u

(* The word is 0 exactly when nobody holds the lock, so the lock is never    *)
(* left taken by a thread that has gone.                                     *)
LockMatchesHolder == lock = 0 <=> \A t \in Threads : pc[t] # "cs"

(* The spinlock implements the abstract lock.                                *)
Holder == IF \E t \in Threads : pc[t] = "cs"
            THEN CHOOSE t \in Threads : pc[t] = "cs"
            ELSE NoThread

AbstractLock == INSTANCE LockPromise WITH holder <- Holder

ImplementsLock == AbstractLock!LockSpec
=============================================================================
