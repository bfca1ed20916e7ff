------------------------------ MODULE CondQueue ------------------------------
(***************************************************************************)
(* The queue of src/2.2f: a mutex and two condition variables.  A writer   *)
(* waits while the queue is full, a reader while it is empty; each success *)
(* signals the other side.  A condition variable is the set of threads     *)
(* waiting on it; POSIX lets a wait return without a signal.               *)
(***************************************************************************)
EXTENDS HolderQueue

VARIABLES not_empty, \* the threads waiting on q->not_empty
          not_full   \* the threads waiting on q->not_full

sync == <<holder, not_empty, not_full>>
vars == <<queueVars, sync>>

Labels == {"idle", "add_wait", "get_wait"} \cup AddLabels \cup GetLabels

Waiting == not_empty \cup not_full

Init ==
  /\ QueueInit
  /\ Lock!LockInit
  /\ not_empty = {} /\ not_full = {}

(* Mutant: an if instead of the while around pthread_cond_wait. *)
LockMutexAndGoOn(t) ==
  /\ t \notin Waiting
  /\ Lock!Acquire(t)
  /\ \/ pc[t] = "idle" /\ t \in Writers /\ Call(t, "add_wait")
     \/ pc[t] = "idle" /\ t \in Readers /\ Call(t, "get_wait")
     \/ pc[t] = "add_wait" /\ Call(t, "add_assert")
     \/ pc[t] = "get_wait" /\ Call(t, "get_assert")
  /\ UNCHANGED <<not_empty, not_full>>

(* pthread_mutex_lock on entry, and the relocking that ends pthread_cond_wait. *)
LockMutex(t) ==
  /\ t \notin Waiting
  /\ Lock!Acquire(t)
  /\ \/ pc[t] = "idle" /\ t \in Writers /\ Call(t, "add_wait")
     \/ pc[t] = "idle" /\ t \in Readers /\ Call(t, "get_wait")
     \/ pc[t] \in {"add_wait", "get_wait"} /\ UNCHANGED queueVars
  /\ UNCHANGED <<not_empty, not_full>>

(* The while loop at the top of queue_add; cond_wait unlocks and waits as one. *)
AwaitNotFull(t) ==
  /\ pc[t] = "add_wait" /\ holder = t
  /\ \/ /\ count = MaxCount
        /\ not_full' = not_full \cup {t}
        /\ Lock!Release(t)
        /\ UNCHANGED <<queueVars, not_empty>>
     \/ /\ count # MaxCount
        /\ Call(t, "add_assert")
        /\ UNCHANGED sync

(* Mutant: queue_get waits on the wrong condition variable. *)
AwaitWrongCondition(t) ==
  /\ pc[t] = "get_wait" /\ holder = t
  /\ \/ /\ count = 0
        /\ not_full' = not_full \cup {t}
        /\ Lock!Release(t)
        /\ UNCHANGED <<queueVars, not_empty>>
     \/ /\ count # 0
        /\ Call(t, "get_assert")
        /\ UNCHANGED sync

AwaitNotEmpty(t) ==
  /\ pc[t] = "get_wait" /\ holder = t
  /\ \/ /\ count = 0
        /\ not_empty' = not_empty \cup {t}
        /\ Lock!Release(t)
        /\ UNCHANGED <<queueVars, not_full>>
     \/ /\ count # 0
        /\ Call(t, "get_assert")
        /\ UNCHANGED sync

SpuriousWakeup(t) ==
  /\ t \in Waiting
  /\ not_empty' = not_empty \ {t}
  /\ not_full' = not_full \ {t}
  /\ UNCHANGED <<queueVars, holder>>

(* pthread_cond_signal wakes one waiter, if there is one. *)
Signal(cond) ==
  \/ cond = {} /\ cond' = {}
  \/ \E u \in cond : cond' = cond \ {u}

(* Mutant: queue_add signals only when the queue was empty before. *)
UnlockSignalsFirst(t) ==
  /\ Lock!Release(t)
  /\ Return(t)
  /\ IF pc[t] = "add_ok" /\ count = 1 THEN Signal(not_empty) ELSE UNCHANGED not_empty
  /\ IF pc[t] = "get_ok" THEN Signal(not_full) ELSE UNCHANGED not_full

(* Mutant: queue_get does not signal. *)
UnlockWithoutSignal(t) ==
  /\ Lock!Release(t)
  /\ Return(t)
  /\ IF pc[t] = "add_ok" THEN Signal(not_empty) ELSE UNCHANGED not_empty
  /\ UNCHANGED not_full

(* The signal and the unlock after it: nobody can act on the one before the other. *)
Unlock(t) ==
  /\ Lock!Release(t)
  /\ Return(t)
  /\ IF pc[t] = "add_ok" THEN Signal(not_empty) ELSE UNCHANGED not_empty
  /\ IF pc[t] = "get_ok" THEN Signal(not_full) ELSE UNCHANGED not_full

QueueAdd(t) == AwaitNotFull(t) \/ (AddBody(t) /\ UNCHANGED sync)

QueueGet(t) == AwaitNotEmpty(t) \/ (GetBody(t) /\ UNCHANGED sync)

Step(t) == LockMutex(t) \/ QueueAdd(t) \/ QueueGet(t) \/ Unlock(t)

Next ==
  /\ fault = "none"
  /\ \E t \in Threads : Step(t) \/ SpuriousWakeup(t)

Spec == Init /\ [][Next]_vars

(* Every thread that can run does: it holds the mutex only for a bounded time, *)
(* and both kinds of thread loop for ever.  The mutex may be handed out in any *)
(* order, but waits do not end without a signal for ever: a thread that keeps  *)
(* waking up to find the same queue could keep the mutex from the others.      *)
FairSpec ==
  /\ Spec
  /\ \A t \in Threads : WF_vars(fault = "none" /\ Step(t))
  /\ <>[][\A t \in Threads : ~SpuriousWakeup(t)]_vars
-----------------------------------------------------------------------------
TypeOK ==
  /\ QueueTypeOK(Labels)
  /\ holder \in Threads \cup {NoThread}
  /\ not_empty \subseteq Readers /\ not_full \subseteq Writers

(* queue_add never finds the queue full, nor queue_get empty, once its wait  *)
(* loop is over: neither ever returns 0.                                     *)
NeverRefuses == ThreadsAt({"add_full", "get_empty"}) = {}

(* No signal is lost: while the mutex is free, readers stay asleep beside    *)
(* values in the queue only if as many others have been woken to fetch them, *)
(* and writers beside free places only if as many have been woken to fill    *)
(* them, however the woken threads race with new callers.                    *)
NoLostSignal ==
  holder = NoThread =>
    /\ not_empty # {} => count <= Cardinality(ThreadsAt({"get_wait"}) \ not_empty)
    /\ not_full # {} => MaxCount - count <= Cardinality(ThreadsAt({"add_wait"}) \ not_full)

(* The program keeps moving values: every reader gets each value again and   *)
(* again (values are counted modulo Modulus), so no writer is blocked for    *)
(* good on a queue that is being read, and no reader on one being written.   *)
KeepsDelivering == \A r \in Readers : \A v \in Values : []<>(expected[r] = v)
=============================================================================
