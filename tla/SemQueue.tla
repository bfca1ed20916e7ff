------------------------------- MODULE SemQueue -------------------------------
(***************************************************************************)
(* The queue of src/2.2g: semaphore empty counts the places a writer may   *)
(* still claim, semaphore full the values a reader may, and a mutex guards *)
(* the list.  queue_add and queue_get wait on one semaphore before they    *)
(* lock and post the other one after they unlock.                          *)
(***************************************************************************)
EXTENDS HolderQueue

VARIABLES empty,   \* the value of semaphore q->empty
          full     \* the value of semaphore q->full

sync == <<holder, empty, full>>
vars == <<queueVars, sync>>

Labels == {"idle", "add_lock", "get_lock"} \cup AddLabels \cup GetLabels

Init ==
  /\ QueueInit
  /\ Lock!LockInit
  /\ empty = MaxCount /\ full = 0

(* A thread that is "idle" is at the sem_wait of its next call. *)
SemWait(t) ==
  /\ pc[t] = "idle"
  /\ \/ t \in Writers /\ empty > 0 /\ empty' = empty - 1 /\ UNCHANGED full
          /\ Call(t, "add_lock")
     \/ t \in Readers /\ full > 0 /\ full' = full - 1 /\ UNCHANGED empty
          /\ Call(t, "get_lock")
  /\ UNCHANGED holder

LockMutex(t) ==
  /\ Lock!Acquire(t)
  /\ \/ pc[t] = "add_lock" /\ Call(t, "add_assert")
     \/ pc[t] = "get_lock" /\ Call(t, "get_assert")
  /\ UNCHANGED <<empty, full>>

(* A call that returns 0 posts nothing: its token is gone. *)
Unlock(t) ==
  /\ pc[t] \in {"add_ok", "add_full", "get_ok", "get_empty"}
  /\ Lock!Release(t)
  /\ IF pc[t] \in {"add_ok", "get_ok"} THEN UNCHANGED queueVars ELSE Return(t)
  /\ UNCHANGED <<empty, full>>

(* Mutant: queue_get posts the semaphore it has waited on. *)
PostSame(t) ==
  /\ pc[t] \in {"add_ok", "get_ok"} /\ holder # t
  /\ full' = full + 1
  /\ Return(t)
  /\ UNCHANGED <<holder, empty>>

Post(t) ==
  /\ pc[t] \in {"add_ok", "get_ok"} /\ holder # t
  /\ full' = IF pc[t] = "add_ok" THEN full + 1 ELSE full
  /\ empty' = IF pc[t] = "get_ok" THEN empty + 1 ELSE empty
  /\ Return(t)
  /\ UNCHANGED holder

Step(t) ==
  SemWait(t) \/ LockMutex(t) \/ (Body(t) /\ UNCHANGED sync) \/ Unlock(t) \/ Post(t)

Next == fault = "none" /\ \E t \in Threads : Step(t)

Spec == Init /\ [][Next]_vars

(* Every thread that can run does; semaphores and mutex promise no order. *)
FairSpec == Spec /\ \A t \in Threads : WF_vars(fault = "none" /\ Step(t))
-----------------------------------------------------------------------------
TypeOK ==
  /\ QueueTypeOK(Labels)
  /\ holder \in Threads \cup {NoThread}
  /\ empty \in 0 .. MaxCount /\ full \in 0 .. MaxCount

(* The value of full plus the readers that have claimed a value and not yet  *)
(* taken it off count, plus the writers that have counted a value and not    *)
(* posted it, is the number of values; likewise for the free places.  So no  *)
(* token is lost or made up.                                                 *)
TokensMatchCount ==
  LET claimed == ThreadsAt({"get_lock"} \cup (GetLabels \ {"get_ok"}))
      unposted == ThreadsAt({"add_ok"})
      reserved == ThreadsAt({"add_lock"} \cup (AddLabels \ {"add_ok"}))
      unreleased == ThreadsAt({"get_ok"})
  IN /\ count = full + Cardinality(claimed) + Cardinality(unposted)
     /\ MaxCount - count = empty + Cardinality(reserved) + Cardinality(unreleased)

(* Holding a token is enough: neither call ever finds the queue full or      *)
(* empty and returns 0, which would lose the token (queue.c:104-107).        *)
NeverRefuses == ThreadsAt({"add_full", "get_empty"}) = {}

(* The program keeps moving values: every reader gets each value again and   *)
(* again (values are counted modulo Modulus).                                *)
KeepsDelivering == \A r \in Readers : \A v \in Values : []<>(expected[r] = v)
=============================================================================
