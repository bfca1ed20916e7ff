----------------------------- MODULE FutexMutex -----------------------------
(***************************************************************************)
(* The futex mutex of src/2.4/mutex/mutex.c.  Every access to mutex->state *)
(* is an action of its own.  The local old_state of mutex_lock is read and *)
(* branched on at once, so its value survives only as the label the thread *)
(* moves to.  A thread asleep in the kernel is at label "asleep".          *)
(***************************************************************************)
EXTENDS Naturals, LockClients

MUTEX_UNLOCKED == 0
MUTEX_LOCKED == 1
MUTEX_LOCKED_WITH_WAITERS == 2

VARIABLES state,  \* mutex->state
          owner,  \* mutex->owner
          pc,     \* where each thread is
          error   \* mutex_unlock has reported "Mutex error"

vars == <<state, owner, pc, error>>

Slow == {"loop", "cas", "mark", "wait"}    \* awake inside the loop of mutex_lock
Holding == {"own", "cs", "swap"}           \* between a successful CAS and the exchange
Labels == {"idle", "asleep", "wake"} \cup Slow \cup Holding

Move(t, l) == pc' = [pc EXCEPT ![t] = l]

(* mutex_init leaves owner alone: it holds whatever malloc returned. *)
Init ==
  /\ state = MUTEX_UNLOCKED
  /\ owner \in Threads \cup {NoThread}
  /\ pc = [t \in Threads |-> "idle"]
  /\ error = FALSE
-----------------------------------------------------------------------------
(* mutex_lock *)

LockFast(t) ==
  /\ pc[t] = "idle"
  /\ IF state = MUTEX_UNLOCKED
       THEN state' = MUTEX_LOCKED /\ Move(t, "own")
       ELSE UNCHANGED state /\ Move(t, "loop")
  /\ UNCHANGED <<owner, error>>

SetOwner(t) ==
  /\ pc[t] = "own"
  /\ owner' = t
  /\ Move(t, "cs")
  /\ UNCHANGED <<state, error>>

ReadState(t) ==
  /\ pc[t] = "loop"
  /\ Move(t, CASE state = MUTEX_UNLOCKED -> "cas"
               [] state = MUTEX_LOCKED -> "mark"
               [] OTHER -> "wait")
  /\ UNCHANGED <<state, owner, error>>

(* Mutant: the slow path trusts the value it has read and stores. *)
LockSlowByStoring(t) ==
  /\ pc[t] = "cas"
  /\ state' = MUTEX_LOCKED_WITH_WAITERS
  /\ Move(t, "cs")
  /\ UNCHANGED <<owner, error>>

(* Mutant: the slow path takes the lock as if nobody else waited for it. *)
LockSlowAlone(t) ==
  /\ pc[t] = "cas"
  /\ IF state = MUTEX_UNLOCKED
       THEN state' = MUTEX_LOCKED /\ Move(t, "cs")
       ELSE UNCHANGED state /\ Move(t, "loop")
  /\ UNCHANGED <<owner, error>>

(* This path takes the lock without recording the owner. *)
LockSlow(t) ==
  /\ pc[t] = "cas"
  /\ IF state = MUTEX_UNLOCKED
       THEN state' = MUTEX_LOCKED_WITH_WAITERS /\ Move(t, "cs")
       ELSE UNCHANGED state /\ Move(t, "loop")
  /\ UNCHANGED <<owner, error>>

(* Mutant: the waiter announces itself with an atomic add. *)
MarkByAdding(t) ==
  /\ pc[t] = "mark"
  /\ state' = state + 1
  /\ Move(t, "wait")
  /\ UNCHANGED <<owner, error>>

(* Mutant: the waiter announces itself with a plain store. *)
MarkByStoring(t) ==
  /\ pc[t] = "mark"
  /\ state' = MUTEX_LOCKED_WITH_WAITERS
  /\ Move(t, "wait")
  /\ UNCHANGED <<owner, error>>

MarkWaiters(t) ==
  /\ pc[t] = "mark"
  /\ state' = IF state = MUTEX_LOCKED THEN MUTEX_LOCKED_WITH_WAITERS ELSE state
  /\ Move(t, "wait")
  /\ UNCHANGED <<owner, error>>

(* Mutant: futex_wait sleeps without comparing. *)
WaitBlindly(t) ==
  /\ pc[t] = "wait"
  /\ Move(t, "asleep")
  /\ UNCHANGED <<state, owner, error>>

(* FUTEX_WAIT compares and sleeps as one step of the kernel. *)
FutexWait(t) ==
  /\ pc[t] = "wait"
  /\ Move(t, IF state = MUTEX_LOCKED_WITH_WAITERS THEN "asleep" ELSE "loop")
  /\ UNCHANGED <<state, owner, error>>

(* FUTEX_WAIT may also return with no wake, which mutex_lock does not tell apart. *)
SpuriousWake(t) ==
  /\ pc[t] = "asleep"
  /\ Move(t, "loop")
  /\ UNCHANGED <<state, owner, error>>
-----------------------------------------------------------------------------
(* mutex_trylock *)

(* Mutant: mutex_trylock does not look at the result of its compare-and-swap. *)
TryLockIgnoresCAS(t) ==
  /\ pc[t] = "idle" /\ t \in TryLockers
  /\ state' = IF state = MUTEX_UNLOCKED THEN MUTEX_LOCKED ELSE state
  /\ Move(t, "cs")
  /\ UNCHANGED <<owner, error>>

TryLock(t) ==
  /\ pc[t] = "idle" /\ t \in TryLockers
  /\ state = MUTEX_UNLOCKED
  /\ state' = MUTEX_LOCKED
  /\ Move(t, "cs")
  /\ UNCHANGED <<owner, error>>
-----------------------------------------------------------------------------
(* mutex_unlock *)

CheckOwner(t) ==
  /\ pc[t] = "cs"
  /\ error' = (error \/ state = MUTEX_UNLOCKED \/ owner # t)
  /\ Move(t, "swap")
  /\ UNCHANGED <<state, owner>>

Exchange(t) ==
  /\ pc[t] = "swap"
  /\ state' = MUTEX_UNLOCKED
  /\ Move(t, IF state = MUTEX_LOCKED_WITH_WAITERS THEN "wake" ELSE "idle")
  /\ UNCHANGED <<owner, error>>

Sleepers == {u \in Threads : pc[u] = "asleep"}

FutexWake(t) ==
  /\ pc[t] = "wake"
  /\ \/ Sleepers = {} /\ Move(t, "idle")
     \/ \E u \in Sleepers : pc' = [pc EXCEPT ![t] = "idle", ![u] = "loop"]
  /\ UNCHANGED <<state, owner, error>>
-----------------------------------------------------------------------------
Unlock(t) == CheckOwner(t) \/ Exchange(t) \/ FutexWake(t)

InLock(t) == SetOwner(t) \/ ReadState(t) \/ LockSlow(t) \/ MarkWaiters(t) \/ FutexWait(t)

Next == \E t \in Threads :
  LockFast(t) \/ InLock(t) \/ SpuriousWake(t) \/ TryLock(t) \/ Unlock(t)

(* A thread inside mutex_lock or holding the mutex keeps running (its critical *)
(* sections are finite); nobody is obliged to call mutex_lock, and nothing     *)
(* relies on a spurious wake.                                                  *)
Fairness == \A t \in Threads : WF_vars(InLock(t) \/ Unlock(t))

Spec == Init /\ [][Next]_vars

FairSpec == Spec /\ Fairness
-----------------------------------------------------------------------------
TypeOK ==
  /\ state \in {MUTEX_UNLOCKED, MUTEX_LOCKED, MUTEX_LOCKED_WITH_WAITERS}
  /\ owner \in Threads \cup {NoThread}
  /\ pc \in [Threads -> Labels]
  /\ error \in BOOLEAN

(* At most one thread is between its successful compare-and-swap in          *)
(* mutex_lock/mutex_trylock and the exchange in mutex_unlock.                *)
MutualExclusion ==
  \A t, u \in Threads : pc[t] \in Holding /\ pc[u] \in Holding => t = u

(* mutex->state is MUTEX_UNLOCKED exactly when nobody holds the mutex.       *)
StateMatchesHolder ==
  state = MUTEX_UNLOCKED <=> \A t \in Threads : pc[t] \notin Holding

(* If a thread sleeps in FUTEX_WAIT, someone is bound to wake it or to take  *)
(* over its claim: the holder will see MUTEX_LOCKED_WITH_WAITERS, or an      *)
(* unlocker is about to call futex_wake, or an awake thread is in the loop.  *)
NoLostWakeup ==
  Sleepers # {} =>
    \/ state = MUTEX_LOCKED_WITH_WAITERS
    \/ \E t \in Threads : pc[t] \in Slow \cup {"wake"}

(* Whenever a thread contends on the slow path of mutex_lock, some thread    *)
(* gets the mutex: the lock is never left free with its waiters asleep.      *)
ContentionResolves ==
  (\E t \in Threads : pc[t] \in Slow \cup {"asleep"}) ~> (\E t \in Threads : pc[t] = "cs")

(* mutex_unlock reports an error only when a thread that is not the holder   *)
(* calls it (the check of mutex.c:51).  In this model only holders unlock.   *)
NoMutexError == ~error

(* The mutex implements the abstract lock: it is taken by the compare-and-   *)
(* swap that succeeds and released by the exchange.                          *)
Holder == IF \E t \in Threads : pc[t] \in Holding
            THEN CHOOSE t \in Threads : pc[t] \in Holding
            ELSE NoThread

AbstractLock == INSTANCE LockPromise WITH holder <- Holder

ImplementsLock == AbstractLock!LockSpec
=============================================================================
