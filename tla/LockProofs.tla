----------------------------- MODULE LockProofs -----------------------------
(***************************************************************************)
(* What the two locks of src/2.4 promise, for any set of threads.          *)
(*                                                                         *)
(* FutexMutex, here the module that is extended.  Exclusion rests on       *)
(* the inductive invariant "the word is MUTEX_UNLOCKED exactly when nobody *)
(* holds the mutex, and at most one thread does": a compare-and-swap that  *)
(* succeeds finds no holder, and the exchange of the only holder leaves    *)
(* none.  That no wake-up is lost is inductive with the types alone.       *)
(* What a step does to the label of a thread is all these arguments need.  *)
(*                                                                         *)
(* SpinLock, at the end, under the name Spin.  The inductive invariant     *)
(* ties the word to the threads: it is 0 exactly when nobody holds the     *)
(* lock, and at most one thread does.  A compare-and-swap that succeeds    *)
(* then finds no holder, and the store of spinlock_unlock, which is        *)
(* unconditional, is always the holder's.                                  *)
(***************************************************************************)
EXTENDS FutexMutex, TLAPS

VARIABLES lock, spc  \* the state of a spinlock

Spin == INSTANCE SpinLock WITH pc <- spc

(* The mutex starts well typed, whatever malloc left in owner.               *)
LEMMA TypeInit == Init => TypeOK
BY DEF Init, TypeOK, Labels, MUTEX_UNLOCKED, MUTEX_LOCKED, MUTEX_LOCKED_WITH_WAITERS

(* Each access mutex_lock, mutex_trylock and mutex_unlock make keeps the types. *)
LEMMA TypeStep == TypeOK /\ [Next]_vars => TypeOK'
<1> SUFFICES ASSUME TypeOK, [Next]_vars PROVE TypeOK'
  OBVIOUS
<1> USE DEF TypeOK, Labels, Slow, Holding, Move,
            MUTEX_UNLOCKED, MUTEX_LOCKED, MUTEX_LOCKED_WITH_WAITERS
<1>1. CASE UNCHANGED vars
  BY <1>1 DEF vars
<1>2. ASSUME NEW t \in Threads, LockFast(t) PROVE TypeOK'
  BY <1>2 DEF LockFast
<1>3. ASSUME NEW t \in Threads, InLock(t) PROVE TypeOK'
  BY <1>3 DEF InLock, SetOwner, ReadState, LockSlow, MarkWaiters, FutexWait
<1>4. ASSUME NEW t \in Threads, SpuriousWake(t) PROVE TypeOK'
  BY <1>4 DEF SpuriousWake
<1>5. ASSUME NEW t \in Threads, TryLock(t) PROVE TypeOK'
  BY <1>5 DEF TryLock
<1>6. ASSUME NEW t \in Threads, CheckOwner(t) PROVE TypeOK'
  BY <1>6, Zenon DEF CheckOwner
<1>7. ASSUME NEW t \in Threads, Exchange(t) PROVE TypeOK'
  BY <1>7 DEF Exchange
<1>8. ASSUME NEW t \in Threads, FutexWake(t) PROVE TypeOK'
  BY <1>8 DEF FutexWake, Sleepers
<1> QED
  BY <1>1, <1>2, <1>3, <1>4, <1>5, <1>6, <1>7, <1>8 DEF Next, Unlock

(* Every step keeps the state of the mutex and of its threads well typed.    *)
THEOREM TypeCorrect == Spec => []TypeOK
BY TypeInit, TypeStep, PTL DEF Spec
-----------------------------------------------------------------------------
(* Exclusion, with the state that goes with it *)

ExclusionInv == TypeOK /\ MutualExclusion /\ StateMatchesHolder

(* A mutex that has just been initialised is free.                           *)
LEMMA ExclusionInit == Init => ExclusionInv
BY TypeInit DEF ExclusionInv, Init, MutualExclusion, StateMatchesHolder, Holding

(* A step that keeps every thread on its side of Holding and the word on its *)
(* side of MUTEX_UNLOCKED disturbs nothing.                                  *)
LEMMA ExclusionKept ==
  ASSUME ExclusionInv, TypeOK',
         \A u \in Threads : pc'[u] \in Holding <=> pc[u] \in Holding,
         state' = MUTEX_UNLOCKED <=> state = MUTEX_UNLOCKED
  PROVE  ExclusionInv'
BY DEF ExclusionInv, MutualExclusion, StateMatchesHolder

(* A compare-and-swap that finds the word MUTEX_UNLOCKED makes t the holder. *)
LEMMA ExclusionTaken ==
  ASSUME ExclusionInv, TypeOK', NEW t \in Threads,
         state = MUTEX_UNLOCKED, state' # MUTEX_UNLOCKED,
         pc'[t] \in Holding,
         \A u \in Threads \ {t} : pc'[u] = pc[u]
  PROVE  ExclusionInv'
BY DEF ExclusionInv, MutualExclusion, StateMatchesHolder

(* No access to the word lets a second thread in or loses the holder.        *)
LEMMA ExclusionStep == ExclusionInv /\ [Next]_vars => ExclusionInv'
<1> SUFFICES ASSUME ExclusionInv, [Next]_vars PROVE ExclusionInv'
  OBVIOUS
<1>0. TypeOK /\ TypeOK'
  BY TypeStep DEF ExclusionInv
<1>1. CASE UNCHANGED vars
  BY <1>0, <1>1, ExclusionKept DEF vars
<1>2. ASSUME NEW t \in Threads, LockFast(t) PROVE ExclusionInv'
  <2>1. CASE state = MUTEX_UNLOCKED
    BY <1>0, <1>2, <2>1, ExclusionTaken
       DEF LockFast, Move, TypeOK, Holding, MUTEX_UNLOCKED, MUTEX_LOCKED
  <2>2. CASE state # MUTEX_UNLOCKED
    BY <1>0, <1>2, <2>2, ExclusionKept DEF LockFast, Move, TypeOK, Holding
  <2> QED
    BY <2>1, <2>2
<1>3. ASSUME NEW t \in Threads, InLock(t) PROVE ExclusionInv'
  <2>1. CASE SetOwner(t)
    BY <1>0, <2>1, ExclusionKept DEF SetOwner, Move, TypeOK, Holding
  <2>2. CASE ReadState(t)
    <3> DEFINE l == CASE state = MUTEX_UNLOCKED -> "cas"
                      [] state = MUTEX_LOCKED -> "mark"
                      [] OTHER -> "wait"
    <3>0. l \in {"cas", "mark", "wait"}
      BY Zenon
    <3>1. pc' = [pc EXCEPT ![t] = l]
      BY <2>2 DEF ReadState, Move
    <3> HIDE DEF l
    <3> QED
      BY <1>0, <2>2, <3>0, <3>1, ExclusionKept DEF ReadState, TypeOK, Holding
  <2>3. CASE LockSlow(t)
    <3>1. CASE state = MUTEX_UNLOCKED
      BY <1>0, <2>3, <3>1, ExclusionTaken
         DEF LockSlow, Move, TypeOK, Holding, MUTEX_UNLOCKED, MUTEX_LOCKED_WITH_WAITERS
    <3>2. CASE state # MUTEX_UNLOCKED
      BY <1>0, <2>3, <3>2, ExclusionKept DEF LockSlow, Move, TypeOK, Holding
    <3> QED
      BY <3>1, <3>2
  <2>4. CASE MarkWaiters(t)
    BY <1>0, <2>4, ExclusionKept
       DEF MarkWaiters, Move, TypeOK, Holding,
           MUTEX_UNLOCKED, MUTEX_LOCKED, MUTEX_LOCKED_WITH_WAITERS
  <2>5. CASE FutexWait(t)
    BY <1>0, <2>5, ExclusionKept DEF FutexWait, Move, TypeOK, Holding
  <2> QED
    BY <1>3, <2>1, <2>2, <2>3, <2>4, <2>5 DEF InLock
<1>4. ASSUME NEW t \in Threads, SpuriousWake(t) PROVE ExclusionInv'
  BY <1>0, <1>4, ExclusionKept DEF SpuriousWake, Move, TypeOK, Holding
<1>5. ASSUME NEW t \in Threads, TryLock(t) PROVE ExclusionInv'
  BY <1>0, <1>5, ExclusionTaken
     DEF TryLock, Move, TypeOK, Holding, MUTEX_UNLOCKED, MUTEX_LOCKED
<1>6. ASSUME NEW t \in Threads, CheckOwner(t) PROVE ExclusionInv'
  BY <1>0, <1>6, ExclusionKept DEF CheckOwner, Move, TypeOK, Holding
<1>7. ASSUME NEW t \in Threads, Exchange(t) PROVE ExclusionInv'
  <2>1. pc[t] \in Holding /\ pc'[t] \notin Holding /\ state' = MUTEX_UNLOCKED
    BY <1>0, <1>7 DEF Exchange, Move, TypeOK, Holding
  <2>2. \A u \in Threads \ {t} : pc'[u] = pc[u]
    BY <1>0, <1>7 DEF Exchange, Move, TypeOK
  <2>3. \A u \in Threads : pc'[u] \notin Holding
    BY <2>1, <2>2 DEF ExclusionInv, MutualExclusion
  <2> QED
    BY <1>0, <2>1, <2>3 DEF ExclusionInv, MutualExclusion, StateMatchesHolder
<1>8. ASSUME NEW t \in Threads, FutexWake(t) PROVE ExclusionInv'
  BY <1>0, <1>8, ExclusionKept DEF FutexWake, Sleepers, Move, TypeOK, Holding
<1> QED
  BY <1>1, <1>2, <1>3, <1>4, <1>5, <1>6, <1>7, <1>8 DEF Next, Unlock

(* The strengthened invariant holds of every behaviour.                      *)
LEMMA ExclusionAlways == Spec => []ExclusionInv
BY ExclusionInit, ExclusionStep, PTL DEF Spec

(* For any number of threads at most one is between its successful           *)
(* compare-and-swap and its exchange.                                        *)
THEOREM Exclusion == Spec => []MutualExclusion
<1>1. ExclusionInv => MutualExclusion
  BY DEF ExclusionInv
<1> QED
  BY <1>1, ExclusionAlways, PTL

(* The word is MUTEX_UNLOCKED exactly when nobody is in that section.        *)
THEOREM WordMatchesHolder == Spec => []StateMatchesHolder
<1>1. ExclusionInv => StateMatchesHolder
  BY DEF ExclusionInv
<1> QED
  BY <1>1, ExclusionAlways, PTL
-----------------------------------------------------------------------------
(* No wake-up is lost *)

Responsible == Slow \cup {"wake"}

(* A word that says there are waiters is enough for the sleepers.            *)
LEMMA WakeupByState == state' = MUTEX_LOCKED_WITH_WAITERS => NoLostWakeup'
BY DEF NoLostWakeup

(* So is one thread in the loop of mutex_lock, or on its way to futex_wake.  *)
LEMMA WakeupByThread ==
  ASSUME NEW t \in Threads, pc'[t] \in Responsible
  PROVE  NoLostWakeup'
BY DEF NoLostWakeup, Responsible

(* A thread that is not responsible for any sleeper and does not go to sleep. *)
LEMMA WakeupKept ==
  ASSUME NoLostWakeup, NEW t \in Threads,
         pc[t] \notin Responsible, pc'[t] # "asleep",
         \A u \in Threads \ {t} : pc'[u] = pc[u],
         state = MUTEX_LOCKED_WITH_WAITERS => state' = MUTEX_LOCKED_WITH_WAITERS
  PROVE  NoLostWakeup'
<1> SUFFICES ASSUME Sleepers' # {}, state' # MUTEX_LOCKED_WITH_WAITERS
             PROVE  \E u \in Threads : pc'[u] \in Responsible
  BY DEF NoLostWakeup, Responsible
<1>1. Sleepers # {}
  BY DEF Sleepers
<1>2. PICK u \in Threads : pc[u] \in Responsible
  BY <1>1 DEF NoLostWakeup, Responsible
<1> QED
  BY <1>2

(* No step leaves sleepers behind without either.                            *)
LEMMA WakeupStep == TypeOK /\ NoLostWakeup /\ [Next]_vars => NoLostWakeup'
<1> SUFFICES ASSUME TypeOK, NoLostWakeup, [Next]_vars PROVE NoLostWakeup'
  OBVIOUS
<1> USE DEF Move, TypeOK, Responsible, Slow
<1>1. CASE UNCHANGED vars
  BY <1>1 DEF vars, NoLostWakeup, Sleepers
<1>2. ASSUME NEW t \in Threads, LockFast(t) PROVE NoLostWakeup'
  <2>1. CASE state = MUTEX_UNLOCKED
    BY <1>2, <2>1, WakeupKept DEF LockFast, MUTEX_UNLOCKED, MUTEX_LOCKED_WITH_WAITERS
  <2>2. CASE state # MUTEX_UNLOCKED
    BY <1>2, <2>2, WakeupByThread DEF LockFast
  <2> QED
    BY <2>1, <2>2
<1>3. ASSUME NEW t \in Threads, InLock(t) PROVE NoLostWakeup'
  <2>1. CASE SetOwner(t)
    BY <2>1, WakeupKept DEF SetOwner
  <2>2. CASE ReadState(t)
    <3> DEFINE l == CASE state = MUTEX_UNLOCKED -> "cas"
                      [] state = MUTEX_LOCKED -> "mark"
                      [] OTHER -> "wait"
    <3>1. l \in Responsible
      BY Zenon
    <3>2. pc' = [pc EXCEPT ![t] = l]
      BY <2>2 DEF ReadState
    <3> HIDE DEF l
    <3> QED
      BY <3>1, <3>2, WakeupByThread
  <2>3. CASE LockSlow(t)
    <3>1. CASE state = MUTEX_UNLOCKED
      BY <2>3, <3>1, WakeupByState DEF LockSlow
    <3>2. CASE state # MUTEX_UNLOCKED
      BY <2>3, <3>2, WakeupByThread DEF LockSlow
    <3> QED
      BY <3>1, <3>2
  <2>4. CASE MarkWaiters(t)
    BY <2>4, WakeupByThread DEF MarkWaiters
  <2>5. CASE FutexWait(t)
    <3>1. CASE state = MUTEX_LOCKED_WITH_WAITERS
      BY <2>5, <3>1, WakeupByState DEF FutexWait
    <3>2. CASE state # MUTEX_LOCKED_WITH_WAITERS
      BY <2>5, <3>2, WakeupByThread DEF FutexWait
    <3> QED
      BY <3>1, <3>2
  <2> QED
    BY <1>3, <2>1, <2>2, <2>3, <2>4, <2>5 DEF InLock
<1>4. ASSUME NEW t \in Threads, SpuriousWake(t) PROVE NoLostWakeup'
  BY <1>4, WakeupByThread DEF SpuriousWake
<1>5. ASSUME NEW t \in Threads, TryLock(t) PROVE NoLostWakeup'
  BY <1>5, WakeupKept DEF TryLock, MUTEX_UNLOCKED, MUTEX_LOCKED_WITH_WAITERS
<1>6. ASSUME NEW t \in Threads, CheckOwner(t) PROVE NoLostWakeup'
  BY <1>6, WakeupKept DEF CheckOwner
<1>7. ASSUME NEW t \in Threads, Exchange(t) PROVE NoLostWakeup'
  <2>1. CASE state = MUTEX_LOCKED_WITH_WAITERS
    BY <1>7, <2>1, WakeupByThread DEF Exchange
  <2>2. CASE state # MUTEX_LOCKED_WITH_WAITERS
    BY <1>7, <2>2, WakeupKept DEF Exchange
  <2> QED
    BY <2>1, <2>2
<1>8. ASSUME NEW t \in Threads, FutexWake(t) PROVE NoLostWakeup'
  <2>1. CASE Sleepers = {}
    BY <1>8, <2>1 DEF FutexWake, Sleepers, NoLostWakeup
  <2>2. CASE Sleepers # {}
    <3>1. PICK u \in Sleepers : pc' = [pc EXCEPT ![t] = "idle", ![u] = "loop"]
      BY <1>8, <2>2 DEF FutexWake
    <3>2. u \in Threads /\ pc'[u] = "loop"
      BY <3>1 DEF Sleepers
    <3> QED
      BY <3>2, WakeupByThread
  <2> QED
    BY <2>1, <2>2
<1> QED
  BY <1>1, <1>2, <1>3, <1>4, <1>5, <1>6, <1>7, <1>8 DEF Next, Unlock

(* Nobody is left asleep in FUTEX_WAIT with no one to wake him: neither the  *)
(* word, nor an unlocker, nor a thread in the loop of mutex_lock.            *)
THEOREM WakeupsKept == Spec => []NoLostWakeup
<1>1. Init => NoLostWakeup
  BY DEF Init, NoLostWakeup, Sleepers
<1> QED
  BY <1>1, TypeCorrect, WakeupStep, PTL DEF Spec
-----------------------------------------------------------------------------
(* The mutex is a lock *)

(* The refinement mapping names the thread that holds the mutex ...          *)
LEMMA HolderIs ==
  ASSUME MutualExclusion, NEW t \in Threads, pc[t] \in Holding
  PROVE  Holder = t
BY DEF MutualExclusion, Holder

(* ... and nobody when there is none.                                        *)
LEMMA HolderIsNobody ==
  ASSUME \A t \in Threads : pc[t] \notin Holding
  PROVE  Holder = NoThread
BY DEF Holder

(* The holder stays the holder when nobody crosses the border of Holding.    *)
LEMMA HolderKept ==
  ASSUME ExclusionInv, ExclusionInv',
         \A u \in Threads : pc'[u] \in Holding <=> pc[u] \in Holding
  PROVE  Holder' = Holder
<1>1. CASE \A t \in Threads : pc[t] \notin Holding
  BY <1>1 DEF Holder
<1>2. ASSUME NEW t \in Threads, pc[t] \in Holding PROVE Holder' = Holder
  <2>1. Holder = t
    BY <1>2, HolderIs DEF ExclusionInv
  <2>2. Holder' = t
    BY <1>2 DEF ExclusionInv, MutualExclusion, Holder
  <2> QED
    BY <2>1, <2>2
<1> QED
  BY <1>1, <1>2

(* Each step acquires or releases the abstract lock, or leaves it alone.     *)
LEMMA LockRefinement ==
  ASSUME ExclusionInv, ExclusionInv', [Next]_vars
  PROVE  [AbstractLock!LockNext]_Holder
<1>0. TypeOK /\ TypeOK'
  BY DEF ExclusionInv
<1>a. ASSUME NEW t \in Threads, state = MUTEX_UNLOCKED, pc'[t] \in Holding
      PROVE  AbstractLock!LockNext
  <2>1. Holder = NoThread
    BY <1>a, HolderIsNobody DEF ExclusionInv, StateMatchesHolder
  <2>2. Holder' = t
    BY <1>a DEF ExclusionInv, MutualExclusion, Holder
  <2> QED
    BY <2>1, <2>2 DEF AbstractLock!LockNext, AbstractLock!Acquire
<1>b. ASSUME NEW t \in Threads, Exchange(t)
      PROVE  AbstractLock!LockNext
  <2>1. Holder = t
    BY <1>b, HolderIs DEF ExclusionInv, Exchange, Holding
  <2>2. Holder' = NoThread
    BY <1>b DEF ExclusionInv, StateMatchesHolder, Holder, Exchange
  <2> QED
    BY <2>1, <2>2 DEF AbstractLock!LockNext, AbstractLock!Release
<1>c. ASSUME \A u \in Threads : pc'[u] \in Holding <=> pc[u] \in Holding
      PROVE  UNCHANGED Holder
  BY <1>c, HolderKept
<1> USE DEF Move, TypeOK, Holding
<1>1. CASE UNCHANGED vars
  BY <1>1, <1>c DEF vars
<1>2. ASSUME NEW t \in Threads, LockFast(t) PROVE [AbstractLock!LockNext]_Holder
  BY <1>0, <1>2, <1>a, <1>c DEF LockFast
<1>3. ASSUME NEW t \in Threads, InLock(t) PROVE [AbstractLock!LockNext]_Holder
  <2>1. CASE SetOwner(t)
    BY <1>0, <2>1, <1>c DEF SetOwner
  <2>2. CASE ReadState(t)
    <3> DEFINE l == CASE state = MUTEX_UNLOCKED -> "cas"
                      [] state = MUTEX_LOCKED -> "mark"
                      [] OTHER -> "wait"
    <3>1. l \in {"cas", "mark", "wait"}
      BY Zenon
    <3>2. pc[t] = "loop" /\ pc' = [pc EXCEPT ![t] = l]
      BY <2>2 DEF ReadState
    <3> HIDE DEF l
    <3> QED
      BY <1>0, <3>1, <3>2, <1>c
  <2>3. CASE LockSlow(t)
    BY <1>0, <2>3, <1>a, <1>c DEF LockSlow
  <2>4. CASE MarkWaiters(t)
    BY <1>0, <2>4, <1>c DEF MarkWaiters
  <2>5. CASE FutexWait(t)
    BY <1>0, <2>5, <1>c DEF FutexWait
  <2> QED
    BY <1>3, <2>1, <2>2, <2>3, <2>4, <2>5 DEF InLock
<1>4. ASSUME NEW t \in Threads, SpuriousWake(t) PROVE [AbstractLock!LockNext]_Holder
  BY <1>0, <1>4, <1>c DEF SpuriousWake
<1>5. ASSUME NEW t \in Threads, TryLock(t) PROVE [AbstractLock!LockNext]_Holder
  BY <1>0, <1>5, <1>a DEF TryLock
<1>6. ASSUME NEW t \in Threads, CheckOwner(t) PROVE [AbstractLock!LockNext]_Holder
  BY <1>0, <1>6, <1>c DEF CheckOwner
<1>7. ASSUME NEW t \in Threads, FutexWake(t) PROVE [AbstractLock!LockNext]_Holder
  BY <1>0, <1>7, <1>c DEF FutexWake, Sleepers
<1> QED
  BY <1>1, <1>2, <1>3, <1>4, <1>5, <1>6, <1>7, <1>b DEF Next, Unlock

(* The futex mutex keeps the promise of LockPromise: whatever is true of a   *)
(* client of that lock is true of a client of mutex_lock, mutex_trylock and  *)
(* mutex_unlock.                                                             *)
THEOREM MutexImplementsLock == Spec => ImplementsLock
<1>1. Init => AbstractLock!LockInit
  BY HolderIsNobody DEF Init, Holding, AbstractLock!LockInit
<1> QED
  BY <1>1, ExclusionAlways, LockRefinement, PTL DEF Spec, ImplementsLock, AbstractLock!LockSpec
-----------------------------------------------------------------------------
(* The spinlock *)

SpinInv == Spin!TypeOK /\ Spin!MutualExclusion /\ Spin!LockMatchesHolder

(* A lock that has just been initialised is free.                            *)
LEMMA SpinInit == Spin!Init => SpinInv
BY DEF Spin!Init, SpinInv, Spin!TypeOK, Spin!MutualExclusion, Spin!LockMatchesHolder

(* No compare-and-swap lets a second thread in, and no store throws one out. *)
LEMMA SpinStep == SpinInv /\ [Spin!Next]_Spin!vars => SpinInv'
<1> SUFFICES ASSUME SpinInv, [Spin!Next]_Spin!vars PROVE SpinInv'
  OBVIOUS
<1> USE DEF SpinInv, Spin!TypeOK, Spin!MutualExclusion, Spin!LockMatchesHolder, Spin!Move
<1>1. CASE UNCHANGED Spin!vars
  BY <1>1 DEF Spin!vars
<1>2. ASSUME NEW t \in Threads, Spin!LockCAS(t) PROVE SpinInv'
  <2>1. CASE lock = 0
    BY <1>2, <2>1 DEF Spin!LockCAS
  <2>2. CASE lock # 0
    BY <1>2, <2>2 DEF Spin!LockCAS
  <2> QED
    BY <2>1, <2>2
<1>3. ASSUME NEW t \in Threads, Spin!TryLock(t) PROVE SpinInv'
  BY <1>3 DEF Spin!TryLock
<1>4. ASSUME NEW t \in Threads, Spin!Unlock(t) PROVE SpinInv'
  BY <1>4 DEF Spin!Unlock
<1> QED
  BY <1>1, <1>2, <1>3, <1>4 DEF Spin!Next

(* For any number of threads at most one is between its compare-and-swap and *)
(* its store, and the word says whether there is one.                        *)
THEOREM SpinExclusion == Spin!Spec => [](Spin!MutualExclusion /\ Spin!LockMatchesHolder)
<1>1. SpinInv => Spin!MutualExclusion /\ Spin!LockMatchesHolder
  BY DEF SpinInv
<1> QED
  BY <1>1, SpinInit, SpinStep, PTL DEF Spin!Spec
-----------------------------------------------------------------------------
(* Taking the spinlock acquires the abstract lock.                           *)
LEMMA SpinAcquires ==
  ASSUME SpinInv, SpinInv', NEW t \in Threads, lock = 0, spc'[t] = "cs"
  PROVE  Spin!AbstractLock!LockNext
<1>1. Spin!Holder = NoThread
  BY DEF SpinInv, Spin!LockMatchesHolder, Spin!Holder
<1>2. Spin!Holder' = t
  BY DEF SpinInv, Spin!MutualExclusion, Spin!Holder
<1> QED
  BY <1>1, <1>2 DEF Spin!AbstractLock!LockNext, Spin!AbstractLock!Acquire

(* The store of spinlock_unlock releases it.                                 *)
LEMMA SpinReleases ==
  ASSUME SpinInv, SpinInv', NEW t \in Threads, Spin!Unlock(t)
  PROVE  Spin!AbstractLock!LockNext
<1>1. Spin!Holder = t
  BY DEF SpinInv, Spin!MutualExclusion, Spin!Holder, Spin!Unlock
<1>2. Spin!Holder' = NoThread
  BY DEF SpinInv, Spin!LockMatchesHolder, Spin!Holder, Spin!Unlock
<1> QED
  BY <1>1, <1>2 DEF Spin!AbstractLock!LockNext, Spin!AbstractLock!Release

(* A compare-and-swap that fails leaves it alone.                            *)
LEMMA SpinFails ==
  ASSUME SpinInv, NEW t \in Threads, Spin!LockCAS(t), lock # 0
  PROVE  UNCHANGED Spin!Holder
<1>1. \A u \in Threads : spc'[u] = "cs" <=> spc[u] = "cs"
  BY DEF SpinInv, Spin!TypeOK, Spin!LockCAS, Spin!Move
<1>2. CASE \A u \in Threads : spc[u] # "cs"
  BY <1>1, <1>2 DEF Spin!Holder
<1>3. ASSUME NEW u \in Threads, spc[u] = "cs" PROVE UNCHANGED Spin!Holder
  <2>1. \A v \in Threads : spc[v] = "cs" => v = u
    BY <1>3 DEF SpinInv, Spin!MutualExclusion
  <2>2. Spin!Holder = u
    BY <1>3, <2>1 DEF Spin!Holder
  <2>3. Spin!Holder' = u
    BY <1>1, <1>3, <2>1 DEF Spin!Holder
  <2> QED
    BY <2>2, <2>3
<1> QED
  BY <1>2, <1>3

(* The spinlock keeps the promise of LockPromise, whatever the number of     *)
(* threads that spin on it.                                                  *)
THEOREM SpinImplementsLock == Spin!Spec => Spin!ImplementsLock
<1>1. Spin!Init => Spin!AbstractLock!LockInit
  BY DEF Spin!Init, Spin!Holder, Spin!AbstractLock!LockInit
<1>2. ASSUME SpinInv, SpinInv', [Spin!Next]_Spin!vars PROVE [Spin!AbstractLock!LockNext]_Spin!Holder
  <2>1. CASE UNCHANGED Spin!vars
    BY <2>1 DEF Spin!vars, Spin!Holder
  <2>2. ASSUME NEW t \in Threads, Spin!LockCAS(t) PROVE [Spin!AbstractLock!LockNext]_Spin!Holder
    <3>1. CASE lock = 0
      BY <1>2, <2>2, <3>1, SpinAcquires DEF SpinInv, Spin!TypeOK, Spin!LockCAS, Spin!Move
    <3>2. CASE lock # 0
      BY <1>2, <2>2, <3>2, SpinFails
    <3> QED
      BY <3>1, <3>2
  <2>3. ASSUME NEW t \in Threads, Spin!TryLock(t) PROVE [Spin!AbstractLock!LockNext]_Spin!Holder
    BY <1>2, <2>3, SpinAcquires DEF SpinInv, Spin!TypeOK, Spin!TryLock, Spin!Move
  <2>4. ASSUME NEW t \in Threads, Spin!Unlock(t) PROVE [Spin!AbstractLock!LockNext]_Spin!Holder
    BY <1>2, <2>4, SpinReleases
  <2> QED
    BY <1>2, <2>1, <2>2, <2>3, <2>4 DEF Spin!Next
<1> QED
  BY <1>1, <1>2, SpinInit, SpinStep, PTL DEF Spin!Spec, Spin!ImplementsLock, Spin!AbstractLock!LockSpec
=============================================================================
