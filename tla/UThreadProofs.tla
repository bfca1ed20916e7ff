--------------------------- MODULE UThreadProofs ---------------------------
(***************************************************************************)
(* What the user-level threads promise for any number of threads, of       *)
(* wanted threads and of iterations.  The scheduler reads copy_completed,  *)
(* which stays empty, so the search of uthread_yield always stops at the   *)
(* next slot: the processor goes round all slots, the finished threads     *)
(* included, and whoever is before it in the round is one iteration ahead. *)
(***************************************************************************)
EXTENDS UThread, TLAPS

(* A thread is in its wrapper exactly when it has returned; main gets the    *)
(* processor back from nobody.                                               *)
Places ==
  /\ \A k \in Slots : resume[k] = "wrapper" <=> k \in completed
  /\ cpu = current_thread
  /\ cpu = -1 => completed = {} /\ \A k \in Slots : iteration[k] = 0
  /\ main \in {"creating", "joining"} => cpu = -1

(* The round under way: the slots before the processor have done one more    *)
(* iteration than the slots from it on.                                      *)
Round(n) ==
  \A k \in Created \ completed : iteration[k] = IF k < cpu THEN n + 1 ELSE n

UInv == TypeOK /\ copy_completed = {} /\ Places /\ \E n \in Int : Round(n)

NextSlot == IF current_thread + 1 < thread_count THEN current_thread + 1 ELSE 0

(* The least of a set of positive numbers with 1 in it is 1.                 *)
LEMMA LeastIsOne ==
  ASSUME NEW S, S \subseteq Nat \ {0}, 1 \in S
  PROVE  (CHOOSE k \in S : \A j \in S : k <= j) = 1
<1> DEFINE P(k) == k \in S /\ \A j \in S : k <= j
<1> DEFINE m == CHOOSE k : P(k)
<1>1. P(1)
  OBVIOUS
<1>2. P(m)
  BY <1>1, Zenon
<1>3. (CHOOSE k \in S : \A j \in S : k <= j) = m
  OBVIOUS
<1>4. m \in S /\ m <= 1
  BY <1>2
<1> HIDE DEF m
<1>5. m = 1
  BY <1>4
<1> QED
  BY <1>3, <1>5

(* (c + 1) % N is the next slot of the round.                                *)
LEMMA Wraps ==
  ASSUME NEW N \in Nat \ {0}, NEW c \in -1 .. N - 1
  PROVE  (c + 1) % N = IF c + 1 < N THEN c + 1 ELSE 0
<1>1. CASE c + 1 < N
  <2> DEFINE d == c + 1
  <2>1. d \in Nat /\ d < N
    BY <1>1
  <2> HIDE DEF d
  <2>2. d % N = d
    BY <2>1
  <2> QED
    BY <2>1, <2>2 DEF d
<1>2. CASE ~(c + 1 < N)
  <2>1. c + 1 = N
    BY <1>2
  <2>2. N % N = 0
    OBVIOUS
  <2> QED
    BY <1>2, <2>1, <2>2
<1> QED
  BY <1>1, <1>2

(* The slots of a table with n threads.                                      *)
LEMMA SlotsBelow ==
  ASSUME NEW n \in Nat
  PROVE  -1 \in -1 .. n - 1 /\ \A k : k \in 0 .. n - 1 <=> k \in Nat /\ k < n
OBVIOUS

(* uthread_yield gives the processor to the next slot, finished or not.      *)
LEMMA YieldsToNext ==
  ASSUME UInv, thread_count # 0, Yield
  PROVE  current_thread' = NextSlot /\ cpu' = NextSlot
<1>1. thread_count \in Nat \ {0} /\ current_thread \in -1 .. thread_count - 1
  BY UThreadAssumption DEF UInv, TypeOK
<1>2. Candidates = 1 .. thread_count
  BY DEF UInv, Candidates
<1>3. 1 \in Candidates /\ Candidates \subseteq Nat \ {0}
  BY <1>1, <1>2
<1>4. (CHOOSE k \in Candidates : \A j \in Candidates : k <= j) = 1
  BY <1>3, LeastIsOne
<1>5. After(1) = NextSlot
  BY <1>1, Wraps DEF After, NextSlot
<1> QED
  BY <1>3, <1>4, <1>5 DEF Yield
-----------------------------------------------------------------------------
(* Nobody has run yet when main starts.                                      *)
LEMMA UThreadInit == Init => UInv
<1> SUFFICES ASSUME Init PROVE UInv
  OBVIOUS
<1>1. TypeOK /\ copy_completed = {} /\ Places
  BY UThreadAssumption DEF Init, TypeOK, Places, Slots, Created
<1>2. Round(0)
  BY DEF Init, Round, Created, Slots
<1> QED
  BY <1>1, <1>2 DEF UInv

(* main creates threads only before any of them has run.                     *)
LEMMA CreateKeeps ==
  ASSUME UInv, Create
  PROVE  UInv'
<1>0. TypeOK /\ Places /\ copy_completed = {} /\ MAX_THREADS \in Nat
  BY UThreadAssumption DEF UInv
<1>1. thread_count \in Nat /\ cpu = -1 /\ current_thread = -1 /\ completed = {}
  BY <1>0 DEF Create, Places, TypeOK
<1>2. completed' = {} /\ copy_completed' = {}
  BY <1>0, <1>1 DEF Create
<1>3. thread_count' \in 0 .. MAX_THREADS
  BY <1>0 DEF Create, TypeOK
<1>4. main' \in {"creating", "exited"}
  BY DEF Create
<1>5. UNCHANGED <<current_thread, cpu, resume, iteration, rounds, wanted>>
  BY DEF Create, turn, program
<1>6. TypeOK'
  <2>1. thread_count' \in Nat
    BY <1>0, <1>3
  <2>2. -1 \in -1 .. thread_count' - 1
    BY <2>1, SlotsBelow
  <2>3. current_thread' = -1 /\ cpu' = -1
    BY <1>1, <1>5
  <2>4. current_thread' \in -1 .. thread_count' - 1 /\ cpu' \in {-1, current_thread'}
    BY <2>2, <2>3, Zenon
  <2> QED
    BY <1>0, <1>2, <1>3, <1>4, <1>5, <2>4 DEF TypeOK
<1>7. Places'
  BY <1>0, <1>1, <1>2, <1>4, <1>5 DEF Places
<1>8. ASSUME NEW k \in Created' PROVE k \in Slots /\ ~(k < -1)
  <2>1. MAX_THREADS \in Nat /\ thread_count' \in Nat /\ thread_count' <= MAX_THREADS
    BY <1>0, <1>3
  <2>2. k \in Nat /\ k < thread_count'
    BY <1>8, <2>1, SlotsBelow DEF Created
  <2>3. k \in 0 .. MAX_THREADS - 1
    BY <2>1, <2>2
  <2> QED
    BY <2>3 DEF Slots
<1>9. \A k \in Created' \ completed' : iteration'[k] = 0 /\ ~(k < cpu')
  BY <1>0, <1>1, <1>5, <1>8 DEF Places
<1>10. Round(0)'
  BY <1>9 DEF Round
<1> QED
  BY <1>2, <1>6, <1>7, <1>10 DEF UInv

(* A step of main that changes only where main is.                           *)
LEMMA MainMoves ==
  ASSUME UInv, main' \in {"scheduling", "joining", "exited"}, main' = "joining" => cpu = -1,
         UNCHANGED <<thread_count, turn, copy_completed, completed, resume, iteration, program>>
  PROVE  UInv'
<1> USE DEF UInv, turn, program
<1>1. TypeOK'
  BY DEF TypeOK, Created
<1>2. Places'
  BY DEF Places
<1>3. PICK n \in Int : Round(n)
  OBVIOUS
<1>4. Round(n)'
  BY <1>3 DEF Round, Created
<1> QED
  BY <1>1, <1>2, <1>4

(* main hands the processor to slot 0.                                       *)
LEMMA MainYields ==
  ASSUME UInv, main = "scheduling", cpu = -1, thread_count # 0, Yield, UNCHANGED main,
         UNCHANGED <<thread_count, copy_completed, completed, resume, iteration, program>>
  PROVE  UInv'
<1> USE DEF UInv
<1>1. thread_count \in Nat \ {0} /\ current_thread = -1
  BY DEF TypeOK, Places
<1>2. cpu' = 0 /\ current_thread' = 0
  BY <1>1, YieldsToNext DEF NextSlot
<1>3. TypeOK'
  BY <1>1, <1>2 DEF TypeOK, program, Created
<1>4. Places'
  BY <1>2 DEF Places
<1>5. Created \subseteq Slots
  BY UThreadAssumption DEF TypeOK, Created, Slots
<1>6. \A k \in Created \ completed : iteration[k] = 0 /\ ~(k < 0)
  BY <1>1, <1>5 DEF Places, Created
<1>7. Round(0)'
  BY <1>2, <1>6 DEF Round, Created
<1> QED
  BY <1>3, <1>4, <1>7

(* The thread that runs has done its share of the round, or has finished,    *)
(* when it yields.                                                           *)
LEMMA RoundAdvances ==
  ASSUME UInv, NEW k \in Slots, cpu = k, NEW n \in Int, Round(n),
         UNCHANGED thread_count, cpu' = NextSlot, completed \subseteq completed',
         k \in completed' \/ iteration'[k] = n + 1,
         \A j \in Slots \ {k} : iteration'[j] = iteration[j]
  PROVE  \E m \in Int : Round(m)'
<1> USE DEF UInv
<1>1. /\ thread_count \in Nat /\ thread_count <= MAX_THREADS
      /\ current_thread = k /\ k < thread_count /\ k \in Nat
  BY UThreadAssumption DEF TypeOK, Places, Slots
<1>2. Created \subseteq Slots /\ Created \subseteq Nat /\ Created' = Created
  BY <1>1, UThreadAssumption DEF Created, Slots
<1>3. ASSUME NEW j \in Created \ completed'
      PROVE  iteration'[j] = IF j <= k THEN n + 1 ELSE n
  <2>1. CASE j = k
    BY <1>1, <1>3, <2>1
  <2>2. CASE j # k
    <3>1. iteration'[j] = iteration[j] /\ j \in Created \ completed
      BY <1>2, <1>3, <2>2
    <3>2. iteration[j] = IF j < k THEN n + 1 ELSE n
      BY <3>1 DEF Round
    <3>3. j \in Nat /\ (j <= k <=> j < k)
      BY <1>1, <1>2, <1>3, <2>2
    <3> QED
      BY <3>1, <3>2, <3>3
  <2> QED
    BY <2>1, <2>2
<1>4. CASE k + 1 < thread_count
  <2>1. cpu' = k + 1
    BY <1>1, <1>4 DEF NextSlot
  <2>2. Round(n)'
    BY <1>1, <1>2, <1>3, <2>1 DEF Round
  <2> QED
    BY <2>2
<1>5. CASE ~(k + 1 < thread_count)
  <2>1. cpu' = 0
    BY <1>1, <1>5 DEF NextSlot
  <2>2. \A j \in Created : j <= k /\ ~(j < 0)
    BY <1>1, <1>5 DEF Created
  <2>3. Round(n + 1)'
    BY <1>2, <1>3, <2>1, <2>2 DEF Round
  <2> QED
    BY <2>3
<1> QED
  BY <1>4, <1>5

(* uthread_yield leaves the processor on a slot that was created.            *)
LEMMA ThreadYields ==
  ASSUME UInv, NEW k \in Slots, Running(k), Yield
  PROVE  /\ cpu' = NextSlot /\ current_thread' = NextSlot
         /\ thread_count \in Nat \ {0} /\ NextSlot \in Created
         /\ k \in Created /\ main = "scheduling"
<1>1. current_thread = k /\ k \in Nat /\ thread_count \in Nat /\ k < thread_count
  BY UThreadAssumption DEF UInv, TypeOK, Places, Running, Slots
<1>2. cpu' = NextSlot /\ current_thread' = NextSlot
  BY <1>1, YieldsToNext
<1>3. NextSlot \in Created /\ k \in Created
  BY <1>1 DEF NextSlot, Created
<1> QED
  BY <1>1, <1>2, <1>3 DEF Running

(* An iteration of a worker, with the uthread_yield at its end.              *)
LEMMA IterateKeeps ==
  ASSUME UInv, NEW k \in Slots, WorkerIterates(k)
  PROVE  UInv'
<1>0. TypeOK /\ Places /\ copy_completed = {}
  BY DEF UInv
<1>1. PICK n \in Int : Round(n)
  BY DEF UInv
<1>2. /\ cpu' = NextSlot /\ current_thread' = NextSlot
      /\ thread_count \in Nat \ {0} /\ NextSlot \in Created
      /\ k \in Created /\ main = "scheduling"
  BY ThreadYields DEF WorkerIterates
<1>3. k \notin completed
  BY <1>0 DEF WorkerIterates, Places
<1>4. iteration' = [iteration EXCEPT ![k] = iteration[k] + 1] /\ cpu = k /\ k \in Nat
  BY <1>2 DEF WorkerIterates, Running, Created
<1>5. iteration[k] = n
  BY <1>1, <1>2, <1>3, <1>4 DEF Round
<1>6. iteration'[k] = n + 1 /\ \A j \in Slots \ {k} : iteration'[j] = iteration[j]
  BY <1>0, <1>4, <1>5 DEF TypeOK
<1>7. UNCHANGED <<thread_count, copy_completed, completed, resume, rounds, wanted, main>>
  BY DEF WorkerIterates, program
<1>8. \E m \in Int : Round(m)'
  BY <1>1, <1>2, <1>4, <1>6, <1>7, RoundAdvances
<1>9. NextSlot \in 0 .. thread_count - 1
  BY <1>2 DEF Created
<1>10. iteration' \in [Slots -> 0 .. MaxRounds]
  <2>1. iteration[k] + 1 \in 0 .. MaxRounds
    <3>1. iteration[k] \in 0 .. MaxRounds /\ rounds[k] \in 0 .. MaxRounds
      BY <1>0 DEF TypeOK
    <3>2. iteration[k] < rounds[k]
      BY DEF WorkerIterates
    <3> QED
      BY <3>1, <3>2, UThreadAssumption
  <2> QED
    BY <1>0, <1>4, <2>1 DEF TypeOK
<1>11. TypeOK'
  BY <1>0, <1>2, <1>7, <1>9, <1>10 DEF TypeOK, Created
<1>12. Places'
  BY <1>0, <1>2, <1>7, <1>9 DEF Places
<1> QED
  BY <1>0, <1>7, <1>8, <1>11, <1>12 DEF UInv

(* The end of a worker's routine, with the uthread_yield of uthread_wrapper. *)
LEMMA ReturnKeeps ==
  ASSUME UInv, NEW k \in Slots, WorkerReturns(k)
  PROVE  UInv'
<1>0. TypeOK /\ Places /\ copy_completed = {}
  BY DEF UInv
<1>1. PICK n \in Int : Round(n)
  BY DEF UInv
<1>2. /\ cpu' = NextSlot /\ current_thread' = NextSlot
      /\ thread_count \in Nat \ {0} /\ NextSlot \in Created
      /\ k \in Created /\ main = "scheduling"
  BY ThreadYields DEF WorkerReturns
<1>3. cpu = k /\ completed' = completed \cup {k}
      /\ resume' = [resume EXCEPT ![k] = "wrapper"]
  BY DEF WorkerReturns, Running
<1>4. UNCHANGED <<thread_count, copy_completed, iteration, rounds, wanted, main>>
  BY DEF WorkerReturns, program
<1>5. \E m \in Int : Round(m)'
  BY <1>1, <1>2, <1>3, <1>4, RoundAdvances
<1>6. NextSlot \in 0 .. thread_count - 1
  BY <1>2 DEF Created
<1>7. TypeOK'
  BY <1>0, <1>2, <1>3, <1>4, <1>6 DEF TypeOK, Created
<1>8. Places'
  <2>1. \A j \in Slots : resume'[j] = "wrapper" <=> j \in completed'
    BY <1>0, <1>3 DEF TypeOK, Places
  <2>2. cpu' = current_thread' /\ cpu' # -1 /\ main' = "scheduling"
    BY <1>2, <1>4, <1>6
  <2> QED
    BY <2>1, <2>2 DEF Places
<1> QED
  BY <1>0, <1>4, <1>5, <1>7, <1>8 DEF UInv

(* Every step, of main or of a thread, keeps the round.                      *)
LEMMA UThreadStep == UInv /\ [Next]_vars => UInv'
<1> SUFFICES ASSUME UInv, [Next]_vars PROVE UInv'
  OBVIOUS
<1>0. main \in {"creating", "scheduling", "joining", "exited"}
  BY DEF UInv, TypeOK
<1>1. CASE UNCHANGED vars
  <2>1. UNCHANGED <<thread_count, turn, copy_completed, completed, resume, iteration, program,
                    main>>
    BY <1>1 DEF vars
  <2>2. TypeOK' /\ Places'
    BY <2>1 DEF UInv, TypeOK, Places, turn, program, Created
  <2>3. PICK n \in Int : Round(n)
    BY DEF UInv
  <2>4. Round(n)'
    BY <2>1, <2>3 DEF Round, turn, Created
  <2> QED
    BY <2>1, <2>2, <2>4 DEF UInv
<1>2. CASE Create
  BY <1>2, CreateKeeps
<1>3. CASE Schedule
  BY <1>3, MainMoves DEF Schedule
<1>4. CASE MainStep
  <2>1. CASE Created \subseteq copy_completed
    BY <1>4, <2>1, MainMoves DEF MainStep
  <2>2. CASE ~(Created \subseteq copy_completed)
    <3>1. thread_count # 0
      BY <2>2 DEF Created
    <3> QED
      BY <1>4, <2>2, <3>1, MainYields DEF MainStep
  <2> QED
    BY <2>1, <2>2
<1>5. CASE Finish
  BY <1>5, MainMoves DEF Finish
<1>6. ASSUME NEW k \in Slots, Thread(k) PROVE UInv'
  <2>1. CASE WorkerIterates(k)
    BY <2>1, IterateKeeps
  <2>2. CASE WorkerReturns(k)
    BY <2>2, ReturnKeeps
  <2>3. CASE WrapperReturns(k)
    BY <2>3, MainMoves DEF WrapperReturns
  <2> QED
    BY <1>6, <2>1, <2>2, <2>3 DEF Thread
<1> QED
  BY <1>1, <1>2, <1>3, <1>4, <1>5, <1>6 DEF Next

(* The table never overflows, and the processor is main's or a created       *)
(* thread's.                                                                 *)
THEOREM UThreadTypes == Spec => []TypeOK
<1>1. UInv => TypeOK
  BY DEF UInv
<1> QED
  BY <1>1, UThreadInit, UThreadStep, PTL DEF Spec

(* For any number of threads and any numbers of iterations, of two           *)
(* unfinished threads the one created first is level or one iteration ahead: *)
(* uthread_yield serves all of them in turn.                                 *)
THEOREM UThreadsTakeTurns == Spec => []RoundRobin
<1>1. UInv => RoundRobin
  <2> SUFFICES ASSUME UInv, NEW a \in Created \ completed, NEW b \in Created \ completed, a < b
               PROVE  iteration[a] - iteration[b] \in {0, 1}
    BY DEF RoundRobin
  <2>1. PICK n \in Int : Round(n)
    BY DEF UInv
  <2>2. /\ iteration[a] = IF a < cpu THEN n + 1 ELSE n
        /\ iteration[b] = IF b < cpu THEN n + 1 ELSE n
    BY <2>1 DEF Round
  <2>3. a \in Int /\ b \in Int /\ cpu \in Int
    BY UThreadAssumption DEF UInv, TypeOK, Created
  <2>4. b < cpu => a < cpu
    BY <2>3
  <2> QED
    BY <2>2, <2>4
<1> QED
  BY <1>1, UThreadInit, UThreadStep, PTL DEF Spec

(* A thread that has returned never enters its routine again, although the   *)
(* scheduler, which does not see that it has, resumes it every round.        *)
THEOREM UThreadsRunOnce == Spec => RunsOnce
<1>1. ASSUME UInv, [Next]_vars
      PROVE  [\A k \in completed : k \in completed' /\ iteration'[k] = iteration[k]]_vars
  <2> SUFFICES ASSUME NEW k \in completed
               PROVE  k \in completed' /\ iteration'[k] = iteration[k]
    OBVIOUS
  <2>0. TypeOK /\ Places
    BY <1>1 DEF UInv
  <2>1. thread_count \in Nat /\ completed \subseteq Created
    BY <2>0 DEF TypeOK
  <2>2. k \in Created /\ k \in Slots
    BY <2>0, <2>1, UThreadAssumption DEF TypeOK, Created, Slots
  <2>3. CASE Create
    <3>1. k # thread_count
      BY <2>1, <2>2 DEF Created
    <3> QED
      BY <2>3, <3>1 DEF Create
  <2>4. ASSUME NEW j \in Slots, WorkerIterates(j)
        PROVE  k \in completed' /\ iteration'[k] = iteration[k]
    <3>1. resume[k] = "wrapper" /\ resume[j] = "worker"
      BY <2>0, <2>2, <2>4 DEF Places, WorkerIterates
    <3> QED
      BY <2>0, <2>2, <2>4, <3>1 DEF WorkerIterates, TypeOK
  <2>5. ASSUME NEW j \in Slots, WorkerReturns(j) \/ WrapperReturns(j)
        PROVE  k \in completed' /\ iteration'[k] = iteration[k]
    BY <2>5 DEF WorkerReturns, WrapperReturns
  <2> QED
    BY <1>1, <2>3, <2>4, <2>5 DEF Next, Schedule, MainStep, Finish, Thread, vars
<1> QED
  BY <1>1, UThreadInit, UThreadStep, PTL DEF Spec, RunsOnce
=============================================================================
