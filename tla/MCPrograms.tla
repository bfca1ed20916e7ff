------------------------------ MODULE MCPrograms ------------------------------
(***************************************************************************)
(* The programs as the repository runs them, one writer and one reader,    *)
(* side by side: the queues on locks of the C library, and the queues of   *)
(* src/2.4 with their monitor on the two hand-made locks.  variant says    *)
(* which program runs; what it does not use stays as it is.                *)
(***************************************************************************)
EXTENDS MCQueues, MonitoredQueue

VARIABLES lock, spc, state, owner, mtx, error

Spin == INSTANCE SpinQueue WITH ResetsLast <- TRUE
Futex == INSTANCE MutexQueue WITH ResetsLast <- TRUE

spin == <<lock, spc>>
futex == <<state, owner, mtx, error>>
monitored == <<stats, spin, futex>>
programVars == <<vars, monitored>>

NoHolder == holder = NoThread /\ NoConds /\ NoSems
Idle == [t \in QueueThreads |-> "idle"]
NoSpin == lock = 0 /\ spc = Idle
NoFutex == state = 0 /\ owner = NoThread /\ mtx = Idle /\ error = FALSE

ProgramInit ==
  \/ Init /\ MonitorInit /\ NoSpin /\ NoFutex
  \/ variant = "spin" /\ Spin!Init /\ NoHolder /\ NoFutex
  \/ variant = "futex" /\ Futex!Init /\ NoHolder /\ NoSpin

ProgramNext ==
  \/ Next /\ UNCHANGED monitored
  \/ variant = "spin" /\ Spin!Next /\ UNCHANGED <<holder, variant, conds, sems, futex>>
  \/ variant = "futex" /\ Futex!Next /\ UNCHANGED <<holder, variant, conds, sems, spin>>

Programs == ProgramInit /\ [][ProgramNext]_programVars

(* A thread of 2.2f or 2.2g that can run does, as in CondQueue and SemQueue.  *)
(* Nothing is asked of the scheduler for the others, whose threads retry.     *)
Runs(t) ==
  /\ fault = "none"
  /\ UNCHANGED <<variant, monitored>>
  /\ \/ variant = "2.2f" /\ Cond!Step(t) /\ UNCHANGED sems
     \/ variant = "2.2g" /\ Sem!Step(t) /\ UNCHANGED conds

FairPrograms ==
  /\ Programs
  /\ \A t \in Threads : WF_programVars(Runs(t))
  /\ <>[][\A t \in Threads : variant = "2.2f" => ~Cond!SpuriousWakeup(t)]_programVars
-----------------------------------------------------------------------------
(* The programs of 2.2f and 2.2g keep moving values: the reader gets each    *)
(* value again and again (values are counted modulo Modulus), so the writer  *)
(* is not blocked for good on a queue that is being read, nor the reader on  *)
(* one being written.                                                        *)
KeepsDelivering ==
  \A r \in Readers : \A v \in Values :
    []<>(variant \notin {"2.2f", "2.2g"} \/ expected[r] = v)
=============================================================================
