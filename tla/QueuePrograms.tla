---------------------------- MODULE QueuePrograms ----------------------------
(***************************************************************************)
(* Programs that use one of the queues, with the queue's monitor:          *)
(*   "race"  sync/queue-threads.c, a writer and a reader without a lock;   *)
(*   "any"   one thread that calls the queue of src/sync in any order and  *)
(*           may then destroy it;                                          *)
(*   and, named by its directory, queue-example.c, the same program in     *)
(*   five directories: main adds some values, asks for more than it has    *)
(*   added and destroys the queue.                                         *)
(***************************************************************************)
EXTENDS QueueLife, LibraryQueues

CONSTANTS main,       \* the only thread of all programs but "race"
          Adds, Gets, \* how often main calls queue_add, and then queue_get
          Variants    \* the programs to look at

ASSUME ProgramsAssumption ==
  /\ main \in Writers \cap Readers
  /\ Adds \in 0 .. MaxCount /\ Gets \in Nat
  /\ Variants \subseteq {"race", "any", "sync", "2.2a", "2.2e", "2.2f", "2.2g"}

(* queue-threads.c creates one writer and one reader.                        *)
ASSUME RaceAssumption ==
  "race" \in Variants =>
    \E w \in Writers \ {main}, r \in Readers \ {main} :
      w # r /\ Writers = {w, main} /\ Readers = {r, main}

VARIABLE calls  \* how many calls main has made

Sync == INSTANCE SyncQueue  \* src/sync

vars == <<queueVars, holder, life, variant, calls, conds, sems>>

Init ==
  /\ QueueInit /\ LifeInit /\ Lock!LockInit
  /\ variant \in Variants
  /\ calls = 0
  /\ not_empty = {} /\ not_full = {} /\ empty = MaxCount /\ full = 0

QueueStep(t) ==
  \/ variant \in {"race", "any", "sync"} /\ Sync!Step(t) /\ UNCHANGED <<holder, conds, sems>>
  \/ variant = "2.2a" /\ Spinlock!Step(t) /\ UNCHANGED <<conds, sems>>
  \/ variant = "2.2e" /\ Mutex!Step(t) /\ UNCHANGED <<conds, sems>>
  \/ variant = "2.2f" /\ (Cond!Step(t) \/ Cond!SpuriousWakeup(t)) /\ UNCHANGED sems
  \/ variant = "2.2g" /\ Sem!Step(t) /\ UNCHANGED conds

IsExample == variant \notin {"race", "any"}

(* main's two loops, one after the other; a thread at "idle" is between calls. *)
Runs(t) ==
  /\ (t = main) = (variant # "race")
  /\ QueueStep(t)
  /\ IF IsExample /\ pc[t] = "idle"
       THEN /\ pc'[t] \in IF calls < Adds THEN {"add_assert", "add_wait", "add_lock"}
                                         ELSE {"get_assert", "get_test", "get_wait", "get_lock"}
            /\ calls < Adds + Gets
            /\ calls' = calls + 1
       ELSE UNCHANGED calls
  /\ UNCHANGED life

Destroys ==
  /\ variant # "race"
  /\ IsExample => calls = Adds + Gets
  /\ QueueDestroy(main)
  /\ UNCHANGED <<holder, calls, conds, sems>>

Thread(t) ==
  /\ fault = "none"
  /\ Runs(t) \/ (t = main /\ Destroys)
  /\ UNCHANGED variant

MonitorThread ==
  fault = "none" /\ Monitor /\ UNCHANGED <<holder, calls, conds, sems, variant>>

Next == (\E t \in Threads : Thread(t)) \/ MonitorThread

Spec == Init /\ [][Next]_vars

(* main runs, and a thread that has been cancelled ends.                     *)
FairSpec == Spec /\ WF_vars(Thread(main)) /\ WF_vars(MonitorThread /\ MonitorExit)
-----------------------------------------------------------------------------
Sequential == variant # "race"

(* Even with a writer and a reader racing the counter stays in range, so the *)
(* asserts of queue_add and queue_get never see it leave 0 .. max_count.     *)
CountInRange == count \in 0 .. MaxCount

(* The reader never follows a pointer to a node that has been freed: the     *)
(* only accesses to freed memory the race leads to are the writer's through  *)
(* q->last.                                                                  *)
ReaderStaysOnHeap ==
  \A r \in Readers :
    /\ pc[r] = "get_read" => first \in heap \cup {NULL}
    /\ pc[r] = "get_free" => ptr[r] \in heap

(* For a single thread queue_destroy leaves no node behind, the lock it      *)
(* destroys is free, and the monitor, which may be anywhere when it is       *)
(* cancelled, never reads the freed queue.                                   *)
CleanDestroy ==
  Sequential =>
    /\ NoFault
    /\ pc[main] = "free" => holder = NoThread
    /\ pc[main] = "done" => heap = {}

(* For a single thread each queue is a bounded FIFO; seen from a program     *)
(* that races this FIFO is empty and idle.                                   *)
SequentialFifo == INSTANCE BoundedFifo
  WITH Capacity <- MaxCount,
       items <- IF Sequential THEN Items ELSE <<>>,
       sent <- IF Sequential THEN Sent ELSE [w \in Writers |-> 0],
       received <- IF Sequential THEN Received ELSE [r \in Readers |-> 0]

SequentialImplementsFifo == SequentialFifo!FifoSpec

(* queue-example.c, which asks for more values than it has added, comes to   *)
(* the end of main where queue_get returns 0 on an empty queue.              *)
RefusingExampleEnds == variant \in {"sync", "2.2a", "2.2e"} => <>(pc[main] = "done")

(* queue-example.c prints the result of each of its calls of queue_get and   *)
(* then destroys the queue (queue-example.c:28-37), in every directory.      *)
ExampleEnds == IsExample => <>(pc[main] = "done")
=============================================================================
