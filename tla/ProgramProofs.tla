---------------------------- MODULE ProgramProofs ----------------------------
(***************************************************************************)
(* Proofs about the programs of QueuePrograms, for any MaxCount and any    *)
(* number of calls.                                                        *)
(*                                                                         *)
(* The two threads of queue-threads.c race on a queue without a lock, yet  *)
(* what each reads is only ever changed in one direction by the other: the *)
(* count is below MaxCount for the writer once it has tested it, and above *)
(* 0 for the reader, and the writer never comes near the node the reader   *)
(* has taken, except through q->last.                                      *)
(*                                                                         *)
(* A single thread is as good as one that holds a lock, so the invariant   *)
(* of QueueSteps serves the programs without one as well.                  *)
(***************************************************************************)
EXTENDS QueuePrograms, QueueSteps

(* Which threads a program has: all but main, or only main.                  *)
Acts(t) == (t = main) = Sequential

InPlace ==
  /\ variant \in Variants
  /\ pc \in [Threads -> {"idle"} \cup AddSide \cup GetSide \cup DestroyLabels]
  /\ \A t \in Threads :
       /\ pc[t] \in AddSide => t \in Writers
       /\ pc[t] \in GetSide => t \in Readers
       /\ pc[t] \in DestroyLabels => t = main
       /\ ~Acts(t) => pc[t] = "idle"

(* One thread at most is in queue_add, and one in queue_get.                 *)
LEMMA OneEach ==
  ASSUME InPlace, NEW t \in Threads, NEW u \in Threads
  PROVE  /\ pc[t] \in AddSide /\ pc[u] \in AddSide => t = u
         /\ pc[t] \in GetSide /\ pc[u] \in GetSide => t = u
<1>1. "idle" \notin AddSide \cup GetSide
  BY DEF AddSide, GetSide, AddLabels, GetLabels
<1>2. CASE Sequential
  BY <1>1, <1>2 DEF InPlace, Acts
<1>3. CASE ~Sequential
  <2>1. PICK w \in Writers, r \in Readers : Writers = {w, main} /\ Readers = {r, main}
    BY <1>3, RaceAssumption DEF InPlace, Sequential
  <2> QED
    BY <1>1, <1>3, <2>1 DEF InPlace, Acts
<1> QED
  BY <1>2, <1>3

(* What a thread does between main's calls of queue_destroy, whatever the    *)
(* program puts around the body.                                             *)
Walks(t) ==
  \/ Body(t)
  \/ Return(t)
  \/ \E l \in Towards :
       /\ Call(t, l) /\ pc[t] \in {"idle", "add_wait", "get_wait", "add_lock", "get_lock"}
       /\ (l \in AddSide /\ t \in Writers) \/ (l \in GetSide /\ t \in Readers)
  \/ UNCHANGED queueVars

LEMMA AroundWalks ==
  ASSUME InPlace, NEW t \in Threads, Around(t) PROVE Walks(t)
<1>1. ASSUME NEW l, GoesOn(t, l) PROVE Walks(t)
  <2>1. /\ pc[t] \in AddSide => t \in Writers
        /\ pc[t] \in GetSide => t \in Readers
    BY DEF InPlace
  <2>2. /\ l \in Towards /\ Call(t, l)
        /\ pc[t] \in {"idle", "add_wait", "get_wait", "add_lock", "get_lock"}
        /\ (l \in AddSide /\ t \in Writers) \/ (l \in GetSide /\ t \in Readers)
    BY <1>1, <2>1 DEF GoesOn
  <2> QED
    BY <2>2 DEF Walks
<1> QED
  BY <1>1 DEF Around, Walks

(* The text of src/sync is that of the body. *)
LEMMA SameSync ==
  ASSUME NEW t \in Threads, Sync!Step(t)
  PROVE  \/ Body(t) \/ Return(t)
         \/ pc[t] = "idle" /\ t \in Writers /\ Call(t, "add_assert")
         \/ pc[t] = "idle" /\ t \in Readers /\ Call(t, "get_assert")
<1>1. Sync!AddBody(t) \/ Sync!GetBody(t) => Body(t)
  BY DEF
    Body, Sync!AddBody, Sync!GetBody, Sync!AddAssert, Sync!AddTest, Sync!AddMalloc, Sync!AddLink,
    Sync!AddFirst, Sync!AddAppend, Sync!AddAdvance, Sync!AddLoad, Sync!AddStore, Sync!GetAssert,
    Sync!GetTest, Sync!GetRead, Sync!GetUnlink, Sync!GetFree, Sync!GetLoad, Sync!GetStore,
    Sync!Go, Sync!Die, Sync!Blank, Sync!list, Sync!numbers, Sync!locals, Sync!clients, AddBody,
    GetBody, AddAssert, AddTest, AddMalloc, AddLink, AddFirst, AddAppend, AddAdvance, AddLoad,
    AddStore, GetAssert, GetTest, GetRead, GetUnlink, GetFree, GetLoad, GetStore, Go, Die, Blank,
    list, numbers, locals, clients
<1>2. Sync!Return(t) => Return(t)
  BY DEF
    Sync!Return, Sync!WriterReturn, Sync!ReaderReturn, Sync!LeaveScope, Sync!Go, Sync!Succ,
    Sync!list, Sync!numbers, Sync!locals, Sync!clients, Return, WriterReturn, ReaderReturn,
    LeaveScope, Go, Succ, list, numbers, locals, clients
<1>3. \A l : Sync!Call(t, l) => Call(t, l)
  BY DEF Sync!Call, Sync!Go, Sync!list, Sync!numbers, Sync!locals, Sync!clients, Call, Go, list,
         numbers, locals, clients
<1> QED
  BY <1>1, <1>2, <1>3 DEF Sync!Step, Sync!QueueAdd, Sync!QueueGet

(* A step of a program is one of a thread it has, of queue_destroy or of the *)
(* monitor.                                                                  *)
LEMMA NextIs ==
  ASSUME InPlace, Next
  PROVE  /\ UNCHANGED variant /\ fault = "none"
         /\ \/ \E t \in Threads : Acts(t) /\ Walks(t) /\ Runs(t)
            \/ Sequential /\ QueueDestroy(main) /\ Destroys
            \/ Monitor /\ MonitorThread
<1>1. ASSUME NEW t \in Threads, Runs(t) PROVE Acts(t) /\ Walks(t)
  <2>1. ASSUME Sync!Step(t) PROVE Walks(t)
    <3>1. "add_assert" \in Towards \cap AddSide /\ "get_assert" \in Towards \cap GetSide
      BY TowardsSides
    <3> QED
      BY <2>1, <3>1, SameSync DEF Walks
  <2>2. ASSUME Around(t) PROVE Walks(t)
    BY <2>2, AroundWalks
  <2>3. Spinlock!Step(t) \/ Mutex!Step(t) \/ Cond!Step(t) \/ Cond!SpuriousWakeup(t) \/ Sem!Step(t)
          => Around(t)
    BY SpinlockAround, MutexAround, CondAround, SemAround
  <2>4. QueueStep(t) /\ Acts(t)
    BY <1>1 DEF Runs, Acts, Sequential
  <2> QED
    BY <2>1, <2>2, <2>3, <2>4 DEF QueueStep
<1>2. main \in Threads
  BY ProgramsAssumption DEF Threads
<1> QED
  BY <1>1 DEF Next, Thread, MonitorThread, Destroys, Sequential

(* Where a step of the body leads.                                           *)
LEMMA BodyPlaces ==
  ASSUME NEW t \in Threads, Body(t), pc \in [Threads -> {"idle"} \cup AddSide \cup GetSide \cup DestroyLabels]
  PROVE  \E l : /\ pc' = [pc EXCEPT ![t] = l]
                /\ {l, pc[t]} \subseteq AddLabels \/ {l, pc[t]} \subseteq GetLabels
<1>1. pc' = pc => pc' = [pc EXCEPT ![t] = pc[t]]
  OBVIOUS
<1> QED
  BY <1>1 DEF Body, AddBody, GetBody, AddAssert, AddTest, AddMalloc, AddLink, AddFirst, AddAppend,
     AddAdvance, AddLoad, AddStore, GetAssert, GetTest, GetRead, GetUnlink, GetFree, GetLoad,
     GetStore, Go, Die, AddLabels, GetLabels

(* Where a step of a thread leads.                                           *)
LEMMA WalkPlaces ==
  ASSUME InPlace, NEW t \in Threads, Walks(t)
  PROVE  \E l : /\ pc' = [pc EXCEPT ![t] = l] /\ l \in {pc[t], "idle"} \cup AddSide \cup GetSide
                /\ pc[t] \in DestroyLabels => l = pc[t]
                /\ l \in AddSide => t \in Writers
                /\ l \in GetSide => t \in Readers
<1>1. /\ pc \in [Threads -> {"idle"} \cup AddSide \cup GetSide \cup DestroyLabels]
      /\ pc[t] \in AddSide => t \in Writers
      /\ pc[t] \in GetSide => t \in Readers
  BY DEF InPlace
<1>2. /\ AddLabels \subseteq AddSide /\ GetLabels \subseteq GetSide /\ AddSide \cap GetSide = {}
      /\ (AddSide \cup GetSide) \cap DestroyLabels = {} /\ "idle" \notin DestroyLabels
      /\ "idle" \notin AddSide \cup GetSide
  BY DEF AddSide, GetSide, AddLabels, GetLabels, DestroyLabels
<1>3. CASE Body(t)
  <2>1. PICK l : /\ pc' = [pc EXCEPT ![t] = l]
                 /\ {l, pc[t]} \subseteq AddLabels \/ {l, pc[t]} \subseteq GetLabels
    BY <1>1, <1>3, BodyPlaces
  <2> QED
    BY <1>1, <1>2, <2>1
<1>4. CASE Return(t)
  <2>1. pc' = [pc EXCEPT ![t] = "idle"] /\ pc[t] \in AddSide \cup GetSide
    BY <1>4 DEF Return, WriterReturn, ReaderReturn, LeaveScope, Go, AddSide, GetSide, AddLabels, GetLabels
  <2> QED
    BY <1>2, <2>1
<1>5. ASSUME NEW l \in Towards, Call(t, l), pc[t] \in {"idle", "add_wait", "get_wait", "add_lock", "get_lock"},
             (l \in AddSide /\ t \in Writers) \/ (l \in GetSide /\ t \in Readers)
      PROVE  /\ pc' = [pc EXCEPT ![t] = l] /\ l \in AddSide \cup GetSide
             /\ pc[t] \notin DestroyLabels
             /\ l \in AddSide => t \in Writers
             /\ l \in GetSide => t \in Readers
  BY <1>2, <1>5 DEF Call, Go, DestroyLabels
<1>6. CASE UNCHANGED queueVars
  <2>1. pc' = [pc EXCEPT ![t] = pc[t]]
    BY <1>1, <1>6 DEF queueVars
  <2> QED
    BY <1>1, <2>1
<1> QED
  BY <1>3, <1>4, <1>5, <1>6 DEF Walks

(* The threads stay where they may be.                                       *)
LEMMA InPlaceStep == ASSUME InPlace, [Next]_vars PROVE InPlace'
<1>1. ASSUME NEW t \in Threads, NEW l, UNCHANGED variant, Acts(t), pc' = [pc EXCEPT ![t] = l],
             l \in {pc[t], "idle"} \cup AddSide \cup GetSide \cup DestroyLabels,
             l \in AddSide => t \in Writers, l \in GetSide => t \in Readers,
             l \in DestroyLabels => t = main
      PROVE  InPlace'
  <2>1. \A u \in Threads : Acts(u)' = Acts(u)
    BY <1>1 DEF Acts, Sequential
  <2>2. pc'[t] = l /\ \A u \in Threads : u # t => pc'[u] = pc[u]
    BY <1>1 DEF InPlace
  <2>3. pc' \in [Threads -> {"idle"} \cup AddSide \cup GetSide \cup DestroyLabels]
    BY <1>1 DEF InPlace
  <2>4. ASSUME NEW u \in Threads
        PROVE  /\ pc'[u] \in AddSide => u \in Writers
               /\ pc'[u] \in GetSide => u \in Readers
               /\ pc'[u] \in DestroyLabels => u = main
               /\ ~Acts(u)' => pc'[u] = "idle"
    BY <1>1, <2>1, <2>2 DEF InPlace
  <2> QED
    BY <1>1, <2>3, <2>4 DEF InPlace
<1>2. ASSUME UNCHANGED <<variant, pc>> PROVE InPlace'
  BY <1>2 DEF InPlace, Acts, Sequential
<1>3. ASSUME NEW t \in Threads, UNCHANGED variant, Acts(t), Walks(t) PROVE InPlace'
  <2>1. PICK l : /\ pc' = [pc EXCEPT ![t] = l] /\ l \in {pc[t], "idle"} \cup AddSide \cup GetSide
                 /\ pc[t] \in DestroyLabels => l = pc[t]
                 /\ l \in AddSide => t \in Writers
                 /\ l \in GetSide => t \in Readers
    BY <1>3, WalkPlaces
  <2>2. l \in DestroyLabels => t = main
    BY <2>1 DEF InPlace, AddSide, GetSide, AddLabels, GetLabels, DestroyLabels
  <2> QED
    BY <1>1, <1>3, <2>1, <2>2
<1>4. ASSUME UNCHANGED variant, Sequential, QueueDestroy(main) PROVE InPlace'
  <2>1. main \in Threads /\ Acts(main)
    BY <1>4, ProgramsAssumption DEF Threads, Acts
  <2>2. UNCHANGED pc \/ \E l \in DestroyLabels : pc' = [pc EXCEPT ![main] = l]
    BY <1>4 DEF QueueDestroy, DestroyCancel, DestroyJoin, DestroyFreeNode, DestroyFreeQueue, Go, DestroyLabels
  <2>3. DestroyLabels \cap (AddSide \cup GetSide) = {}
    BY DEF AddSide, GetSide, AddLabels, GetLabels, DestroyLabels
  <2> QED
    BY <1>1, <1>2, <1>4, <2>1, <2>2, <2>3
<1>5. ASSUME Monitor PROVE UNCHANGED pc
  BY <1>5 DEF Monitor, MonitorPrint, MonitorWake, MonitorExit, queueVars
<1>6. ASSUME UNCHANGED vars PROVE UNCHANGED <<variant, pc>>
  BY <1>6 DEF vars, queueVars
<1> QED
  BY <1>2, <1>3, <1>4, <1>5, <1>6, NextIs

LEMMA InPlaceStarts == Init => InPlace
BY DEF Init, QueueInit, InPlace, AddSide, GetSide, AddLabels, GetLabels, DestroyLabels
-----------------------------------------------------------------------------
(* Where a thread has found room for its value, or a value to take.          *)
AddPast == {"add_malloc", "add_link", "add_first", "add_append", "add_advance", "add_load", "add_store"}
GetPast == {"get_read", "get_unlink", "get_free", "get_load", "get_store"}

(* Only the writer makes count grow, and only the reader makes it shrink.    *)
Counting ==
  /\ count \in 0 .. MaxCount
  /\ reg \in [Threads -> Int]
  /\ \A t \in Threads :
       /\ pc[t] \in AddPast => count < MaxCount
       /\ pc[t] \in GetPast => count > 0
       /\ pc[t] = "add_store" => reg[t] \in 0 .. MaxCount - 1
       /\ pc[t] = "get_store" => reg[t] \in 1 .. MaxCount

(* A step of t to l that leaves count alone.                                 *)
LEMMA CountingKept ==
  ASSUME InPlace, Counting, NEW t \in Threads, NEW l, pc' = [pc EXCEPT ![t] = l],
         count' = count, reg' \in [Threads -> Int],
         \A u \in Threads : u # t => reg'[u] = reg[u],
         l \in AddPast => count < MaxCount, l \in GetPast => count > 0,
         l = "add_store" => reg'[t] \in 0 .. MaxCount - 1,
         l = "get_store" => reg'[t] \in 1 .. MaxCount
  PROVE  Counting'
<1>1. pc'[t] = l /\ \A u \in Threads : u # t => pc'[u] = pc[u]
  BY DEF InPlace
<1>2. ASSUME NEW u \in Threads
      PROVE  /\ pc'[u] \in AddPast => count < MaxCount
             /\ pc'[u] \in GetPast => count > 0
             /\ pc'[u] = "add_store" => reg'[u] \in 0 .. MaxCount - 1
             /\ pc'[u] = "get_store" => reg'[u] \in 1 .. MaxCount
  <2>1. CASE u = t
    BY <1>1, <2>1
  <2>2. CASE u # t
    BY <1>1, <2>2 DEF Counting
  <2> QED
    BY <2>1, <2>2
<1> QED
  BY <1>2 DEF Counting

(* The body of queue_add: past its test there is room, whatever the reader   *)
(* does.                                                                     *)
LEMMA AddCounts ==
  ASSUME InPlace, Counting, NEW t \in Threads, AddBody(t) PROVE Counting'
<1>0. /\ count \in 0 .. MaxCount /\ reg \in [Threads -> Int] /\ MaxCount \in Nat
      /\ pc[t] \in AddPast => count < MaxCount
      /\ pc[t] = "add_store" => reg[t] \in 0 .. MaxCount - 1
  BY QueueAssumption DEF Counting
<1>1. ASSUME NEW l, pc' = [pc EXCEPT ![t] = l], UNCHANGED <<count, reg>>,
             l \in AddPast => count < MaxCount, l \notin GetPast \cup {"add_store"}
      PROVE  Counting'
  BY <1>0, <1>1, CountingKept DEF GetPast
<1>2. ASSUME UNCHANGED <<count, reg, pc>> PROVE Counting'
  BY <1>2 DEF Counting
<1>3. CASE AddAssert(t)
  <2>1. UNCHANGED <<count, reg>> /\ (pc' = pc \/ pc' = [pc EXCEPT ![t] = "add_test"])
    BY <1>3 DEF AddAssert, Go, Die, numbers, locals
  <2> QED
    BY <1>1, <1>2, <2>1 DEF AddPast, GetPast
<1>4. CASE AddTest(t)
  <2>1. /\ UNCHANGED <<count, reg>>
        /\ \/ pc' = [pc EXCEPT ![t] = "add_full"]
           \/ pc' = [pc EXCEPT ![t] = "add_malloc"] /\ count # MaxCount
    BY <1>4 DEF AddTest, Go, numbers, locals
  <2>2. count # MaxCount => count < MaxCount
    BY <1>0
  <2>3. {"add_full", "add_malloc"} \cap (GetPast \cup {"add_store"}) = {} /\ "add_full" \notin AddPast
    BY DEF AddPast, GetPast
  <2> QED
    BY <1>1, <2>1, <2>2, <2>3
<1>5. CASE AddMalloc(t)
  <2>1. /\ UNCHANGED <<count, reg>> /\ pc[t] \in AddPast
        /\ pc' = pc \/ pc' = [pc EXCEPT ![t] = "add_link"]
    BY <1>5 DEF AddMalloc, Go, Die, numbers, AddPast
  <2> QED
    BY <1>0, <1>1, <1>2, <2>1 DEF AddPast, GetPast
<1>6. CASE AddLink(t) \/ AddFirst(t) \/ AddAdvance(t) \/ AddAppend(t)
  <2>1. /\ UNCHANGED <<count, reg>> /\ pc[t] \in AddPast
        /\ pc' = pc \/ \E l \in {"add_first", "add_append", "add_advance", "add_load"} :
                         pc' = [pc EXCEPT ![t] = l]
    BY <1>6 DEF AddLink, AddFirst, AddAdvance, AddAppend, Go, Die, numbers, locals, AddPast
  <2> QED
    BY <1>0, <1>1, <1>2, <2>1 DEF AddPast, GetPast
<1>7. CASE AddLoad(t)
  <2>1. /\ count' = count /\ reg' = [reg EXCEPT ![t] = count] /\ pc[t] \in AddPast
        /\ pc' = [pc EXCEPT ![t] = "add_store"]
    BY <1>7 DEF AddLoad, Go, numbers, AddPast
  <2>2. /\ reg' \in [Threads -> Int] /\ reg'[t] = count /\ count \in 0 .. MaxCount - 1
        /\ \A u \in Threads : u # t => reg'[u] = reg[u]
    BY <1>0, <2>1
  <2>3. "add_store" \notin GetPast /\ count < MaxCount
    BY <1>0, <2>1 DEF GetPast
  <2> QED
    BY <2>1, <2>2, <2>3, CountingKept
<1>8. CASE AddStore(t)
  <2>1. /\ count' = reg[t] + 1 /\ reg' = reg /\ pc[t] = "add_store"
        /\ pc' = [pc EXCEPT ![t] = "add_ok"]
    BY <1>8 DEF AddStore, Go, locals
  <2>2. count' \in 1 .. MaxCount
    BY <1>0, <2>1
  <2>3. ASSUME NEW u \in Threads
        PROVE  /\ pc'[u] \notin AddPast
               /\ pc'[u] = "get_store" => reg[u] \in 1 .. MaxCount
    <3>1. AddPast \subseteq AddSide /\ "add_ok" \notin AddPast /\ "add_store" \in AddSide
      BY DEF AddPast, AddSide, AddLabels
    <3>2. CASE u = t
      BY <2>1, <3>1, <3>2 DEF InPlace
    <3>3. CASE u # t
      BY <2>1, <3>1, <3>3, OneEach DEF InPlace, Counting
    <3> QED
      BY <3>2, <3>3
  <2>4. "add_store" \in AddPast
    BY DEF AddPast
  <2>5. count' \in 0 .. MaxCount /\ count' > 0
    BY <1>0, <2>2
  <2> QED
    BY <1>0, <2>1, <2>3, <2>4, <2>5 DEF Counting
<1> QED
  BY <1>3, <1>4, <1>5, <1>6, <1>7, <1>8 DEF AddBody

(* The body of queue_get: past its test there is a value.                    *)
LEMMA GetCounts ==
  ASSUME InPlace, Counting, NEW t \in Threads, GetBody(t) PROVE Counting'
<1>0. /\ count \in 0 .. MaxCount /\ reg \in [Threads -> Int] /\ MaxCount \in Nat
      /\ pc[t] \in GetPast => count > 0
      /\ pc[t] = "get_store" => reg[t] \in 1 .. MaxCount
  BY QueueAssumption DEF Counting
<1>1. ASSUME NEW l, pc' = [pc EXCEPT ![t] = l], UNCHANGED <<count, reg>>,
             l \in GetPast => count > 0, l \notin AddPast \cup {"get_store"}
      PROVE  Counting'
  BY <1>0, <1>1, CountingKept DEF AddPast
<1>2. ASSUME UNCHANGED <<count, reg, pc>> PROVE Counting'
  BY <1>2 DEF Counting
<1>3. CASE GetAssert(t)
  <2>1. UNCHANGED <<count, reg>> /\ (pc' = pc \/ pc' = [pc EXCEPT ![t] = "get_test"])
    BY <1>3 DEF GetAssert, Go, Die, numbers, locals
  <2> QED
    BY <1>1, <1>2, <2>1 DEF AddPast, GetPast
<1>4. CASE GetTest(t)
  <2>1. /\ UNCHANGED <<count, reg>>
        /\ \/ pc' = [pc EXCEPT ![t] = "get_empty"]
           \/ pc' = [pc EXCEPT ![t] = "get_read"] /\ count # 0
    BY <1>4 DEF GetTest, Go, numbers, locals
  <2>2. count # 0 => count > 0
    BY <1>0
  <2>3. {"get_empty", "get_read"} \cap (AddPast \cup {"get_store"}) = {} /\ "get_empty" \notin GetPast
    BY DEF AddPast, GetPast
  <2> QED
    BY <1>1, <2>1, <2>2, <2>3
<1>5. CASE GetRead(t) \/ GetUnlink(t) \/ GetFree(t)
  <2>1. /\ UNCHANGED <<count, reg>> /\ pc[t] \in GetPast
        /\ pc' = pc \/ \E l \in {"get_unlink", "get_free", "get_load"} : pc' = [pc EXCEPT ![t] = l]
    BY <1>5 DEF GetRead, GetUnlink, GetFree, Go, Die, numbers, locals, GetPast
  <2> QED
    BY <1>0, <1>1, <1>2, <2>1 DEF AddPast, GetPast
<1>6. CASE GetLoad(t)
  <2>1. /\ count' = count /\ reg' = [reg EXCEPT ![t] = count] /\ pc[t] \in GetPast
        /\ pc' = [pc EXCEPT ![t] = "get_store"]
    BY <1>6 DEF GetLoad, Go, numbers, GetPast
  <2>2. /\ reg' \in [Threads -> Int] /\ reg'[t] = count /\ count \in 1 .. MaxCount
        /\ \A u \in Threads : u # t => reg'[u] = reg[u]
    BY <1>0, <2>1
  <2>3. "get_store" \notin AddPast /\ count > 0
    BY <1>0, <2>1 DEF AddPast
  <2> QED
    BY <2>1, <2>2, <2>3, CountingKept
<1>7. CASE GetStore(t)
  <2>1. /\ count' = reg[t] - 1 /\ reg' = reg /\ pc[t] = "get_store"
        /\ pc' = [pc EXCEPT ![t] = "get_ok"]
    BY <1>7 DEF GetStore, Go, locals
  <2>2. count' \in 0 .. MaxCount /\ count' < MaxCount
    BY <1>0, <2>1
  <2>3. ASSUME NEW u \in Threads
        PROVE  /\ pc'[u] \notin GetPast
               /\ pc'[u] = "add_store" => reg[u] \in 0 .. MaxCount - 1
    <3>1. GetPast \subseteq GetSide /\ "get_ok" \notin GetPast /\ "get_store" \in GetSide
      BY DEF GetPast, GetSide, GetLabels
    <3>2. CASE u = t
      BY <2>1, <3>1, <3>2 DEF InPlace
    <3>3. CASE u # t
      BY <2>1, <3>1, <3>3, OneEach DEF InPlace, Counting
    <3> QED
      BY <3>2, <3>3
  <2>4. "get_store" \in GetPast
    BY DEF GetPast
  <2> QED
    BY <1>0, <2>1, <2>2, <2>3, <2>4 DEF Counting
<1> QED
  BY <1>3, <1>4, <1>5, <1>6, <1>7 DEF GetBody

(* All that a program does.                                                  *)
LEMMA CountingStep == ASSUME InPlace, Counting, [Next]_vars PROVE Counting'
<1>1. ASSUME NEW t \in Threads, NEW l, pc' = [pc EXCEPT ![t] = l], count' = count,
             reg' = reg \/ reg' = [reg EXCEPT ![t] = 0],
             l \notin AddPast \cup GetPast
      PROVE  Counting'
  <2>1. /\ reg' \in [Threads -> Int] /\ \A u \in Threads : u # t => reg'[u] = reg[u]
    BY <1>1 DEF Counting
  <2>2. l # "add_store" /\ l # "get_store"
    BY <1>1 DEF AddPast, GetPast
  <2> QED
    BY <1>1, <2>1, <2>2, CountingKept
<1>2. ASSUME UNCHANGED <<count, reg, pc>> PROVE Counting'
  BY <1>2 DEF Counting
<1>3. ASSUME NEW t \in Threads, Walks(t) PROVE Counting'
  <2>1. CASE Body(t)
    BY <2>1, AddCounts, GetCounts DEF Body
  <2>2. CASE Return(t)
    <3>1. /\ pc' = [pc EXCEPT ![t] = "idle"] /\ count' = count /\ reg' = [reg EXCEPT ![t] = 0]
      BY <2>2 DEF Return, WriterReturn, ReaderReturn, LeaveScope, Go, numbers
    <3> QED
      BY <1>1, <3>1 DEF AddPast, GetPast
  <2>3. ASSUME NEW l \in Towards, Call(t, l) PROVE Counting'
    <3>1. /\ pc' = [pc EXCEPT ![t] = l] /\ count' = count /\ reg' = reg
      BY <2>3 DEF Call, Go, numbers, locals
    <3> QED
      BY <1>1, <3>1 DEF AddPast, GetPast, Towards
  <2>4. CASE UNCHANGED queueVars
    BY <1>2, <2>4 DEF queueVars, numbers, locals
  <2> QED
    BY <1>3, <2>1, <2>2, <2>3, <2>4 DEF Walks
<1>4. ASSUME QueueDestroy(main) PROVE Counting'
  <2>1. /\ UNCHANGED <<count, reg>>
        /\ pc' = pc \/ \E l \in DestroyLabels : pc' = [pc EXCEPT ![main] = l]
    BY <1>4 DEF QueueDestroy, DestroyCancel, DestroyJoin, DestroyFreeNode, DestroyFreeQueue, Go,
                DestroyLabels, numbers, locals
  <2>2. main \in Threads
    BY ProgramsAssumption DEF Threads
  <2> QED
    BY <1>1, <1>2, <2>1, <2>2 DEF DestroyLabels, AddPast, GetPast
<1>5. ASSUME Monitor PROVE Counting'
  BY <1>2, <1>5 DEF Monitor, MonitorPrint, MonitorWake, MonitorExit, queueVars, numbers, locals
<1>6. ASSUME UNCHANGED vars PROVE Counting'
  BY <1>2, <1>6 DEF vars, queueVars, numbers, locals
<1> QED
  BY <1>3, <1>4, <1>5, <1>6, NextIs

(* A writer and a reader that race without a lock, and each program of a     *)
(* single thread, keep the counter in 0 .. max_count, for every max_count:   *)
(* an add or a get that overlaps another may lose one of the two updates     *)
(* but not lead out of the range.                                            *)
THEOREM ProgramsCountInRange == Spec => []CountInRange
<1>1. Init => Counting
  <2> SUFFICES ASSUME Init PROVE Counting
    OBVIOUS
  <2>1. count = 0 /\ reg = [t \in Threads |-> 0] /\ pc = [t \in Threads |-> "idle"]
    BY DEF Init, QueueInit
  <2> QED
    BY <2>1, QueueAssumption DEF Counting, AddPast, GetPast
<1>2. InPlace /\ Counting /\ [Next]_vars => (InPlace /\ Counting)'
  BY InPlaceStep, CountingStep
<1>3. Counting => CountInRange
  BY DEF Counting, CountInRange
<1> QED
  BY <1>1, <1>2, <1>3, InPlaceStarts, PTL DEF Spec
-----------------------------------------------------------------------------
(* The contents of the blocks, and who points to one.                        *)
Shaped ==
  /\ first \in Node \cup {NULL} /\ node \in Contents /\ heap \subseteq Node
  /\ ptr \in [Threads -> Node \cup {NULL}] /\ next \in [Threads -> Node \cup {NULL}]
  /\ i \in [Writers -> Values]

(* The reader has read the node it takes and not freed it.                   *)
Taken == {"get_unlink", "get_free"}

(* The node a thread has to itself: not yet or no longer on the list.        *)
Holds(t, s, n, f) ==
  /\ pc[t] = "get_unlink" => f = next[t] /\ first = ptr[t]
  /\ pc[t] \in Linking \cup Taken => ptr[t] \in heap \ NodesOf(s, n)
  /\ pc[t] \in Linking => node[ptr[t]].next = NULL
  /\ pc[t] = "add_first" => first = NULL

(* From f, which is q->first but for a node that is being taken, only blocks *)
(* that have not been freed are reached.                                     *)
Reach(s, n, f) ==
  /\ Chain(s, n, f, node) /\ NodesOf(s, n) \subseteq heap
  /\ (\A t \in Threads : pc[t] # "get_unlink") => f = first
  /\ \A t \in Threads : Holds(t, s, n, f)
  /\ \A t, u \in Threads : pc[t] \in Linking /\ pc[u] \in Taken => ptr[t] # ptr[u]

Reached == (\A t \in Threads : pc[t] \notin DestroyLabels) => \E s, n, f : Reach(s, n, f)

(* Where the labels lie.                                                     *)
LEMMA LinkingLabels ==
  /\ Linking \subseteq AddSide /\ Taken \subseteq GetSide /\ Linking \cap Taken = {}
  /\ AddSide \cap GetSide = {} /\ (AddSide \cup GetSide) \cap DestroyLabels = {}
BY DEF Linking, Taken, AddSide, GetSide, AddLabels, GetLabels, DestroyLabels

(* A step of t that leaves the list and the others alone.                    *)
LEMMA ReachQuiet ==
  ASSUME InPlace, NEW s, NEW n, NEW f, Reach(s, n, f), NEW t \in Threads, NEW l,
         pc' = [pc EXCEPT ![t] = l], UNCHANGED <<first, node, heap>>,
         l \notin Linking \cup Taken, pc[t] # "get_unlink",
         \A u \in Threads : u # t => ptr'[u] = ptr[u] /\ next'[u] = next[u]
  PROVE  Reach(s, n, f)'
<1>1. pc'[t] = l /\ \A u \in Threads : u # t => pc'[u] = pc[u]
  BY DEF InPlace
<1>2. l # "get_unlink" /\ l # "add_first"
  BY DEF Linking, Taken
<1>3. (\A u \in Threads : pc'[u] # "get_unlink") => f = first'
  BY <1>1 DEF Reach
<1>4. \A u \in Threads : Holds(u, s, n, f)'
  <2> TAKE u \in Threads
  <2>1. Holds(u, s, n, f)
    BY DEF Reach
  <2> QED
    BY <1>1, <1>2, <2>1 DEF Holds
<1>5. \A u, v \in Threads : pc'[u] \in Linking /\ pc'[v] \in Taken => ptr'[u] # ptr'[v]
  BY <1>1 DEF Reach
<1>6. Chain(s, n, f, node') /\ NodesOf(s, n) \subseteq heap'
  BY DEF Reach
<1> QED
  BY <1>3, <1>4, <1>5, <1>6 DEF Reach

(* Nothing that Reach looks at changes.                                      *)
LEMMA ReachSame ==
  ASSUME NEW s, NEW n, NEW f, Reach(s, n, f), UNCHANGED <<first, node, heap, pc, ptr, next>>
  PROVE  Reach(s, n, f)'
BY DEF Reach, Holds

(* A new node is on nobody's list.                                           *)
LEMMA MallocReaches ==
  ASSUME InPlace, Shaped, NEW s, NEW n, NEW f, Reach(s, n, f), NEW t \in Threads, AddMalloc(t)
  PROVE  Reach(s, n, f)'
<1>1. CASE heap = Node /\ Die("abort") /\ UNCHANGED <<list, ptr>>
  BY <1>1, ReachSame DEF AddMalloc, Die, list
<1>2. ASSUME NEW m \in Node \ heap, heap' = heap \cup {m},
             node' = [node EXCEPT ![m] = [val |-> i[t], next |-> NULL]],
             ptr' = [ptr EXCEPT ![t] = m], Go(t, "add_link"), UNCHANGED <<first, next>>,
             pc[t] = "add_malloc"
      PROVE  Reach(s, n, f)'
  <2>1. /\ pc'[t] = "add_link" /\ \A u \in Threads : u # t => pc'[u] = pc[u]
        /\ ptr'[t] = m /\ \A u \in Threads : u # t => ptr'[u] = ptr[u]
        /\ node'[m].next = NULL /\ \A x \in heap : node'[x] = node[x] /\ x # m
    BY <1>2 DEF InPlace, Shaped, Go, Contents
  <2>2. /\ Chain(s, n, f, node) /\ NodesOf(s, n) \subseteq heap
        /\ (\A u \in Threads : pc[u] # "get_unlink") => f = first
    BY DEF Reach
  <2>3. Chain(s, n, f, node') /\ NodesOf(s, n) \subseteq heap'
    <3>1. \A x \in NodesOf(s, n) : node'[x] = node[x]
      BY <2>1, <2>2
    <3>2. Chain(s, n, f, node')
      BY <2>2, <3>1, ChainKept
    <3> QED
      BY <1>2, <2>2, <3>2
  <2>4. (\A u \in Threads : pc'[u] # "get_unlink") => f = first'
    BY <1>2, <2>1, <2>2
  <2>5. ASSUME NEW u \in Threads PROVE Holds(u, s, n, f)'
    <3>1. CASE u = t
      BY <1>2, <2>1, <2>2, <3>1 DEF Holds, Linking, Taken
    <3>2. CASE u # t
      <4>1. Holds(u, s, n, f)
        BY DEF Reach
      <4> QED
        BY <1>2, <2>1, <3>2, <4>1 DEF Holds
    <3> QED
      BY <3>1, <3>2
  <2>6. ASSUME NEW u \in Threads, NEW v \in Threads, pc'[u] \in Linking, pc'[v] \in Taken
        PROVE  ptr'[u] # ptr'[v]
    <3>1. v # t
      BY <2>1, <2>6 DEF Taken
    <3>2. pc[v] \in Taken /\ ptr'[v] = ptr[v] /\ ptr[v] \in heap
      BY <2>1, <2>6, <3>1 DEF Reach, Holds
    <3> QED
      BY <1>2, <2>1, <2>6, <3>2 DEF Reach
  <2> QED
    BY <2>3, <2>4, <2>5, <2>6 DEF Reach
<1> QED
  BY <1>1, <1>2 DEF AddMalloc

(* The writer sees whether the list is empty.                                *)
LEMMA LinkReaches ==
  ASSUME InPlace, NEW s, NEW n, NEW f, Reach(s, n, f), NEW t \in Threads, AddLink(t)
  PROVE  Reach(s, n, f)'
<1>1. /\ pc[t] = "add_link" /\ UNCHANGED <<first, node, heap, ptr, next>>
      /\ \/ pc' = [pc EXCEPT ![t] = "add_first"] /\ first = NULL
         \/ pc' = [pc EXCEPT ![t] = "add_append"]
  BY DEF AddLink, Go, list, locals
<1>2. /\ pc'[t] = "add_append" \/ (pc'[t] = "add_first" /\ first = NULL)
      /\ \A u \in Threads : u # t => pc'[u] = pc[u]
  BY <1>1 DEF InPlace
<1>3. /\ {"add_link", "add_first", "add_append"} \subseteq Linking
      /\ \A l \in Linking : l \notin Taken /\ l # "get_unlink"
  BY DEF Linking, Taken
<1>4. pc[t] \in Linking /\ pc'[t] \in Linking
  BY <1>1, <1>2, <1>3
<1>5. ASSUME NEW u \in Threads PROVE Holds(u, s, n, f)'
  <2>1. Holds(u, s, n, f)
    BY DEF Reach
  <2>2. CASE u = t
    BY <1>1, <1>2, <1>3, <1>4, <2>1, <2>2 DEF Holds
  <2>3. CASE u # t
    BY <1>1, <1>2, <2>1, <2>3 DEF Holds
  <2> QED
    BY <2>2, <2>3
<1>6. \A u \in Threads : (pc'[u] \in Linking <=> pc[u] \in Linking) /\ (pc'[u] \in Taken <=> pc[u] \in Taken)
  BY <1>2, <1>3, <1>4
<1>7. (\A u \in Threads : pc'[u] # "get_unlink") => \A u \in Threads : pc[u] # "get_unlink"
  BY <1>1, <1>2
<1> QED
  BY <1>1, <1>5, <1>6, <1>7 DEF Reach

(* On an empty list the new node is the first: the reader is taking none.    *)
LEMMA FirstReaches ==
  ASSUME InPlace, Shaped, NEW s, NEW n, NEW f, Reach(s, n, f), NEW t \in Threads, AddFirst(t)
  PROVE  \E s2, n2, f2 : Reach(s2, n2, f2)'
<1>0. PICK p, s2 : p = ptr[t] /\ s2 = [k \in 1 .. 1 |-> p]
  OBVIOUS
<1>1. /\ pc[t] = "add_first" /\ first' = p /\ UNCHANGED <<node, heap, ptr, next>>
      /\ pc' = [pc EXCEPT ![t] = "add_load"]
  BY <1>0 DEF AddFirst, Go, locals
<1>2. pc'[t] = "add_load" /\ \A u \in Threads : u # t => pc'[u] = pc[u]
  BY <1>1 DEF InPlace
<1>3. "add_first" \in Linking /\ "add_load" \notin Linking \cup Taken /\ "get_unlink" \in Taken
  BY DEF Linking, Taken
<1>4. Holds(t, s, n, f)
  BY DEF Reach
<1>5. first = NULL /\ p \in heap /\ node[p].next = NULL /\ p \in Node
  BY <1>0, <1>1, <1>3, <1>4 DEF Holds, Shaped
<1>6. \A u \in Threads : pc[u] # "get_unlink"
  <2>1. ASSUME NEW u \in Threads, pc[u] = "get_unlink" PROVE FALSE
    <3>1. Holds(u, s, n, f)
      BY DEF Reach
    <3>2. first \in heap
      BY <1>3, <2>1, <3>1 DEF Holds
    <3> QED
      BY <1>5, <3>2, QueueAssumption DEF Shaped
  <2> QED
    BY <2>1
<1>7. Chain(s2, 1, p, node) /\ NodesOf(s2, 1) = {p}
  <2>1. Chain(s2, 1, p, node)
    BY <1>0, <1>5, ChainFirst
  <2>2. 1 .. 1 = {1} /\ s2[1] = p
    BY <1>0
  <2>3. NodesOf(s2, 1) = {p}
    BY <2>2 DEF NodesOf
  <2> QED
    BY <2>1, <2>3
<1>8. \A u \in Threads : u # t => pc[u] \notin Linking
  BY <1>1, <1>3, OneEach, LinkingLabels
<1>9. ASSUME NEW u \in Threads PROVE Holds(u, s2, 1, p)'
  <2>1. CASE u = t
    BY <1>2, <1>3, <2>1 DEF Holds
  <2>2. CASE u # t
    <3>1. Holds(u, s, n, f) /\ pc'[u] = pc[u] /\ pc[u] \notin Linking /\ pc[u] # "get_unlink"
      BY <1>2, <1>6, <1>8, <2>2 DEF Reach
    <3>2. pc[u] \in Taken => ptr[u] # p
      BY <1>0, <1>1, <1>3 DEF Reach
    <3>3. pc[u] # "add_first"
      BY <3>1 DEF Linking
    <3> QED
      BY <1>1, <1>7, <3>1, <3>2, <3>3 DEF Holds
  <2> QED
    BY <2>1, <2>2
<1>10. \A u \in Threads : pc'[u] \notin Linking
  BY <1>2, <1>3, <1>8
<1>11. Reach(s2, 1, p)'
  <2>1. Chain(s2, 1, p, node') /\ NodesOf(s2, 1) \subseteq heap' /\ first' = p
    BY <1>1, <1>5, <1>7
  <2> QED
    BY <1>9, <1>10, <2>1 DEF Reach
<1> QED
  BY <1>11

(* A node behind one of the list ends the list there; behind any other, even *)
(* behind one that has been freed, it leaves the list as it was.             *)
LEMMA AppendReaches ==
  ASSUME InPlace, Shaped, NEW s, NEW n, NEW f, Reach(s, n, f), NEW t \in Threads, AddAppend(t)
  PROVE  \E s2, n2 : Reach(s2, n2, f)'
<1>1. CASE Die("segv") /\ UNCHANGED list
  BY <1>1, ReachSame DEF AddAppend, Die, list, locals
<1>2. CASE /\ node' = [node EXCEPT ![last].next = ptr[t]] /\ Go(t, "add_advance")
           /\ UNCHANGED <<first, last, heap, fault>>
  <2> DEFINE p == ptr[t]
  <2>1. /\ pc[t] = "add_append" /\ UNCHANGED <<first, heap, ptr, next>>
        /\ pc' = [pc EXCEPT ![t] = "add_advance"]
    BY <1>2 DEF AddAppend, Go, locals
  <2>2. pc'[t] = "add_advance" /\ \A u \in Threads : u # t => pc'[u] = pc[u]
    BY <2>1 DEF InPlace
  <2>3. /\ "add_append" \in Linking /\ "add_advance" \notin Linking \cup Taken
        /\ "get_unlink" \in Taken
    BY DEF Linking, Taken
  <2>4. Holds(t, s, n, f) /\ Chain(s, n, f, node) /\ NodesOf(s, n) \subseteq heap
    BY DEF Reach
  <2>5. p \in heap \ NodesOf(s, n) /\ node[p].next = NULL /\ p \in Node
    BY <2>1, <2>3, <2>4 DEF Holds, Shaped
  <2>6. \A u \in Threads : u # t => pc[u] \notin Linking
    BY <2>1, <2>3, OneEach, LinkingLabels
  <2>7. ASSUME NEW s2, NEW n2, Chain(s2, n2, f, node'), NodesOf(s2, n2) \subseteq NodesOf(s, n) \cup {p}
        PROVE  Reach(s2, n2, f)'
    <3>1. ASSUME NEW u \in Threads PROVE Holds(u, s2, n2, f)'
      <4>1. CASE u = t
        BY <2>2, <2>3, <4>1 DEF Holds
      <4>2. CASE u # t
        <5>1. Holds(u, s, n, f) /\ pc'[u] = pc[u] /\ pc[u] \notin Linking
          BY <2>2, <2>6, <4>2 DEF Reach
        <5>2. pc[u] \in Taken => ptr[u] # p
          BY <2>1, <2>3 DEF Reach
        <5>3. pc[u] # "add_first"
          BY <5>1 DEF Linking
        <5> QED
          BY <2>1, <2>7, <5>1, <5>2, <5>3 DEF Holds
      <4> QED
        BY <4>1, <4>2
    <3>2. \A u \in Threads : pc'[u] \notin Linking
      BY <2>2, <2>3, <2>6
    <3>3. (\A u \in Threads : pc'[u] # "get_unlink") => f = first'
      BY <2>1, <2>2 DEF Reach
    <3>4. NodesOf(s2, n2) \subseteq heap'
      BY <2>1, <2>4, <2>5, <2>7
    <3> QED
      BY <2>7, <3>1, <3>2, <3>3, <3>4 DEF Reach
  <2>8. CASE last \notin NodesOf(s, n)
    <3>1. \A x \in NodesOf(s, n) : x \in Node
      BY <2>4 DEF Shaped
    <3>2. \A x \in NodesOf(s, n) : node'[x] = node[x]
      BY <1>2, <2>8, <3>1 DEF Shaped, Contents
    <3>3. Chain(s, n, f, node')
      BY <2>4, <3>2, ChainKept
    <3> QED
      BY <2>7, <3>3
  <2>9. CASE last \in NodesOf(s, n)
    <3>1. PICK k \in 1 .. n : s[k] = last
      BY <2>9 DEF NodesOf
    <3>2. /\ n \in Nat /\ s \in [1 .. n -> Node] /\ \A j, h \in 1 .. n : s[j] = s[h] => j = h
          /\ f = IF n = 0 THEN NULL ELSE s[1]
          /\ \A j \in 1 .. n : node[s[j]].next = IF j = n THEN NULL ELSE s[j + 1]
      BY <2>4 DEF Chain, IsList, NextOf
    <3> DEFINE s2 == Behind(s, k, p)
    <3>3. /\ k \in Nat /\ 1 <= k /\ k <= n /\ k + 1 \in 1 .. k + 1
          /\ \A j \in 1 .. k : j \in 1 .. n /\ j \in 1 .. k + 1 /\ j # k + 1
      BY <3>2
    <3>4. /\ s2[k + 1] = p /\ \A j \in 1 .. k : s2[j] = s[j]
          /\ \A j \in 1 .. k + 1 : j = k + 1 \/ j \in 1 .. k
      BY <3>3 DEF Behind
    <3>5. s2 \in [1 .. k + 1 -> Node]
      BY <2>5, <3>2, <3>3 DEF Behind
    <3>6. \A j \in 1 .. k : s[j] # p
      BY <2>5, <3>3 DEF NodesOf
    <3>7. \A j, h \in 1 .. k + 1 : s2[j] = s2[h] => j = h
      BY <3>2, <3>3, <3>4, <3>6
    <3>8. /\ node'[s[k]].next = p
          /\ \A x \in Node : x # s[k] => node'[x] = node[x]
      BY <1>2, <3>1, <3>2 DEF Shaped, Contents
    <3>9. ASSUME NEW j \in 1 .. k + 1
          PROVE  node'[s2[j]].next = IF j = k + 1 THEN NULL ELSE s2[j + 1]
      <4>1. CASE j = k + 1
        BY <2>5, <3>3, <3>4, <3>6, <3>8, <4>1
      <4>2. CASE j = k
        BY <3>3, <3>4, <3>8, <4>2
      <4>3. CASE j \in 1 .. k /\ j # k
        <5>1. j + 1 \in 1 .. k /\ j \in 1 .. n /\ j # n /\ j # k + 1
          BY <3>3, <4>3
        <5>2. s[j] # s[k] /\ s[j] \in Node
          BY <3>2, <4>3, <5>1
        <5> QED
          BY <3>2, <3>4, <3>8, <4>3, <5>1, <5>2
      <4> QED
        BY <3>4, <4>1, <4>2, <4>3
    <3>10. f = s2[1] /\ k + 1 # 0
      BY <3>2, <3>3, <3>4
    <3>11. \A j \in 1 .. k + 1 : NextOf(node')[s2[j]] = IF j = k + 1 THEN NULL ELSE s2[j + 1]
      BY <3>5, <3>9 DEF NextOf
    <3> HIDE DEF s2
    <3>12. Chain(s2, k + 1, f, node')
      BY <3>3, <3>5, <3>7, <3>10, <3>11 DEF Chain, IsList
    <3>13. NodesOf(s2, k + 1) \subseteq NodesOf(s, n) \cup {p}
      BY <3>3, <3>4 DEF NodesOf
    <3> QED
      BY <2>7, <3>12, <3>13
  <2> QED
    BY <2>8, <2>9
<1> QED
  BY <1>1, <1>2 DEF AddAppend

(* The reader takes the first node: what is left is the list behind it.      *)
LEMMA ReadReaches ==
  ASSUME InPlace, Shaped, NEW s, NEW n, NEW f, Reach(s, n, f), NEW t \in Threads, GetRead(t)
  PROVE  \E s2, n2, f2 : Reach(s2, n2, f2)'
<1>1. CASE first = NULL
  BY <1>1, ReachSame DEF GetRead, Die, list, locals
<1>2. CASE first # NULL
  <2>0. PICK s2, n2, f2 : s2 = Rest(s, n) /\ n2 = n - 1 /\ f2 = IF n = 1 THEN NULL ELSE s[2]
    OBVIOUS
  <2>1. /\ pc[t] = "get_read" /\ UNCHANGED <<first, node, heap>>
        /\ ptr' = [ptr EXCEPT ![t] = first]
        /\ next' = [next EXCEPT ![t] = node[first].next]
        /\ pc' = [pc EXCEPT ![t] = "get_unlink"]
    BY <1>2 DEF GetRead, Go, list
  <2>2. /\ pc'[t] = "get_unlink" /\ \A u \in Threads : u # t => pc'[u] = pc[u]
        /\ ptr'[t] = first /\ next'[t] = node[first].next
        /\ \A u \in Threads : u # t => ptr'[u] = ptr[u] /\ next'[u] = next[u]
    BY <2>1 DEF InPlace, Shaped
  <2>3. /\ "get_read" \in GetSide /\ "get_read" \notin Linking \cup Taken
        /\ "get_unlink" \in Taken /\ "get_unlink" \notin Linking
    BY DEF GetSide, GetLabels, Linking, Taken
  <2>4. \A u \in Threads : u # t => pc[u] \notin Taken
    BY <2>1, <2>3, OneEach, LinkingLabels
  <2>5. f = first
    BY <2>1, <2>3, <2>4 DEF Reach
  <2>6. /\ n \in Nat /\ s \in [1 .. n -> Node] /\ \A j, h \in 1 .. n : s[j] = s[h] => j = h
        /\ f = IF n = 0 THEN NULL ELSE s[1]
        /\ \A j \in 1 .. n : node[s[j]].next = IF j = n THEN NULL ELSE s[j + 1]
        /\ Chain(s, n, f, node) /\ NodesOf(s, n) \subseteq heap
    BY DEF Reach, Chain, IsList, NextOf
  <2>7. n # 0 /\ 1 \in 1 .. n /\ first = s[1] /\ n - 1 \in Nat
    BY <1>2, <2>5, <2>6
  <2>8. node[first].next = f2
    BY <2>0, <2>6, <2>7
  <2>9. Chain(s2, n2, f2, node)
    BY <2>0, <2>6, <2>7, ChainShorter
  <2>10. \A j \in 1 .. n - 1 : Rest(s, n)[j] = s[j + 1] /\ j + 1 \in 1 .. n /\ j + 1 # 1
    BY <2>6 DEF Rest
  <2>11. NodesOf(s2, n2) \subseteq NodesOf(s, n) /\ first \in NodesOf(s, n) \ NodesOf(s2, n2)
    <3>1. \A j \in 1 .. n - 1 : s[j + 1] # s[1]
      BY <2>6, <2>7, <2>10
    <3> QED
      BY <2>0, <2>7, <2>10, <3>1 DEF NodesOf
  <2>12. ASSUME NEW u \in Threads PROVE Holds(u, s2, n2, f2)'
    <3>1. CASE u = t
      <4>1. "get_unlink" # "add_first"
        OBVIOUS
      <4> QED
        BY <2>1, <2>2, <2>3, <2>6, <2>8, <2>11, <3>1, <4>1 DEF Holds
    <3>2. CASE u # t
      <4>1. Holds(u, s, n, f) /\ pc[u] \notin Taken
        BY <2>4, <3>2 DEF Reach
      <4>2. pc'[u] # "get_unlink"
        BY <2>2, <2>3, <3>2, <4>1
      <4> QED
        BY <2>1, <2>2, <2>11, <3>2, <4>1, <4>2 DEF Holds
    <3> QED
      BY <3>1, <3>2
  <2>13. ASSUME NEW u \in Threads, NEW v \in Threads, pc'[u] \in Linking, pc'[v] \in Taken
         PROVE  ptr'[u] # ptr'[v]
    <3>1. v = t /\ u # t
      BY <2>2, <2>3, <2>4, <2>13
    <3>2. Holds(u, s, n, f) /\ pc[u] \in Linking
      BY <2>2, <2>13, <3>1 DEF Reach
    <3>3. ptr[u] \notin NodesOf(s, n)
      BY <3>2 DEF Holds
    <3> QED
      BY <2>2, <2>11, <3>1, <3>3
  <2>14. Reach(s2, n2, f2)'
    BY <2>1, <2>2, <2>6, <2>9, <2>11, <2>12, <2>13 DEF Reach
  <2> QED
    BY <2>14
<1> QED
  BY <1>1, <1>2

(* Taking the node off the list.                                             *)
LEMMA UnlinkReaches ==
  ASSUME InPlace, Shaped, NEW s, NEW n, NEW f, Reach(s, n, f), NEW t \in Threads, GetUnlink(t)
  PROVE  Reach(s, n, f)'
<1>1. /\ pc[t] = "get_unlink" /\ first' = next[t] /\ UNCHANGED <<node, heap, ptr, next>>
      /\ pc' = [pc EXCEPT ![t] = "get_free"]
  BY DEF GetUnlink, Go, locals
<1>2. pc'[t] = "get_free" /\ \A u \in Threads : u # t => pc'[u] = pc[u]
  BY <1>1 DEF InPlace
<1>3. {"get_unlink", "get_free"} \subseteq Taken \ Linking
  BY DEF Taken, Linking
<1>4. Holds(t, s, n, f)
  BY DEF Reach
<1>5. first' = f /\ first = ptr[t] /\ ptr[t] \in heap \ NodesOf(s, n)
  BY <1>1, <1>3, <1>4 DEF Holds
<1>6. first # NULL
  BY <1>5, QueueAssumption DEF Shaped
<1>7. ASSUME NEW u \in Threads PROVE Holds(u, s, n, f)'
  <2>1. CASE u = t
    BY <1>1, <1>2, <1>3, <1>5, <2>1 DEF Holds
  <2>2. CASE u # t
    <3>1. Holds(u, s, n, f) /\ pc[u] # "add_first"
      BY <1>6 DEF Reach, Holds
    <3>2. pc[u] # "get_unlink"
      BY <1>1, <1>3, <2>2, OneEach, LinkingLabels
    <3> QED
      BY <1>1, <1>2, <2>2, <3>1, <3>2 DEF Holds
  <2> QED
    BY <2>1, <2>2
<1>8. \A u \in Threads : (pc'[u] \in Linking <=> pc[u] \in Linking) /\ (pc'[u] \in Taken <=> pc[u] \in Taken)
  BY <1>1, <1>2, <1>3
<1> QED
  BY <1>1, <1>5, <1>7, <1>8 DEF Reach

(* The node that is freed is on nobody's list, and not the writer's.         *)
LEMMA FreeReaches ==
  ASSUME InPlace, Shaped, NEW s, NEW n, NEW f, Reach(s, n, f), NEW t \in Threads, GetFree(t)
  PROVE  Reach(s, n, f)'
<1> DEFINE p == ptr[t]
<1>1. /\ pc[t] = "get_free" /\ UNCHANGED <<first, ptr, next>>
      /\ heap' = heap \ {p} /\ node' = [node EXCEPT ![p] = Blank]
      /\ pc' = [pc EXCEPT ![t] = "get_load"]
  BY DEF GetFree, Go, locals
<1>2. pc'[t] = "get_load" /\ \A u \in Threads : u # t => pc'[u] = pc[u]
  BY <1>1 DEF InPlace
<1>3. /\ "get_free" \in Taken /\ "get_load" \notin Taken \cup Linking
      /\ "get_unlink" \in Taken /\ "add_first" \in Linking
  BY DEF Taken, Linking
<1>4. \A u \in Threads : u # t => pc[u] \notin Taken
  BY <1>1, <1>3, OneEach, LinkingLabels
<1>5. Holds(t, s, n, f) /\ Chain(s, n, f, node) /\ NodesOf(s, n) \subseteq heap
  BY DEF Reach
<1>6. p \in heap \ NodesOf(s, n)
  BY <1>1, <1>3, <1>5 DEF Holds
<1>7. \A x \in heap : x # p => node'[x] = node[x]
  BY <1>1 DEF Shaped, Contents
<1>8. Chain(s, n, f, node') /\ NodesOf(s, n) \subseteq heap'
  <2>1. \A x \in NodesOf(s, n) : node'[x] = node[x]
    BY <1>5, <1>6, <1>7
  <2>2. Chain(s, n, f, node')
    BY <1>5, <2>1, ChainKept
  <2> QED
    BY <1>1, <1>5, <1>6, <2>2
<1>9. f = first
  BY <1>1, <1>3, <1>4 DEF Reach
<1>10. ASSUME NEW u \in Threads PROVE Holds(u, s, n, f)'
  <2>1. CASE u = t
    BY <1>2, <1>3, <2>1 DEF Holds
  <2>2. CASE u # t
    <3>1. Holds(u, s, n, f) /\ pc[u] \notin Taken /\ pc'[u] = pc[u]
      BY <1>2, <1>4, <2>2 DEF Reach
    <3>2. pc[u] \in Linking => ptr[u] # p
      BY <1>1, <1>3 DEF Reach
    <3>3. pc[u] \in Linking => ptr[u] \in heap' \ NodesOf(s, n) /\ node'[ptr[u]].next = NULL
      BY <1>1, <1>7, <3>1, <3>2 DEF Holds
    <3> QED
      BY <1>1, <1>3, <3>1, <3>3 DEF Holds
  <2> QED
    BY <2>1, <2>2
<1>11. \A u \in Threads : pc'[u] \notin Taken
  BY <1>2, <1>3, <1>4
<1> QED
  BY <1>1, <1>8, <1>9, <1>10, <1>11 DEF Reach

(* The contents of the blocks keep their shape.                              *)
LEMMA ShapedStep == ASSUME InPlace, Shaped, [Next]_vars PROVE Shaped'
<1>0. /\ first \in Node \cup {NULL} /\ node \in Contents /\ heap \subseteq Node
      /\ ptr \in [Threads -> Node \cup {NULL}] /\ next \in [Threads -> Node \cup {NULL}]
      /\ i \in [Writers -> Values] /\ pc \in [Threads -> {"idle"} \cup AddSide \cup GetSide \cup DestroyLabels]
  BY DEF Shaped, InPlace
<1>1. ASSUME UNCHANGED <<first, node, heap, ptr, next, i>> PROVE Shaped'
  BY <1>0, <1>1 DEF Shaped
<1>2. ASSUME NEW t \in Threads, Body(t) PROVE Shaped'
  <2>1. CASE AddAssert(t) \/ AddTest(t) \/ AddLink(t) \/ AddAdvance(t) \/ AddLoad(t) \/ AddStore(t)
             \/ GetAssert(t) \/ GetTest(t) \/ GetLoad(t) \/ GetStore(t)
    BY <1>1, <2>1 DEF AddAssert, AddTest, AddLink, AddAdvance, AddLoad, AddStore, GetAssert,
                      GetTest, GetLoad, GetStore, list, locals, clients
  <2>2. CASE AddMalloc(t)
    <3>1. pc[t] \in AddSide
      BY <2>2 DEF AddMalloc, AddSide, AddLabels
    <3>2. i[t] \in Values
      BY <1>0, <3>1 DEF InPlace
    <3>3. \A m \in Node : [node EXCEPT ![m] = [val |-> i[t], next |-> NULL]] \in Contents
      BY <1>0, <3>2 DEF Contents
    <3> QED
      BY <1>0, <1>1, <2>2, <3>3 DEF AddMalloc, list, clients, Shaped
  <2>3. CASE AddFirst(t)
    BY <1>0, <2>3 DEF AddFirst, locals, clients, Shaped
  <2>4. CASE AddAppend(t)
    <3>1. [node EXCEPT ![last].next = ptr[t]] \in Contents
      BY <1>0 DEF Contents
    <3> QED
      BY <1>0, <1>1, <2>4, <3>1 DEF AddAppend, list, locals, clients, Shaped
  <2>5. CASE GetRead(t)
    <3>1. \A m \in Node : node[m].next \in Node \cup {NULL}
      BY <1>0 DEF Contents
    <3>2. UNCHANGED <<first, node, heap, i>>
      BY <2>5 DEF GetRead, list, clients
    <3> QED
      BY <1>0, <1>1, <2>5, <3>1, <3>2 DEF GetRead, locals, Shaped
  <2>6. CASE GetUnlink(t)
    BY <1>0, <2>6 DEF GetUnlink, locals, clients, Shaped
  <2>7. CASE GetFree(t)
    <3>1. 0 \in Values
      BY QueueAssumption DEF Values
    <3>2. [node EXCEPT ![ptr[t]] = Blank] \in Contents
      BY <1>0, <3>1 DEF Contents, Blank
    <3> QED
      BY <1>0, <2>7, <3>2 DEF GetFree, locals, clients, Shaped
  <2> QED
    BY <1>2, <2>1, <2>2, <2>3, <2>4, <2>5, <2>6, <2>7 DEF Body, AddBody, GetBody
<1>3. ASSUME NEW t \in Threads, Return(t) PROVE Shaped'
  <2>1. pc[t] \in {"add_ok", "add_full"} => t \in Writers
    BY DEF InPlace, AddSide, AddLabels
  <2>2. /\ UNCHANGED <<first, node, heap>> /\ ptr' = [ptr EXCEPT ![t] = NULL]
        /\ next' = [next EXCEPT ![t] = NULL]
        /\ i' = i \/ (t \in Writers /\ i' = [i EXCEPT ![t] = Succ(@)])
    BY <1>3, <2>1 DEF Return, WriterReturn, ReaderReturn, LeaveScope, list
  <2> QED
    BY <1>0, <2>2, SuccTyped DEF Shaped
<1>4. ASSUME NEW t \in Threads, NEW l, Call(t, l) PROVE Shaped'
  BY <1>1, <1>4 DEF Call, list, locals, clients
<1>5. ASSUME UNCHANGED queueVars PROVE Shaped'
  BY <1>1, <1>5 DEF queueVars, list, locals, clients
<1>6. ASSUME QueueDestroy(main) PROVE Shaped'
  <2>1. main \in Threads
    BY ProgramsAssumption DEF Threads
  <2>2. CASE DestroyCancel(main) \/ DestroyFreeQueue(main)
    BY <1>1, <2>2 DEF DestroyCancel, DestroyFreeQueue, list, locals, clients
  <2>3. CASE DestroyJoin(main)
    BY <1>0, <2>3 DEF DestroyJoin, list, clients, Shaped
  <2>4. CASE DestroyFreeNode(main)
    <3>1. ptr[main] \in Node /\ node[ptr[main]].next \in Node \cup {NULL}
      BY <1>0, <2>1, <2>4 DEF DestroyFreeNode, Contents
    <3> QED
      BY <1>0, <2>4, <3>1 DEF DestroyFreeNode, clients, Shaped
  <2> QED
    BY <1>6, <2>2, <2>3, <2>4 DEF QueueDestroy
<1>7. ASSUME Monitor PROVE Shaped'
  BY <1>1, <1>7 DEF Monitor, MonitorPrint, MonitorWake, MonitorExit, queueVars, list, locals, clients
<1>8. CASE UNCHANGED vars
  BY <1>5, <1>8 DEF vars
<1> QED
  BY <1>2, <1>3, <1>4, <1>5, <1>6, <1>7, <1>8, NextIs DEF Walks

(* The body leads from such a list to such a list.                           *)
LEMMA BodyReaches ==
  ASSUME InPlace, Shaped, NEW s, NEW n, NEW f, Reach(s, n, f), NEW t \in Threads, Body(t)
  PROVE  \E s2, n2, f2 : Reach(s2, n2, f2)'
<1>1. CASE AddAssert(t) \/ AddTest(t) \/ AddAdvance(t) \/ AddLoad(t) \/ AddStore(t)
           \/ GetAssert(t) \/ GetTest(t) \/ GetLoad(t) \/ GetStore(t)
  <2>1. /\ UNCHANGED <<first, node, heap, ptr, next>> /\ pc[t] # "get_unlink"
        /\ pc' = pc \/ \E l \in {"add_test", "add_full", "add_malloc", "add_load", "add_store", "add_ok",
                                 "get_test", "get_empty", "get_read", "get_store", "get_ok"} :
                         pc' = [pc EXCEPT ![t] = l]
    BY <1>1 DEF AddAssert, AddTest, AddAdvance, AddLoad, AddStore, GetAssert, GetTest, GetLoad,
                GetStore, Go, Die, list, locals
  <2>2. {"add_test", "add_full", "add_malloc", "add_load", "add_store", "add_ok",
         "get_test", "get_empty", "get_read", "get_store", "get_ok"} \cap (Linking \cup Taken) = {}
    BY DEF Linking, Taken
  <2> QED
    BY <2>1, <2>2, ReachSame, ReachQuiet
<1>2. CASE AddMalloc(t) \/ AddLink(t) \/ AddFirst(t) \/ AddAppend(t)
  BY <1>2, MallocReaches, LinkReaches, FirstReaches, AppendReaches
<1>3. CASE GetRead(t) \/ GetUnlink(t) \/ GetFree(t)
  BY <1>3, ReadReaches, UnlinkReaches, FreeReaches
<1> QED
  BY <1>1, <1>2, <1>3 DEF Body, AddBody, GetBody

(* So does all that a program does, until it frees the list.                 *)
LEMMA ReachedStep == ASSUME InPlace, Shaped, Reached, [Next]_vars PROVE Reached'
<1>1. ASSUME NEW t \in Threads, Walks(t) PROVE Reached'
  <2>1. SUFFICES ASSUME \A u \in Threads : pc'[u] \notin DestroyLabels
                 PROVE  \E s, n, f : Reach(s, n, f)'
    BY DEF Reached
  <2>2. PICK l : pc' = [pc EXCEPT ![t] = l] /\ (pc[t] \in DestroyLabels => l = pc[t])
    BY <1>1, WalkPlaces
  <2>3. \A u \in Threads : pc[u] \notin DestroyLabels
    BY <2>1, <2>2 DEF InPlace
  <2>4. PICK s, n, f : Reach(s, n, f)
    BY <2>3 DEF Reached
  <2>5. CASE Body(t)
    BY <2>4, <2>5, BodyReaches
  <2>6. CASE Return(t)
    <3>1. /\ pc[t] # "get_unlink" /\ pc' = [pc EXCEPT ![t] = "idle"] /\ UNCHANGED <<first, node, heap>>
          /\ ptr' = [ptr EXCEPT ![t] = NULL] /\ next' = [next EXCEPT ![t] = NULL]
      BY <2>6 DEF Return, WriterReturn, ReaderReturn, LeaveScope, Go, list
    <3>2. \A u \in Threads : u # t => ptr'[u] = ptr[u] /\ next'[u] = next[u]
      BY <3>1 DEF Shaped
    <3>3. "idle" \notin Linking \cup Taken
      BY DEF Linking, Taken
    <3> QED
      BY <2>4, <3>1, <3>2, <3>3, ReachQuiet
  <2>7. ASSUME NEW m \in Towards, Call(t, m),
               pc[t] \in {"idle", "add_wait", "get_wait", "add_lock", "get_lock"}
        PROVE  \E s2, n2, f2 : Reach(s2, n2, f2)'
    <3>1. pc' = [pc EXCEPT ![t] = m] /\ UNCHANGED <<first, node, heap, ptr, next>> /\ pc[t] # "get_unlink"
      BY <2>7 DEF Call, Go, list, locals
    <3>2. m \notin Linking \cup Taken
      BY DEF Towards, Linking, Taken
    <3> QED
      BY <2>4, <3>1, <3>2, ReachQuiet
  <2>8. CASE UNCHANGED queueVars
    BY <2>4, <2>8, ReachSame DEF queueVars, list, locals
  <2> QED
    BY <1>1, <2>5, <2>6, <2>7, <2>8 DEF Walks
<1>2. ASSUME QueueDestroy(main) PROVE Reached'
  <2>1. \E l \in DestroyLabels : pc'[main] = l
    <3>1. main \in Threads
      BY ProgramsAssumption DEF Threads
    <3> QED
      BY <1>2, <3>1 DEF QueueDestroy, DestroyCancel, DestroyJoin, DestroyFreeNode, DestroyFreeQueue, Go,
                        DestroyLabels, InPlace
  <2>2. main \in Threads
    BY ProgramsAssumption DEF Threads
  <2> QED
    BY <2>1, <2>2 DEF Reached
<1>3. ASSUME UNCHANGED <<first, node, heap, pc, ptr, next>> PROVE Reached'
  <2>1. ASSUME NEW s, NEW n, NEW f, Reach(s, n, f) PROVE Reach(s, n, f)'
    BY <1>3, <2>1, ReachSame
  <2> QED
    BY <1>3, <2>1 DEF Reached
<1>4. ASSUME Monitor PROVE Reached'
  BY <1>3, <1>4 DEF Monitor, MonitorPrint, MonitorWake, MonitorExit, queueVars, list, locals
<1>5. CASE UNCHANGED vars
  BY <1>3, <1>5 DEF vars, queueVars, list, locals
<1> QED
  BY <1>1, <1>2, <1>4, <1>5, NextIs

LEMMA ReachedStarts == Init => Shaped /\ Reached
<1> SUFFICES ASSUME Init PROVE Shaped /\ Reached
  OBVIOUS
<1>1. /\ first = NULL /\ heap = {} /\ node = [m \in Node |-> Blank] /\ pc = [t \in Threads |-> "idle"]
      /\ ptr = [t \in Threads |-> NULL] /\ next = [t \in Threads |-> NULL] /\ i = [t \in Writers |-> 0]
  BY DEF Init, QueueInit
<1>2. 0 \in Values /\ Blank \in [val : Values, next : Node \cup {NULL}]
  BY QueueAssumption DEF Values, Blank
<1>3. Shaped
  BY <1>1, <1>2 DEF Shaped, Contents
<1> DEFINE s == [k \in 1 .. 0 |-> NULL]
<1>4. Chain(s, 0, NULL, node) /\ NodesOf(s, 0) = {}
  BY DEF Chain, IsList, NodesOf
<1> HIDE DEF s
<1>5. \A t \in Threads : pc[t] = "idle" /\ pc[t] \notin Linking \cup Taken
  BY <1>1 DEF Linking, Taken
<1>6. Reach(s, 0, NULL)
  BY <1>1, <1>4, <1>5 DEF Reach, Holds
<1> QED
  BY <1>3, <1>6 DEF Reached

(* However the writer and the reader race, the reader follows q->first only  *)
(* to a block that is allocated, and frees only such a block: no matter      *)
(* where the writer's stores through a stale q->last have landed.            *)
THEOREM ProgramsReaderStaysOnHeap == Spec => []ReaderStaysOnHeap
<1>1. ASSUME InPlace, Reached PROVE ReaderStaysOnHeap
  <2> SUFFICES ASSUME NEW r \in Readers
               PROVE  /\ pc[r] = "get_read" => first \in heap \cup {NULL}
                      /\ pc[r] = "get_free" => ptr[r] \in heap
    BY DEF ReaderStaysOnHeap
  <2>0. r \in Threads
    BY DEF Threads
  <2>1. ASSUME pc[r] \in {"get_read", "get_free"}
        PROVE  /\ pc[r] = "get_read" => first \in heap \cup {NULL}
               /\ pc[r] = "get_free" => ptr[r] \in heap
    <3>1. pc[r] \in GetSide /\ "get_unlink" \in GetSide /\ "get_free" \in Taken
      BY <2>1 DEF GetSide, GetLabels, Taken
    <3>2. \A u \in Threads : pc[u] \notin DestroyLabels
      <4>1. ASSUME NEW u \in Threads, pc[u] \in DestroyLabels PROVE FALSE
        <5>1. u = main /\ Acts(u)
          BY <1>1, <4>1 DEF InPlace, DestroyLabels
        <5>2. Acts(r)
          BY <1>1, <2>0, <2>1 DEF InPlace
        <5>3. r = main
          BY <5>1, <5>2 DEF Acts
        <5> QED
          BY <3>1, <4>1, <5>1, <5>3, LinkingLabels
      <4> QED
        BY <4>1
    <3>3. PICK s, n, f : Reach(s, n, f)
      BY <1>1, <3>2 DEF Reached
    <3>4. pc[r] = "get_free" => ptr[r] \in heap
      BY <2>0, <3>1, <3>3 DEF Reach, Holds
    <3>5. CASE pc[r] = "get_read"
      <4>1. \A u \in Threads : pc[u] # "get_unlink"
        BY <1>1, <2>0, <3>1, <3>5, OneEach
      <4>2. f = first /\ Chain(s, n, f, node) /\ NodesOf(s, n) \subseteq heap
        BY <3>3, <4>1 DEF Reach
      <4>3. n \in Nat /\ f = IF n = 0 THEN NULL ELSE s[1]
        BY <4>2 DEF Chain, IsList
      <4>4. n # 0 => s[1] \in NodesOf(s, n)
        <5>1. n # 0 => 1 \in 1 .. n
          BY <4>3
        <5> QED
          BY <5>1 DEF NodesOf
      <4> QED
        BY <3>5, <4>2, <4>3, <4>4
    <3> QED
      BY <2>1, <3>4, <3>5
  <2> QED
    BY <2>1
<1>2. InPlace /\ Shaped /\ Reached /\ [Next]_vars => (InPlace /\ Shaped /\ Reached)'
  BY InPlaceStep, ShapedStep, ReachedStep
<1> QED
  BY <1>1, <1>2, InPlaceStarts, ReachedStarts, PTL DEF Spec
-----------------------------------------------------------------------------
(* Whom a program of one thread would see hold the lock: without a lock main *)
(* is always alone with the queue.                                           *)
Locker == IF variant \in {"any", "sync"} THEN main ELSE holder

Q == INSTANCE QueueSteps WITH holder <- Locker

(* The instance has its own copy of the standard operators on sets.          *)
LEMMA SameSizes ==
  ASSUME NEW S PROVE (Q!IsFiniteSet(S) <=> IsFiniteSet(S)) /\ Q!Cardinality(S) = Cardinality(S)
<1>1. Q!IsFiniteSet(S) <=> IsFiniteSet(S)
  BY DEF Q!IsFiniteSet, IsFiniteSet
<1>2. Q!Cardinality(S) = Cardinality(S)
  BY DEF Q!Cardinality, Cardinality
<1> QED
  BY <1>1, <1>2

(* The assumptions of QueueSteps about the constants.                        *)
LEMMA SameAssumptions ==
  /\ Q!IsFiniteSet(Writers) /\ Q!IsFiniteSet(Readers) /\ Q!IsFiniteSet(Node)
  /\ MaxCount <= Q!Cardinality(Node)
  /\ NoThread \notin Q!Threads
BY SameSizes, QueueAssumption, LockedQueueAssumption, BlocksAssumption DEF Q!Threads, Threads

(* What depends on neither lock nor locker is the same.                      *)
LEMMA SameQueue ==
  ASSUME NEW t \in Threads
  PROVE  /\ Body(t) => Q!Body(t)
         /\ Return(t) => Q!Return(t)
         /\ \A l : Call(t, l) => Q!Call(t, l)
         /\ UNCHANGED queueVars => UNCHANGED Q!queueVars
<1>1. Body(t) => Q!Body(t)
  BY DEF
    Body, Q!Body, Q!AddBody, Q!GetBody, Q!AddAssert, Q!AddTest, Q!AddMalloc, Q!AddLink,
    Q!AddFirst, Q!AddAppend, Q!AddAdvance, Q!AddLoad, Q!AddStore, Q!GetAssert, Q!GetTest,
    Q!GetRead, Q!GetUnlink, Q!GetFree, Q!GetLoad, Q!GetStore, Q!Go, Q!Die, Q!Blank, Q!list,
    Q!numbers, Q!locals, Q!clients, AddBody, GetBody, AddAssert, AddTest, AddMalloc, AddLink,
    AddFirst, AddAppend, AddAdvance, AddLoad, AddStore, GetAssert, GetTest, GetRead, GetUnlink,
    GetFree, GetLoad, GetStore, Go, Die, Blank, list, numbers, locals, clients
<1>2. Return(t) => Q!Return(t)
  BY DEF
    Q!Return, Q!WriterReturn, Q!ReaderReturn, Q!LeaveScope, Q!Go, Q!Succ, Q!list, Q!numbers,
    Q!locals, Q!clients, Return, WriterReturn, ReaderReturn, LeaveScope, Go, Succ, list, numbers,
    locals, clients
<1>3. \A l : Call(t, l) => Q!Call(t, l)
  BY DEF Q!Call, Q!Go, Q!list, Q!numbers, Q!locals, Q!clients, Call, Go, list, numbers, locals,
         clients
<1>4. UNCHANGED queueVars => UNCHANGED Q!queueVars
  BY DEF Q!queueVars, Q!list, Q!numbers, Q!locals, Q!clients, queueVars, list, numbers, locals,
         clients
<1> QED
  BY <1>1, <1>2, <1>3, <1>4

LEMMA SameSets ==
  /\ Q!Towards = Towards /\ Q!AddSide = AddSide /\ Q!GetSide = GetSide /\ Q!InBody = InBody
  /\ Q!Resting = Resting /\ Q!Threads = Threads
BY DEF Q!Towards, Q!AddSide, Q!GetSide, Q!InBody, Q!Resting, Q!Threads, Q!AddLabels, Q!GetLabels,
       Towards, AddSide, GetSide, InBody, Resting, Threads, AddLabels, GetLabels

LEMMA SameChain ==
  ASSUME NEW s, NEW n, NEW f, NEW nd
  PROVE  (Q!Chain(s, n, f, nd) <=> Chain(s, n, f, nd)) /\ Q!NodesOf(s, n) = NodesOf(s, n)
BY DEF Q!Chain, Q!IsList, Q!NextOf, Q!NodesOf, Chain, IsList, NextOf, NodesOf

(* With a lock, the locker is its holder.                                    *)
LEMMA LockedLikewise ==
  ASSUME NEW t \in Threads, Around(t), Locker = holder, Locker' = holder' PROVE Q!Around(t)
<1>1. /\ UNCHANGED holder => UNCHANGED Locker
      /\ Lock!Acquire(t) => Q!Lock!Acquire(t)
      /\ Lock!Release(t) => Q!Lock!Release(t)
  BY DEF Lock!Acquire, Q!Lock!Acquire, Lock!Release, Q!Lock!Release
<1>2. ASSUME NEW l, GoesOn(t, l) PROVE Q!GoesOn(t, l)
  <2>1. /\ l \in Towards /\ Call(t, l)
        /\ pc[t] \in {"idle", "add_wait", "get_wait", "add_lock", "get_lock"}
        /\ \/ l \in AddSide /\ (t \in Writers \/ pc[t] \in AddSide)
           \/ l \in GetSide /\ (t \in Readers \/ pc[t] \in GetSide)
        /\ UNCHANGED holder \/ Lock!Acquire(t)
        /\ l \in InBody => holder' = t
    BY <1>2 DEF GoesOn
  <2>2. UNCHANGED Locker \/ Q!Lock!Acquire(t)
    BY <1>1, <2>1
  <2>3. Q!Call(t, l)
    BY <2>1, SameQueue
  <2> QED
    BY <2>1, <2>2, <2>3, SameSets DEF Q!GoesOn
<1>3. CASE Body(t) /\ UNCHANGED holder
  BY <1>1, <1>3, SameQueue DEF Q!Around
<1>4. CASE Return(t) /\ (UNCHANGED holder \/ Lock!Release(t))
  BY <1>1, <1>4, SameQueue DEF Q!Around
<1>5. CASE /\ UNCHANGED queueVars /\ pc[t] \in Resting \ InBody
           /\ Lock!Acquire(t) \/ Lock!Release(t)
  BY <1>1, <1>5, SameQueue, SameSets DEF Q!Around
<1>6. CASE UNCHANGED queueVars /\ UNCHANGED holder
  BY <1>1, <1>6, SameQueue DEF Q!Around
<1> QED
  BY <1>2, <1>3, <1>4, <1>5, <1>6 DEF Around, Q!Around

(* Without one, it is main.                                                  *)
LEMMA AloneLikewise ==
  ASSUME main \in Threads, Sync!Step(main), Locker = main, Locker' = main PROVE Q!Around(main)
<1>1. CASE Body(main) \/ Return(main)
  BY <1>1, SameQueue DEF Q!Around
<1>2. ASSUME NEW l, pc[main] = "idle", Call(main, l),
             \/ l = "add_assert" /\ main \in Writers
             \/ l = "get_assert" /\ main \in Readers
      PROVE  Q!Around(main)
  <2>1. Q!GoesOn(main, l)
    BY <1>2, SameQueue, SameSets, TowardsSides DEF Q!GoesOn
  <2> QED
    BY <2>1 DEF Q!Around
<1> QED
  BY <1>1, <1>2, SameSync

(* The queues with a lock do not come back to their caller with it.          *)
LEMMA IdleReleases ==
  ASSUME InPlace, NEW t \in Threads, pc'[t] = "idle",
         Spinlock!Step(t) \/ Mutex!Step(t) \/ Cond!Step(t) \/ Cond!SpuriousWakeup(t) \/ Sem!Step(t)
  PROVE  \/ holder' = NoThread
         \/ holder' = holder /\ (holder # t \/ pc[t] = "idle")
<1>0. pc \in [Threads -> {"idle"} \cup AddSide \cup GetSide \cup DestroyLabels]
  BY DEF InPlace
<1>1. ~Body(t)
  <2>1. "idle" \notin AddLabels \cup GetLabels
    BY DEF AddLabels, GetLabels
  <2> QED
    BY <1>0, <2>1, BodyPlaces
<1>2. \A l \in Towards : ~Call(t, l)
  BY <1>0 DEF Call, Go, Towards
<1>3. CASE Spinlock!Step(t)
  <2>1. ~Spinlock!AddBody(t) /\ ~Spinlock!GetBody(t)
    BY <1>1, SameLockedBody
  <2>2. ~Spinlock!LockAdd(t) /\ ~Spinlock!LockGet(t)
    BY <1>2, SameLoops, TowardsSides DEF Spinlock!LockAdd, Spinlock!LockGet
  <2> QED
    BY <1>3, <2>1, <2>2 DEF Spinlock!Step, Spinlock!QueueAdd, Spinlock!QueueGet, Spinlock!Unlock,
                            Spinlock!Lock!Release
<1>4. CASE Mutex!Step(t)
  <2>1. ~Mutex!AddBody(t) /\ ~Mutex!GetBody(t)
    BY <1>1, SameLockedBody
  <2>2. ~Mutex!LockAdd(t) /\ ~Mutex!LockGet(t)
    BY <1>2, SameLoops, TowardsSides DEF Mutex!LockAdd, Mutex!LockGet
  <2> QED
    BY <1>4, <2>1, <2>2 DEF Mutex!Step, Mutex!QueueAdd, Mutex!QueueGet, Mutex!Unlock,
                            Mutex!Lock!Release
<1>5. CASE Cond!Step(t) \/ Cond!SpuriousWakeup(t)
  <2>1. ~Cond!AddBody(t) /\ ~Cond!GetBody(t)
    BY <1>1, SameBody
  <2>2. UNCHANGED Cond!queueVars => pc'[t] = pc[t]
    BY DEF Cond!queueVars
  <2>3. ~Cond!LockMutex(t) /\ (Cond!AwaitNotFull(t) \/ Cond!AwaitNotEmpty(t) => FALSE)
    BY <1>2, <2>2, SameLoops, TowardsSides DEF Cond!LockMutex, Cond!AwaitNotFull, Cond!AwaitNotEmpty
  <2>4. Cond!Unlock(t) => holder' = NoThread
    BY DEF Cond!Unlock, Cond!Lock!Release
  <2>5. Cond!SpuriousWakeup(t) => holder' = holder /\ pc[t] = "idle"
    BY <2>2 DEF Cond!SpuriousWakeup
  <2> QED
    BY <1>5, <2>1, <2>3, <2>4, <2>5 DEF Cond!Step, Cond!QueueAdd, Cond!QueueGet
<1>6. CASE Sem!Step(t)
  <2>1. ~Sem!Body(t)
    BY <1>1, SameBody
  <2>2. ~Sem!SemWait(t) /\ ~Sem!LockMutex(t)
    BY <1>2, SameLoops, TowardsSides DEF Sem!SemWait, Sem!LockMutex
  <2>3. Sem!Unlock(t) => holder' = NoThread
    BY DEF Sem!Unlock, Sem!Lock!Release
  <2>4. Sem!Post(t) => holder' = holder /\ holder # t
    BY DEF Sem!Post
  <2> QED
    BY <1>6, <2>1, <2>2, <2>3, <2>4 DEF Sem!Step
<1> QED
  BY <1>3, <1>4, <1>5, <1>6
-----------------------------------------------------------------------------
(* The lock is main's or free, and free between calls; the monitor has ended *)
(* before the queue is freed.                                                *)
Lives ==
  /\ holder \in {main, NoThread}
  /\ variant \in {"any", "sync"} => holder = NoThread
  /\ pc[main] \in {"idle"} \cup DestroyLabels => holder = NoThread
  /\ pc[main] \in {"free", "done"} => monitor = "gone"
  /\ live = (pc[main] # "done")

(* queue_destroy frees the nodes from the first to the last.                 *)
Destroying(s, n) ==
  /\ fault = "none"
  /\ Chain(s, n, IF pc[main] = "join" THEN first ELSE ptr[main], node)
  /\ heap = NodesOf(s, n)
  /\ pc[main] = "done" => n = 0

Alone(s, n) == IF pc[main] \in DestroyLabels THEN Destroying(s, n) ELSE Q!Queue(s, n)

Lone == Sequential => Lives /\ \E s, n : Alone(s, n)

LEMMA MainIsThread == main \in Threads /\ main \in Writers /\ main \in Readers /\ main # NoThread
BY ProgramsAssumption, LockedQueueAssumption DEF Threads

(* A step of main before queue_destroy is one of the queue of QueueSteps.    *)
LEMMA MainAround ==
  ASSUME InPlace, Sequential, Lives, Runs(main), UNCHANGED variant
  PROVE  /\ Q!Around(main)
         /\ Lives' \/ pc[main] \in DestroyLabels
         /\ pc[main] \in DestroyLabels => UNCHANGED <<queueVars, holder>>
<1>0. /\ main \in Threads /\ main # NoThread /\ QueueStep(main) /\ UNCHANGED life
      /\ "idle" \notin DestroyLabels /\ Walks(main)
  <2>1. Spinlock!Step(main) \/ Mutex!Step(main) \/ Cond!Step(main) \/ Cond!SpuriousWakeup(main)
          \/ Sem!Step(main) => Walks(main)
    BY MainIsThread, SpinlockAround, MutexAround, CondAround, SemAround, AroundWalks
  <2>2. Sync!Step(main) => Walks(main)
    <3>1. "add_assert" \in Towards \cap AddSide /\ "get_assert" \in Towards \cap GetSide
      BY TowardsSides
    <3> QED
      BY <3>1, MainIsThread, SameSync DEF Walks
  <2> QED
    BY <2>1, <2>2, MainIsThread DEF Runs, QueueStep, DestroyLabels
<1>1. PICK l : /\ pc' = [pc EXCEPT ![main] = l] /\ l \in {pc[main], "idle"} \cup AddSide \cup GetSide
               /\ pc[main] \in DestroyLabels => l = pc[main]
  BY <1>0, WalkPlaces
<1>2. pc'[main] = l
  BY <1>0, <1>1 DEF InPlace
<1>3. l \in DestroyLabels => pc[main] \in DestroyLabels
  BY <1>0, <1>1, LinkingLabels
<1>4. monitor' = monitor /\ live' = live
  BY <1>0 DEF life
<1>5. ASSUME holder' \in {main, NoThread}, variant \in {"any", "sync"} => holder' = NoThread,
             l = "idle" => holder' = NoThread, pc[main] \notin DestroyLabels
      PROVE  Lives'
  BY <1>2, <1>3, <1>4, <1>5 DEF Lives, DestroyLabels
<1>6. pc[main] \in DestroyLabels => UNCHANGED queueVars
  <2>1. ASSUME pc[main] \in DestroyLabels PROVE UNCHANGED queueVars
    <3>1. pc[main] \notin AddLabels \cup GetLabels
      BY <2>1 DEF DestroyLabels, AddLabels, GetLabels
    <3>2. ~Body(main)
      BY <1>0, <3>1, BodyPlaces DEF InPlace
    <3>3. ~Return(main)
      BY <3>1 DEF Return, AddLabels, GetLabels
    <3> QED
      BY <1>0, <2>1, <3>2, <3>3 DEF Walks, DestroyLabels
  <2> QED
    BY <2>1
<1>7. CASE variant \in {"any", "sync"}
  <2>1. Sync!Step(main) /\ UNCHANGED holder /\ Locker = main /\ Locker' = main
    BY <1>0, <1>7 DEF QueueStep, Locker
  <2>2. Q!Around(main)
    BY <1>0, <2>1, AloneLikewise
  <2>3. holder = NoThread
    BY <1>7 DEF Lives
  <2> QED
    BY <1>5, <1>6, <2>1, <2>2, <2>3
<1>8. CASE variant \notin {"any", "sync"}
  <2>1. Locker = holder /\ Locker' = holder'
    BY <1>8 DEF Locker
  <2>2. \/ Spinlock!Step(main) \/ Mutex!Step(main) \/ Cond!Step(main) \/ Cond!SpuriousWakeup(main)
        \/ Sem!Step(main)
    BY <1>0, <1>8 DEF QueueStep, Sequential
  <2>3. Around(main)
    BY <1>0, <2>2, SpinlockAround, MutexAround, CondAround, SemAround
  <2>4. Q!Around(main)
    BY <1>0, <2>1, <2>3, LockedLikewise
  <2>5. holder' \in {holder, main, NoThread} /\ holder \in {main, NoThread}
    BY <2>3 DEF Around, GoesOn, Lock!Acquire, Lock!Release, Lives
  <2>6. l = "idle" => holder' = NoThread
    <3>1. ASSUME l = "idle" PROVE holder' = NoThread
      <4>1. holder' = NoThread \/ (holder' = holder /\ (holder # main \/ pc[main] = "idle"))
        BY <1>0, <1>2, <2>2, <3>1, IdleReleases
      <4> QED
        BY <4>1 DEF Lives
    <3> QED
      BY <3>1
  <2>7. pc[main] \in DestroyLabels => UNCHANGED holder
    <3>1. ASSUME pc[main] \in DestroyLabels PROVE UNCHANGED holder
      <4>1. /\ pc[main] \notin Resting /\ pc[main] \notin {"add_ok", "add_full", "get_ok", "get_empty"}
            /\ pc[main] \notin {"idle", "add_wait", "get_wait", "add_lock", "get_lock"}
        BY <3>1 DEF DestroyLabels, Resting
      <4>2. ~Return(main) /\ \A m : ~GoesOn(main, m)
        BY <4>1 DEF Return, GoesOn
      <4> QED
        BY <2>3, <4>1, <4>2 DEF Around
    <3> QED
      BY <3>1
  <2> QED
    BY <1>5, <1>6, <1>8, <2>4, <2>5, <2>6, <2>7
<1> QED
  BY <1>7, <1>8

(* The steps of queue_destroy.                                               *)
LEMMA DestroyKeeps ==
  ASSUME InPlace, Shaped, Sequential, Lives, NEW s, NEW n, Alone(s, n), Destroys, UNCHANGED variant
  PROVE  /\ Lives' /\ \E s2, n2 : Alone(s2, n2)'
         /\ UNCHANGED <<first, node, i, val>>
         /\ pc'[main] \in DestroyLabels /\ pc[main] \in DestroyLabels \cup {"idle"}
<1>0. /\ QueueDestroy(main) /\ UNCHANGED holder /\ holder \in {main, NoThread}
      /\ variant' = variant /\ Locker' = Locker
  BY DEF Destroys, Lives, Locker
<1>1. /\ UNCHANGED <<first, node, i, val, fault>>
      /\ pc[main] \in DestroyLabels \cup {"idle"} /\ holder = NoThread
      /\ pc[main] \in DestroyLabels => pc'[main] # "join"
  BY <1>0, MainIsThread DEF QueueDestroy, DestroyCancel, DestroyJoin, DestroyFreeNode, DestroyFreeQueue,
     Go, DestroyLabels, list, numbers, locals, clients, Lives, InPlace
<1>2. ASSUME NEW s2, NEW n2, pc'[main] \in DestroyLabels, Destroying(s2, n2)'
      PROVE  \E s3, n3 : Alone(s3, n3)'
  BY <1>2 DEF Alone
<1>3. CASE DestroyCancel(main)
  <2>1. /\ pc[main] = "idle" /\ pc'[main] = "join" /\ UNCHANGED <<heap, monitor, live>>
        /\ "idle" \notin DestroyLabels /\ "join" \in DestroyLabels
    BY <1>3, MainIsThread DEF DestroyCancel, Go, InPlace, list, DestroyLabels
  <2>2. Q!Queue(s, n)
    BY <2>1 DEF Alone
  <2>3. Q!Doing = "idle"
    BY <1>1, <2>1, MainIsThread, SameSets, LockedQueueAssumption DEF Q!Doing, Locker
  <2>4. heap = Q!NodesOf(s, n) /\ Q!Chain(s, n, first, node) /\ fault = "none"
    BY <2>2, <2>3 DEF Q!Queue, Q!Work, Q!Owning, Q!Linking
  <2>5. Destroying(s, n)'
    BY <1>1, <2>1, <2>4, SameChain DEF Destroying
  <2>6. Lives'
    BY <1>0, <1>1, <2>1 DEF Lives, DestroyLabels
  <2> QED
    BY <1>1, <1>2, <2>1, <2>5, <2>6
<1>4. CASE DestroyJoin(main)
  <2>1. /\ pc[main] = "join" /\ monitor = "gone" /\ ptr'[main] = first /\ pc'[main] = "free"
        /\ UNCHANGED <<heap, monitor, live>> /\ {"join", "free"} \subseteq DestroyLabels
    BY <1>4, MainIsThread DEF DestroyJoin, Go, InPlace, Shaped, list, life, DestroyLabels
  <2>2. Destroying(s, n)
    BY <2>1 DEF Alone
  <2>3. Destroying(s, n)'
    BY <1>1, <2>1, <2>2 DEF Destroying
  <2>4. Lives'
    BY <1>0, <1>1, <2>1 DEF Lives, DestroyLabels
  <2> QED
    BY <1>1, <1>2, <2>1, <2>3, <2>4
<1>5. CASE DestroyFreeNode(main)
  <2>1. /\ pc[main] = "free" /\ ptr[main] # NULL /\ ptr'[main] = node[ptr[main]].next
        /\ heap' = heap \ {ptr[main]} /\ pc' = pc /\ UNCHANGED <<monitor, live>>
        /\ "free" \in DestroyLabels
    BY <1>5, MainIsThread DEF DestroyFreeNode, Shaped, life, DestroyLabels
  <2>2. Chain(s, n, ptr[main], node) /\ heap = NodesOf(s, n) /\ fault = "none"
    BY <2>1 DEF Alone, Destroying
  <2>3. /\ n \in Nat /\ s \in [1 .. n -> Node] /\ \A j, k \in 1 .. n : s[j] = s[k] => j = k
        /\ ptr[main] = IF n = 0 THEN NULL ELSE s[1]
        /\ \A j \in 1 .. n : node[s[j]].next = IF j = n THEN NULL ELSE s[j + 1]
    BY <2>2 DEF Chain, IsList, NextOf
  <2>4. n # 0 /\ 1 \in 1 .. n /\ ptr[main] = s[1]
    BY <2>1, <2>3
  <2>5. PICK s2, n2 : s2 = Rest(s, n) /\ n2 = n - 1
    OBVIOUS
  <2>6. Chain(s2, n2, ptr'[main], node')
    BY <1>1, <2>1, <2>2, <2>3, <2>4, <2>5, ChainShorter
  <2>7. NodesOf(s2, n2) = NodesOf(s, n) \ {s[1]}
    <3>1. \A j \in 1 .. n - 1 : Rest(s, n)[j] = s[j + 1] /\ j + 1 \in 1 .. n /\ j + 1 # 1
      BY <2>3 DEF Rest
    <3>2. \A j \in 1 .. n : j = 1 \/ (j - 1 \in 1 .. n - 1 /\ (j - 1) + 1 = j)
      BY <2>3
    <3>3. ASSUME NEW x \in NodesOf(s2, n2) PROVE x \in NodesOf(s, n) /\ x # s[1]
      <4>1. PICK j \in 1 .. n - 1 : x = s[j + 1]
        BY <2>5, <3>1 DEF NodesOf
      <4> QED
        BY <2>3, <2>4, <3>1, <4>1 DEF NodesOf
    <3>4. ASSUME NEW x \in NodesOf(s, n), x # s[1] PROVE x \in NodesOf(s2, n2)
      <4>1. PICK j \in 1 .. n : x = s[j]
        BY DEF NodesOf
      <4>2. j - 1 \in 1 .. n - 1 /\ Rest(s, n)[j - 1] = x
        BY <3>1, <3>2, <3>4, <4>1
      <4> QED
        BY <2>5, <4>2 DEF NodesOf
    <3> QED
      BY <3>3, <3>4
  <2>8. Destroying(s2, n2)'
    BY <1>1, <2>1, <2>2, <2>4, <2>6, <2>7 DEF Destroying
  <2>9. Lives'
    BY <1>0, <1>1, <2>1 DEF Lives, DestroyLabels
  <2> QED
    BY <1>1, <1>2, <2>1, <2>8, <2>9
<1>6. CASE DestroyFreeQueue(main)
  <2>1. /\ pc[main] = "free" /\ ptr[main] = NULL /\ ptr' = ptr /\ pc'[main] = "done"
        /\ live' = FALSE /\ UNCHANGED <<heap, monitor>> /\ {"free", "done"} \subseteq DestroyLabels
    BY <1>6, MainIsThread DEF DestroyFreeQueue, Go, InPlace, list, locals, DestroyLabels
  <2>2. Destroying(s, n)
    BY <2>1 DEF Alone
  <2>3. n = 0
    <3>1. /\ n \in Nat /\ s \in [1 .. n -> Node] /\ ptr[main] = IF n = 0 THEN NULL ELSE s[1]
      BY <2>1, <2>2 DEF Destroying, Chain, IsList
    <3>2. n # 0 => 1 \in 1 .. n
      BY <3>1
    <3> QED
      BY <2>1, <3>1, <3>2, QueueAssumption
  <2>4. Destroying(s, n)'
    BY <1>1, <2>1, <2>2, <2>3 DEF Destroying
  <2>5. Lives'
    BY <1>0, <1>1, <2>1 DEF Lives, DestroyLabels
  <2> QED
    BY <1>1, <1>2, <2>1, <2>4, <2>5
<1> QED
  BY <1>0, <1>3, <1>4, <1>5, <1>6 DEF QueueDestroy

(* Nothing but the monitor's place changes.                                  *)
LEMMA AloneSame ==
  ASSUME Shaped, Sequential, Lives, NEW s, NEW n, Alone(s, n), UNCHANGED <<queueVars, holder, variant>>
  PROVE  \E s2, n2 : Alone(s2, n2)'
<1>1. /\ UNCHANGED <<first, node, heap, pc, ptr, fault>> /\ UNCHANGED Locker
  BY DEF queueVars, list, locals, Locker
<1>2. CASE pc[main] \in DestroyLabels
  BY <1>1, <1>2 DEF Alone, Destroying
<1>3. CASE pc[main] \notin DestroyLabels
  <2>1. Q!Queue(s, n) /\ Q!Around(main)
    BY <1>1, <1>3, MainIsThread, SameQueue DEF Alone, Q!Around
  <2>2. \E s2, n2 : Q!Queue(s2, n2)'
    BY <2>1, MainIsThread, SameSets, Q!AroundStep, SameAssumptions, QueueAssumption,
         LockedQueueAssumption, BlocksAssumption
  <2> QED
    BY <1>1, <1>3, <2>2 DEF Alone
<1> QED
  BY <1>2, <1>3

(* A step of a program of one thread keeps its queue, and is one of          *)
(* BoundedFifo or none.                                                      *)
LEMMA LoneStep ==
  ASSUME InPlace, Shaped, Sequential, Lives, NEW s, NEW n, Alone(s, n), [Next]_vars
  PROVE  /\ Lives' /\ \E s2, n2 : Alone(s2, n2)'
         /\ \/ UNCHANGED <<first, node, pc, i, val>>
            \/ /\ UNCHANGED <<first, node, i, val>>
               /\ pc'[main] \in DestroyLabels /\ pc[main] \in DestroyLabels \cup {"idle"}
            \/ \E s2, n2 : /\ Q!Queue(s, n) /\ Q!Queue(s2, n2)'
                           /\ Q!FifoMove(Q!Waiting(Q!Doing, s, n, node), Q!Waiting(Q!Doing, s2, n2, node)')
<1>1. ASSUME Runs(main), UNCHANGED variant
      PROVE  /\ Lives' /\ \E s2, n2 : Alone(s2, n2)'
             /\ \/ UNCHANGED <<first, node, pc, i, val>>
                \/ \E s2, n2 :
                     /\ Q!Queue(s, n) /\ Q!Queue(s2, n2)'
                     /\ Q!FifoMove(Q!Waiting(Q!Doing, s, n, node), Q!Waiting(Q!Doing, s2, n2, node)')
  <2>1. /\ Q!Around(main) /\ (Lives' \/ pc[main] \in DestroyLabels)
        /\ pc[main] \in DestroyLabels => UNCHANGED <<queueVars, holder>>
    BY <1>1, MainAround
  <2>2. CASE pc[main] \in DestroyLabels
    <3>1. UNCHANGED <<queueVars, holder, variant>> /\ UNCHANGED life
      BY <1>1, <2>1, <2>2 DEF Runs
    <3>2. UNCHANGED <<first, node, pc, i, val>> /\ UNCHANGED <<monitor, live>>
      BY <3>1 DEF queueVars, list, locals, clients, life
    <3>3. Lives'
      BY <3>1, <3>2 DEF Lives
    <3> QED
      BY <3>1, <3>2, <3>3, AloneSame
  <2>3. CASE pc[main] \notin DestroyLabels
    <3>1. Q!Queue(s, n)
      BY <2>3 DEF Alone
    <3>2. PICK s2, n2 :
            /\ Q!Queue(s2, n2)'
            /\ Q!FifoMove(Q!Waiting(Q!Doing, s, n, node), Q!Waiting(Q!Doing, s2, n2, node)')
      BY <2>1, <3>1, MainIsThread, SameSets, Q!AroundStep, SameAssumptions, QueueAssumption,
         LockedQueueAssumption, BlocksAssumption
    <3>3. pc'[main] \notin DestroyLabels
      <4>1. Q!Placed'
        BY <3>2 DEF Q!Queue
      <4>2. pc'[main] \in {"idle"} \cup AddSide \cup GetSide
        BY <4>1, MainIsThread, SameSets DEF Q!Placed
      <4> QED
        BY <4>2, LinkingLabels DEF DestroyLabels
    <3>4. Alone(s2, n2)'
      BY <3>2, <3>3 DEF Alone
    <3> QED
      BY <2>1, <2>3, <3>1, <3>2, <3>4
  <2> QED
    BY <2>2, <2>3
<1>2. ASSUME MonitorThread
      PROVE  /\ Lives' /\ \E s2, n2 : Alone(s2, n2)'
             /\ UNCHANGED <<first, node, pc, i, val>>
  <2>1. /\ UNCHANGED <<list, numbers, pc, locals, clients, holder, variant, live>>
        /\ monitor' = "gone" \/ monitor # "gone"
        /\ UNCHANGED queueVars \/ (~live /\ monitor # "gone")
    BY <1>2 DEF MonitorThread, Monitor, MonitorPrint, MonitorWake, MonitorExit, queueVars
  <2>2. UNCHANGED queueVars
    BY <2>1 DEF Lives
  <2>3. UNCHANGED <<first, node, pc, i, val>>
    BY <2>1 DEF list, locals, clients
  <2>4. Lives'
    BY <2>1, <2>3 DEF Lives
  <2> QED
    BY <2>1, <2>2, <2>3, <2>4, AloneSame
<1>3. CASE UNCHANGED vars
  <2>1. UNCHANGED <<queueVars, holder, variant>> /\ UNCHANGED <<monitor, live>>
    BY <1>3 DEF vars, life
  <2>2. UNCHANGED <<first, node, pc, i, val>>
    BY <2>1 DEF queueVars, list, locals, clients
  <2>3. Lives'
    BY <2>1, <2>2 DEF Lives
  <2> QED
    BY <2>1, <2>2, <2>3, AloneSame
<1>4. CASE Next
  <2>1. \/ Runs(main) /\ UNCHANGED variant
        \/ Destroys /\ UNCHANGED variant
        \/ MonitorThread
    BY <1>4, NextIs DEF Acts
  <2> QED
    BY <1>1, <1>2, <2>1, DestroyKeeps
<1> QED
  BY <1>3, <1>4

LEMMA LoneStarts == Init => Lone /\ (Sequential => Q!Queue([k \in 1 .. 0 |-> NULL], 0))
<1> SUFFICES ASSUME Init PROVE Lives /\ Q!Queue([k \in 1 .. 0 |-> NULL], 0) /\ pc[main] = "idle"
  BY DEF Lone, Alone, DestroyLabels
<1>1. /\ first = NULL /\ last = NULL /\ count = 0 /\ balance = 0 /\ heap = {} /\ fault = "none"
      /\ node = [m \in Node |-> Blank] /\ pc = [t \in Threads |-> "idle"]
      /\ ptr = [t \in Threads |-> NULL] /\ next = [t \in Threads |-> NULL]
      /\ reg = [t \in Threads |-> 0] /\ val = [t \in Threads |-> 0] /\ i = [t \in Writers |-> 0]
      /\ holder = NoThread /\ live = TRUE
  BY DEF Init, QueueInit, LifeInit, Lock!LockInit
<1>2. pc[main] = "idle"
  BY <1>1, MainIsThread
<1>3. Lives
  BY <1>1, <1>2 DEF Lives
<1>4. 0 \in Values /\ Blank \in [val : Values, next : Node \cup {NULL}] /\ MaxCount \in Nat
  BY QueueAssumption DEF Values, Blank
<1>5. Q!Typed
  BY <1>1, <1>4, SameSets DEF Q!Typed, Q!Contents, Q!Values, Values
<1>6. Q!Placed
  BY <1>1, SameSets DEF Q!Placed, AddSide, GetSide, InBody, AddLabels, GetLabels
<1>7. Q!Doing = "idle"
  BY <1>1, SameSets DEF Q!Doing
<1> DEFINE s == [k \in 1 .. 0 |-> NULL]
<1>8. Q!Chain(s, 0, first, node) /\ Q!NodesOf(s, 0) = {}
  BY <1>1 DEF Q!Chain, Q!IsList, Q!NodesOf
<1> HIDE DEF s
<1>9. Q!Work("idle", s, 0, last, node, heap, count, ptr[Locker], next[Locker], reg[Locker], i[Locker])
  BY <1>1, <1>4, <1>8 DEF Q!Work, Q!One, Q!Uncounted, Q!StillCounted, Q!Linking, Q!Owning
<1>10. Q!Queue(s, 0)
  BY <1>1, <1>5, <1>6, <1>7, <1>8, <1>9 DEF Q!Queue
<1> QED
  BY <1>2, <1>3, <1>10 DEF s

LoneInv == InPlace /\ Shaped /\ Lone

LEMMA LoneAlways == Spec => []LoneInv
<1>1. ASSUME LoneInv, [Next]_vars PROVE Lone'
  <2>1. variant' = variant
    BY <1>1 DEF Next, Thread, MonitorThread, vars
  <2>2. CASE Sequential
    BY <1>1, <2>2, LoneStep DEF LoneInv, Lone
  <2>3. CASE ~Sequential
    BY <2>1, <2>3 DEF Lone, Sequential
  <2> QED
    BY <2>2, <2>3
<1>2. LoneInv /\ [Next]_vars => LoneInv'
  BY <1>1, InPlaceStep, ShapedStep DEF LoneInv
<1>3. Init => LoneInv
  BY InPlaceStarts, ReachedStarts, LoneStarts DEF LoneInv
<1> QED
  BY <1>2, <1>3, PTL DEF Spec

(* A single thread that calls the queue of any directory, in any order or    *)
(* like queue-example.c, and then destroys it: nothing faults on the way,    *)
(* the lock that is destroyed is free, every node is freed, and the monitor, *)
(* wherever it is when it is cancelled, never reads the freed queue.         *)
THEOREM ProgramsCleanDestroy == Spec => []CleanDestroy
<1>1. ASSUME LoneInv PROVE CleanDestroy
  <2> SUFFICES ASSUME Sequential
               PROVE  /\ NoFault
                      /\ pc[main] = "free" => holder = NoThread
                      /\ pc[main] = "done" => heap = {}
    BY DEF CleanDestroy
  <2>1. PICK s, n : Lives /\ Alone(s, n)
    BY <1>1 DEF LoneInv, Lone
  <2>2. NoFault
    BY <2>1 DEF Alone, Destroying, Q!Queue, NoFault
  <2>3. pc[main] = "free" => holder = NoThread
    BY <2>1 DEF Lives, DestroyLabels
  <2>4. ASSUME pc[main] = "done" PROVE heap = {}
    <3>1. n = 0 /\ heap = NodesOf(s, n)
      BY <2>1, <2>4 DEF Alone, Destroying, DestroyLabels
    <3> QED
      BY <3>1 DEF NodesOf
  <2> QED
    BY <2>2, <2>3, <2>4
<1> QED
  BY <1>1, LoneAlways, PTL
-----------------------------------------------------------------------------
(* What the list of values is made of, in one state and in the next.         *)
LEMMA SameItems ==
  /\ Items = Q!Items /\ Items' = Q!Items' /\ Sent = Q!Sent /\ Sent' = Q!Sent'
<1>1. At = Q!At /\ At' = Q!At'
  BY DEF At, Q!At
<1>2. /\ ThreadsAt({"get_unlink"}) = Q!ThreadsAt({"get_unlink"})
      /\ ThreadsAt({"get_unlink"})' = Q!ThreadsAt({"get_unlink"})'
  BY DEF ThreadsAt, Q!ThreadsAt, Threads, Q!Threads
<1>3. Size = Q!Size /\ Size' = Q!Size'
  BY <1>1, SameSizes DEF Size, Q!Size
<1>4. Items = Q!Items /\ Items' = Q!Items'
  BY <1>1, <1>2, <1>3 DEF Items, Q!Items
<1>5. Sent = Q!Sent /\ Sent' = Q!Sent'
  BY DEF Sent, Q!Sent, Succ, Q!Succ
<1> QED
  BY <1>4, <1>5

(* The values that are waiting are read off first, node and pc.              *)
LEMMA ItemsKept ==
  ASSUME UNCHANGED <<first, node>>, ThreadsAt({"get_unlink"})' = ThreadsAt({"get_unlink"})
  PROVE  Items' = Items
<1>1. At' = At
  BY DEF At
<1>2. Size' = Size
  BY <1>1 DEF Size
<1> QED
  BY <1>1, <1>2 DEF Items

SeqItems == IF Sequential THEN Items ELSE <<>>
SeqSent == IF Sequential THEN Sent ELSE [w \in Writers |-> 0]
SeqReceived == IF Sequential THEN Received ELSE [r \in Readers |-> 0]

LEMMA SequentialSimulated ==
  ASSUME LoneInv, [Next]_vars
  PROVE  [SequentialFifo!FifoNext]_<<SeqItems, SeqSent, SeqReceived>>
<1>1. variant' = variant
  BY DEF Next, Thread, MonitorThread, vars
<1>2. CASE ~Sequential
  BY <1>1, <1>2 DEF Sequential, SeqItems, SeqSent, SeqReceived
<1>3. CASE Sequential
  <2>1. /\ SeqItems = Items /\ SeqSent = Sent /\ SeqReceived = Received
        /\ SeqItems' = Items' /\ SeqSent' = Sent' /\ SeqReceived' = Received'
    BY <1>1, <1>3 DEF Sequential, SeqItems, SeqSent, SeqReceived
  <2>2. PICK s, n : Lives /\ Alone(s, n)
    BY <1>3 DEF LoneInv, Lone
  <2>3. \/ UNCHANGED <<first, node, pc, i, val>>
        \/ /\ UNCHANGED <<first, node, i, val>>
           /\ pc'[main] \in DestroyLabels /\ pc[main] \in DestroyLabels \cup {"idle"}
        \/ \E s2, n2 : /\ Q!Queue(s, n) /\ Q!Queue(s2, n2)'
                       /\ Q!FifoMove(Q!Waiting(Q!Doing, s, n, node), Q!Waiting(Q!Doing, s2, n2, node)')
    BY <1>3, <2>2, LoneStep DEF LoneInv
  <2>4. CASE UNCHANGED <<first, node, pc, i, val>>
    <3>1. ThreadsAt({"get_unlink"})' = ThreadsAt({"get_unlink"})
      BY <2>4 DEF ThreadsAt
    <3> QED
      BY <2>1, <2>4, <3>1, ItemsKept DEF Sent, Received
  <2>5. CASE /\ UNCHANGED <<first, node, i, val>>
             /\ pc'[main] \in DestroyLabels /\ pc[main] \in DestroyLabels \cup {"idle"}
    <3>1. InPlace /\ InPlace'
      BY InPlaceStep DEF LoneInv
    <3>2. \A t \in Threads : /\ pc[t] \in DestroyLabels \cup {"idle"}
                             /\ pc'[t] \in DestroyLabels \cup {"idle"}
      <4>1. \A t \in Threads : t # main => pc[t] = "idle" /\ pc'[t] = "idle"
        BY <1>1, <1>3, <3>1 DEF InPlace, Acts, Sequential
      <4> QED
        BY <2>5, <4>1
    <3>3. ThreadsAt({"get_unlink"})' = ThreadsAt({"get_unlink"})
      BY <3>2 DEF ThreadsAt, DestroyLabels
    <3>4. Sent' = Sent
      <4>1. \A w \in Writers : /\ pc[w] \notin {"add_advance", "add_load", "add_store", "add_ok"}
                               /\ pc'[w] \notin {"add_advance", "add_load", "add_store", "add_ok"}
        BY <3>2 DEF DestroyLabels, Threads
      <4> QED
        BY <2>5, <4>1 DEF Sent
    <3> QED
      BY <2>1, <2>5, <3>3, <3>4, ItemsKept DEF Received
  <2>6. ASSUME NEW s2, NEW n2, Q!Queue(s, n), Q!Queue(s2, n2)',
               Q!FifoMove(Q!Waiting(Q!Doing, s, n, node), Q!Waiting(Q!Doing, s2, n2, node)')
        PROVE  [SequentialFifo!FifoNext]_<<SeqItems, SeqSent, SeqReceived>>
    <3>1. Q!Items = Q!Waiting(Q!Doing, s, n, node) /\ Q!Items' = Q!Waiting(Q!Doing, s2, n2, node)'
      BY <2>6, Q!ItemsRead, SameAssumptions, QueueAssumption, LockedQueueAssumption, BlocksAssumption
    <3>2. Q!FifoMove(Items, Items')
      BY <2>6, <3>1, SameItems
    <3>3. val \in [Threads -> Values]
      BY <2>6, SameSets DEF Q!Queue, Q!Typed, Q!Values, Values
    <3>4. CASE Items' = Items /\ Sent' = Sent /\ val' = val
      BY <2>1, <3>4 DEF Received
    <3>5. ASSUME NEW w \in Writers, Len(Items) < MaxCount, Items' = Append(Items, Sent[w]),
                 Sent' = [Sent EXCEPT ![w] = Succ(@)], val' = val
          PROVE  SequentialFifo!FifoNext
      BY <2>1, <3>5 DEF SequentialFifo!FifoNext, SequentialFifo!Put, Received, Succ, SeqItems, SeqSent,
         SeqReceived
    <3>6. ASSUME NEW r \in Readers, Items # <<>>, val' = [val EXCEPT ![r] = Head(Items)],
                 Items' = Tail(Items), Sent' = Sent
          PROVE  SequentialFifo!FifoNext
      <4>1. Received' = [Received EXCEPT ![r] = Head(Items)]
        BY <3>3, <3>6 DEF Received, Threads
      <4> QED
        BY <2>1, <3>6, <4>1 DEF SequentialFifo!FifoNext, SequentialFifo!Take, SeqItems, SeqSent,
           SeqReceived
    <3>7. \/ Items' = Items /\ Sent' = Sent /\ val' = val
          \/ \E w \in Writers :
               /\ Len(Items) < MaxCount /\ Items' = Append(Items, Sent[w])
               /\ Sent' = [Sent EXCEPT ![w] = Succ(@)] /\ val' = val
          \/ \E r \in Readers :
               /\ Items # <<>> /\ val' = [val EXCEPT ![r] = Head(Items)]
               /\ Items' = Tail(Items) /\ Sent' = Sent
      BY <3>2, SameItems DEF Q!FifoMove, Q!Taking, Q!Succ, Succ
    <3> QED
      BY <3>4, <3>5, <3>6, <3>7
  <2> QED
    BY <2>3, <2>4, <2>5, <2>6
<1> QED
  BY <1>2, <1>3

(* To a single thread each of the queues is a bounded FIFO, also the one     *)
(* without a lock, and destroying it takes no value out.                     *)
THEOREM ProgramsSequentialFifo == Spec => SequentialImplementsFifo
<1>1. Init => SequentialFifo!FifoInit
  <2> SUFFICES ASSUME Init PROVE SequentialFifo!FifoInit
    OBVIOUS
  <2>1. CASE Sequential
    <3>1. Q!Queue([k \in 1 .. 0 |-> NULL], 0)
      BY <2>1, LoneStarts
    <3> DEFINE s == [k \in 1 .. 0 |-> NULL]
    <3>2. Q!Items = Q!Waiting(Q!Doing, s, 0, node)
      <4> HIDE DEF s
      <4> QED
        BY <3>1, Q!ItemsRead, SameAssumptions, QueueAssumption, LockedQueueAssumption, BlocksAssumption
           DEF s
    <3>3. Items = <<>>
      <4>1. Q!Doing # "get_unlink"
        BY <3>1 DEF Q!Queue, Q!Work
      <4> QED
        BY <3>2, <4>1, SameItems DEF Q!Waiting
    <3>4. /\ pc = [t \in Threads |-> "idle"] /\ val = [t \in Threads |-> 0]
          /\ i = [t \in Writers |-> 0]
      BY DEF Init, QueueInit
    <3>5. Sent = [w \in Writers |-> 0] /\ Received = [r \in Readers |-> 0]
      BY <3>4 DEF Sent, Received, Threads
    <3> QED
      BY <2>1, <3>3, <3>5 DEF SequentialFifo!FifoInit
  <2>2. CASE ~Sequential
    BY <2>2 DEF SequentialFifo!FifoInit
  <2> QED
    BY <2>1, <2>2
<1>2. LoneInv /\ [Next]_vars => [SequentialFifo!FifoNext]_<<SeqItems, SeqSent, SeqReceived>>
  BY SequentialSimulated
<1> QED
  BY <1>1, <1>2, LoneAlways, PTL
     DEF Spec, SequentialImplementsFifo, SequentialFifo!FifoSpec, SequentialFifo!fifoVars, SeqItems,
         SeqSent, SeqReceived
=============================================================================
