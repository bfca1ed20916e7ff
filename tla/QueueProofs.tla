----------------------------- MODULE QueueProofs -----------------------------
(***************************************************************************)
(* What the queues with a lock promise for any number of writers and       *)
(* readers and for any MaxCount.                                           *)
(*                                                                         *)
(* The first part is about src/2.2f (condition variables) and src/2.2g     *)
(* (semaphores) and counts threads: a place or a value is always some      *)
(* thread's to take, a waiting thread always has somebody who will wake    *)
(* it, and a step moves one thread from one count to another together with *)
(* q->count.                                                               *)
(*                                                                         *)
(* The second part is about all four queues on locks of the C library and  *)
(* takes the steps of QueueSteps together: the list, the counters and the  *)
(* heap agree, and each queue is a BoundedFifo.  The third part is about   *)
(* the types.                                                              *)
(*                                                                         *)
(* The fourth part adds the two queues of src/2.4, which have the list of  *)
(* QueueSteps under a lock proved in LockProofs (M and L): the monitor     *)
(* prints one moment, each queue is a BoundedFifo, and one reader gets the *)
(* values of one writer in order.                                          *)
(***************************************************************************)
EXTENDS MCPrograms, QueueSteps

(* Where a thread is in the body with its result still open.                 *)
AddBusy == AddLabels \ {"add_ok", "add_full"}
GetBusy == GetLabels \ {"get_ok", "get_empty"}
Busy == AddBusy \cup GetBusy

(* Where a thread may be: not at a return 0.                                 *)
Places == {"idle", "add_wait", "get_wait", "add_lock", "get_lock", "add_ok", "get_ok"} \cup Busy

(* The body runs with the lock held, so count++ and count-- are atomic.      *)
Control ==
  /\ pc \in [Threads -> Places]
  /\ reg \in [Threads -> Int] /\ count \in Int
  /\ \A t \in Threads : pc[t] \in Busy => holder = t
  /\ \A t \in Threads : pc[t] \in {"add_store", "get_store"} => reg[t] = count

ThreadsIn(p, S) == {t \in Threads : p[t] \in S}

(* How many threads are at S, those in w left out, before (p) and after (q)  *)
(* a step of t.                                                              *)
Counted(p, q, t, S, w) ==
  /\ Cardinality(ThreadsIn(q, S) \ w)
       = Cardinality(ThreadsIn(p, S) \ w) + One(q[t], S) - One(p[t], S)
  /\ Cardinality(ThreadsIn(p, S) \ w) \in Nat
  /\ Cardinality(ThreadsIn(q, S) \ w) \in Nat
  /\ p[t] \in S => Cardinality(ThreadsIn(p, S) \ w) > 0

(* What a step of queue_add or queue_get that leads to l does.               *)
AddMoves(t, l) ==
  \/ pc[t] \in AddBusy /\ l \in AddBusy /\ count' = count
     /\ (l \in {"add_assert", "add_test"} => pc[t] \in {"add_assert", "add_test"})
  \/ pc[t] = "add_test" /\ l = "add_full" /\ count = MaxCount
  \/ pc[t] = "add_store" /\ l = "add_ok" /\ count' = reg[t] + 1

GetMoves(t, l) ==
  \/ pc[t] \in GetBusy /\ l \in GetBusy /\ count' = count
     /\ (l \in {"get_assert", "get_test"} => pc[t] \in {"get_assert", "get_test"})
  \/ pc[t] = "get_test" /\ l = "get_empty" /\ count = 0
  \/ pc[t] = "get_store" /\ l = "get_ok" /\ count' = reg[t] - 1

Moves(t, l) ==
  /\ pc' = [pc EXCEPT ![t] = l]
  /\ AddMoves(t, l) \/ GetMoves(t, l)
  /\ reg' \in [Threads -> Int]
  /\ \A u \in Threads : u # t => reg'[u] = reg[u]
  /\ l \in {"add_store", "get_store"} => reg'[t] = count
-----------------------------------------------------------------------------
LEMMA AddBodyMoves ==
  ASSUME Control, NEW t \in Threads, AddBody(t)
  PROVE  \E l : Moves(t, l)
<1> USE DEF Control, Moves, AddMoves, AddBusy, AddLabels, Busy, Go, Die, locals, numbers, clients
<1>1. CASE AddAssert(t)
  <2>1. CASE count <= MaxCount
    <3>1. Moves(t, "add_test")
      BY <1>1, <2>1 DEF AddAssert
    <3> QED
      BY <3>1
  <2>2. CASE ~(count <= MaxCount)
    <3>1. Moves(t, "add_assert")
      BY <1>1, <2>2 DEF AddAssert
    <3> QED
      BY <3>1
  <2> QED
    BY <2>1, <2>2
<1>2. CASE AddTest(t)
  <2>1. CASE count = MaxCount
    <3>1. Moves(t, "add_full")
      BY <1>2, <2>1 DEF AddTest
    <3> QED
      BY <3>1
  <2>2. CASE count # MaxCount
    <3>1. Moves(t, "add_malloc")
      BY <1>2, <2>2 DEF AddTest
    <3> QED
      BY <3>1
  <2> QED
    BY <2>1, <2>2
<1>3. CASE AddMalloc(t)
  <2>1. Moves(t, "add_malloc") \/ Moves(t, "add_link")
    BY <1>3 DEF AddMalloc
  <2> QED
    BY <2>1
<1>4. CASE AddLink(t)
  <2>1. Moves(t, "add_first") \/ Moves(t, "add_append")
    BY <1>4 DEF AddLink
  <2> QED
    BY <2>1
<1>5. CASE AddFirst(t)
  <2>1. Moves(t, "add_load")
    BY <1>5 DEF AddFirst
  <2> QED
    BY <2>1
<1>6. CASE AddAppend(t)
  <2>1. Moves(t, "add_append") \/ Moves(t, "add_advance")
    BY <1>6 DEF AddAppend
  <2> QED
    BY <2>1
<1>7. CASE AddAdvance(t)
  <2>1. Moves(t, "add_load")
    BY <1>7 DEF AddAdvance
  <2> QED
    BY <2>1
<1>8. CASE AddLoad(t)
  <2>1. Moves(t, "add_store")
    BY <1>8 DEF AddLoad
  <2> QED
    BY <2>1
<1>9. CASE AddStore(t)
  <2>1. Moves(t, "add_ok")
    BY <1>9 DEF AddStore
  <2> QED
    BY <2>1
<1> QED
  BY <1>1, <1>2, <1>3, <1>4, <1>5, <1>6, <1>7, <1>8, <1>9 DEF AddBody

(* So does queue_get.                                                        *)
LEMMA GetBodyMoves ==
  ASSUME Control, NEW t \in Threads, GetBody(t)
  PROVE  \E l : Moves(t, l)
<1> USE DEF Control, Moves, GetMoves, GetBusy, GetLabels, Busy, Go, Die, locals, numbers, clients
<1>1. CASE GetAssert(t)
  <2>1. Moves(t, "get_test") \/ Moves(t, "get_assert")
    BY <1>1 DEF GetAssert
  <2> QED
    BY <2>1
<1>2. CASE GetTest(t)
  <2>1. CASE count = 0
    <3>1. Moves(t, "get_empty")
      BY <1>2, <2>1 DEF GetTest
    <3> QED
      BY <3>1
  <2>2. CASE count # 0
    <3>1. Moves(t, "get_read")
      BY <1>2, <2>2 DEF GetTest
    <3> QED
      BY <3>1
  <2> QED
    BY <2>1, <2>2
<1>3. CASE GetRead(t)
  <2>1. Moves(t, "get_read") \/ Moves(t, "get_unlink")
    BY <1>3 DEF GetRead
  <2> QED
    BY <2>1
<1>4. CASE GetUnlink(t)
  <2>1. Moves(t, "get_free")
    BY <1>4 DEF GetUnlink
  <2> QED
    BY <2>1
<1>5. CASE GetFree(t)
  <2>1. Moves(t, "get_load")
    BY <1>5 DEF GetFree
  <2> QED
    BY <2>1
<1>6. CASE GetLoad(t)
  <2>1. Moves(t, "get_store")
    BY <1>6 DEF GetLoad
  <2> QED
    BY <2>1
<1>7. CASE GetStore(t)
  <2>1. Moves(t, "get_ok")
    BY <1>7 DEF GetStore
  <2> QED
    BY <2>1
<1> QED
  BY <1>1, <1>2, <1>3, <1>4, <1>5, <1>6, <1>7 DEF GetBody
-----------------------------------------------------------------------------
(* A step of one thread keeps the lock's protection of q->count when it      *)
(* changes the count or the holder only while no other thread is in the body. *)
LEMMA ControlMove ==
  ASSUME Control, NEW t \in Threads, NEW l \in Places,
         pc' = [pc EXCEPT ![t] = l],
         reg' \in [Threads -> Int], \A u \in Threads : u # t => reg'[u] = reg[u],
         count' \in Int,
         l \in Busy => holder' = t,
         \A u \in Threads : u # t /\ pc[u] \in Busy => holder' = u /\ count' = count,
         l \in {"add_store", "get_store"} => reg'[t] = count'
  PROVE  Control'
<1>1. pc' \in [Threads -> Places] /\ pc'[t] = l /\ \A u \in Threads : u # t => pc'[u] = pc[u]
  BY DEF Control
<1>2. \A u \in Threads : pc'[u] \in Busy => holder' = u
  BY <1>1
<1>3. {"add_store", "get_store"} \subseteq Busy
  BY DEF Busy, AddBusy, GetBusy, AddLabels, GetLabels
<1>4. \A u \in Threads : pc'[u] \in {"add_store", "get_store"} => reg'[u] = count'
  BY <1>1, <1>3 DEF Control
<1> QED
  BY <1>1, <1>2, <1>4 DEF Control

(* A step of the body, the lock held all the while.                          *)
LEMMA ControlBody ==
  ASSUME Control, NEW t \in Threads, NEW l \in Places, Moves(t, l), UNCHANGED holder
  PROVE  Control' /\ holder = t
<1>1. pc[t] \in Busy /\ holder = t
  BY DEF Moves, AddMoves, GetMoves, Busy, AddBusy, GetBusy, AddLabels, GetLabels, Control
<1>2. \A u \in Threads : u # t => pc[u] \notin Busy
  BY <1>1 DEF Control
<1>3. l # "add_full" /\ l # "get_empty"
  BY DEF Places, Busy, AddBusy, GetBusy, AddLabels, GetLabels
<1>4. count' \in Int
  BY <1>3 DEF Moves, AddMoves, GetMoves, Control
<1>5. l \in {"add_store", "get_store"} => count' = count
  BY <1>3 DEF Moves, AddMoves, GetMoves
<1> QED
  BY <1>1, <1>2, <1>4, <1>5, ControlMove DEF Moves

(* The threads at S are one more or one less when a thread moves in or out.  *)
LEMMA CountMove ==
  ASSUME NEW p, NEW q, NEW t \in Threads, \A u \in Threads : u # t => q[u] = p[u],
         NEW S, NEW w, t \notin w
  PROVE  Counted(p, q, t, S, w)
<1> DEFINE A == ThreadsIn(p, S) \ w
<1> DEFINE B == ThreadsIn(q, S) \ w
<1>1. IsFiniteSet(Threads)
  BY FS_Union, QueueAssumption DEF Threads
<1>2. IsFiniteSet(A) /\ IsFiniteSet(B)
  BY <1>1, FS_Subset DEF ThreadsIn
<1>3. Cardinality(A) \in Nat /\ Cardinality(B) \in Nat
  BY <1>2, FS_CardinalityType
<1>4. p[t] \in S <=> t \in A
  BY DEF ThreadsIn
<1>5. B = IF q[t] \in S THEN A \cup {t} ELSE A \ {t}
  BY DEF ThreadsIn
<1>6. Cardinality(A \cup {t}) = IF t \in A THEN Cardinality(A) ELSE Cardinality(A) + 1
  BY <1>2, FS_AddElement
<1>7. Cardinality(A \ {t}) = IF t \in A THEN Cardinality(A) - 1 ELSE Cardinality(A)
  BY <1>2, FS_RemoveElement
<1>8. t \in A => Cardinality(A) # 0
  BY <1>2, FS_EmptySet
<1> HIDE DEF A, B
<1>9. Cardinality(B) = Cardinality(A) + One(q[t], S) - One(p[t], S)
  <2>1. CASE q[t] \in S
    BY <1>3, <1>4, <1>5, <1>6, <2>1 DEF One
  <2>2. CASE q[t] \notin S
    BY <1>3, <1>4, <1>5, <1>7, <2>2 DEF One
  <2> QED
    BY <2>1, <2>2
<1> QED
  BY <1>3, <1>4, <1>8, <1>9 DEF A, B, Counted
(* The same when no thread is left out.                                      *)
LEMMA CountMoveAll ==
  ASSUME NEW p, NEW q, NEW t \in Threads, \A u \in Threads : u # t => q[u] = p[u]
  PROVE  \A S :
    /\ Cardinality(ThreadsIn(q, S)) = Cardinality(ThreadsIn(p, S)) + One(q[t], S) - One(p[t], S)
    /\ Cardinality(ThreadsIn(p, S)) \in Nat
    /\ Cardinality(ThreadsIn(q, S)) \in Nat
    /\ p[t] \in S => Cardinality(ThreadsIn(p, S)) > 0
<1> TAKE S
<1>1. Counted(p, q, t, S, {})
  BY CountMove
<1>2. ThreadsIn(p, S) \ {} = ThreadsIn(p, S) /\ ThreadsIn(q, S) \ {} = ThreadsIn(q, S)
  OBVIOUS
<1> QED
  BY <1>1, <1>2 DEF Counted

-----------------------------------------------------------------------------
(* src/2.2g.  The threads that have claimed a value or a free place, or have *)
(* not posted one yet.                                                       *)
Claimed == {"get_lock"} \cup (GetLabels \ {"get_ok"})
Reserved == {"add_lock"} \cup (AddLabels \ {"add_ok"})

Tokens(c, f, e, p) ==
  /\ c = f + Cardinality(ThreadsIn(p, Claimed)) + Cardinality(ThreadsIn(p, {"add_ok"}))
  /\ MaxCount - c = e + Cardinality(ThreadsIn(p, Reserved)) + Cardinality(ThreadsIn(p, {"get_ok"}))

(* A move from k to l that turns counts c, f and e into c2, f2 and e2.       *)
Balanced(k, l, c, f, e, c2, f2, e2) ==
  /\ c2 \in Int /\ f2 \in Nat /\ e2 \in Nat
  /\ c2 - f2 = c - f + One(l, Claimed) - One(k, Claimed) + One(l, {"add_ok"}) - One(k, {"add_ok"})
  /\ c2 + e2 = c + e - One(l, Reserved) + One(k, Reserved) - One(l, {"get_ok"}) + One(k, {"get_ok"})

SemInv == Control /\ empty \in Nat /\ full \in Nat /\ Tokens(count, full, empty, pc)

(* Linear arithmetic, stated apart from the sets whose sizes it is about.    *)
LEMMA Arithmetic ==
  ASSUME NEW m \in Int, NEW c \in Int, NEW e \in Int, NEW c2 \in Int, NEW e2 \in Int,
         NEW u \in Int, NEW v \in Int, NEW a \in Int, NEW b \in Int, NEW d \in Int, NEW g \in Int,
         m - c = e + u + v, c2 + e2 = c + e - a + b - d + g
  PROVE  m - c2 = e2 + (u + a - b) + (v + d - g)
OBVIOUS

(* The balance survives a step that moves as many tokens as threads.         *)
LEMMA TokensMove ==
  ASSUME NEW p, NEW q, NEW t \in Threads, \A u \in Threads : u # t => q[u] = p[u],
         NEW c \in Int, NEW f \in Int, NEW e \in Int, Tokens(c, f, e, p),
         NEW c2, NEW f2, NEW e2, Balanced(p[t], q[t], c, f, e, c2, f2, e2)
  PROVE  Tokens(c2, f2, e2, q)
<1>0. c2 \in Int /\ f2 \in Int /\ e2 \in Int
  BY DEF Balanced
<1>1. \A S : One(q[t], S) \in Int /\ One(p[t], S) \in Int
  BY DEF One
<1>2. MaxCount \in Int
  BY QueueAssumption
<1>3. c2 = f2 + Cardinality(ThreadsIn(q, Claimed)) + Cardinality(ThreadsIn(q, {"add_ok"}))
  <2> DEFINE a == One(q[t], Claimed)
  <2> DEFINE b == One(p[t], Claimed)
  <2> DEFINE d == One(q[t], {"add_ok"})
  <2> DEFINE g == One(p[t], {"add_ok"})
  <2>0. a \in Int /\ b \in Int /\ d \in Int /\ g \in Int
    BY <1>1
  <2>1. c2 - f2 = c - f + a - b + d - g
    BY DEF Balanced
  <2>2. c = f + Cardinality(ThreadsIn(p, Claimed)) + Cardinality(ThreadsIn(p, {"add_ok"}))
    BY DEF Tokens
  <2>3. /\ Cardinality(ThreadsIn(q, Claimed)) = Cardinality(ThreadsIn(p, Claimed)) + a - b
        /\ Cardinality(ThreadsIn(q, {"add_ok"})) = Cardinality(ThreadsIn(p, {"add_ok"})) + d - g
        /\ Cardinality(ThreadsIn(p, Claimed)) \in Nat
        /\ Cardinality(ThreadsIn(p, {"add_ok"})) \in Nat
    BY CountMoveAll
  <2> DEFINE u == Cardinality(ThreadsIn(p, Claimed))
  <2> DEFINE v == Cardinality(ThreadsIn(p, {"add_ok"}))
  <2>4. c2 - f2 = u + v + a - b + d - g /\ u \in Nat /\ v \in Nat
    <3> HIDE DEF a, b, d, g
    <3> QED
      BY <1>0, <2>0, <2>1, <2>2, <2>3
  <2> HIDE DEF a, b, d, g, u, v
  <2> QED
    BY <1>0, <2>0, <2>1, <2>3, <2>4 DEF u, v
<1>4. MaxCount - c2
        = e2 + Cardinality(ThreadsIn(q, Reserved)) + Cardinality(ThreadsIn(q, {"get_ok"}))
  <2> DEFINE a == One(q[t], Reserved)
  <2> DEFINE b == One(p[t], Reserved)
  <2> DEFINE d == One(q[t], {"get_ok"})
  <2> DEFINE g == One(p[t], {"get_ok"})
  <2>0. a \in Int /\ b \in Int /\ d \in Int /\ g \in Int
    BY <1>1
  <2>1. c2 + e2 = c + e - a + b - d + g
    BY DEF Balanced
  <2>2. MaxCount - c
          = e + Cardinality(ThreadsIn(p, Reserved)) + Cardinality(ThreadsIn(p, {"get_ok"}))
    BY DEF Tokens
  <2>3. /\ Cardinality(ThreadsIn(q, Reserved)) = Cardinality(ThreadsIn(p, Reserved)) + a - b
        /\ Cardinality(ThreadsIn(q, {"get_ok"})) = Cardinality(ThreadsIn(p, {"get_ok"})) + d - g
        /\ Cardinality(ThreadsIn(p, Reserved)) \in Nat
        /\ Cardinality(ThreadsIn(p, {"get_ok"})) \in Nat
    BY CountMoveAll
  <2> DEFINE u == Cardinality(ThreadsIn(p, Reserved))
  <2> DEFINE v == Cardinality(ThreadsIn(p, {"get_ok"}))
  <2>4. MaxCount - c = e + u + v /\ u \in Nat /\ v \in Nat
    BY <2>2, <2>3
  <2> HIDE DEF a, b, d, g, u, v
  <2>5. MaxCount - c2 = e2 + (u + a - b) + (v + d - g)
    BY <1>0, <1>2, <2>0, <2>1, <2>4, Arithmetic
  <2> QED
    BY <2>3, <2>5 DEF u, v
<1> QED
  BY <1>3, <1>4 DEF Tokens

(* Who holds a token finds a value or a free place.                          *)
LEMMA TokenSuffices ==
  ASSUME SemInv, NEW t \in Threads
  PROVE  /\ pc[t] \in Claimed => count # 0
         /\ pc[t] \in Reserved => count # MaxCount
<1>1. MaxCount \in Int /\ count \in Int /\ empty \in Nat /\ full \in Nat
  BY QueueAssumption DEF SemInv, Control
<1>2. /\ Cardinality(ThreadsIn(pc, Claimed)) \in Nat
      /\ Cardinality(ThreadsIn(pc, {"add_ok"})) \in Nat
      /\ Cardinality(ThreadsIn(pc, Reserved)) \in Nat
      /\ Cardinality(ThreadsIn(pc, {"get_ok"})) \in Nat
      /\ pc[t] \in Claimed => Cardinality(ThreadsIn(pc, Claimed)) > 0
      /\ pc[t] \in Reserved => Cardinality(ThreadsIn(pc, Reserved)) > 0
  BY CountMoveAll
<1> QED
  BY <1>1, <1>2 DEF SemInv, Tokens

(* A step of t that moves the tokens with it keeps the invariant.            *)
LEMMA SemMove ==
  ASSUME SemInv, Control', NEW t \in Threads, NEW l, pc' = [pc EXCEPT ![t] = l],
         NEW c2, NEW f2, NEW e2, Balanced(pc[t], l, count, full, empty, c2, f2, e2),
         count' = c2, full' = f2, empty' = e2
  PROVE  SemInv'
<1>1. pc'[t] = l /\ \A u \in Threads : u # t => pc'[u] = pc[u]
  BY DEF SemInv, Control
<1>2. PICK q : q = pc'
  OBVIOUS
<1>3. q[t] = l /\ \A u \in Threads : u # t => q[u] = pc[u]
  BY <1>1, <1>2
<1>4. count \in Int /\ full \in Int /\ empty \in Int /\ Tokens(count, full, empty, pc)
  BY DEF SemInv, Control
<1>5. Tokens(c2, f2, e2, q)
  BY <1>3, <1>4, TokensMove
<1> QED
  BY <1>2, <1>5 DEF SemInv, Tokens, Balanced

(* A step of the body: count++ and count-- turn a claim into a token to post. *)
LEMMA SemBodyKeeps ==
  ASSUME SemInv, NEW t \in Threads, Sem!Body(t), UNCHANGED <<holder, empty, full>>
  PROVE  SemInv'
<1>1. Control /\ count \in Int /\ empty \in Nat /\ full \in Nat
  BY DEF SemInv, Control
<1>2. PICK l : Moves(t, l)
  BY <1>1, SameBody, AddBodyMoves, GetBodyMoves DEF Body
<1>3. (pc[t] \in Claimed => count # 0) /\ (pc[t] \in Reserved => count # MaxCount)
  BY TokenSuffices
<1>4. l # "add_full" /\ l # "get_empty"
  <2>1. "add_test" \in Reserved /\ "get_test" \in Claimed
    BY DEF Reserved, Claimed, AddLabels, GetLabels
  <2> QED
    BY <1>2, <1>3, <2>1 DEF Moves, AddMoves, GetMoves, AddBusy, GetBusy, AddLabels, GetLabels
<1>5. l \in Places
  BY <1>2, <1>4 DEF Moves, AddMoves, GetMoves, Places, Busy
<1>6. Control' /\ holder = t
  BY <1>1, <1>2, <1>5, ControlBody
<1>7. pc' = [pc EXCEPT ![t] = l] /\ full' = full /\ empty' = empty
  BY <1>2 DEF Moves
<1>8. CASE pc[t] = "add_store" /\ l = "add_ok" /\ count' = reg[t] + 1
  <2>1. reg[t] = count
    BY <1>1, <1>8 DEF Control
  <2>2. /\ One(l, Claimed) = 0 /\ One(pc[t], Claimed) = 0
        /\ One(l, {"add_ok"}) = 1 /\ One(pc[t], {"add_ok"}) = 0
        /\ One(l, Reserved) = 0 /\ One(pc[t], Reserved) = 1
        /\ One(l, {"get_ok"}) = 0 /\ One(pc[t], {"get_ok"}) = 0
    BY <1>8 DEF One, Claimed, Reserved, AddLabels, GetLabels
  <2>3. Balanced(pc[t], l, count, full, empty, count + 1, full, empty)
    BY <1>1, <2>2 DEF Balanced
  <2> QED
    BY <1>6, <1>7, <1>8, <2>1, <2>3, SemMove
<1>9. CASE pc[t] = "get_store" /\ l = "get_ok" /\ count' = reg[t] - 1
  <2>1. reg[t] = count
    BY <1>1, <1>9 DEF Control
  <2>2. /\ One(l, Claimed) = 0 /\ One(pc[t], Claimed) = 1
        /\ One(l, {"add_ok"}) = 0 /\ One(pc[t], {"add_ok"}) = 0
        /\ One(l, Reserved) = 0 /\ One(pc[t], Reserved) = 0
        /\ One(l, {"get_ok"}) = 1 /\ One(pc[t], {"get_ok"}) = 0
    BY <1>9 DEF One, Claimed, Reserved, AddLabels, GetLabels
  <2>3. Balanced(pc[t], l, count, full, empty, count - 1, full, empty)
    BY <1>1, <2>2 DEF Balanced
  <2> QED
    BY <1>6, <1>7, <1>9, <2>1, <2>3, SemMove
<1>10. CASE /\ \/ pc[t] \in AddBusy /\ l \in AddBusy
               \/ pc[t] \in GetBusy /\ l \in GetBusy
            /\ count' = count
  <2>1. /\ One(l, Claimed) = One(pc[t], Claimed)
        /\ One(l, {"add_ok"}) = 0 /\ One(pc[t], {"add_ok"}) = 0
        /\ One(l, Reserved) = One(pc[t], Reserved)
        /\ One(l, {"get_ok"}) = 0 /\ One(pc[t], {"get_ok"}) = 0
        /\ One(l, Claimed) \in Int /\ One(l, Reserved) \in Int
    BY <1>10 DEF One, Claimed, Reserved, AddBusy, GetBusy, AddLabels, GetLabels
  <2>2. Balanced(pc[t], l, count, full, empty, count, full, empty)
    BY <1>1, <2>1 DEF Balanced
  <2> QED
    BY <1>6, <1>7, <1>10, <2>2, SemMove
<1> QED
  BY <1>2, <1>4, <1>8, <1>9, <1>10 DEF Moves, AddMoves, GetMoves

(* sem_wait takes a token for the thread.                                    *)
LEMMA SemWaitKeeps ==
  ASSUME SemInv, NEW t \in Threads, Sem!SemWait(t)
  PROVE  SemInv'
<1> USE DEF Sem!SemWait, Sem!Call, Sem!Go, Sem!list, Sem!numbers, Sem!locals
<1>1. Control /\ count \in Int /\ empty \in Nat /\ full \in Nat /\ pc[t] = "idle"
  BY DEF SemInv, Control
<1>2. UNCHANGED <<holder, reg, count>>
  OBVIOUS
<1>3. ASSUME NEW l \in {"add_lock", "get_lock"}, pc' = [pc EXCEPT ![t] = l]
      PROVE  Control'
  <2>1. /\ l \in Places /\ l \notin Busy
        /\ l \notin {"add_store", "get_store"}
    BY DEF Places, Busy, AddBusy, GetBusy, AddLabels, GetLabels
  <2> QED
    BY <1>1, <1>2, <1>3, <2>1, ControlMove DEF Control
<1>4. CASE t \in Writers /\ empty > 0 /\ empty' = empty - 1 /\ full' = full
             /\ pc' = [pc EXCEPT ![t] = "add_lock"]
  <2>1. Balanced(pc[t], "add_lock", count, full, empty, count, full, empty - 1)
    BY <1>1, <1>4 DEF Balanced, One, Claimed, Reserved, AddLabels, GetLabels
  <2> QED
    BY <1>2, <1>3, <1>4, <2>1, SemMove
<1>5. CASE t \in Readers /\ full > 0 /\ full' = full - 1 /\ empty' = empty
             /\ pc' = [pc EXCEPT ![t] = "get_lock"]
  <2>1. Balanced(pc[t], "get_lock", count, full, empty, count, full - 1, empty)
    BY <1>1, <1>5 DEF Balanced, One, Claimed, Reserved, AddLabels, GetLabels
  <2> QED
    BY <1>2, <1>3, <1>5, <2>1, SemMove
<1> QED
  BY <1>4, <1>5

(* Who takes the mutex finds nobody in the body.                             *)
LEMMA SemLockKeeps ==
  ASSUME SemInv, NEW t \in Threads, Sem!LockMutex(t)
  PROVE  SemInv'
<1> USE DEF Sem!LockMutex, Sem!Lock!Acquire, Sem!Call, Sem!Go, Sem!list, Sem!numbers, Sem!locals
<1>1. Control /\ count \in Int /\ empty \in Nat /\ full \in Nat
  BY DEF SemInv, Control
<1>2. UNCHANGED <<empty, full, reg, count>> /\ holder = NoThread /\ holder' = t
  OBVIOUS
<1>3. \A u \in Threads : pc[u] \notin Busy
  BY <1>1, <1>2, LockedQueueAssumption DEF Control
<1>4. ASSUME NEW l \in {"add_assert", "get_assert"}, pc' = [pc EXCEPT ![t] = l]
      PROVE  Control'
  <2>1. l \in Places /\ l \notin {"add_store", "get_store"}
    BY DEF Places, Busy, AddBusy, GetBusy, AddLabels, GetLabels
  <2> QED
    BY <1>1, <1>2, <1>3, <1>4, <2>1, ControlMove DEF Control
<1>5. CASE pc[t] = "add_lock" /\ pc' = [pc EXCEPT ![t] = "add_assert"]
  <2>1. Balanced(pc[t], "add_assert", count, full, empty, count, full, empty)
    BY <1>1, <1>5 DEF Balanced, One, Claimed, Reserved, AddLabels, GetLabels
  <2> QED
    BY <1>2, <1>4, <1>5, <2>1, SemMove
<1>6. CASE pc[t] = "get_lock" /\ pc' = [pc EXCEPT ![t] = "get_assert"]
  <2>1. Balanced(pc[t], "get_assert", count, full, empty, count, full, empty)
    BY <1>1, <1>6 DEF Balanced, One, Claimed, Reserved, AddLabels, GetLabels
  <2> QED
    BY <1>2, <1>4, <1>6, <2>1, SemMove
<1> QED
  BY <1>5, <1>6

(* The mutex is released before the token is posted.                         *)
LEMMA SemUnlockKeeps ==
  ASSUME SemInv, NEW t \in Threads, Sem!Unlock(t)
  PROVE  SemInv'
<1>1. Control /\ pc[t] \in {"add_ok", "get_ok"}
  BY DEF SemInv, Control, Sem!Unlock, Places, Busy, AddBusy, GetBusy, AddLabels, GetLabels
<1>2. UNCHANGED <<pc, reg, count, empty, full>> /\ holder = t
  BY <1>1 DEF Sem!Unlock, Sem!queueVars, Sem!numbers, Sem!locals, Sem!Lock!Release
<1>3. \A u \in Threads : pc[u] \notin Busy
  BY <1>1, <1>2 DEF Control, Busy, AddBusy, GetBusy, AddLabels, GetLabels
<1>4. Control'
  BY <1>1, <1>2, <1>3 DEF Control
<1> QED
  BY <1>2, <1>4 DEF SemInv, Tokens, ThreadsIn

(* sem_post gives a token for the value or the place the call has left.      *)
LEMMA SemPostKeeps ==
  ASSUME SemInv, NEW t \in Threads, Sem!Post(t)
  PROVE  SemInv'
<1>1. Control /\ count \in Int /\ empty \in Nat /\ full \in Nat /\ pc[t] \in {"add_ok", "get_ok"}
  BY DEF SemInv, Control, Sem!Post
<1>2. /\ pc' = [pc EXCEPT ![t] = "idle"] /\ reg' = [reg EXCEPT ![t] = 0]
      /\ UNCHANGED <<holder, count>>
  BY DEF Sem!Post, Sem!Return, Sem!WriterReturn, Sem!ReaderReturn, Sem!LeaveScope, Sem!Go,
         Sem!numbers
<1>3. "idle" \in Places /\ "idle" \notin Busy
  BY DEF Places, Busy, AddBusy, GetBusy, AddLabels, GetLabels
<1>4. reg' \in [Threads -> Int] /\ \A u \in Threads : u # t => reg'[u] = reg[u]
  BY <1>1, <1>2 DEF Control
<1>5. Control'
  BY <1>1, <1>2, <1>3, <1>4, ControlMove DEF Control
<1>6. CASE pc[t] = "add_ok"
  <2>1. full' = full + 1 /\ empty' = empty
    BY <1>6 DEF Sem!Post
  <2>2. Balanced(pc[t], "idle", count, full, empty, count, full + 1, empty)
    BY <1>1, <1>6 DEF Balanced, One, Claimed, Reserved, AddLabels, GetLabels
  <2> QED
    BY <1>2, <1>5, <2>1, <2>2, SemMove
<1>7. CASE pc[t] = "get_ok"
  <2>1. full' = full /\ empty' = empty + 1
    BY <1>7 DEF Sem!Post
  <2>2. Balanced(pc[t], "idle", count, full, empty, count, full, empty + 1)
    BY <1>1, <1>7 DEF Balanced, One, Claimed, Reserved, AddLabels, GetLabels
  <2> QED
    BY <1>2, <1>5, <2>1, <2>2, SemMove
<1> QED
  BY <1>1, <1>6, <1>7

(* No step of src/2.2g loses a token or makes one up.                        *)
LEMMA SemStep == ASSUME SemInv, Sem!Next PROVE SemInv'
<1>1. PICK t \in Threads : Sem!Step(t)
  BY DEF Sem!Next, Sem!Threads, Threads
<1> QED
  BY <1>1, SemWaitKeeps, SemLockKeeps, SemBodyKeeps, SemUnlockKeeps, SemPostKeeps
  DEF Sem!Step, Sem!sync
-----------------------------------------------------------------------------
(* src/2.2f.  While readers wait, every value in the queue is some other     *)
(* reader's to fetch, or the writer that has added it is about to signal.    *)
Fetching == {"get_wait", "add_ok"} \cup GetBusy

(* Likewise for the free places while writers wait.                          *)
Filling == {"add_wait", "get_ok"} \cup AddBusy

Enough(p, w, n, S) == w # {} => n <= Cardinality(ThreadsIn(p, S) \ w)

(* The wait loops are over only with a value or a free place.                *)
PastWait ==
  \A t \in Threads :
    /\ pc[t] \in {"add_assert", "add_test"} => count # MaxCount
    /\ pc[t] \in {"get_assert", "get_test"} => count # 0

(* Who waits is in its wait loop and has no mutex; who returns has it.       *)
Waiters ==
  /\ \A t \in not_empty : t \in Threads /\ pc[t] = "get_wait"
  /\ \A t \in not_full : t \in Threads /\ pc[t] = "add_wait"
  /\ holder \notin not_empty \cup not_full
  /\ \A t \in Threads : pc[t] \in {"add_ok", "get_ok"} => holder = t

Signalled ==
  /\ Enough(pc, not_empty, count, Fetching)
  /\ Enough(pc, not_full, MaxCount - count, Filling)

CondInv == Control /\ PastWait /\ Waiters /\ Signalled

(* The numbers of threads that are awake move with the thread that moves.    *)
LEMMA EnoughMove ==
  ASSUME NEW p, NEW q, NEW t \in Threads, \A u \in Threads : u # t => q[u] = p[u],
         NEW S, NEW w, t \notin w, NEW n \in Int, NEW m \in Int, Enough(p, w, n, S),
         m <= n + One(q[t], S) - One(p[t], S)
  PROVE  Enough(q, w, m, S)
<1>1. Counted(p, q, t, S, w)
  BY CountMove
<1>2. One(q[t], S) \in Int /\ One(p[t], S) \in Int
  BY DEF One
<1> DEFINE a == One(q[t], S)
<1> DEFINE b == One(p[t], S)
<1> DEFINE x == Cardinality(ThreadsIn(p, S) \ w)
<1> DEFINE y == Cardinality(ThreadsIn(q, S) \ w)
<1>3. y = x + a - b /\ x \in Nat /\ y \in Nat
  BY <1>1 DEF Counted
<1>4. w # {} => n <= x
  BY DEF Enough
<1>5. a \in Int /\ b \in Int /\ m <= n + a - b
  BY <1>2
<1> HIDE DEF a, b, x, y
<1>6. w # {} => m <= y
  BY <1>3, <1>4, <1>5
<1> QED
  BY <1>6 DEF Enough, y

(* A thread that stops waiting only adds to those awake; who is woken by a   *)
(* signal makes up for the one that has sent it.                             *)
LEMMA EnoughWoken ==
  ASSUME NEW p, NEW S, NEW w, NEW u \in Threads, NEW n \in Int, Enough(p, w, n, S)
  PROVE  /\ Enough(p, w \ {u}, n, S)
         /\ u \in w /\ p[u] \in S => Enough(p, w \ {u}, n + 1, S)
<1> DEFINE A == ThreadsIn(p, S) \ w
<1> DEFINE B == ThreadsIn(p, S) \ (w \ {u})
<1>1. IsFiniteSet(Threads)
  BY FS_Union, QueueAssumption DEF Threads
<1>2. IsFiniteSet(A) /\ IsFiniteSet(B)
  BY <1>1, FS_Subset DEF ThreadsIn
<1>3. Cardinality(A) \in Nat /\ Cardinality(B) \in Nat
  BY <1>2, FS_CardinalityType
<1>4. B = A \cup {u} \/ B = A
  BY DEF ThreadsIn
<1>5. u \in w /\ p[u] \in S => B = A \cup {u} /\ u \notin A
  BY DEF ThreadsIn
<1>6. Cardinality(A \cup {u}) = IF u \in A THEN Cardinality(A) ELSE Cardinality(A) + 1
  BY <1>2, FS_AddElement
<1>7. w # {} => n <= Cardinality(A)
  BY DEF Enough
<1> HIDE DEF A, B
<1>8. /\ w # {} => n <= Cardinality(B)
      /\ u \in w /\ p[u] \in S => n + 1 <= Cardinality(B)
  BY <1>3, <1>4, <1>5, <1>6, <1>7
<1> QED
  BY <1>8 DEF Enough, B

(* When there is nothing to fetch or to fill, anybody may wait.              *)
LEMMA EnoughForNone ==
  ASSUME NEW p, NEW w, NEW S
  PROVE  Enough(p, w, 0, S)
<1>1. IsFiniteSet(Threads)
  BY FS_Union, QueueAssumption DEF Threads
<1>2. Cardinality(ThreadsIn(p, S) \ w) \in Nat
  BY <1>1, FS_Subset, FS_CardinalityType DEF ThreadsIn
<1> QED
  BY <1>2 DEF Enough

(* A move from k to l that turns count c into c2 and leaves enough awake.    *)
Served(k, l, c, c2) ==
  /\ c2 \in Int
  /\ c2 <= c + One(l, Fetching) - One(k, Fetching)
  /\ MaxCount - c2 <= MaxCount - c + One(l, Filling) - One(k, Filling)

(* A step of a thread that is awake.                                         *)
LEMMA SignalledMove ==
  ASSUME Control, Signalled, NEW t \in Threads, NEW l, pc' = [pc EXCEPT ![t] = l],
         t \notin not_empty \cup not_full, UNCHANGED <<not_empty, not_full>>,
         NEW c2, Served(pc[t], l, count, c2), count' = c2
  PROVE  Signalled'
<1>1. PICK q : q = pc'
  OBVIOUS
<1>2. q[t] = l /\ \A u \in Threads : u # t => q[u] = pc[u]
  BY <1>1 DEF Control
<1>3. MaxCount \in Int /\ count \in Int /\ c2 \in Int
  BY QueueAssumption DEF Control, Served
<1>4. Enough(q, not_empty, c2, Fetching)
  BY <1>2, <1>3, EnoughMove DEF Signalled, Served
<1>5. Enough(q, not_full, MaxCount - c2, Filling)
  <2>1. PICK m \in Int : m = MaxCount - c2
    BY <1>3
  <2>2. PICK n \in Int : n = MaxCount - count
    BY <1>3
  <2>3. Enough(pc, not_full, n, Filling) /\ m <= n + One(q[t], Filling) - One(pc[t], Filling)
    BY <1>2, <2>1, <2>2 DEF Signalled, Served
  <2>4. Enough(q, not_full, m, Filling)
    BY <1>2, <2>3, EnoughMove
  <2> QED
    BY <2>1, <2>4
<1> QED
  BY <1>1, <1>4, <1>5 DEF Signalled, Enough

(* What a step leaves true about waiting, whoever takes it.                  *)
LEMMA WaitersMove ==
  ASSUME Control, PastWait, Waiters, NEW t \in Threads, NEW l \in Places,
         pc' = [pc EXCEPT ![t] = l], count' \in Int,
         not_empty' \subseteq not_empty, not_full' \subseteq not_full,
         t \notin not_empty \cup not_full,
         holder' = t \/ (l \notin Busy \cup {"add_ok", "get_ok"} /\ holder' = NoThread),
         \A u \in Threads : u # t => pc[u] \notin Busy \cup {"add_ok", "get_ok"},
         l \in {"add_assert", "add_test"} => count' # MaxCount,
         l \in {"get_assert", "get_test"} => count' # 0
  PROVE  PastWait' /\ Waiters'
<1>1. pc'[t] = l /\ \A u \in Threads : u # t => pc'[u] = pc[u]
  BY DEF Control
<1>2. {"add_assert", "add_test", "get_assert", "get_test"} \subseteq Busy
  BY DEF Busy, AddBusy, GetBusy, AddLabels, GetLabels
<1>3. PastWait'
  BY <1>1, <1>2 DEF PastWait
<1>4. \A u \in not_empty' \cup not_full' : u \in Threads /\ u # t /\ u # NoThread
  BY LockedQueueAssumption DEF Waiters
<1>5. Waiters'
  BY <1>1, <1>4 DEF Waiters
<1> QED
  BY <1>3, <1>5

(* A step of the body: the value added is its writer's to announce, the      *)
(* place made free its reader's.                                             *)
LEMMA CondBodyKeeps ==
  ASSUME CondInv, NEW t \in Threads, Cond!AddBody(t) \/ Cond!GetBody(t),
         UNCHANGED <<holder, not_empty, not_full>>
  PROVE  CondInv'
<1>1. Control /\ PastWait /\ Waiters /\ Signalled /\ count \in Int /\ MaxCount \in Int
  BY QueueAssumption DEF CondInv, Control
<1>2. PICK l : Moves(t, l)
  BY <1>1, SameBody, AddBodyMoves, GetBodyMoves DEF Body
<1>3. l # "add_full" /\ l # "get_empty"
  BY <1>1, <1>2 DEF Moves, AddMoves, GetMoves, PastWait, AddBusy, GetBusy, AddLabels, GetLabels
<1>4. l \in Places
  BY <1>2, <1>3 DEF Moves, AddMoves, GetMoves, Places, Busy
<1>5. Control' /\ holder = t
  BY <1>1, <1>2, <1>4, ControlBody
<1>6. pc' = [pc EXCEPT ![t] = l] /\ t \notin not_empty \cup not_full /\ count' \in Int
  BY <1>1, <1>2, <1>5 DEF Moves, Waiters, Control
<1>7. \A u \in Threads : u # t => pc[u] \notin Busy \cup {"add_ok", "get_ok"}
  BY <1>1, <1>5 DEF Control, Waiters
<1>8. /\ l \in {"add_assert", "add_test"} => count' # MaxCount
      /\ l \in {"get_assert", "get_test"} => count' # 0
  BY <1>1, <1>2 DEF Moves, AddMoves, GetMoves, PastWait, AddBusy, GetBusy, AddLabels, GetLabels
<1>9. PastWait' /\ Waiters'
  BY <1>1, <1>4, <1>5, <1>6, <1>7, <1>8, WaitersMove
<1>10. Signalled'
  <2>1. CASE pc[t] = "add_store" /\ l = "add_ok" /\ count' = reg[t] + 1
    <3>1. reg[t] = count
      BY <1>1, <2>1 DEF Control
    <3>2. Served(pc[t], l, count, count + 1)
      BY <1>1, <2>1 DEF Served, One, Fetching, Filling, AddBusy, GetBusy, AddLabels, GetLabels
    <3> QED
      BY <1>1, <1>6, <2>1, <3>1, <3>2, SignalledMove
  <2>2. CASE pc[t] = "get_store" /\ l = "get_ok" /\ count' = reg[t] - 1
    <3>1. reg[t] = count
      BY <1>1, <2>2 DEF Control
    <3>2. Served(pc[t], l, count, count - 1)
      BY <1>1, <2>2 DEF Served, One, Fetching, Filling, AddBusy, GetBusy, AddLabels, GetLabels
    <3> QED
      BY <1>1, <1>6, <2>2, <3>1, <3>2, SignalledMove
  <2>3. CASE /\ \/ pc[t] \in AddBusy /\ l \in AddBusy
                \/ pc[t] \in GetBusy /\ l \in GetBusy
             /\ count' = count
    <3>1. One(l, Fetching) = One(pc[t], Fetching) /\ One(l, Filling) = One(pc[t], Filling)
          /\ One(l, Fetching) \in Int /\ One(l, Filling) \in Int
      BY <2>3 DEF One, Fetching, Filling, AddBusy, GetBusy, AddLabels, GetLabels
    <3>2. Served(pc[t], l, count, count)
      BY <1>1, <3>1 DEF Served
    <3> QED
      BY <1>1, <1>6, <2>3, <3>2, SignalledMove
  <2> QED
    BY <1>2, <1>3, <2>1, <2>2, <2>3 DEF Moves, AddMoves, GetMoves
<1> QED
  BY <1>5, <1>9, <1>10 DEF CondInv

(* Who takes the mutex, to call or after a wait, finds nobody in the body.   *)
LEMMA CondLockKeeps ==
  ASSUME CondInv, NEW t \in Threads, Cond!LockMutex(t)
  PROVE  CondInv'
<1>1. Control /\ PastWait /\ Waiters /\ Signalled /\ count \in Int /\ MaxCount \in Int
  BY QueueAssumption DEF CondInv, Control
<1>2. /\ holder = NoThread /\ holder' = t /\ t \notin not_empty \cup not_full
      /\ UNCHANGED <<not_empty, not_full>>
  BY DEF Cond!LockMutex, Cond!Lock!Acquire, Cond!Waiting
<1>3. \A u \in Threads : pc[u] \notin Busy \cup {"add_ok", "get_ok"}
  BY <1>1, <1>2, LockedQueueAssumption DEF Control, Waiters
<1>4. ASSUME NEW l \in {"add_wait", "get_wait"}, pc[t] = "idle", pc' = [pc EXCEPT ![t] = l],
             UNCHANGED <<reg, count>>
      PROVE  CondInv'
  <2>1. /\ l \in Places /\ l \notin Busy
        /\ l \notin {"add_store", "get_store", "add_assert", "add_test", "get_assert", "get_test"}
    BY DEF Places, Busy, AddBusy, GetBusy, AddLabels, GetLabels
  <2>2. Control'
    BY <1>1, <1>2, <1>3, <1>4, <2>1, ControlMove DEF Control
  <2>3. PastWait' /\ Waiters'
    BY <1>1, <1>2, <1>3, <1>4, <2>1, WaitersMove
  <2>4. Served(pc[t], l, count, count)
    BY <1>1, <1>4 DEF Served, One, Fetching, Filling, AddBusy, GetBusy, AddLabels, GetLabels
  <2>5. Signalled'
    BY <1>1, <1>2, <1>4, <2>4, SignalledMove
  <2> QED
    BY <2>2, <2>3, <2>5 DEF CondInv
<1>5. CASE UNCHANGED <<pc, reg, count>>
  <2>1. Control'
    BY <1>1, <1>3, <1>5 DEF Control
  <2>2. PastWait' /\ Waiters'
    BY <1>1, <1>2, <1>3, <1>5 DEF PastWait, Waiters
  <2>3. Signalled'
    BY <1>1, <1>2, <1>5 DEF Signalled, Enough, ThreadsIn
  <2> QED
    BY <2>1, <2>2, <2>3 DEF CondInv
<1> QED
  BY <1>4, <1>5 DEF Cond!LockMutex, Cond!Call, Cond!Go, Cond!list, Cond!numbers, Cond!locals,
                    Cond!queueVars

(* pthread_cond_wait: there is nothing to fetch, or nothing to fill.         *)
LEMMA CondWaitKeeps ==
  ASSUME CondInv, NEW t \in Threads, UNCHANGED <<pc, reg, count>>,
         holder = t, holder' = NoThread,
         \/ /\ pc[t] = "get_wait" /\ count = 0
            /\ not_empty' = not_empty \cup {t} /\ not_full' = not_full
         \/ /\ pc[t] = "add_wait" /\ count = MaxCount
            /\ not_full' = not_full \cup {t} /\ not_empty' = not_empty
  PROVE  CondInv'
<1>1. Control /\ PastWait /\ Waiters /\ Signalled /\ MaxCount \in Int
  BY QueueAssumption DEF CondInv
<1>2. \A u \in Threads : pc[u] \notin Busy \cup {"add_ok", "get_ok"}
  BY <1>1 DEF Control, Waiters, Busy, AddBusy, GetBusy, AddLabels, GetLabels
<1>3. Control' /\ PastWait'
  BY <1>1, <1>2 DEF Control, PastWait
<1>4. \A u \in not_empty \cup not_full : u # NoThread
  BY <1>1, LockedQueueAssumption DEF Waiters
<1>5. Waiters'
  BY <1>1, <1>2, <1>4, LockedQueueAssumption DEF Waiters
<1>6. Enough(pc', not_empty', count', Fetching)
  BY <1>1, EnoughForNone DEF Signalled
<1>7. Enough(pc', not_full', MaxCount - count', Filling)
  <2>1. MaxCount - count' = MaxCount - count
    OBVIOUS
  <2>2. count = MaxCount => MaxCount - count = 0
    BY <1>1
  <2> QED
    BY <1>1, <2>1, <2>2, EnoughForNone DEF Signalled
<1> QED
  BY <1>3, <1>5, <1>6, <1>7 DEF CondInv, Signalled, Enough, ThreadsIn

(* The end of a wait loop.                                                   *)
LEMMA CondGoesOn ==
  ASSUME CondInv, NEW t \in Threads, UNCHANGED <<reg, count, holder, not_empty, not_full>>,
         holder = t,
         \/ pc[t] = "get_wait" /\ count # 0 /\ pc' = [pc EXCEPT ![t] = "get_assert"]
         \/ pc[t] = "add_wait" /\ count # MaxCount /\ pc' = [pc EXCEPT ![t] = "add_assert"]
  PROVE  CondInv'
<1>1. Control /\ PastWait /\ Waiters /\ Signalled /\ count \in Int /\ MaxCount \in Int
  BY QueueAssumption DEF CondInv, Control
<1>2. PICK l \in {"get_assert", "add_assert"} :
         /\ pc' = [pc EXCEPT ![t] = l]
         /\ l = "get_assert" => pc[t] = "get_wait" /\ count # 0
         /\ l = "add_assert" => pc[t] = "add_wait" /\ count # MaxCount
  OBVIOUS
<1>3. l \in Places /\ l \notin {"add_store", "get_store"}
  BY DEF Places, Busy, AddBusy, GetBusy, AddLabels, GetLabels
<1>4. t \notin not_empty \cup not_full
      /\ \A u \in Threads : u # t => pc[u] \notin Busy \cup {"add_ok", "get_ok"}
  BY <1>1 DEF Waiters, Control
<1>5. Control'
  BY <1>1, <1>2, <1>3, <1>4, ControlMove DEF Control
<1>6. PastWait' /\ Waiters'
  BY <1>1, <1>2, <1>3, <1>4, WaitersMove
<1>7. Served(pc[t], l, count, count)
  BY <1>1, <1>2 DEF Served, One, Fetching, Filling, AddBusy, GetBusy, AddLabels, GetLabels
<1>8. Signalled'
  BY <1>1, <1>2, <1>4, <1>7, SignalledMove
<1> QED
  BY <1>5, <1>6, <1>8 DEF CondInv

(* The signal and the unlock: the thread woken takes over from the one that  *)
(* returns.                                                                  *)
LEMMA CondUnlockKeeps ==
  ASSUME CondInv, NEW t \in Threads, Cond!Unlock(t)
  PROVE  CondInv'
<1>1. Control /\ PastWait /\ Waiters /\ Signalled /\ count \in Int /\ MaxCount \in Int
  BY QueueAssumption DEF CondInv, Control
<1>2. holder = t /\ holder' = NoThread
  BY DEF Cond!Unlock, Cond!Lock!Release
<1>3. pc[t] \in {"add_ok", "get_ok"}
  BY <1>1 DEF Cond!Unlock, Cond!Return, Control, Places, Busy, AddBusy, GetBusy, AddLabels,
              GetLabels
<1>4. /\ pc' = [pc EXCEPT ![t] = "idle"] /\ reg' = [reg EXCEPT ![t] = 0] /\ UNCHANGED count
  BY DEF Cond!Unlock, Cond!Return, Cond!WriterReturn, Cond!ReaderReturn, Cond!LeaveScope, Cond!Go,
         Cond!numbers
<1>5. /\ reg' \in [Threads -> Int] /\ \A u \in Threads : u # t => reg'[u] = reg[u]
      /\ \A u \in Threads : u # t => pc'[u] = pc[u]
      /\ pc'[t] = "idle"
  BY <1>1, <1>4 DEF Control
<1>6. \A u \in Threads : u # t => pc[u] \notin Busy \cup {"add_ok", "get_ok"}
  BY <1>1, <1>2 DEF Control, Waiters
<1>7. "idle" \in Places /\ "idle" \notin Busy
  BY DEF Places, Busy, AddBusy, GetBusy, AddLabels, GetLabels
<1>8. Control'
  BY <1>1, <1>4, <1>5, <1>6, <1>7, ControlMove DEF Control
<1>9. /\ not_empty' \subseteq not_empty /\ not_full' \subseteq not_full
      /\ t \notin not_empty \cup not_full
  BY <1>1, <1>2 DEF Waiters, Cond!Unlock, Cond!Signal
<1>10. PastWait' /\ Waiters'
  BY <1>1, <1>2, <1>4, <1>6, <1>7, <1>9, WaitersMove
<1>11. PICK q : q = pc'
  OBVIOUS
<1>12. q[t] = "idle" /\ \A u \in Threads : u # t => q[u] = pc[u]
  BY <1>5, <1>11
<1>13. PICK n \in Int : n = MaxCount - count
  BY <1>1
<1>14. Enough(pc, not_empty, count, Fetching) /\ Enough(pc, not_full, n, Filling)
  BY <1>1, <1>13 DEF Signalled
<1>15. CASE pc[t] = "add_ok"
  <2>1. /\ One("idle", Fetching) = 0 /\ One(pc[t], Fetching) = 1
        /\ One("idle", Filling) = 0 /\ One(pc[t], Filling) = 0
    BY <1>15 DEF One, Fetching, Filling, AddBusy, GetBusy, AddLabels, GetLabels
  <2>2. PICK m \in Int : m = count - 1
    BY <1>1
  <2>3. Enough(q, not_empty, m, Fetching)
    <3>1. m <= count + One(q[t], Fetching) - One(pc[t], Fetching)
      BY <1>1, <1>12, <2>1, <2>2
    <3> QED
      BY <1>1, <1>9, <1>12, <1>14, <3>1, EnoughMove
  <2>4. Enough(q, not_full, n, Filling)
    <3>1. n <= n + One(q[t], Filling) - One(pc[t], Filling)
      BY <1>12, <2>1
    <3> QED
      BY <1>9, <1>12, <1>14, <3>1, EnoughMove
  <2>5. not_full' = not_full
    BY <1>15 DEF Cond!Unlock
  <2>6. Enough(q, not_empty', count, Fetching)
    <3>1. CASE not_empty' = {}
      BY <3>1 DEF Enough
    <3>2. ASSUME NEW u \in not_empty, not_empty' = not_empty \ {u}
          PROVE  Enough(q, not_empty', count, Fetching)
      <4>1. u \in Threads /\ q[u] \in Fetching
        BY <1>1, <1>9, <1>12 DEF Waiters, Fetching
      <4>2. Enough(q, not_empty \ {u}, m + 1, Fetching)
        BY <2>3, <4>1, EnoughWoken
      <4>3. m + 1 = count
        BY <1>1, <2>2
      <4> QED
        BY <3>2, <4>2, <4>3
    <3> QED
      BY <1>15, <3>1, <3>2 DEF Cond!Unlock, Cond!Signal
  <2>7. Signalled'
    BY <1>4, <1>11, <1>13, <2>4, <2>5, <2>6 DEF Signalled, Enough
  <2> QED
    BY <1>8, <1>10, <2>7 DEF CondInv
<1>16. CASE pc[t] = "get_ok"
  <2>1. /\ One("idle", Fetching) = 0 /\ One(pc[t], Fetching) = 0
        /\ One("idle", Filling) = 0 /\ One(pc[t], Filling) = 1
    BY <1>16 DEF One, Fetching, Filling, AddBusy, GetBusy, AddLabels, GetLabels
  <2>2. PICK m \in Int : m = n - 1
    OBVIOUS
  <2>3. Enough(q, not_full, m, Filling)
    <3>1. m <= n + One(q[t], Filling) - One(pc[t], Filling)
      BY <1>12, <2>1, <2>2
    <3> QED
      BY <1>9, <1>12, <1>14, <3>1, EnoughMove
  <2>4. Enough(q, not_empty, count, Fetching)
    <3>1. count <= count + One(q[t], Fetching) - One(pc[t], Fetching)
      BY <1>1, <1>12, <2>1
    <3> QED
      BY <1>1, <1>9, <1>12, <1>14, <3>1, EnoughMove
  <2>5. not_empty' = not_empty
    BY <1>16 DEF Cond!Unlock
  <2>6. Enough(q, not_full', n, Filling)
    <3>1. CASE not_full' = {}
      BY <3>1 DEF Enough
    <3>2. ASSUME NEW u \in not_full, not_full' = not_full \ {u}
          PROVE  Enough(q, not_full', n, Filling)
      <4>1. u \in Threads /\ q[u] \in Filling
        BY <1>1, <1>9, <1>12 DEF Waiters, Filling
      <4>2. Enough(q, not_full \ {u}, m + 1, Filling)
        BY <2>3, <4>1, EnoughWoken
      <4>3. m + 1 = n
        BY <2>2
      <4> QED
        BY <3>2, <4>2, <4>3
    <3> QED
      BY <1>16, <3>1, <3>2 DEF Cond!Unlock, Cond!Signal
  <2>7. Signalled'
    BY <1>4, <1>11, <1>13, <2>4, <2>5, <2>6 DEF Signalled, Enough
  <2> QED
    BY <1>8, <1>10, <2>7 DEF CondInv
<1> QED
  BY <1>3, <1>15, <1>16

(* A wait that ends without a signal wakes one thread more.                  *)
LEMMA CondSpuriousKeeps ==
  ASSUME CondInv, NEW t \in Threads, Cond!SpuriousWakeup(t)
  PROVE  CondInv'
<1>1. Control /\ PastWait /\ Waiters /\ Signalled /\ count \in Int /\ MaxCount \in Int
  BY QueueAssumption DEF CondInv, Control
<1>2. /\ not_empty' = not_empty \ {t} /\ not_full' = not_full \ {t}
      /\ UNCHANGED <<pc, reg, count, holder>>
  BY DEF Cond!SpuriousWakeup, Cond!queueVars, Cond!numbers, Cond!locals
<1>3. Control' /\ PastWait' /\ Waiters'
  BY <1>1, <1>2 DEF Control, PastWait, Waiters
<1>4. PICK n \in Int : n = MaxCount - count
  BY <1>1
<1>5. Enough(pc, not_empty \ {t}, count, Fetching) /\ Enough(pc, not_full \ {t}, n, Filling)
  BY <1>1, <1>4, EnoughWoken DEF Signalled
<1> QED
  BY <1>2, <1>3, <1>4, <1>5 DEF CondInv, Signalled, Enough, ThreadsIn

(* No step of src/2.2f loses a signal.                                       *)
LEMMA CondStep == ASSUME CondInv, Cond!Next PROVE CondInv'
<1>1. PICK t \in Threads : Cond!Step(t) \/ Cond!SpuriousWakeup(t)
  BY DEF Cond!Next, Cond!Threads, Threads
<1>2. CASE Cond!LockMutex(t)
  BY <1>2, CondLockKeeps
<1>3. CASE Cond!AwaitNotFull(t)
  BY <1>3, CondWaitKeeps, CondGoesOn
  DEF Cond!AwaitNotFull, Cond!Lock!Release, Cond!Call, Cond!Go, Cond!queueVars, Cond!list,
      Cond!numbers, Cond!locals, Cond!sync
<1>4. CASE Cond!AwaitNotEmpty(t)
  BY <1>4, CondWaitKeeps, CondGoesOn
  DEF Cond!AwaitNotEmpty, Cond!Lock!Release, Cond!Call, Cond!Go, Cond!queueVars, Cond!list,
      Cond!numbers, Cond!locals, Cond!sync
<1>5. CASE (Cond!AddBody(t) \/ Cond!GetBody(t)) /\ UNCHANGED Cond!sync
  BY <1>5, CondBodyKeeps DEF Cond!sync
<1>6. CASE Cond!Unlock(t)
  BY <1>6, CondUnlockKeeps
<1>7. CASE Cond!SpuriousWakeup(t)
  BY <1>7, CondSpuriousKeeps
<1> QED
  BY <1>1, <1>2, <1>3, <1>4, <1>5, <1>6, <1>7 DEF Cond!Step, Cond!QueueAdd, Cond!QueueGet
-----------------------------------------------------------------------------
QueueInv ==
  (variant = "2.2g" => SemInv) /\ (variant = "2.2f" => CondInv)

(* Both queues start empty, with a token for every free place.               *)
LEMMA QueueStarts == Init => QueueInv
<1> SUFFICES ASSUME Init, variant \in {"2.2f", "2.2g"} PROVE QueueInv
  BY DEF QueueInv
<1>1. /\ pc = [t \in Threads |-> "idle"] /\ reg = [t \in Threads |-> 0] /\ count = 0
      /\ holder = NoThread
  BY DEF Init, Sem!Init, Cond!Init, Sem!QueueInit, Cond!QueueInit, Sem!Lock!LockInit,
         Cond!Lock!LockInit, Sem!Threads, Cond!Threads, Threads
<1>2. "idle" \in Places /\ "idle" \notin Busy
  BY DEF Places, Busy, AddBusy, GetBusy, AddLabels, GetLabels
<1>3. Control
  BY <1>1, <1>2 DEF Control
<1>4. ASSUME variant = "2.2g" PROVE SemInv
  <2>1. empty = MaxCount /\ full = 0 /\ MaxCount \in Nat
    BY <1>4, QueueAssumption DEF Init, Sem!Init
  <2>2. "idle" \notin Claimed /\ "idle" \notin Reserved
    BY DEF Claimed, Reserved, AddLabels, GetLabels
  <2>3. /\ ThreadsIn(pc, Claimed) = {} /\ ThreadsIn(pc, {"add_ok"}) = {}
        /\ ThreadsIn(pc, Reserved) = {} /\ ThreadsIn(pc, {"get_ok"}) = {}
    BY <1>1, <2>2 DEF ThreadsIn
  <2>4. Tokens(count, full, empty, pc)
    BY <1>1, <2>1, <2>3, FS_EmptySet DEF Tokens
  <2> QED
    BY <1>3, <2>1, <2>4 DEF SemInv
<1>5. ASSUME variant = "2.2f" PROVE CondInv
  <2>1. not_empty = {} /\ not_full = {}
    BY <1>5 DEF Init, Cond!Init
  <2>2. PastWait /\ Waiters
    BY <1>1, <2>1 DEF PastWait, Waiters
  <2> QED
    BY <1>3, <2>1, <2>2 DEF CondInv, Signalled, Enough
<1> QED
  BY <1>4, <1>5 DEF QueueInv

(* Every step of either keeps its invariant.                                 *)
LEMMA QueueStep == QueueInv /\ [Next]_vars => QueueInv'
<1> SUFFICES ASSUME QueueInv, [Next]_vars PROVE QueueInv'
  OBVIOUS
<1>1. CASE UNCHANGED vars
  BY <1>1 DEF vars, queueVars, numbers, locals, sems, conds, QueueInv, SemInv, CondInv, Control,
     Tokens, ThreadsIn, PastWait, Waiters, Signalled, Enough
<1>2. CASE Next
  BY <1>2, SemStep, CondStep DEF Next, QueueInv
<1> QED
  BY <1>1, <1>2

(* The instances count sets as this module does.                             *)
LEMMA SameCardinality ==
  \A S : Sem!Cardinality(S) = Cardinality(S) /\ Cond!Cardinality(S) = Cardinality(S)
<1>1. \A S : Sem!Cardinality(S) = Cardinality(S)
  BY DEF Sem!Cardinality, Cardinality
<1>2. \A S : Cond!Cardinality(S) = Cardinality(S)
  BY DEF Cond!Cardinality, Cardinality
<1> QED
  BY <1>1, <1>2

(* For any number of threads and any MaxCount, no token of the semaphores is *)
(* lost or made up: full and empty match q->count up to the threads that     *)
(* have claimed a token or not posted one yet.                               *)
THEOREM QueueTokensMatch == Spec => []TokensMatchCount
<1>1. QueueInv => TokensMatchCount
  <2>1. \A S : Sem!ThreadsAt(S) = ThreadsIn(pc, S)
    BY DEF Sem!ThreadsAt, ThreadsIn, Sem!Threads, Threads
  <2>2. /\ {"get_lock"} \cup (Sem!GetLabels \ {"get_ok"}) = Claimed
        /\ {"add_lock"} \cup (Sem!AddLabels \ {"add_ok"}) = Reserved
    BY DEF Claimed, Reserved, AddLabels, GetLabels, Sem!AddLabels, Sem!GetLabels
  <2>3. /\ Sem!ThreadsAt({"get_lock"} \cup (Sem!GetLabels \ {"get_ok"})) = ThreadsIn(pc, Claimed)
        /\ Sem!ThreadsAt({"add_lock"} \cup (Sem!AddLabels \ {"add_ok"})) = ThreadsIn(pc, Reserved)
        /\ Sem!ThreadsAt({"add_ok"}) = ThreadsIn(pc, {"add_ok"})
        /\ Sem!ThreadsAt({"get_ok"}) = ThreadsIn(pc, {"get_ok"})
    BY <2>1, <2>2
  <2>4. Tokens(count, full, empty, pc) => Sem!TokensMatchCount
    BY <2>3, SameCardinality DEF Sem!TokensMatchCount, Tokens
  <2> QED
    BY <2>4 DEF QueueInv, SemInv, TokensMatchCount
<1> QED
  BY <1>1, QueueStarts, QueueStep, PTL DEF Spec

(* For any number of threads and any MaxCount, neither queue_add nor         *)
(* queue_get of src/2.2f and src/2.2g ever returns 0.                        *)
THEOREM QueueNeverRefuses == Spec => []NeverRefuses
<1>1. Control => \A t \in Threads : pc[t] \notin {"add_full", "get_empty"}
  BY DEF Control, Places, Busy, AddBusy, GetBusy, AddLabels, GetLabels
<1>2. QueueInv => NeverRefuses
  BY <1>1 DEF QueueInv, SemInv, CondInv, NeverRefuses, Sem!NeverRefuses, Cond!NeverRefuses,
              Sem!ThreadsAt, Cond!ThreadsAt, Sem!Threads, Cond!Threads, Threads
<1> QED
  BY <1>2, QueueStarts, QueueStep, PTL DEF Spec

(* For any number of threads and any MaxCount, no signal of src/2.2f is lost: *)
(* when the mutex is free, threads stay asleep beside values or free places  *)
(* only if as many others have been woken to take them.                      *)
THEOREM QueueNoLostSignal == Spec => []NoLostSignal
<1>1. QueueInv => NoLostSignal
  <2> SUFFICES ASSUME QueueInv, variant = "2.2f", holder = NoThread
               PROVE  /\ not_empty # {} =>
                           count <= Cardinality(ThreadsIn(pc, {"get_wait"}) \ not_empty)
                      /\ not_full # {} =>
                           MaxCount - count <= Cardinality(ThreadsIn(pc, {"add_wait"}) \ not_full)
    <3>1. /\ Cond!ThreadsAt({"get_wait"}) = ThreadsIn(pc, {"get_wait"})
          /\ Cond!ThreadsAt({"add_wait"}) = ThreadsIn(pc, {"add_wait"})
      BY DEF Cond!ThreadsAt, ThreadsIn, Cond!Threads, Threads
    <3> QED
      BY <3>1, SameCardinality DEF NoLostSignal, Cond!NoLostSignal
  <2>1. Control /\ Waiters /\ Signalled
    BY DEF QueueInv, CondInv
  <2>2. \A t \in Threads : pc[t] \notin Busy \cup {"add_ok", "get_ok"}
    BY <2>1, LockedQueueAssumption DEF Control, Waiters
  <2>3. /\ ThreadsIn(pc, Fetching) = ThreadsIn(pc, {"get_wait"})
        /\ ThreadsIn(pc, Filling) = ThreadsIn(pc, {"add_wait"})
    BY <2>2 DEF ThreadsIn, Fetching, Filling, Busy
  <2> QED
    BY <2>1, <2>3 DEF Signalled, Enough
<1> QED
  BY <1>1, QueueStarts, QueueStep, PTL DEF Spec
-----------------------------------------------------------------------------
(* Each step of the four queues is one of the body or around it.             *)
LEMMA NextIsAround == Next => \E t \in Threads : Around(t)
BY SpinlockAround, MutexAround, CondAround, SemAround
   DEF Next, Spinlock!Next, Mutex!Next, Cond!Next, Sem!Next, Spinlock!Threads, Mutex!Threads,
       Cond!Threads, Sem!Threads, Threads

(* So it is one of BoundedFifo or none.                                      *)
LEMMA FifoStep ==
  ASSUME NEW s, NEW n, Queue(s, n), [Next]_vars
  PROVE  \E s2, n2 : /\ Queue(s2, n2)'
                     /\ FifoMove(Waiting(Doing, s, n, node), Waiting(Doing, s2, n2, node)')
<1>1. CASE Next
  BY <1>1, NextIsAround, AroundStep
<1>2. CASE UNCHANGED vars
  BY <1>2, StillStep DEF vars
<1> QED
  BY <1>1, <1>2

FifoInv == \E s, n : Queue(s, n)

(* The queue starts empty.                                                   *)
LEMMA FifoStarts == Init => FifoInv /\ Queue([k \in 1 .. 0 |-> NULL], 0)
<1> SUFFICES ASSUME Init PROVE Queue([k \in 1 .. 0 |-> NULL], 0)
  BY DEF FifoInv
<1>1. /\ first = NULL /\ last = NULL /\ count = 0 /\ balance = 0 /\ heap = {} /\ fault = "none"
      /\ node = [m \in Node |-> Blank] /\ pc = [t \in Threads |-> "idle"]
      /\ ptr = [t \in Threads |-> NULL] /\ next = [t \in Threads |-> NULL]
      /\ reg = [t \in Threads |-> 0] /\ val = [t \in Threads |-> 0] /\ i = [t \in Writers |-> 0]
      /\ holder = NoThread
  BY DEF Init, Spinlock!Init, Cond!Init, Sem!Init, Spinlock!QueueInit, Cond!QueueInit,
         Sem!QueueInit, Spinlock!Lock!LockInit, Cond!Lock!LockInit, Sem!Lock!LockInit,
         Spinlock!Threads, Cond!Threads, Sem!Threads, Threads, Spinlock!Blank, Cond!Blank,
         Sem!Blank, Blank
<1>2. 0 \in Values /\ Blank \in [val : Values, next : Node \cup {NULL}] /\ MaxCount \in Nat
  BY QueueAssumption DEF Values, Blank
<1>3. Typed
  BY <1>1, <1>2 DEF Typed, Contents
<1>4. Placed
  BY <1>1 DEF Placed, AddSide, GetSide, InBody, AddLabels, GetLabels
<1>5. Doing = "idle"
  BY <1>1 DEF Doing
<1> DEFINE s == [k \in 1 .. 0 |-> NULL]
<1>6. Chain(s, 0, first, node) /\ NodesOf(s, 0) = {}
  BY <1>1 DEF Chain, IsList, NodesOf
<1> HIDE DEF s
<1>7. Work("idle", s, 0, last, node, heap, count, ptr[holder], next[holder], reg[holder], i[holder])
  BY <1>1, <1>2, <1>6 DEF Work, One, Uncounted, StillCounted, Linking, Owning
<1>8. Queue(s, 0)
  BY <1>1, <1>3, <1>4, <1>5, <1>6, <1>7 DEF Queue
<1> QED
  BY <1>8 DEF s

(* In every state there is such a sequence of nodes.                         *)
LEMMA FifoAlways == Spec => []FifoInv
<1>1. FifoInv /\ [Next]_vars => FifoInv'
  BY FifoStep DEF FifoInv
<1> QED
  BY <1>1, FifoStarts, PTL DEF Spec

(* For any number of writers and readers and any MaxCount, the list, the     *)
(* counters and the heap agree at every step of the four queues: no node is  *)
(* lost, doubled, or freed while linked, and the process never dies.         *)
THEOREM QueueConsistent == Spec => []Consistent
<1>1. ASSUME NEW s, NEW n, Queue(s, n) PROVE Consistent
  <2>1. /\ Chain(s, n, first, node) /\ fault = "none" /\ balance = count /\ n \in Nat
        /\ Work(Doing, s, n, last, node, heap, count,
                ptr[holder], next[holder], reg[holder], i[holder])
    BY <1>1 DEF Queue, Chain, IsList
  <2>2. Size = n /\ \A j \in Nat : At[j] = IF j < n THEN s[j + 1] ELSE NULL
    BY <1>1, ItemsRead
  <2>3. /\ Linked = {At[k] : k \in 0 .. n - 1}
        /\ \A k \in 0 .. n - 1 : At[k] = s[k + 1] /\ k + 1 \in 1 .. n
        /\ \A k \in 1 .. n : k - 1 \in 0 .. n - 1 /\ At[k - 1] = s[k]
    BY <2>1, <2>2 DEF Linked
  <2>4. Linked = NodesOf(s, n)
    <3>1. ASSUME NEW m \in Linked PROVE m \in NodesOf(s, n)
      BY <2>3 DEF NodesOf
    <3>2. ASSUME NEW m \in NodesOf(s, n) PROVE m \in Linked
      BY <2>3 DEF NodesOf
    <3> QED
      BY <3>1, <3>2
  <2>5. Cardinality(Linked) = Size
    BY <2>1, <2>2, <2>4, NodesCounted
  <2>6. Private = IF Doing \in Owning THEN {ptr[holder]} ELSE {}
    <3>1. ThreadsAt(Owning) = IF Doing \in Owning THEN {holder} ELSE {}
      BY <1>1, InBodyIs DEF Owning, Linking, InBody, AddLabels, GetLabels
    <3>2. Private = {ptr[t] : t \in ThreadsAt(Owning)}
      BY DEF Private, Owning, Linking
    <3> QED
      BY <3>1, <3>2
  <2>7. Linked \cap Private = {} /\ heap = Linked \cup Private
    BY <2>1, <2>4, <2>6 DEF Work
  <2>8. /\ Cardinality(ThreadsAt(Uncounted)) = One(Doing, Uncounted)
        /\ Cardinality(ThreadsAt(StillCounted)) = One(Doing, StillCounted)
    <3>1. /\ ThreadsAt(Uncounted) = IF Doing \in Uncounted THEN {holder} ELSE {}
          /\ ThreadsAt(StillCounted) = IF Doing \in StillCounted THEN {holder} ELSE {}
      BY <1>1, InBodyIs DEF Uncounted, StillCounted, InBody, AddLabels, GetLabels
    <3> QED
      BY <3>1, FS_Singleton, FS_EmptySet DEF One
  <2>9. count = Size - Cardinality(ThreadsAt(Uncounted)) + Cardinality(ThreadsAt(StillCounted))
    BY <2>1, <2>2, <2>8 DEF Work
  <2>10. Size > 0 /\ ThreadsAt({"add_advance"}) = {} => last = At[Size - 1]
    <3>1. SUFFICES ASSUME n > 0, ThreadsAt({"add_advance"}) = {} PROVE last = At[n - 1]
      BY <2>2
    <3>2. Doing # "add_advance"
      BY <1>1, <3>1, InBodyIs DEF InBody, AddLabels
    <3>3. n \in 1 .. n
      BY <2>1, <3>1
    <3> QED
      BY <2>1, <2>3, <3>1, <3>2, <3>3 DEF Work
  <2>11. ResetsLast /\ Size = 0 => last = NULL
    BY <2>1, <2>2 DEF Work
  <2> QED
    BY <2>1, <2>5, <2>7, <2>9, <2>10, <2>11 DEF Consistent, Uncounted, StillCounted
<1>2. FifoInv => Consistent
  BY <1>1 DEF FifoInv
<1> QED
  BY <1>2, FifoAlways, PTL

(* Each step of the four queues is one of BoundedFifo, or leaves it alone.   *)
LEMMA FifoSimulated ==
  ASSUME FifoInv, [Next]_vars PROVE [Fifo!FifoNext]_<<Items, Sent, Received>>
<1>1. PICK s, n : Queue(s, n)
  BY DEF FifoInv
<1>2. PICK s2, n2 : /\ Queue(s2, n2)'
                    /\ FifoMove(Waiting(Doing, s, n, node), Waiting(Doing, s2, n2, node)')
  BY <1>1, FifoStep
<1>3. Items = Waiting(Doing, s, n, node) /\ Items' = Waiting(Doing, s2, n2, node)'
  BY <1>1, <1>2, ItemsRead
<1>4. FifoMove(Items, Items')
  BY <1>2, <1>3
<1>5. val \in [Threads -> Values]
  BY <1>1 DEF Queue, Typed
<1>6. CASE Items' = Items /\ Sent' = Sent /\ val' = val
  BY <1>6 DEF Received
<1>7. ASSUME NEW w \in Writers, Len(Items) < MaxCount, Items' = Append(Items, Sent[w]),
             Sent' = [Sent EXCEPT ![w] = Succ(@)], val' = val
      PROVE  Fifo!FifoNext
  BY <1>7 DEF Fifo!FifoNext, Fifo!Put, Received, Succ
<1>8. ASSUME NEW r \in Readers, Items # <<>>, val' = [val EXCEPT ![r] = Head(Items)],
             Items' = Tail(Items), Sent' = Sent
      PROVE  Fifo!FifoNext
  <2>1. Received' = [Received EXCEPT ![r] = Head(Items)]
    BY <1>5, <1>8 DEF Received, Threads
  <2> QED
    BY <1>8, <2>1 DEF Fifo!FifoNext, Fifo!Take
<1> QED
  BY <1>4, <1>6, <1>7, <1>8 DEF FifoMove, Taking

(* For any number of writers and readers and any MaxCount, each of the four  *)
(* queues is a bounded FIFO to its callers: a value enters once, in its      *)
(* writer's order, at most MaxCount wait, and each leaves once, from the     *)
(* head, to one reader.                                                      *)
THEOREM QueueIsFifo == Spec => ImplementsFifo
<1>1. Init => Fifo!FifoInit
  <2> SUFFICES ASSUME Init PROVE Fifo!FifoInit
    OBVIOUS
  <2>1. Queue([k \in 1 .. 0 |-> NULL], 0)
    BY FifoStarts
  <2>2. Items = Waiting(Doing, [k \in 1 .. 0 |-> NULL], 0, node) /\ Doing # "get_unlink"
    BY <2>1, ItemsRead DEF Queue, Work
  <2>3. Items = <<>>
    BY <2>2 DEF Waiting
  <2>4. /\ pc = [t \in Threads |-> "idle"] /\ val = [t \in Threads |-> 0]
        /\ i = [t \in Writers |-> 0]
    BY DEF Init, Spinlock!Init, Cond!Init, Sem!Init, Spinlock!QueueInit, Cond!QueueInit,
           Sem!QueueInit, Spinlock!Threads, Cond!Threads, Sem!Threads, Threads
  <2>5. Sent = [w \in Writers |-> 0] /\ Received = [r \in Readers |-> 0]
    BY <2>4 DEF Sent, Received, Threads
  <2> QED
    BY <2>3, <2>5 DEF Fifo!FifoInit
<1>2. FifoInv /\ [Next]_vars => [Fifo!FifoNext]_<<Items, Sent, Received>>
  BY FifoSimulated
<1> QED
  BY <1>1, <1>2, FifoAlways, PTL DEF Spec, ImplementsFifo, Fifo!FifoSpec, Fifo!fifoVars
-----------------------------------------------------------------------------
(* Where the threads of each variant may be.                                 *)
Common == {"idle"} \cup AddLabels \cup GetLabels

LabelsOf ==
  CASE variant = "2.2f" -> {"add_wait", "get_wait"} \cup Common
    [] variant = "2.2g" -> {"add_lock", "get_lock"} \cup Common
    [] OTHER -> Common

Outside ==
  /\ expected \in [Readers -> Values] /\ misordered \in BOOLEAN
  /\ holder \in Threads \cup {NoThread}
  /\ pc \in [Threads -> LabelsOf]

GoesTo(t, S) == pc' = pc \/ \E l \in S : pc' = [pc EXCEPT ![t] = l]

(* The body stays among its labels and leaves the callers alone.             *)
LEMMA BodyTypes ==
  ASSUME NEW t \in Threads, Body(t)
  PROVE  GoesTo(t, AddLabels \cup GetLabels) /\ UNCHANGED clients
<1>1. UNCHANGED clients
  BY DEF Body, AddBody, GetBody, AddAssert, AddTest, AddMalloc, AddLink, AddFirst, AddAppend,
         AddAdvance, AddLoad, AddStore, GetAssert, GetTest, GetRead, GetUnlink, GetFree, GetLoad,
         GetStore
<1>2. AddBody(t) => GoesTo(t, AddLabels)
  BY DEF AddBody, AddAssert, AddTest, AddMalloc, AddLink, AddFirst, AddAppend, AddAdvance,
         AddLoad, AddStore, Go, Die, GoesTo, AddLabels
<1>3. GetBody(t) => GoesTo(t, GetLabels)
  BY DEF GetBody, GetAssert, GetTest, GetRead, GetUnlink, GetFree, GetLoad, GetStore, Go, Die,
         GoesTo, GetLabels
<1> QED
  BY <1>1, <1>2, <1>3 DEF Body, GoesTo

(* The labels of each variant.                                               *)
LEMMA StepLabels ==
  ASSUME NEW t \in Threads
  PROVE  /\ Spinlock!Step(t) \/ Mutex!Step(t) => GoesTo(t, Common)
         /\ Cond!Step(t) \/ Cond!SpuriousWakeup(t) =>
              GoesTo(t, {"add_wait", "get_wait"} \cup Common)
         /\ Sem!Step(t) => GoesTo(t, {"add_lock", "get_lock"} \cup Common)
<1>1. Body(t) => GoesTo(t, Common)
  BY BodyTypes DEF GoesTo, Common
<1>2. Return(t) => GoesTo(t, Common)
  BY DEF Return, WriterReturn, ReaderReturn, LeaveScope, Go, GoesTo, Common
<1>3. \A l : Call(t, l) => pc' = [pc EXCEPT ![t] = l]
  BY DEF Call, Go
<1>4. {"idle", "add_assert", "get_assert", "get_test"} \subseteq Common
  BY DEF Common, AddLabels, GetLabels
<1>5. UNCHANGED Cond!queueVars \/ UNCHANGED Sem!queueVars => pc' = pc
  BY DEF Cond!queueVars, Sem!queueVars
<1>6. Spinlock!Step(t) => GoesTo(t, Common)
  <2>1. Spinlock!LockAdd(t) \/ Spinlock!LockGet(t) => GoesTo(t, Common)
    BY <1>3, <1>4, SameLoops DEF Spinlock!LockAdd, Spinlock!LockGet, GoesTo
  <2> QED
    BY <1>1, <1>2, <2>1, SameLoops, SameLockedBody
       DEF Spinlock!Step, Spinlock!QueueAdd, Spinlock!QueueGet, Spinlock!Unlock
<1>7. Mutex!Step(t) => GoesTo(t, Common)
  <2>1. Mutex!LockAdd(t) \/ Mutex!LockGet(t) => GoesTo(t, Common)
    BY <1>3, <1>4, SameLoops DEF Mutex!LockAdd, Mutex!LockGet, GoesTo
  <2> QED
    BY <1>1, <1>2, <2>1, SameLoops, SameLockedBody
       DEF Mutex!Step, Mutex!QueueAdd, Mutex!QueueGet, Mutex!Unlock
<1>8. ASSUME Cond!Step(t) \/ Cond!SpuriousWakeup(t)
      PROVE  GoesTo(t, {"add_wait", "get_wait"} \cup Common)
  <2>1. CASE Cond!LockMutex(t) \/ Cond!AwaitNotFull(t) \/ Cond!AwaitNotEmpty(t)
    <3>1. \/ pc' = pc \/ pc' = [pc EXCEPT ![t] = "add_wait"]
          \/ pc' = [pc EXCEPT ![t] = "get_wait"] \/ pc' = [pc EXCEPT ![t] = "add_assert"]
          \/ pc' = [pc EXCEPT ![t] = "get_assert"]
      BY <1>3, <1>5, <2>1, SameLoops DEF Cond!LockMutex, Cond!AwaitNotFull, Cond!AwaitNotEmpty
    <3> QED
      BY <1>4, <3>1 DEF GoesTo
  <2>2. CASE Cond!AddBody(t) \/ Cond!GetBody(t) \/ Cond!Unlock(t)
    <3>1. GoesTo(t, Common)
      BY <1>1, <1>2, <2>2, SameBody, SameLoops DEF Cond!Unlock
    <3> QED
      BY <3>1 DEF GoesTo
  <2>3. CASE Cond!SpuriousWakeup(t)
    BY <1>5, <2>3 DEF Cond!SpuriousWakeup, GoesTo
  <2> QED
    BY <1>8, <2>1, <2>2, <2>3 DEF Cond!Step, Cond!QueueAdd, Cond!QueueGet
<1>9. ASSUME Sem!Step(t) PROVE GoesTo(t, {"add_lock", "get_lock"} \cup Common)
  <2>1. CASE Sem!SemWait(t) \/ Sem!LockMutex(t)
    <3>1. \/ pc' = [pc EXCEPT ![t] = "add_lock"] \/ pc' = [pc EXCEPT ![t] = "get_lock"]
          \/ pc' = [pc EXCEPT ![t] = "add_assert"] \/ pc' = [pc EXCEPT ![t] = "get_assert"]
      BY <1>3, <2>1, SameLoops DEF Sem!SemWait, Sem!LockMutex
    <3> QED
      BY <1>4, <3>1 DEF GoesTo
  <2>2. CASE Sem!Body(t) \/ Sem!Unlock(t) \/ Sem!Post(t)
    <3>1. GoesTo(t, Common)
      BY <1>1, <1>2, <1>5, <2>2, SameBody, SameLoops DEF Sem!Unlock, Sem!Post, GoesTo
    <3> QED
      BY <3>1 DEF GoesTo
  <2> QED
    BY <1>9, <2>1, <2>2 DEF Sem!Step
<1> QED
  BY <1>6, <1>7, <1>8, <1>9

(* What the list invariant does not speak of keeps its type.                 *)
LEMMA OutsideStep == ASSUME FifoInv, Outside, [Next]_vars PROVE Outside'
<1>1. CASE UNCHANGED vars
  BY <1>1 DEF vars, queueVars, clients, Outside, LabelsOf
<1>2. CASE Next
  <2>0. /\ expected \in [Readers -> Values] /\ misordered \in BOOLEAN /\ variant' = variant
        /\ holder \in Threads \cup {NoThread} /\ pc \in [Threads -> LabelsOf]
    BY <1>2 DEF Outside, Next
  <2>1. PICK t \in Threads : Around(t) /\ GoesTo(t, LabelsOf)
    <3>1. /\ variant = "2.2a" => \E t \in Threads : Spinlock!Step(t)
          /\ variant = "2.2e" => \E t \in Threads : Mutex!Step(t)
          /\ variant = "2.2f" => \E t \in Threads : Cond!Step(t) \/ Cond!SpuriousWakeup(t)
          /\ variant = "2.2g" => \E t \in Threads : Sem!Step(t)
          /\ variant \in {"2.2a", "2.2e", "2.2f", "2.2g"}
      BY <1>2 DEF Next, Spinlock!Next, Mutex!Next, Cond!Next, Sem!Next, Spinlock!Threads,
                  Mutex!Threads, Cond!Threads, Sem!Threads, Threads
    <3> QED
      BY <3>1, StepLabels, SpinlockAround, MutexAround, CondAround, SemAround DEF LabelsOf
  <2>2. LabelsOf' = LabelsOf
    BY <2>0 DEF LabelsOf
  <2>3. pc' \in [Threads -> LabelsOf']
    BY <2>0, <2>1, <2>2 DEF GoesTo
  <2>4. holder' \in Threads \cup {NoThread}
    BY <2>0, <2>1 DEF Around, GoesOn, Lock!Acquire, Lock!Release
  <2>5. expected' \in [Readers -> Values] /\ misordered' \in BOOLEAN
    <3>1. CASE UNCHANGED clients
      BY <2>0, <3>1 DEF clients
    <3>2. CASE Return(t)
      <4>1. \A v \in Values : Succ(v) \in Values
        BY SuccTyped
      <4>2. val \in [Threads -> Values]
        BY DEF FifoInv, Queue, Typed
      <4>3. /\ expected' = expected \/ expected' = [expected EXCEPT ![t] = Succ(val[t])]
            /\ misordered' = misordered \/ misordered' \in BOOLEAN
        BY <3>2 DEF Return, WriterReturn, ReaderReturn
      <4> QED
        BY <2>0, <2>1, <4>1, <4>2, <4>3
    <3>3. UNCHANGED clients \/ Return(t)
      BY <2>1, BodyTypes DEF Around, GoesOn, Call, queueVars
    <3> QED
      BY <3>1, <3>2, <3>3
  <2> QED
    BY <2>3, <2>4, <2>5 DEF Outside
<1> QED
  BY <1>1, <1>2

(* It is right at the start.                                                *)
LEMMA OutsideStarts == Init => Outside
<1> SUFFICES ASSUME Init PROVE Outside
  OBVIOUS
<1>1. /\ pc = [t \in Threads |-> "idle"] /\ expected = [r \in Readers |-> 0]
      /\ misordered = FALSE /\ holder = NoThread
  BY DEF Init, Spinlock!Init, Cond!Init, Sem!Init, Spinlock!QueueInit, Cond!QueueInit,
         Sem!QueueInit, Spinlock!Lock!LockInit, Cond!Lock!LockInit, Sem!Lock!LockInit,
         Spinlock!Threads, Cond!Threads, Sem!Threads, Threads
<1>2. 0 \in Values /\ "idle" \in LabelsOf
  BY QueueAssumption DEF Values, LabelsOf, Common
<1> QED
  BY <1>1, <1>2 DEF Outside

(* In each of the four, for any number of threads and any MaxCount, every    *)
(* variable keeps its type: a semaphore never exceeds MaxCount, and only     *)
(* readers wait on not_empty, only writers on not_full.                      *)
THEOREM QueueTypes == Spec => []TypeOK
<1>1. ASSUME NEW s, NEW n, Queue(s, n), Outside, QueueInv PROVE TypeOK
  <2>1. /\ Typed /\ Placed /\ fault = "none" /\ balance = count /\ Chain(s, n, first, node)
        /\ Work(Doing, s, n, last, node, heap, count,
                ptr[holder], next[holder], reg[holder], i[holder])
    BY <1>1 DEF Queue
  <2>2. count \in Int /\ balance \in Int
    <3>1. One(Doing, Uncounted) \in Int /\ One(Doing, StillCounted) \in Int
      BY DEF One
    <3> QED
      BY <2>1, <3>1 DEF Work
  <2>3. first \in Node \cup {NULL}
    <3>1. n = 0 \/ 1 \in 1 .. n
      BY <2>1 DEF Work
    <3> QED
      BY <2>1, <3>1 DEF Chain, IsList
  <2>4. \A S : pc \in [Threads -> S] => QueueTypeOK(S)
    BY <1>1, <2>1, <2>2, <2>3 DEF QueueTypeOK, Typed, Contents, Outside
  <2>5. ASSUME variant = "2.2f" PROVE Cond!TypeOK
    <3>1. pc \in [Threads -> {"idle", "add_wait", "get_wait"} \cup AddLabels \cup GetLabels]
      BY <1>1, <2>5 DEF Outside, LabelsOf, Common
    <3>2. QueueTypeOK({"idle", "add_wait", "get_wait"} \cup AddLabels \cup GetLabels)
      BY <2>4, <3>1
    <3>3. Cond!QueueTypeOK(Cond!Labels)
      BY <3>2 DEF QueueTypeOK, Cond!QueueTypeOK, Cond!Labels, AddLabels, GetLabels,
                  Cond!AddLabels, Cond!GetLabels, Cond!Threads, Threads, Cond!Values, Values
    <3>4. not_empty \subseteq Readers /\ not_full \subseteq Writers
      BY <1>1, <2>1, <2>5 DEF QueueInv, CondInv, Waiters, Placed, AddSide, GetSide
    <3> QED
      BY <1>1, <3>3, <3>4 DEF Cond!TypeOK, Outside, Cond!Threads, Threads
  <2>6. ASSUME variant = "2.2g" PROVE Sem!TypeOK
    <3>1. pc \in [Threads -> {"idle", "add_lock", "get_lock"} \cup AddLabels \cup GetLabels]
      BY <1>1, <2>6 DEF Outside, LabelsOf, Common
    <3>2. QueueTypeOK({"idle", "add_lock", "get_lock"} \cup AddLabels \cup GetLabels)
      BY <2>4, <3>1
    <3>3. Sem!QueueTypeOK(Sem!Labels)
      BY <3>2 DEF QueueTypeOK, Sem!QueueTypeOK, Sem!Labels, AddLabels, GetLabels,
                  Sem!AddLabels, Sem!GetLabels, Sem!Threads, Threads, Sem!Values, Values
    <3>4. empty \in 0 .. MaxCount /\ full \in 0 .. MaxCount
      <4>1. empty \in Nat /\ full \in Nat /\ Tokens(count, full, empty, pc) /\ MaxCount \in Nat
        BY <1>1, <2>6, QueueAssumption DEF QueueInv, SemInv
      <4>2. \A S : Cardinality(ThreadsIn(pc, S)) \in Nat
        <5>1. IsFiniteSet(Threads)
          BY QueueAssumption, FS_Union DEF Threads
        <5>2. \A S : ThreadsIn(pc, S) \subseteq Threads
          BY DEF ThreadsIn
        <5> QED
          BY <5>1, <5>2, FS_Subset, FS_CardinalityType
      <4>3. PICK a \in Nat, b \in Nat, c \in Nat, d \in Nat :
              count = full + a + b /\ MaxCount - count = empty + c + d
        BY <4>1, <4>2 DEF Tokens
      <4> QED
        BY <4>1, <4>3, <2>2
    <3> QED
      BY <1>1, <3>3, <3>4 DEF Sem!TypeOK, Outside, Sem!Threads, Threads
  <2>7. ASSUME variant \notin {"2.2f", "2.2g"} PROVE Spinlock!TypeOK
    <3>1. pc \in [Threads -> Common]
      BY <1>1, <2>7 DEF Outside, LabelsOf, Common
    <3>2. QueueTypeOK({"idle"} \cup AddLabels \cup GetLabels)
      BY <2>4, <3>1 DEF Common
    <3>3. Spinlock!QueueTypeOK({"idle"} \cup Spinlock!AddLabels \cup Spinlock!GetLabels)
      BY <3>2 DEF QueueTypeOK, Spinlock!QueueTypeOK, AddLabels, GetLabels, Spinlock!AddLabels,
                  Spinlock!GetLabels, Spinlock!Threads, Threads, Spinlock!Values, Values
    <3> QED
      BY <1>1, <3>3 DEF Spinlock!TypeOK, Outside, Spinlock!Threads, Threads
  <2> QED
    BY <2>5, <2>6, <2>7 DEF TypeOK
<1>2. FifoInv /\ Outside /\ QueueInv => TypeOK
  BY <1>1 DEF FifoInv
<1>3. FifoInv /\ Outside /\ [Next]_vars => Outside'
  BY OutsideStep
<1> QED
  BY <1>2, <1>3, OutsideStarts, FifoAlways, QueueStarts, QueueStep, PTL DEF Spec
-----------------------------------------------------------------------------
(* Who holds the lock of src/2.4 between LOCK and UNLOCK.  The monitor does  *)
(* not count: it leaves the list alone.                                      *)
Inner(t) == IF variant = "spin" THEN spc[t] = "cs" ELSE mtx[t] \in {"cs", "swap"}

InLock ==
  IF \E t \in Threads : Inner(t) THEN CHOOSE t \in Threads : Inner(t) ELSE NoThread

M == INSTANCE QueueSteps WITH holder <- InLock, ResetsLast <- TRUE

L == INSTANCE LockProofs WITH Threads <- QueueThreads, TryLockers <- {}, pc <- mtx

(* The assumptions of QueueSteps and LockProofs about the constants.         *)
LEMMA OwnAssumptions ==
  /\ M!IsFiniteSet(Writers) /\ M!IsFiniteSet(Readers) /\ M!IsFiniteSet(Node)
  /\ MaxCount <= M!Cardinality(Node)
  /\ NoThread \notin M!Threads
  /\ {} \subseteq QueueThreads /\ NoThread \notin QueueThreads
<1>1. \A S : M!IsFiniteSet(S) <=> IsFiniteSet(S)
  BY DEF M!IsFiniteSet, IsFiniteSet
<1>2. \A S : M!Cardinality(S) = Cardinality(S)
  BY DEF M!Cardinality, Cardinality
<1>3. NoThread \notin M!Threads /\ NoThread \notin QueueThreads
  BY LockedQueueAssumption, MonitorAssumption DEF M!Threads, Threads, QueueThreads
<1> QED
  BY <1>1, <1>2, <1>3, QueueAssumption, BlocksAssumption

LEMMA OwnSets ==
  /\ M!Towards = Towards /\ M!AddSide = AddSide /\ M!GetSide = GetSide /\ M!InBody = InBody
  /\ M!Resting = Resting /\ M!Threads = Threads
BY DEF M!Towards, M!AddSide, M!GetSide, M!InBody, M!Resting, M!Threads, M!AddLabels, M!GetLabels,
       Towards, AddSide, GetSide, InBody, Resting, Threads, AddLabels, GetLabels

(* What does not read ResetsLast is the same.                                *)
LEMMA OwnLoops ==
  ASSUME NEW t \in Threads
  PROVE  /\ Return(t) => M!Return(t)
         /\ \A l : Call(t, l) => M!Call(t, l)
         /\ UNCHANGED queueVars => UNCHANGED M!queueVars
<1>1. Return(t) => M!Return(t)
  BY DEF
    M!Return, M!WriterReturn, M!ReaderReturn, M!LeaveScope, M!Go, M!Succ, M!list, M!numbers,
    M!locals, M!clients, Return, WriterReturn, ReaderReturn, LeaveScope, Go, Succ, list, numbers,
    locals, clients
<1>2. \A l : Call(t, l) => M!Call(t, l)
  BY DEF M!Call, M!Go, M!list, M!numbers, M!locals, M!clients, Call, Go, list, numbers, locals,
         clients
<1>3. UNCHANGED queueVars => UNCHANGED M!queueVars
  BY DEF M!queueVars, M!list, M!numbers, M!locals, M!clients, queueVars, list, numbers, locals,
         clients
<1> QED
  BY <1>1, <1>2, <1>3

(* What the two queues of src/2.4 do between LOCK and UNLOCK.                *)
LEMMA OwnBody ==
  ASSUME NEW t \in QueueThreads
  PROVE  /\ Spin!Enter(t) \/ Futex!Enter(t) => Enter(t)
         /\ Spin!Leave(t) \/ Futex!Leave(t) => Leave(t)
         /\ Spin!Inside(t) \/ Futex!Inside(t) =>
              PrintStats(t) \/ (t \in Threads /\ M!Body(t) /\ UNCHANGED stats)
         /\ (Spin!AtLock(t) <=> AtLock(t)) /\ (Futex!AtLock(t) <=> AtLock(t))
         /\ (Futex!AtUnlock(t) <=> AtUnlock(t))
<1>1. Spin!Enter(t) => Enter(t)
  BY DEF Spin!Enter, Spin!AtLock, Spin!Call, Spin!Go, Spin!list, Spin!numbers, Spin!locals,
         Spin!clients, Spin!queueVars, Spin!stats,
         Enter, AtLock, Call, Go, list, numbers, locals, clients, queueVars, stats
<1>2. Futex!Enter(t) => Enter(t)
  BY DEF Futex!Enter, Futex!AtLock, Futex!Call, Futex!Go, Futex!list, Futex!numbers,
         Futex!locals, Futex!clients, Futex!queueVars, Futex!stats,
         Enter, AtLock, Call, Go, list, numbers, locals, clients, queueVars, stats
<1>3. Spin!Leave(t) => Leave(t)
  <2>1. Spin!Return(t) => Return(t)
    BY DEF
      Spin!Return, Spin!WriterReturn, Spin!ReaderReturn, Spin!LeaveScope, Spin!Go, Spin!Succ,
      Spin!list, Spin!numbers, Spin!locals, Spin!clients, Return, WriterReturn, ReaderReturn,
      LeaveScope, Go, Succ, list, numbers, locals, clients
  <2> QED
    BY <2>1 DEF Spin!Leave, Spin!AtUnlock, Spin!queueVars, Spin!list, Spin!numbers, Spin!locals,
                Spin!clients, Spin!stats, Spin!Threads,
                Leave, AtUnlock, queueVars, list, numbers, locals, clients, stats, Threads
<1>4. Futex!Leave(t) => Leave(t)
  <2>1. Futex!Return(t) => Return(t)
    BY DEF
      Futex!Return, Futex!WriterReturn, Futex!ReaderReturn, Futex!LeaveScope, Futex!Go,
      Futex!Succ, Futex!list, Futex!numbers, Futex!locals, Futex!clients, Return, WriterReturn,
      ReaderReturn, LeaveScope, Go, Succ, list, numbers, locals, clients
  <2> QED
    BY <2>1 DEF Futex!Leave, Futex!AtUnlock, Futex!queueVars, Futex!list, Futex!numbers,
                Futex!locals, Futex!clients, Futex!stats, Futex!Threads,
                Leave, AtUnlock, queueVars, list, numbers, locals, clients, stats, Threads
<1>5. Spin!Inside(t) => PrintStats(t) \/ (t \in Threads /\ M!Body(t) /\ UNCHANGED stats)
  <2>1. Spin!Body(t) => M!Body(t)
    BY DEF
      Spin!Body, Spin!AddBody, Spin!GetBody, Spin!AddAssert, Spin!AddTest, Spin!AddMalloc,
      Spin!AddLink, Spin!AddFirst, Spin!AddAppend, Spin!AddAdvance, Spin!AddLoad, Spin!AddStore,
      Spin!GetAssert, Spin!GetTest, Spin!GetRead, Spin!GetUnlink, Spin!GetFree, Spin!GetLoad,
      Spin!GetStore, Spin!Go, Spin!Die, Spin!Blank, Spin!list, Spin!numbers, Spin!locals,
      Spin!clients, M!Body, M!AddBody, M!GetBody, M!AddAssert, M!AddTest, M!AddMalloc, M!AddLink,
      M!AddFirst, M!AddAppend, M!AddAdvance, M!AddLoad, M!AddStore, M!GetAssert, M!GetTest,
      M!GetRead, M!GetUnlink, M!GetFree, M!GetLoad, M!GetStore, M!Go, M!Die, M!Blank, M!list,
      M!numbers, M!locals, M!clients
  <2> QED
    BY <2>1 DEF Spin!Inside, Spin!PrintStats, Spin!queueVars, Spin!list, Spin!numbers,
                Spin!locals, Spin!clients, Spin!stats, Spin!Threads,
                PrintStats, queueVars, list, numbers, locals, clients, stats, Threads
<1>6. Futex!Inside(t) => PrintStats(t) \/ (t \in Threads /\ M!Body(t) /\ UNCHANGED stats)
  <2>1. Futex!Body(t) => M!Body(t)
    BY DEF
      Futex!Body, Futex!AddBody, Futex!GetBody, Futex!AddAssert, Futex!AddTest, Futex!AddMalloc,
      Futex!AddLink, Futex!AddFirst, Futex!AddAppend, Futex!AddAdvance, Futex!AddLoad,
      Futex!AddStore, Futex!GetAssert, Futex!GetTest, Futex!GetRead, Futex!GetUnlink,
      Futex!GetFree, Futex!GetLoad, Futex!GetStore, Futex!Go, Futex!Die, Futex!Blank, Futex!list,
      Futex!numbers, Futex!locals, Futex!clients, M!Body, M!AddBody, M!GetBody, M!AddAssert,
      M!AddTest, M!AddMalloc, M!AddLink, M!AddFirst, M!AddAppend, M!AddAdvance, M!AddLoad,
      M!AddStore, M!GetAssert, M!GetTest, M!GetRead, M!GetUnlink, M!GetFree, M!GetLoad,
      M!GetStore, M!Go, M!Die, M!Blank, M!list, M!numbers, M!locals, M!clients
  <2> QED
    BY <2>1 DEF Futex!Inside, Futex!PrintStats, Futex!queueVars, Futex!list, Futex!numbers,
                Futex!locals, Futex!clients, Futex!stats, Futex!Threads,
                PrintStats, queueVars, list, numbers, locals, clients, stats, Threads
<1>7. /\ (Spin!AtLock(t) <=> AtLock(t)) /\ (Futex!AtLock(t) <=> AtLock(t))
      /\ (Futex!AtUnlock(t) <=> AtUnlock(t))
  BY DEF Spin!AtLock, Futex!AtLock, Futex!AtUnlock, AtLock, AtUnlock
<1> QED
  BY <1>1, <1>2, <1>3, <1>4, <1>5, <1>6, <1>7
-----------------------------------------------------------------------------
(* Who is between LOCK and UNLOCK holds the lock, until the exchange or the  *)
(* store of UNLOCK.                                                          *)
Sites ==
  \A t \in QueueThreads :
    IF variant = "spin"
      THEN spc[t] = "cs" <=> ~AtLock(t)
      ELSE /\ mtx[t] \in {"cs", "swap", "wake"} <=> ~AtLock(t)
           /\ mtx[t] \in {"swap", "wake"} => AtUnlock(t)

Exclusive == \A t, u \in QueueThreads : Inner(t) /\ Inner(u) => t = u

(* What becomes of the lock.                                                 *)
Keeps == \A u \in QueueThreads : Inner(u)' <=> Inner(u)
Takes(t) == \A u \in QueueThreads : ~Inner(u) /\ (Inner(u)' <=> u = t)
Gives(t) == Inner(t) /\ \A u \in QueueThreads : ~Inner(u)'

(* What a step of LOCK, of UNLOCK, or in between does to queue and monitor.  *)
Uses(t) == PrintStats(t) \/ (t \in Threads /\ M!Body(t) /\ UNCHANGED stats)

Effect(t) == Enter(t) \/ Uses(t) \/ Leave(t) \/ UNCHANGED <<queueVars, stats>>

OwnStep(t) ==
  \/ Enter(t) /\ Takes(t)
  \/ Uses(t) /\ Keeps
  \/ Leave(t) /\ (Gives(t) \/ Keeps)
  \/ UNCHANGED <<queueVars, stats>> /\ (Keeps \/ (Gives(t) /\ AtUnlock(t)))

(* The body begins and ends inside.                                          *)
LEMMA BodySites ==
  ASSUME M!Placed, NEW t \in Threads, M!Body(t)
  PROVE  /\ pc[t] \in InBody
         /\ pc' = pc \/ \E l \in AddLabels \cup GetLabels : pc' = [pc EXCEPT ![t] = l]
<1>1. M!AddBody(t) =>
        /\ pc[t] \in AddLabels \ {"add_ok", "add_full"}
        /\ pc' = pc \/ \E l \in AddLabels : pc' = [pc EXCEPT ![t] = l]
  BY DEF M!AddBody, M!AddAssert, M!AddTest, M!AddMalloc, M!AddLink, M!AddFirst, M!AddAppend,
     M!AddAdvance, M!AddLoad, M!AddStore, M!Go, M!Die, AddLabels
<1>2. M!GetBody(t) =>
        /\ pc[t] \in GetLabels \ {"get_ok", "get_empty"}
        /\ pc' = pc \/ \E l \in GetLabels : pc' = [pc EXCEPT ![t] = l]
  BY DEF M!GetBody, M!GetAssert, M!GetTest, M!GetRead, M!GetUnlink, M!GetFree, M!GetLoad,
     M!GetStore, M!Go, M!Die, GetLabels
<1>3. /\ AddLabels \ {"add_ok", "add_full"} \subseteq InBody
      /\ GetLabels \ {"get_ok", "get_empty"} \subseteq InBody
  BY DEF InBody, AddLabels, GetLabels
<1> QED
  BY <1>1, <1>2, <1>3 DEF M!Body

(* A step moves one thread, and it begins and ends where it should.          *)
LEMMA EffectSites ==
  ASSUME M!Placed, NEW t \in QueueThreads, Effect(t)
  PROVE  /\ \A u \in QueueThreads \ {t} : (AtLock(u)' <=> AtLock(u)) /\ (AtUnlock(u)' <=> AtUnlock(u))
         /\ Enter(t) => AtLock(t) /\ ~AtLock(t)'
         /\ Uses(t) => ~AtLock(t) /\ ~AtUnlock(t) /\ ~AtLock(t)'
         /\ Leave(t) => AtUnlock(t) /\ ~AtLock(t) /\ AtLock(t)'
         /\ AtUnlock(t) => ~AtLock(t)
<1>1. /\ monitor \notin Threads /\ DOMAIN pc = Threads /\ QueueThreads = Threads \cup {monitor}
      /\ pc = [u \in Threads |-> pc[u]]
  BY MonitorAssumption, OwnSets DEF M!Placed, QueueThreads
<1>2. "idle" \notin InBody \cup AddLabels \cup GetLabels
      /\ InBody \cap {"add_ok", "add_full", "get_ok", "get_empty"} = {}
  BY DEF InBody, AddLabels, GetLabels
<1>3. AtUnlock(t) => ~AtLock(t)
  BY DEF AtUnlock, AtLock
<1>4. CASE Enter(t)
  <2>1. AtLock(t)
    BY <1>4 DEF Enter
  <2>2. CASE t = monitor
    BY <1>1, <1>4, <2>1, <2>2, <1>3
       DEF Enter, AtLock, AtUnlock, queueVars, stats, Threads, Uses, PrintStats, Leave
  <2>3. CASE t # monitor
    <3>1. /\ mpc' = mpc
          /\ pc' = [pc EXCEPT ![t] = "add_assert"] \/ pc' = [pc EXCEPT ![t] = "get_assert"]
      BY <1>4, <2>3 DEF Enter, Call, Go, stats
    <3>2. ~Uses(t)
      <4>1. pc[t] = "idle"
        BY <2>1, <2>3 DEF AtLock
      <4> QED
        BY <1>2, <2>3, <4>1, BodySites DEF Uses, PrintStats
    <3> QED
      BY <1>1, <1>3, <2>1, <2>3, <3>1, <3>2 DEF AtLock, AtUnlock, Leave
  <2> QED
    BY <2>2, <2>3
<1>5. CASE Uses(t)
  <2>1. CASE PrintStats(t)
    BY <1>1, <1>3, <2>1 DEF PrintStats, AtLock, AtUnlock, queueVars, Enter, Leave
  <2>2. CASE t \in Threads /\ M!Body(t) /\ UNCHANGED stats
    <3>1. /\ mpc' = mpc /\ pc[t] \in InBody
          /\ pc' = pc \/ \E l \in AddLabels \cup GetLabels : pc' = [pc EXCEPT ![t] = l]
      BY <2>2, BodySites DEF stats
    <3>2. ~AtLock(t) /\ ~AtUnlock(t) /\ ~AtLock(t)'
      BY <1>1, <1>2, <2>2, <3>1 DEF AtLock, AtUnlock
    <3>3. \A u \in QueueThreads \ {t} : (AtLock(u)' <=> AtLock(u)) /\ (AtUnlock(u)' <=> AtUnlock(u))
      BY <1>1, <2>2, <3>1 DEF AtLock, AtUnlock
    <3> QED
      BY <3>2, <3>3 DEF Enter, Leave
  <2> QED
    BY <1>5, <2>1, <2>2 DEF Uses
<1>6. CASE Leave(t)
  <2>1. AtUnlock(t) /\ ~AtLock(t)
    BY <1>3, <1>6 DEF Leave
  <2>2. CASE t = monitor
    BY <1>1, <1>6, <2>1, <2>2
       DEF Leave, AtLock, AtUnlock, queueVars, Uses, PrintStats, Enter
  <2>3. CASE t # monitor
    <3>1. mpc' = mpc /\ pc' = [pc EXCEPT ![t] = "idle"]
      BY <1>6, <2>3 DEF Leave, Return, WriterReturn, ReaderReturn, LeaveScope, Go, stats
    <3>2. ~Uses(t)
      <4>1. pc[t] \in {"add_ok", "add_full", "get_ok", "get_empty"}
        BY <2>1, <2>3 DEF AtUnlock
      <4> QED
        BY <1>2, <2>3, <4>1, BodySites DEF Uses, PrintStats
    <3> QED
      BY <1>1, <2>1, <2>3, <3>1, <3>2 DEF AtLock, AtUnlock, Enter
  <2> QED
    BY <2>2, <2>3
<1>7. CASE UNCHANGED <<queueVars, stats>>
  <2>1. pc' = pc /\ mpc' = mpc
    BY <1>7 DEF queueVars, stats
  <2>2. \A u \in QueueThreads : (AtLock(u)' <=> AtLock(u)) /\ (AtUnlock(u)' <=> AtUnlock(u))
    BY <2>1 DEF AtLock, AtUnlock
  <2> QED
    BY <1>3, <1>4, <1>5, <1>6, <2>2
<1> QED
  BY <1>4, <1>5, <1>6, <1>7 DEF Effect
-----------------------------------------------------------------------------
(* A step of the queue on the spinlock.                                      *)
LEMMA SpinMoves ==
  ASSUME M!Placed, L!SpinInv, Sites, variant = "spin", UNCHANGED variant, Spin!Next
  PROVE  /\ L!SpinInv' /\ Exclusive /\ Exclusive'
         /\ \E t \in QueueThreads : OwnStep(t)
         /\ Sites'
<1> DEFINE Excl == \A t, u \in QueueThreads : spc[t] = "cs" /\ spc[u] = "cs" => t = u
<1>1. PICK t \in QueueThreads : Spin!LockQ(t) \/ Spin!UnlockQ(t) \/ (Spin!Inside(t) /\ UNCHANGED spin)
  BY DEF Spin!Next, Spin!QueueThreads, Spin!Threads, QueueThreads, Threads, Spin!spin, spin
<1>2. \/ Spin!LockQ(t) /\ L!Spin!LockCAS(t)
      \/ Spin!UnlockQ(t) /\ L!Spin!Unlock(t)
      \/ Spin!Inside(t) /\ UNCHANGED spin
  BY <1>1 DEF Spin!LockQ, Spin!UnlockQ, Spin!Spin!LockCAS, Spin!Spin!Unlock, Spin!Spin!Move,
     L!Spin!LockCAS, L!Spin!Unlock, L!Spin!Move
<1>3. L!SpinInv'
  <2>1. [L!Spin!Next]_L!Spin!vars
    BY <1>2 DEF L!Spin!Next, L!Spin!vars, spin
  <2> QED
    BY <2>1, L!SpinStep, OwnAssumptions
<1>4. /\ lock \in {0, 1} /\ spc \in [QueueThreads -> {"idle", "spin", "cs"}] /\ Excl
      /\ lock = 0 <=> \A u \in QueueThreads : spc[u] # "cs"
      /\ spc' \in [QueueThreads -> {"idle", "spin", "cs"}] /\ Excl'
  BY <1>3 DEF L!SpinInv, L!Spin!TypeOK, L!Spin!MutualExclusion, L!Spin!LockMatchesHolder
<1>5. /\ \A u : Inner(u) <=> spc[u] = "cs"
      /\ \A u : Inner(u)' <=> spc'[u] = "cs"
  BY DEF Inner
<1>6. Exclusive /\ Exclusive'
  BY <1>4, <1>5 DEF Exclusive
<1>7. \A u \in QueueThreads : spc[u] = "cs" <=> ~AtLock(u)
  BY DEF Sites
<1>8. ASSUME Effect(t), \A u \in QueueThreads \ {t} : spc'[u] = "cs" <=> spc[u] = "cs",
             spc'[t] = "cs" <=> ~AtLock(t)'
      PROVE  Sites'
  <2>1. \A u \in QueueThreads \ {t} : AtLock(u)' <=> AtLock(u)
    BY <1>8, EffectSites
  <2> QED
    BY <1>7, <1>8, <2>1 DEF Sites
<1>9. CASE Spin!LockQ(t) /\ L!Spin!LockCAS(t)
  <2>1. CASE lock = 0
    <3>1. spc' = [spc EXCEPT ![t] = "cs"] /\ Enter(t)
      BY <1>4, <1>9, <2>1, OwnBody DEF L!Spin!LockCAS, L!Spin!Move, Spin!LockQ
    <3>2. Effect(t) /\ ~AtLock(t)'
      BY <3>1, EffectSites DEF Effect
    <3>3. Takes(t)
      BY <1>4, <1>5, <2>1, <3>1 DEF Takes
    <3>4. Sites'
      BY <1>4, <1>8, <3>1, <3>2
    <3> QED
      BY <1>3, <1>6, <3>1, <3>3, <3>4 DEF OwnStep
  <2>2. CASE lock # 0
    <3>1. spc' = [spc EXCEPT ![t] = "spin"] /\ spc[t] # "cs"
      BY <1>9, <2>2 DEF L!Spin!LockCAS, L!Spin!Move
    <3>2. UNCHANGED <<queueVars, stats>>
      BY <1>4, <1>9, <3>1
         DEF Spin!LockQ, Spin!queueVars, Spin!list, Spin!numbers, Spin!locals, Spin!clients,
             Spin!stats, queueVars, list, numbers, locals, clients, stats
    <3>3. Effect(t) /\ (AtLock(t)' <=> AtLock(t))
      BY <3>2 DEF Effect, AtLock, queueVars, stats
    <3>4. Keeps
      BY <1>4, <1>5, <3>1 DEF Keeps
    <3>5. Sites'
      BY <1>4, <1>7, <1>8, <3>1, <3>3
    <3> QED
      BY <1>3, <1>6, <3>2, <3>4, <3>5 DEF OwnStep
  <2> QED
    BY <2>1, <2>2
<1>10. CASE Spin!UnlockQ(t) /\ L!Spin!Unlock(t)
  <2>1. spc' = [spc EXCEPT ![t] = "idle"] /\ spc[t] = "cs" /\ Leave(t)
    BY <1>10, OwnBody DEF L!Spin!Unlock, L!Spin!Move, Spin!UnlockQ
  <2>2. Effect(t) /\ AtLock(t)'
    BY <2>1, EffectSites DEF Effect
  <2>3. Gives(t)
    BY <1>4, <1>5, <2>1 DEF Gives
  <2>4. Sites'
    BY <1>4, <1>8, <2>1, <2>2
  <2> QED
    BY <1>3, <1>6, <2>1, <2>3, <2>4 DEF OwnStep
<1>11. CASE Spin!Inside(t) /\ UNCHANGED spin
  <2>1. Uses(t) /\ spc' = spc
    BY <1>11, OwnBody DEF Uses, spin
  <2>2. Effect(t) /\ ~AtLock(t) /\ ~AtLock(t)'
    BY <2>1, EffectSites DEF Effect
  <2>3. Keeps
    BY <1>5, <2>1 DEF Keeps
  <2>4. Sites'
    BY <1>7, <1>8, <2>1, <2>2
  <2> QED
    BY <1>3, <1>6, <2>1, <2>3, <2>4 DEF OwnStep
<1> QED
  BY <1>2, <1>9, <1>10, <1>11

(* A step of mutex_lock or mutex_unlock, seen from the labels.               *)
LEMMA FutexLabels ==
  ASSUME L!TypeOK, NEW t \in QueueThreads
  PROVE  /\ L!LockFast(t) \/ L!InLock(t) \/ L!SpuriousWake(t) =>
              /\ mtx[t] \notin {"cs", "swap", "wake"} /\ mtx'[t] \notin {"swap", "wake"}
              /\ \A u \in QueueThreads \ {t} : mtx'[u] = mtx[u]
              /\ mtx'[t] = "cs" => state = 0 \/ mtx[t] = "own"
         /\ L!CheckOwner(t) => mtx[t] = "cs" /\ mtx' = [mtx EXCEPT ![t] = "swap"]
         /\ L!Exchange(t) =>
              /\ mtx[t] = "swap" /\ mtx'[t] \in {"wake", "idle"}
              /\ \A u \in QueueThreads \ {t} : mtx'[u] = mtx[u]
         /\ L!FutexWake(t) =>
              /\ mtx[t] = "wake" /\ mtx'[t] = "idle"
              /\ \A u \in QueueThreads \ {t} :
                   mtx'[u] = mtx[u] \/ (mtx[u] = "asleep" /\ mtx'[u] = "loop")
<1>0. mtx = [u \in QueueThreads |-> mtx[u]]
  BY DEF L!TypeOK
<1>1. ASSUME L!LockFast(t) \/ L!InLock(t) \/ L!SpuriousWake(t)
      PROVE  /\ mtx[t] \notin {"cs", "swap", "wake"} /\ mtx'[t] \notin {"swap", "wake"}
             /\ \A u \in QueueThreads \ {t} : mtx'[u] = mtx[u]
             /\ mtx'[t] = "cs" => state = 0 \/ mtx[t] = "own"
  <2>1. CASE L!LockFast(t)
    BY <1>0, <2>1 DEF L!LockFast, L!Move
  <2>2. CASE L!SetOwner(t)
    BY <1>0, <2>2 DEF L!SetOwner, L!Move
  <2>3. CASE L!ReadState(t)
    <3> DEFINE l == CASE state = L!MUTEX_UNLOCKED -> "cas"
                      [] state = L!MUTEX_LOCKED -> "mark"
                      [] OTHER -> "wait"
    <3>1. l \in {"cas", "mark", "wait"}
      BY Zenon
    <3>2. mtx[t] = "loop" /\ mtx' = [mtx EXCEPT ![t] = l]
      BY <2>3 DEF L!ReadState, L!Move
    <3> HIDE DEF l
    <3> QED
      BY <1>0, <3>1, <3>2
  <2>4. CASE L!LockSlow(t)
    BY <1>0, <2>4 DEF L!LockSlow, L!Move, L!MUTEX_UNLOCKED
  <2>5. CASE L!MarkWaiters(t)
    BY <1>0, <2>5 DEF L!MarkWaiters, L!Move
  <2>6. CASE L!FutexWait(t)
    BY <1>0, <2>6 DEF L!FutexWait, L!Move
  <2>7. CASE L!SpuriousWake(t)
    BY <1>0, <2>7 DEF L!SpuriousWake, L!Move
  <2> QED
    BY <1>1, <2>1, <2>2, <2>3, <2>4, <2>5, <2>6, <2>7 DEF L!InLock
<1>2. L!CheckOwner(t) => mtx[t] = "cs" /\ mtx' = [mtx EXCEPT ![t] = "swap"]
  BY DEF L!CheckOwner, L!Move
<1>3. L!Exchange(t) =>
        /\ mtx[t] = "swap" /\ mtx'[t] \in {"wake", "idle"}
        /\ \A u \in QueueThreads \ {t} : mtx'[u] = mtx[u]
  BY <1>0 DEF L!Exchange, L!Move
<1>4. L!FutexWake(t) =>
        /\ mtx[t] = "wake" /\ mtx'[t] = "idle"
        /\ \A u \in QueueThreads \ {t} :
             mtx'[u] = mtx[u] \/ (mtx[u] = "asleep" /\ mtx'[u] = "loop")
  BY <1>0 DEF L!FutexWake, L!Sleepers, L!Move
<1> QED
  BY <1>1, <1>2, <1>3, <1>4

(* A step of the queue on the futex mutex.                                   *)
LEMMA FutexMoves ==
  ASSUME M!Placed, L!ExclusionInv, Sites, variant = "futex", UNCHANGED variant, Futex!Next
  PROVE  /\ L!ExclusionInv' /\ Exclusive /\ Exclusive'
         /\ \E t \in QueueThreads : OwnStep(t)
         /\ Sites'
<1>1. PICK t \in QueueThreads :
        Futex!LockQ(t) \/ Futex!UnlockQ(t) \/ (Futex!Inside(t) /\ UNCHANGED futex)
  BY DEF Futex!Next, Futex!QueueThreads, Futex!Threads, QueueThreads, Threads, Futex!mutex, futex
<1> DEFINE Locks == L!LockFast(t) \/ L!InLock(t) \/ L!SpuriousWake(t)
<1>2. \/ Futex!LockQ(t) /\ Locks
      \/ Futex!UnlockQ(t) /\ L!Unlock(t)
      \/ Futex!Inside(t) /\ UNCHANGED futex
  <2>1. /\ Futex!Mutex!LockFast(t) => L!LockFast(t)
        /\ Futex!Mutex!InLock(t) => L!InLock(t)
        /\ Futex!Mutex!SpuriousWake(t) => L!SpuriousWake(t)
    BY DEF
      Futex!Mutex!LockFast, Futex!Mutex!InLock, Futex!Mutex!SetOwner, Futex!Mutex!ReadState,
      Futex!Mutex!LockSlow, Futex!Mutex!MarkWaiters, Futex!Mutex!FutexWait,
      Futex!Mutex!SpuriousWake, Futex!Mutex!Move, Futex!Mutex!MUTEX_UNLOCKED,
      Futex!Mutex!MUTEX_LOCKED, Futex!Mutex!MUTEX_LOCKED_WITH_WAITERS,
      L!LockFast, L!InLock, L!SetOwner, L!ReadState, L!LockSlow, L!MarkWaiters, L!FutexWait,
      L!SpuriousWake, L!Move, L!MUTEX_UNLOCKED, L!MUTEX_LOCKED, L!MUTEX_LOCKED_WITH_WAITERS
  <2>2. Futex!Mutex!Unlock(t) => L!Unlock(t)
    BY DEF
      Futex!Mutex!Unlock, Futex!Mutex!CheckOwner, Futex!Mutex!Exchange, Futex!Mutex!FutexWake,
      Futex!Mutex!Sleepers, Futex!Mutex!Move, Futex!Mutex!MUTEX_UNLOCKED,
      Futex!Mutex!MUTEX_LOCKED_WITH_WAITERS, Futex!QueueThreads, Futex!Threads,
      L!Unlock, L!CheckOwner, L!Exchange, L!FutexWake, L!Sleepers, L!Move, L!MUTEX_UNLOCKED,
      L!MUTEX_LOCKED_WITH_WAITERS, QueueThreads, Threads
  <2> QED
    BY <1>1, <2>1, <2>2 DEF Futex!LockQ, Futex!UnlockQ
<1>3. L!ExclusionInv'
  <2>1. [L!Next]_L!vars
    BY <1>2 DEF L!Next, L!vars, futex
  <2> QED
    BY <2>1, L!ExclusionStep, OwnAssumptions
<1>4. /\ L!TypeOK
      /\ \A u, v \in QueueThreads :
           mtx[u] \in {"own", "cs", "swap"} /\ mtx[v] \in {"own", "cs", "swap"} => u = v
      /\ state = 0 <=> \A u \in QueueThreads : mtx[u] \notin {"own", "cs", "swap"}
      /\ \A u, v \in QueueThreads :
           mtx'[u] \in {"own", "cs", "swap"} /\ mtx'[v] \in {"own", "cs", "swap"} => u = v
  BY <1>3 DEF L!ExclusionInv, L!MutualExclusion, L!StateMatchesHolder, L!Holding, L!MUTEX_UNLOCKED
<1>5. /\ \A u : Inner(u) <=> mtx[u] \in {"cs", "swap"}
      /\ \A u : Inner(u)' <=> mtx'[u] \in {"cs", "swap"}
  BY DEF Inner
<1>6. Exclusive /\ Exclusive'
  BY <1>4, <1>5 DEF Exclusive
<1>7. \A u \in QueueThreads :
        /\ mtx[u] \in {"cs", "swap", "wake"} <=> ~AtLock(u)
        /\ mtx[u] \in {"swap", "wake"} => AtUnlock(u)
  BY DEF Sites
<1>8. ASSUME Effect(t),
             \A u \in QueueThreads \ {t} : \/ mtx'[u] = mtx[u]
                                           \/ mtx[u] = "asleep" /\ mtx'[u] = "loop",
             mtx'[t] \in {"cs", "swap", "wake"} <=> ~AtLock(t)',
             mtx'[t] \in {"swap", "wake"} => AtUnlock(t)'
      PROVE  Sites'
  <2>1. \A u \in QueueThreads \ {t} :
          (AtLock(u)' <=> AtLock(u)) /\ (AtUnlock(u)' <=> AtUnlock(u))
    BY <1>8, EffectSites
  <2>2. ASSUME NEW u \in QueueThreads
        PROVE  /\ mtx'[u] \in {"cs", "swap", "wake"} <=> ~AtLock(u)'
               /\ mtx'[u] \in {"swap", "wake"} => AtUnlock(u)'
    BY <1>7, <1>8, <2>1
  <2> QED
    BY <2>2 DEF Sites
<1>9. CASE Futex!LockQ(t) /\ Locks
  <2>1. /\ mtx[t] \notin {"cs", "swap", "wake"} /\ mtx'[t] \notin {"swap", "wake"}
        /\ \A u \in QueueThreads \ {t} : mtx'[u] = mtx[u]
        /\ mtx'[t] = "cs" => state = 0 \/ mtx[t] = "own"
    BY <1>4, <1>9, FutexLabels
  <2>2. CASE mtx'[t] = "cs"
    <3>1. Enter(t)
      BY <1>9, <2>2, OwnBody DEF Futex!LockQ
    <3>2. Effect(t) /\ ~AtLock(t)'
      BY <3>1, EffectSites DEF Effect
    <3>3. Takes(t)
      <4>1. \A u \in QueueThreads : mtx[u] \notin {"cs", "swap"}
        BY <1>4, <2>1, <2>2
      <4> QED
        BY <1>5, <2>1, <2>2, <4>1 DEF Takes
    <3>4. Sites'
      BY <1>8, <2>1, <2>2, <3>2
    <3> QED
      BY <1>3, <1>6, <3>1, <3>3, <3>4 DEF OwnStep
  <2>3. CASE mtx'[t] # "cs"
    <3>1. UNCHANGED <<queueVars, stats>>
      BY <1>9, <2>3
         DEF Futex!LockQ, Futex!queueVars, Futex!list, Futex!numbers, Futex!locals,
             Futex!clients, Futex!stats, queueVars, list, numbers, locals, clients, stats
    <3>2. Effect(t) /\ (AtLock(t)' <=> AtLock(t))
      BY <3>1 DEF Effect, AtLock, queueVars, stats
    <3>3. Keeps
      BY <1>5, <2>1, <2>3 DEF Keeps
    <3>4. Sites'
      BY <1>7, <1>8, <2>1, <2>3, <3>2
    <3> QED
      BY <1>3, <1>6, <3>1, <3>3, <3>4 DEF OwnStep
  <2> QED
    BY <2>2, <2>3
<1>10. CASE Futex!UnlockQ(t) /\ L!Unlock(t)
  <2>0. AtUnlock(t) /\ ~AtLock(t)
    BY <1>10, OwnBody DEF Futex!UnlockQ, AtUnlock, AtLock
  <2>1. CASE mtx'[t] # "idle"
    <3>1. UNCHANGED <<queueVars, stats>>
      BY <1>10, <2>1
         DEF Futex!UnlockQ, Futex!queueVars, Futex!list, Futex!numbers, Futex!locals,
             Futex!clients, Futex!stats, queueVars, list, numbers, locals, clients, stats
    <3>2. Effect(t) /\ AtUnlock(t)' /\ ~AtLock(t)'
      BY <2>0, <3>1 DEF Effect, AtLock, AtUnlock, queueVars, stats
    <3>3. CASE L!CheckOwner(t)
      <4>1. /\ mtx[t] = "cs" /\ mtx'[t] = "swap"
            /\ \A u \in QueueThreads \ {t} : mtx'[u] = mtx[u]
        BY <1>4, <3>3, FutexLabels DEF L!TypeOK
      <4>2. Keeps
        BY <1>5, <4>1 DEF Keeps
      <4>3. Sites'
        BY <1>8, <3>2, <4>1
      <4> QED
        BY <1>3, <1>6, <3>1, <4>2, <4>3 DEF OwnStep
    <3>4. CASE L!Exchange(t)
      <4>1. /\ mtx[t] = "swap" /\ mtx'[t] = "wake"
            /\ \A u \in QueueThreads \ {t} : mtx'[u] = mtx[u]
        BY <1>4, <2>1, <3>4, FutexLabels
      <4>2. Gives(t)
        BY <1>4, <1>5, <4>1 DEF Gives
      <4>3. Sites'
        BY <1>8, <3>2, <4>1
      <4> QED
        BY <1>3, <1>6, <2>0, <3>1, <4>2, <4>3 DEF OwnStep
    <3>5. ~L!FutexWake(t)
      BY <1>4, <2>1, FutexLabels
    <3> QED
      BY <1>10, <3>3, <3>4, <3>5 DEF L!Unlock
  <2>2. CASE mtx'[t] = "idle"
    <3>1. Leave(t)
      BY <1>10, <2>2, OwnBody DEF Futex!UnlockQ
    <3>2. Effect(t) /\ AtLock(t)'
      BY <3>1, EffectSites DEF Effect
    <3>3. CASE L!Exchange(t)
      <4>1. /\ mtx[t] = "swap"
            /\ \A u \in QueueThreads \ {t} : mtx'[u] = mtx[u]
        BY <1>4, <3>3, FutexLabels
      <4>2. Gives(t)
        BY <1>4, <1>5, <2>2, <4>1 DEF Gives
      <4>3. Sites'
        BY <1>8, <2>2, <3>2, <4>1
      <4> QED
        BY <1>3, <1>6, <3>1, <4>2, <4>3 DEF OwnStep
    <3>4. CASE L!FutexWake(t)
      <4>1. /\ mtx[t] = "wake"
            /\ \A u \in QueueThreads \ {t} :
                 mtx'[u] = mtx[u] \/ (mtx[u] = "asleep" /\ mtx'[u] = "loop")
        BY <1>4, <3>4, FutexLabels
      <4>2. Keeps
        BY <1>5, <2>2, <4>1 DEF Keeps
      <4>3. Sites'
        BY <1>8, <2>2, <3>2, <4>1
      <4> QED
        BY <1>3, <1>6, <3>1, <4>2, <4>3 DEF OwnStep
    <3>5. ~L!CheckOwner(t)
      BY <1>4, <2>2, FutexLabels DEF L!TypeOK
    <3> QED
      BY <1>10, <3>3, <3>4, <3>5 DEF L!Unlock
  <2> QED
    BY <2>1, <2>2
<1>11. CASE Futex!Inside(t) /\ UNCHANGED futex
  <2>1. Uses(t) /\ mtx' = mtx
    BY <1>11, OwnBody DEF Uses, futex
  <2>2. Effect(t) /\ ~AtLock(t) /\ ~AtUnlock(t) /\ ~AtLock(t)'
    BY <2>1, EffectSites DEF Effect
  <2>3. Keeps
    BY <1>5, <2>1 DEF Keeps
  <2>4. Sites'
    BY <1>7, <1>8, <2>1, <2>2
  <2> QED
    BY <1>3, <1>6, <2>1, <2>3, <2>4 DEF OwnStep
<1> QED
  BY <1>2, <1>9, <1>10, <1>11

(* Who has the lock, as QueueSteps is told.                                  *)
LEMMA InLockIs ==
  ASSUME Exclusive, NEW t \in Threads, Inner(t) PROVE InLock = t
BY DEF Exclusive, InLock, QueueThreads

LEMMA InLockIsNext ==
  ASSUME Exclusive', NEW t \in Threads, Inner(t)' PROVE InLock' = t
BY DEF Exclusive, InLock, QueueThreads

LEMMA InLockIsNobody ==
  /\ (\A t \in Threads : ~Inner(t)) => InLock = NoThread
  /\ (\A t \in Threads : ~Inner(t)') => InLock' = NoThread
BY DEF InLock

(* Each step is one QueueSteps knows: of the body or around it.              *)
LEMMA OwnIsAround ==
  ASSUME M!Placed, Exclusive, Exclusive', NEW t \in QueueThreads, OwnStep(t)
  PROVE  M!AnyStep
<1>0. monitor \notin Threads /\ QueueThreads = Threads \cup {monitor} /\ M!Threads = Threads
  BY MonitorAssumption, OwnSets DEF QueueThreads
<1>1. ASSUME Keeps PROVE UNCHANGED InLock
  <2>1. CASE \A u \in Threads : ~Inner(u)
    BY <1>0, <1>1, <2>1, InLockIsNobody DEF Keeps
  <2>2. ASSUME NEW u \in Threads, Inner(u) PROVE UNCHANGED InLock
    BY <1>0, <1>1, <2>2, InLockIs, InLockIsNext DEF Keeps
  <2> QED
    BY <2>1, <2>2
<1>2. ASSUME Takes(t), t \in Threads PROVE M!Lock!Acquire(t)
  <2>1. (\A u \in Threads : ~Inner(u)) /\ Inner(t)'
    BY <1>0, <1>2 DEF Takes
  <2> QED
    BY <1>2, <2>1, InLockIsNobody, InLockIsNext DEF M!Lock!Acquire
<1>3. ASSUME Gives(t), t \in Threads PROVE M!Lock!Release(t)
  <2>1. (\A u \in Threads : ~Inner(u)') /\ Inner(t)
    BY <1>0, <1>3 DEF Gives
  <2> QED
    BY <1>3, <2>1, InLockIsNobody, InLockIs DEF M!Lock!Release
<1>4. ASSUME t = monitor PROVE UNCHANGED InLock
  <2>1. CASE Keeps
    BY <1>1, <2>1
  <2>2. CASE Takes(t)
    <3>1. \A u \in Threads : ~Inner(u) /\ ~Inner(u)'
      BY <1>0, <1>4, <2>2 DEF Takes
    <3> QED
      BY <3>1, InLockIsNobody
  <2>3. CASE Gives(t)
    <3>1. \A u \in Threads : ~Inner(u) /\ ~Inner(u)'
      BY <1>0, <1>4, <2>3 DEF Gives, Exclusive
    <3> QED
      BY <3>1, InLockIsNobody
  <2> QED
    BY <2>1, <2>2, <2>3 DEF OwnStep
<1>5. CASE t = monitor
  <2>1. UNCHANGED queueVars
    BY <1>0, <1>5 DEF OwnStep, Enter, Leave, Uses, PrintStats, Threads
  <2>2. UNCHANGED M!queueVars
    BY <2>1 DEF M!queueVars, M!list, M!numbers, M!locals, M!clients, queueVars, list, numbers,
       locals, clients
  <2> QED
    BY <1>4, <1>5, <2>2 DEF M!AnyStep
<1>6. CASE t \in Threads /\ Enter(t) /\ Takes(t)
  <2>1. pc[t] = "idle" /\ M!Lock!Acquire(t)
    BY <1>0, <1>2, <1>6 DEF Enter, AtLock
  <2>2. InLock' = t
    BY <2>1 DEF M!Lock!Acquire
  <2>3. PICK l : /\ Call(t, l)
                 /\ \/ l = "add_assert" /\ t \in Writers
                    \/ l = "get_assert" /\ t \in Readers
    BY <1>0, <1>6 DEF Enter
  <2>4. M!GoesOn(t, l)
    <3>1. M!Call(t, l)
      BY <1>6, <2>3, OwnLoops
    <3>2. /\ l \in M!Towards
          /\ (l \in M!AddSide /\ t \in Writers) \/ (l \in M!GetSide /\ t \in Readers)
      BY <2>3 DEF M!Towards, M!AddSide, M!GetSide, M!AddLabels, M!GetLabels
    <3> QED
      BY <2>1, <2>2, <3>1, <3>2 DEF M!GoesOn
  <2> QED
    BY <1>0, <1>6, <2>4 DEF M!AnyStep, M!Around
<1>7. CASE t \in Threads /\ Uses(t) /\ Keeps
  <2>1. M!Body(t)
    BY <1>0, <1>7 DEF Uses, PrintStats
  <2> QED
    BY <1>0, <1>1, <1>7, <2>1 DEF M!AnyStep, M!Around
<1>8. CASE t \in Threads /\ Leave(t) /\ (Gives(t) \/ Keeps)
  <2>1. M!Return(t)
    BY <1>0, <1>8, OwnLoops DEF Leave
  <2> QED
    BY <1>0, <1>1, <1>3, <1>8, <2>1 DEF M!AnyStep, M!Around
<1>9. CASE t \in Threads /\ UNCHANGED <<queueVars, stats>> /\ (Keeps \/ (Gives(t) /\ AtUnlock(t)))
  <2>1. UNCHANGED M!queueVars
    BY <1>9, OwnLoops
  <2>2. CASE Keeps
    BY <1>1, <2>1, <2>2 DEF M!AnyStep
  <2>3. CASE Gives(t) /\ AtUnlock(t)
    <3>1. pc[t] \in {"add_ok", "add_full", "get_ok", "get_empty"}
      BY <1>0, <1>9, <2>3 DEF AtUnlock
    <3>2. pc[t] \in M!Resting \ M!InBody
      BY <3>1, OwnSets DEF Resting, InBody
    <3> QED
      BY <1>0, <1>3, <1>9, <2>1, <2>3, <3>2 DEF M!AnyStep, M!Around
  <2> QED
    BY <1>9, <2>2, <2>3
<1> QED
  BY <1>0, <1>5, <1>6, <1>7, <1>8, <1>9 DEF OwnStep
-----------------------------------------------------------------------------
(* The monitor reads the two numbers while it holds the lock, so nobody      *)
(* changes them in between.                                                  *)
Snapshot ==
  /\ mpc \in {"idle", "count", "counts", "printed"}
  /\ printed \in [size : Int, balance : Int]
  /\ mpc = "counts" => printed.size = count
  /\ SnapshotConsistent

LEMMA SnapshotStep ==
  ASSUME NEW s, NEW n, M!Queue(s, n), Sites, Exclusive, variant \in {"spin", "futex"},
         Snapshot, NEW t \in QueueThreads, OwnStep(t)
  PROVE  Snapshot'
<1>1. balance = count /\ count \in Int
  BY DEF M!Queue, M!Work, M!One
<1>2. CASE Enter(t) \/ Leave(t)
  <2>1. CASE t = monitor
    BY <1>2, <2>1, MonitorAssumption
       DEF Enter, Leave, Snapshot, SnapshotConsistent, Threads
  <2>2. CASE t # monitor
    <3>1. UNCHANGED <<stats, count>>
      BY <1>2, <2>2 DEF Enter, Leave, Call, Return, WriterReturn, ReaderReturn, LeaveScope, numbers
    <3> QED
      BY <3>1 DEF Snapshot, SnapshotConsistent, stats
  <2> QED
    BY <2>1, <2>2
<1>3. CASE PrintStats(t)
  <2>1. CASE mpc = "count"
    BY <1>1, <1>3, <2>1 DEF PrintStats, Snapshot, SnapshotConsistent, queueVars, numbers
  <2>2. CASE mpc # "count"
    <3>1. /\ mpc = "counts" /\ mpc' = "printed" /\ printed.size = count
          /\ printed' = [printed EXCEPT !.balance = balance]
      BY <1>3, <2>2 DEF PrintStats, Snapshot
    <3>2. printed' = [size |-> count, balance |-> count]
      BY <1>1, <3>1 DEF Snapshot
    <3> QED
      BY <1>1, <3>1, <3>2 DEF Snapshot, SnapshotConsistent
  <2> QED
    BY <2>1, <2>2
<1>4. CASE t \in Threads /\ M!Body(t) /\ UNCHANGED stats
  <2>1. Uses(t) /\ Effect(t) /\ t # monitor /\ monitor \in QueueThreads
    BY <1>4, MonitorAssumption DEF Uses, Effect, QueueThreads
  <2>2. ~AtLock(t) /\ ~AtUnlock(t)
    BY <2>1, EffectSites DEF M!Queue
  <2>3. Inner(t)
    BY <2>2 DEF Sites, Inner
  <2>4. ~Inner(monitor)
    BY <2>1, <2>3 DEF Exclusive
  <2>5. mpc # "counts"
    BY <2>1, <2>4 DEF Sites, Inner, AtLock, AtUnlock
  <2> QED
    BY <1>4, <2>5 DEF Snapshot, SnapshotConsistent, stats
<1>5. CASE UNCHANGED <<queueVars, stats>>
  BY <1>5 DEF queueVars, numbers, stats, Snapshot, SnapshotConsistent
<1> QED
  BY <1>2, <1>3, <1>4, <1>5 DEF OwnStep, Uses

(* Everything about the two queues of src/2.4, and about them all.           *)
OwnLock == IF variant = "spin" THEN L!SpinInv ELSE L!ExclusionInv

OwnInv == OwnLock /\ Sites /\ Snapshot /\ \E s, n : M!Queue(s, n)

ProgramInv ==
  IF variant \in {"spin", "futex"} THEN OwnInv ELSE FifoInv /\ mpc = "idle"

(* What happens to the queue in a step of any program.                       *)
LEMMA OwnNext ==
  ASSUME OwnInv, variant \in {"spin", "futex"}, [ProgramNext]_programVars
  PROVE  M!AnyStep /\ OwnInv'
<1>1. PICK s, n : M!Queue(s, n)
  BY DEF OwnInv
<1>2. M!Placed /\ OwnLock /\ Sites /\ Snapshot
  BY <1>1 DEF OwnInv, M!Queue
<1>3. CASE UNCHANGED programVars
  <2>1. /\ UNCHANGED <<queueVars, stats, variant, lock, spc, state, owner, mtx, error>>
    BY <1>3 DEF programVars, vars, monitored, spin, futex
  <2>2. UNCHANGED M!queueVars /\ UNCHANGED InLock
    BY <2>1 DEF M!queueVars, M!list, M!numbers, M!locals, M!clients, queueVars, list, numbers,
       locals, clients, InLock, Inner
  <2>3. OwnLock'
    BY <1>2, <2>1
       DEF OwnLock, L!SpinInv, L!Spin!TypeOK, L!Spin!MutualExclusion, L!Spin!LockMatchesHolder,
           L!ExclusionInv, L!TypeOK, L!MutualExclusion, L!StateMatchesHolder
  <2>4. Sites' /\ Snapshot'
    BY <1>2, <2>1 DEF Sites, AtLock, AtUnlock, Snapshot, SnapshotConsistent, queueVars, numbers, stats
  <2>5. M!AnyStep
    BY <2>2 DEF M!AnyStep
  <2>6. \E s2, n2 : M!Queue(s2, n2)'
    BY <1>1, <2>5, M!AnyStepMoves, OwnAssumptions, QueueAssumption
  <2> QED
    BY <2>3, <2>4, <2>5, <2>6 DEF OwnInv
<1>4. CASE ProgramNext
  <2>1. ~Next
    BY DEF Next
  <2>2. /\ variant' = variant
        /\ variant = "spin" => Spin!Next
        /\ variant = "futex" => Futex!Next
    BY <1>4, <2>1 DEF ProgramNext
  <2>3. /\ OwnLock' /\ Exclusive /\ Exclusive' /\ Sites'
        /\ \E t \in QueueThreads : OwnStep(t)
    <3>1. CASE variant = "spin"
      BY <1>2, <2>2, <3>1, SpinMoves DEF OwnLock
    <3>2. CASE variant = "futex"
      BY <1>2, <2>2, <3>2, FutexMoves DEF OwnLock
    <3> QED
      BY <3>1, <3>2
  <2>4. M!AnyStep
    BY <1>2, <2>3, OwnIsAround
  <2>5. Snapshot'
    BY <1>1, <1>2, <2>3, SnapshotStep
  <2>6. \E s2, n2 : M!Queue(s2, n2)'
    BY <1>1, <2>4, M!AnyStepMoves, OwnAssumptions, QueueAssumption
  <2> QED
    BY <2>3, <2>4, <2>5, <2>6 DEF OwnInv
<1> QED
  BY <1>3, <1>4

(* The queues on locks of the C library behave as in MCQueues.               *)
LEMMA LibraryNext ==
  ASSUME variant \notin {"spin", "futex"}, [ProgramNext]_programVars
  PROVE  [Next]_vars /\ mpc' = mpc
BY DEF ProgramNext, programVars, monitored, stats

(* They all start empty, with nobody holding a lock.                         *)
LEMMA ProgramStarts ==
  ProgramInit =>
    /\ ProgramInv
    /\ variant \in {"spin", "futex"} => M!Queue([k \in 1 .. 0 |-> NULL], 0)
    /\ variant \notin {"spin", "futex"} => Queue([k \in 1 .. 0 |-> NULL], 0)
<1>1. ASSUME Init, MonitorInit
      PROVE  /\ ProgramInv /\ variant \notin {"spin", "futex"}
             /\ Queue([k \in 1 .. 0 |-> NULL], 0)
  <2>1. variant \notin {"spin", "futex"}
    BY <1>1 DEF Init
  <2> QED
    BY <1>1, <2>1, FifoStarts DEF ProgramInv, MonitorInit
<1>2. ASSUME (variant = "spin" /\ Spin!Init) \/ (variant = "futex" /\ Futex!Init)
      PROVE  ProgramInv /\ M!Queue([k \in 1 .. 0 |-> NULL], 0)
  <2>1. /\ first = NULL /\ last = NULL /\ count = 0 /\ balance = 0 /\ heap = {} /\ fault = "none"
        /\ node = [m \in Node |-> Blank] /\ pc = [t \in Threads |-> "idle"]
        /\ ptr = [t \in Threads |-> NULL] /\ next = [t \in Threads |-> NULL]
        /\ reg = [t \in Threads |-> 0] /\ val = [t \in Threads |-> 0] /\ i = [t \in Writers |-> 0]
        /\ mpc = "idle" /\ printed = [size |-> 0, balance |-> 0]
    BY <1>2 DEF Spin!Init, Spin!QueueInit, Spin!MonitorInit, Spin!Threads, Spin!Blank,
       Futex!Init, Futex!QueueInit, Futex!MonitorInit, Futex!Threads, Futex!Blank, Threads, Blank
  <2>2. /\ variant = "spin" => spc = Idle /\ L!Spin!Init
        /\ variant = "futex" => mtx = Idle /\ L!Init
    BY <1>2 DEF Spin!Init, Spin!Spin!Init, Futex!Init, Futex!Mutex!Init, L!Spin!Init, L!Init,
       Futex!Mutex!MUTEX_UNLOCKED, L!MUTEX_UNLOCKED, Spin!QueueThreads, Futex!QueueThreads,
       Spin!Threads, Futex!Threads, QueueThreads, Threads, Idle
  <2>3. OwnLock
    BY <1>2, <2>2, L!SpinInit, L!ExclusionInit, OwnAssumptions DEF OwnLock
  <2>4. \A t \in QueueThreads : AtLock(t) /\ ~Inner(t)
    BY <1>2, <2>1, <2>2, MonitorAssumption DEF AtLock, Inner, Idle, QueueThreads
  <2>5. Sites
    BY <1>2, <2>2, <2>4 DEF Sites, Idle
  <2>6. Snapshot
    BY <2>1 DEF Snapshot, SnapshotConsistent
  <2>7. InLock = NoThread
    BY <2>4, InLockIsNobody DEF QueueThreads
  <2>8. 0 \in Values /\ Blank \in [val : Values, next : Node \cup {NULL}] /\ MaxCount \in Nat
    BY QueueAssumption DEF Values, Blank
  <2>9. M!Typed
    BY <2>1, <2>8, OwnSets DEF M!Typed, M!Contents, M!Values, Values
  <2>10. M!Placed
    BY <2>1, OwnSets DEF M!Placed, AddSide, GetSide, InBody, AddLabels, GetLabels
  <2>11. M!Doing = "idle"
    BY <2>1, OwnSets DEF M!Doing
  <2> DEFINE s == [k \in 1 .. 0 |-> NULL]
  <2>12. M!Chain(s, 0, first, node) /\ M!NodesOf(s, 0) = {}
    BY <2>1 DEF M!Chain, M!IsList, M!NodesOf
  <2> HIDE DEF s
  <2>13. M!Work("idle", s, 0, last, node, heap, count, ptr[InLock], next[InLock], reg[InLock],
                i[InLock])
    BY <2>1, <2>8, <2>12 DEF M!Work, M!One, M!Uncounted, M!StillCounted, M!Linking, M!Owning
  <2>14. M!Queue(s, 0)
    BY <2>1, <2>9, <2>10, <2>11, <2>12, <2>13 DEF M!Queue
  <2>15. OwnInv
    BY <2>3, <2>5, <2>6, <2>14 DEF OwnInv
  <2> QED
    BY <1>2, <2>14, <2>15 DEF ProgramInv, s
<1>3. ProgramInit =>
        \/ Init /\ MonitorInit
        \/ (variant = "spin" /\ Spin!Init) \/ (variant = "futex" /\ Futex!Init)
  BY DEF ProgramInit
<1>4. (variant = "spin" /\ Spin!Init) \/ (variant = "futex" /\ Futex!Init) =>
        variant \in {"spin", "futex"}
  OBVIOUS
<1> QED
  BY <1>1, <1>2, <1>3, <1>4, Zenon

(* Every state of every program is one the invariant describes.              *)
LEMMA ProgramAlways == Programs => []ProgramInv
<1>1. ASSUME ProgramInv, [ProgramNext]_programVars PROVE ProgramInv'
  <2>1. variant' = variant
    BY <1>1 DEF ProgramNext, programVars, vars, Next
  <2>2. CASE variant \in {"spin", "futex"}
    BY <1>1, <2>1, <2>2, OwnNext DEF ProgramInv
  <2>3. CASE variant \notin {"spin", "futex"}
    BY <1>1, <2>1, <2>3, LibraryNext, FifoStep DEF ProgramInv, FifoInv
  <2> QED
    BY <2>2, <2>3
<1> QED
  BY <1>1, ProgramStarts, PTL DEF Programs

(* The monitor of src/2.4, whichever of the two locks it is built on and     *)
(* however many threads use the queue, prints a size that is the difference  *)
(* of the counts it prints.                                                  *)
THEOREM ProgramsSnapshot == Programs => []SnapshotConsistent
<1>1. ProgramInv => SnapshotConsistent
  BY DEF ProgramInv, OwnInv, Snapshot, SnapshotConsistent
<1> QED
  BY <1>1, ProgramAlways, PTL

(* What the list of values is made of does not depend on the lock.           *)
LEMMA OwnItems ==
  /\ Items = M!Items /\ Items' = M!Items' /\ Sent = M!Sent /\ Sent' = M!Sent'
<1>1. At = M!At /\ At' = M!At'
  BY DEF At, M!At
<1>2. /\ ThreadsAt({"get_unlink"}) = M!ThreadsAt({"get_unlink"})
      /\ ThreadsAt({"get_unlink"})' = M!ThreadsAt({"get_unlink"})'
  BY DEF ThreadsAt, M!ThreadsAt, Threads, M!Threads
<1>3. \A S : M!Cardinality(S) = Cardinality(S)
  BY DEF M!Cardinality, Cardinality
<1>4. Size = M!Size /\ Size' = M!Size'
  BY <1>1, <1>3 DEF Size, M!Size
<1>5. Items = M!Items /\ Items' = M!Items'
  BY <1>1, <1>2, <1>4 DEF Items, M!Items
<1>6. Sent = M!Sent /\ Sent' = M!Sent'
  BY DEF Sent, M!Sent, Succ, M!Succ
<1> QED
  BY <1>5, <1>6

(* Each step of each program is one of BoundedFifo, or leaves it alone.      *)
LEMMA ProgramSimulated ==
  ASSUME ProgramInv, [ProgramNext]_programVars
  PROVE  [Fifo!FifoNext]_<<Items, Sent, Received>>
<1>1. CASE variant \notin {"spin", "futex"}
  BY <1>1, LibraryNext, FifoSimulated DEF ProgramInv
<1>2. CASE variant \in {"spin", "futex"}
  <2>1. PICK s, n : M!Queue(s, n)
    BY <1>2 DEF ProgramInv, OwnInv
  <2>2. M!AnyStep
    BY <1>2, OwnNext DEF ProgramInv
  <2>3. M!FifoMove(M!Items, M!Items')
    BY <2>1, <2>2, M!AnyStepMoves, OwnAssumptions, QueueAssumption
  <2>4. val \in [Threads -> Values]
    BY <2>1, OwnSets DEF M!Queue, M!Typed, M!Values, Values
  <2>5. \/ Items' = Items /\ Sent' = Sent /\ val' = val
        \/ \E w \in Writers :
             /\ Len(Items) < MaxCount /\ Items' = Append(Items, Sent[w])
             /\ Sent' = [Sent EXCEPT ![w] = Succ(@)] /\ val' = val
        \/ \E r \in Readers :
             /\ Items # <<>> /\ val' = [val EXCEPT ![r] = Head(Items)]
             /\ Items' = Tail(Items) /\ Sent' = Sent
    BY <2>3, OwnItems DEF M!FifoMove, M!Taking, M!Succ, Succ
  <2>6. CASE Items' = Items /\ Sent' = Sent /\ val' = val
    BY <2>6 DEF Received
  <2>7. ASSUME NEW w \in Writers, Len(Items) < MaxCount, Items' = Append(Items, Sent[w]),
               Sent' = [Sent EXCEPT ![w] = Succ(@)], val' = val
        PROVE  Fifo!FifoNext
    BY <2>7 DEF Fifo!FifoNext, Fifo!Put, Received, Succ
  <2>8. ASSUME NEW r \in Readers, Items # <<>>, val' = [val EXCEPT ![r] = Head(Items)],
               Items' = Tail(Items), Sent' = Sent
        PROVE  Fifo!FifoNext
    <3>1. Received' = [Received EXCEPT ![r] = Head(Items)]
      BY <2>4, <2>8 DEF Received, Threads
    <3> QED
      BY <2>8, <3>1 DEF Fifo!FifoNext, Fifo!Take
  <2> QED
    BY <2>5, <2>6, <2>7, <2>8
<1> QED
  BY <1>1, <1>2

(* What waits and what is sent when the list is empty and nobody has begun.  *)
LEMMA ProgramStartsEmpty == ProgramInit => Fifo!FifoInit /\ Sent = [w \in Writers |-> 0]
<1> SUFFICES ASSUME ProgramInit PROVE Fifo!FifoInit /\ Sent = [w \in Writers |-> 0]
  OBVIOUS
<1>1. Items = <<>>
  <2> DEFINE s == [k \in 1 .. 0 |-> NULL]
  <2>1. /\ variant \in {"spin", "futex"} => M!Queue(s, 0)
        /\ variant \notin {"spin", "futex"} => Queue(s, 0)
    BY ProgramStarts
  <2> HIDE DEF s
  <2>2. CASE M!Queue(s, 0)
    <3>1. M!Items = M!Waiting(M!Doing, s, 0, node) /\ M!Doing # "get_unlink"
      BY <2>2, M!ItemsRead, OwnAssumptions, QueueAssumption DEF M!Queue, M!Work
    <3> QED
      BY <3>1, OwnItems DEF M!Waiting
  <2>3. CASE Queue(s, 0)
    <3>1. Items = Waiting(Doing, s, 0, node) /\ Doing # "get_unlink"
      BY <2>3, ItemsRead DEF Queue, Work
    <3> QED
      BY <3>1 DEF Waiting
  <2> QED
    BY <2>1, <2>2, <2>3
<1>3. /\ pc = [t \in Threads |-> "idle"] /\ val = [t \in Threads |-> 0]
      /\ i = [t \in Writers |-> 0]
  BY DEF ProgramInit, Init, Spinlock!Init, Cond!Init, Sem!Init, Spinlock!QueueInit,
         Cond!QueueInit, Sem!QueueInit, Spinlock!Threads, Cond!Threads, Sem!Threads, Threads,
         Spin!Init, Futex!Init, Spin!QueueInit, Futex!QueueInit, Spin!Threads, Futex!Threads
<1>4. Sent = [w \in Writers |-> 0] /\ Received = [r \in Readers |-> 0]
  BY <1>3 DEF Sent, Received, Threads
<1> QED
  BY <1>1, <1>4 DEF Fifo!FifoInit

(* The queues of src/2.4 on their own locks, too, are bounded FIFOs to their *)
(* callers, with a monitor looking on, for any number of writers and readers *)
(* and any MaxCount.                                                         *)
THEOREM ProgramsAreFifo == Programs => ImplementsFifo
<1>1. ProgramInv /\ [ProgramNext]_programVars => [Fifo!FifoNext]_<<Items, Sent, Received>>
  BY ProgramSimulated
<1> QED
  BY <1>1, ProgramStartsEmpty, ProgramAlways, PTL
     DEF Programs, ImplementsFifo, Fifo!FifoSpec, Fifo!fifoVars
-----------------------------------------------------------------------------
(* With one writer and one reader the invariant about the order goes with    *)
(* the others.                                                               *)
LEMMA OwnOrdered ==
  ASSUME NEW w, NEW r
  PROVE  (M!Ordered(w, r) <=> Ordered(w, r)) /\ (M!Ordered(w, r)' <=> Ordered(w, r)')
<1>1. \A v, a, u : M!Follow(v, a, u) <=> Follow(v, a, u)
  BY DEF M!Follow, Follow, M!Succ, Succ
<1>2. M!Due(r) = Due(r) /\ M!Due(r)' = Due(r)'
  BY DEF M!Due, Due, M!Took, Took, M!Succ, Succ
<1>3. M!Ordered(w, r) <=> Ordered(w, r)
  BY <1>1, <1>2, OwnItems DEF M!Ordered, Ordered, M!Took, Took, M!Values, Values
<1>4. M!Ordered(w, r)' <=> Ordered(w, r)'
  BY <1>1, <1>2, OwnItems DEF M!Ordered, Ordered, M!Took, Took, M!Values, Values
<1> QED
  BY <1>3, <1>4

LEMMA ProgramOrdered ==
  ASSUME NEW w, NEW r, Writers = {w}, Readers = {r},
         ProgramInv, Ordered(w, r), [ProgramNext]_programVars
  PROVE  Ordered(w, r)'
<1>1. CASE variant \in {"spin", "futex"}
  <2>1. PICK s, n : M!Queue(s, n)
    BY <1>1 DEF ProgramInv, OwnInv
  <2>2. M!AnyStep /\ M!Ordered(w, r)
    BY <1>1, OwnNext, OwnOrdered DEF ProgramInv
  <2>3. M!Ordered(w, r)'
    BY <2>1, <2>2, M!OrderStep, OwnAssumptions, QueueAssumption
  <2> QED
    BY <2>3, OwnOrdered
<1>2. CASE variant \notin {"spin", "futex"}
  <2>1. PICK s, n : Queue(s, n)
    BY <1>2 DEF ProgramInv, FifoInv
  <2>2. [Next]_vars
    BY <1>2, LibraryNext
  <2>3. AnyStep
    <3>1. CASE Next
      BY <3>1, NextIsAround DEF AnyStep
    <3>2. CASE UNCHANGED vars
      BY <3>2 DEF vars, AnyStep
    <3> QED
      BY <2>2, <3>1, <3>2
  <2> QED
    BY <2>1, <2>3, OrderStep
<1> QED
  BY <1>1, <1>2

(* With one writer and one reader, as the programs of the repository have,   *)
(* the reader of every queue with a lock gets 0, 1, 2, ... in that order and *)
(* never prints ERROR, for any MaxCount.                                     *)
THEOREM ProgramsInOrder ==
  ASSUME NEW w, NEW r, Writers = {w}, Readers = {r}
  PROVE  Programs => []InOrder
<1>1. ProgramInit => Ordered(w, r)
  <2> SUFFICES ASSUME ProgramInit PROVE Ordered(w, r)
    OBVIOUS
  <2>1. /\ expected = [u \in Readers |-> 0] /\ misordered = FALSE
        /\ pc = [t \in Threads |-> "idle"]
    BY DEF ProgramInit, Init, Spinlock!Init, Cond!Init, Sem!Init, Spinlock!QueueInit,
           Cond!QueueInit, Sem!QueueInit, Spinlock!Threads, Cond!Threads, Sem!Threads, Threads,
           Spin!Init, Futex!Init, Spin!QueueInit, Futex!QueueInit, Spin!Threads, Futex!Threads
  <2>2. pc[r] \notin Took /\ Due(r) = 0 /\ 0 \in Values
    BY <2>1, QueueAssumption DEF Took, Due, Threads, Values
  <2>3. Items = <<>> /\ Sent[w] = 0
    BY ProgramStartsEmpty DEF Fifo!FifoInit
  <2>4. Follow(Due(r), Items, Sent[w])
    BY <2>2, <2>3 DEF Follow
  <2> QED
    BY <2>1, <2>2, <2>4 DEF Ordered
<1>2. ProgramInv /\ Ordered(w, r) /\ [ProgramNext]_programVars => Ordered(w, r)'
  BY ProgramOrdered
<1>3. Ordered(w, r) => InOrder
  BY DEF Ordered, InOrder
<1> QED
  BY <1>1, <1>2, <1>3, ProgramAlways, PTL DEF Programs
=============================================================================
