----------------------------- MODULE QueueSteps -----------------------------
(***************************************************************************)
(* What the linked queue does under a lock, whoever holds it and why, for  *)
(* any number of writers and readers and for any MaxCount.                 *)
(*                                                                         *)
(* There is a sequence s of n nodes that q->first leads through, and what  *)
(* the holder of the lock is doing says how q->last, q->count and the heap *)
(* differ from it.  Each step of the body then is a step of BoundedFifo or *)
(* none.  What the queues built on locks of the C library do around the    *)
(* body leaves the list alone.  Last, with one writer and one reader, the  *)
(* values from the one the reader is due to the one the writer sends next  *)
(* follow one another.                                                     *)
(***************************************************************************)
EXTENDS LibraryQueues, TLAPS, FiniteSetTheorems, ListTheorems, SequenceTheorems

One(l, S) == IF l \in S THEN 1 ELSE 0

(* The body of queue_add and queue_get is the same in both directories.      *)
LEMMA SameBody ==
  ASSUME NEW t \in Threads
  PROVE  (Sem!Body(t) => Body(t)) /\ (Cond!AddBody(t) \/ Cond!GetBody(t) => Body(t))
<1>1. Sem!Body(t) => Body(t)
  BY DEF
    Body, Sem!Body, Sem!AddBody, Sem!GetBody, Sem!AddAssert, Sem!AddTest, Sem!AddMalloc,
    Sem!AddLink, Sem!AddFirst, Sem!AddAppend, Sem!AddAdvance, Sem!AddLoad, Sem!AddStore,
    Sem!GetAssert, Sem!GetTest, Sem!GetRead, Sem!GetUnlink, Sem!GetFree, Sem!GetLoad,
    Sem!GetStore, Sem!Go, Sem!Die, Sem!Blank, Sem!list, Sem!numbers, Sem!locals,
    Sem!clients, AddBody, GetBody, AddAssert, AddTest, AddMalloc, AddLink, AddFirst,
    AddAppend, AddAdvance, AddLoad, AddStore, GetAssert, GetTest, GetRead, GetUnlink,
    GetFree, GetLoad, GetStore, Go, Die, Blank, list, numbers, locals, clients
<1>2. Cond!AddBody(t) \/ Cond!GetBody(t) => Body(t)
  BY DEF
    Body, Cond!AddBody, Cond!GetBody, Cond!AddAssert, Cond!AddTest, Cond!AddMalloc,
    Cond!AddLink, Cond!AddFirst, Cond!AddAppend, Cond!AddAdvance, Cond!AddLoad,
    Cond!AddStore, Cond!GetAssert, Cond!GetTest, Cond!GetRead, Cond!GetUnlink, Cond!GetFree,
    Cond!GetLoad, Cond!GetStore, Cond!Go, Cond!Die, Cond!Blank, Cond!list, Cond!numbers,
    Cond!locals, Cond!clients, AddBody, GetBody, AddAssert, AddTest, AddMalloc, AddLink,
    AddFirst, AddAppend, AddAdvance, AddLoad, AddStore, GetAssert, GetTest, GetRead,
    GetUnlink, GetFree, GetLoad, GetStore, Go, Die, Blank, list, numbers, locals, clients
<1> QED
  BY <1>1, <1>2

-----------------------------------------------------------------------------
(* The list of nodes.  Following q->first leads through the nodes s[1] to    *)
(* s[n], whose fields nd holds.                                              *)
NextOf(nd) == [m \in Node |-> nd[m].next]

Chain(s, n, f, nd) == IsList(s, n, Node, NULL, f, NextOf(nd))

NodesOf(s, n) == {s[k] : k \in 1 .. n}

Contents == [Node -> [val : Values, next : Node \cup {NULL}]]

(* Writing a node that is not on the list does not change it.                *)
LEMMA ChainKept ==
  ASSUME NEW s, NEW n, NEW f, NEW nd, Chain(s, n, f, nd),
         NEW nd2, \A m \in NodesOf(s, n) : nd2[m] = nd[m]
  PROVE  Chain(s, n, f, nd2)
<1>1. \A k \in 1 .. n : NextOf(nd2)[s[k]] = NextOf(nd)[s[k]]
  BY DEF Chain, IsList, NextOf, NodesOf
<1> QED
  BY <1>1 DEF Chain, IsList

(* The first node of an empty list.                                          *)
LEMMA ChainFirst ==
  ASSUME NEW p \in Node, NEW nd, nd[p].next = NULL
  PROVE  Chain([k \in 1 .. 1 |-> p], 1, p, nd)
BY DEF Chain, IsList, NextOf

(* A node behind the last.                                                   *)
Behind(s, n, p) == [k \in 1 .. n + 1 |-> IF k = n + 1 THEN p ELSE s[k]]

(* A new node behind the last makes the list longer by one.                  *)
LEMMA ChainLonger ==
  ASSUME NEW s, NEW n \in Nat, n # 0, NEW f, NEW nd \in Contents, Chain(s, n, f, nd),
         NEW p \in Node, p \notin NodesOf(s, n), nd[p].next = NULL,
         NEW nd2, nd2 = [nd EXCEPT ![s[n]].next = p]
  PROVE  Chain(Behind(s, n, p), n + 1, f, nd2)
<1> DEFINE s2 == Behind(s, n, p)
<1>1. /\ s \in [1 .. n -> Node] /\ \A j, k \in 1 .. n : s[j] = s[k] => j = k
      /\ f = s[1] /\ n \in 1 .. n /\ n + 1 \in 1 .. n + 1 /\ 1 \in 1 .. n
      /\ \A k \in 1 .. n : nd[s[k]].next = IF k = n THEN NULL ELSE s[k + 1]
      /\ \A k \in 1 .. n : s[k] # p
  <2>1. s \in [1 .. n -> Node] /\ \A j, k \in 1 .. n : s[j] = s[k] => j = k
    BY DEF Chain, IsList
  <2>2. f = s[1] /\ n \in 1 .. n /\ n + 1 \in 1 .. n + 1 /\ 1 \in 1 .. n
    BY DEF Chain, IsList
  <2>3. \A k \in 1 .. n : nd[s[k]].next = IF k = n THEN NULL ELSE s[k + 1]
    BY <2>1 DEF Chain, IsList, NextOf
  <2>4. \A k \in 1 .. n : s[k] # p
    BY DEF NodesOf
  <2> QED
    BY <2>1, <2>2, <2>3, <2>4
<1>2. s2[n + 1] = p /\ (\A k \in 1 .. n : s2[k] = s[k]) /\ s2 \in [1 .. n + 1 -> Node]
  BY <1>1 DEF Behind
<1> HIDE DEF s2
<1>3. \A k \in 1 .. n + 1 : k \in 1 .. n \/ k = n + 1
  OBVIOUS
<1>4. \A j, k \in 1 .. n + 1 : s2[j] = s2[k] => j = k
  BY <1>1, <1>2, <1>3
<1>5. /\ nd2[s[n]].next = p
      /\ \A m \in Node : m # s[n] => nd2[m] = nd[m]
  <2>1. s[n] \in Node /\ nd[s[n]] \in [val : Values, next : Node \cup {NULL}]
    BY <1>1 DEF Contents
  <2>2. nd2 = [nd EXCEPT ![s[n]] = [nd[s[n]] EXCEPT !.next = p]]
    OBVIOUS
  <2>3. nd2[s[n]] = [nd[s[n]] EXCEPT !.next = p]
    BY <2>1, <2>2 DEF Contents
  <2> QED
    BY <2>1, <2>2, <2>3
<1>6. ASSUME NEW k \in 1 .. n + 1
      PROVE  nd2[s2[k]].next = IF k = n + 1 THEN NULL ELSE s2[k + 1]
  <2>1. CASE k = n + 1
    BY <1>1, <1>2, <1>5, <2>1
  <2>2. CASE k = n
    BY <1>1, <1>2, <1>5, <2>2
  <2>3. CASE k \in 1 .. n /\ k # n
    <3>1. k + 1 \in 1 .. n /\ s[k] # s[n] /\ s[k] \in Node
      BY <1>1, <2>3
    <3> QED
      BY <1>1, <1>2, <1>5, <2>3, <3>1
  <2> QED
    BY <1>3, <2>1, <2>2, <2>3
<1>7. f = s2[1]
  BY <1>1, <1>2
<1>8. \A k \in 1 .. n + 1 : NextOf(nd2)[s2[k]] = IF k = n + 1 THEN NULL ELSE s2[k + 1]
  BY <1>2, <1>6 DEF NextOf
<1>9. Chain(s2, n + 1, f, nd2)
  <2>1. n + 1 \in Nat /\ n + 1 # 0
    OBVIOUS
  <2> QED
    BY <1>2, <1>4, <1>7, <1>8, <2>1 DEF Chain, IsList
<1> QED
  BY <1>9 DEF s2

(* The list without its first node.                                          *)
Rest(s, n) == [k \in 1 .. n - 1 |-> s[k + 1]]

(* Without its first node a list is a list, shorter by one.                  *)
LEMMA ChainShorter ==
  ASSUME NEW s, NEW n \in Nat, n # 0, NEW f, NEW nd, Chain(s, n, f, nd)
  PROVE  Chain(Rest(s, n), n - 1, IF n = 1 THEN NULL ELSE s[2], nd)
<1>1. /\ s \in [1 .. n -> Node] /\ \A j, k \in 1 .. n : s[j] = s[k] => j = k
      /\ \A k \in 1 .. n : NextOf(nd)[s[k]] = IF k = n THEN NULL ELSE s[k + 1]
  BY DEF Chain, IsList
<1>2. \A k \in 1 .. n - 1 : k + 1 \in 1 .. n /\ Rest(s, n)[k] = s[k + 1]
  BY DEF Rest
<1>3. Rest(s, n) \in [1 .. n - 1 -> Node] /\ n - 1 \in Nat
  BY <1>1, <1>2 DEF Rest
<1>4. \A j, k \in 1 .. n - 1 : Rest(s, n)[j] = Rest(s, n)[k] => j = k
  BY <1>1, <1>2
<1>5. ASSUME NEW k \in 1 .. n - 1
      PROVE  NextOf(nd)[Rest(s, n)[k]] = IF k = n - 1 THEN NULL ELSE Rest(s, n)[k + 1]
  <2>1. NextOf(nd)[s[k + 1]] = IF k + 1 = n THEN NULL ELSE s[(k + 1) + 1]
    BY <1>1, <1>2
  <2>2. k # n - 1 => k + 1 \in 1 .. n - 1
    OBVIOUS
  <2> QED
    BY <1>2, <2>1, <2>2
<1>6. (IF n = 1 THEN NULL ELSE s[2]) = IF n - 1 = 0 THEN NULL ELSE Rest(s, n)[1]
  BY <1>2
<1> QED
  BY <1>3, <1>4, <1>5, <1>6 DEF Chain, IsList

(* The nodes of a list of n are n.                                           *)
LEMMA NodesCounted ==
  ASSUME NEW s, NEW n \in Nat, NEW f, NEW nd, Chain(s, n, f, nd)
  PROVE  IsFiniteSet(NodesOf(s, n)) /\ Cardinality(NodesOf(s, n)) = n
<1>1. s \in [1 .. n -> Node] /\ \A j, k \in 1 .. n : s[j] = s[k] => j = k
  BY DEF Chain, IsList
<1>2. s \in Bijection(1 .. n, NodesOf(s, n))
  <2>1. s \in [1 .. n -> NodesOf(s, n)]
    BY <1>1 DEF NodesOf
  <2>2. \A y \in NodesOf(s, n) : \E k \in 1 .. n : s[k] = y
    BY DEF NodesOf
  <2> QED
    BY <1>1, <2>1, <2>2 DEF Bijection, Injection, Surjection, IsInjective
<1>3. ExistsBijection(1 .. n, NodesOf(s, n))
  BY <1>2 DEF ExistsBijection
<1>4. IsFiniteSet(1 .. n) /\ Cardinality(1 .. n) = n
  BY FS_Interval
<1> QED
  BY <1>3, <1>4, FS_Bijection

(* A list shorter than MaxCount leaves a block for malloc.                   *)
LEMMA BlockLeft ==
  ASSUME NEW s, NEW n \in Nat, NEW f, NEW nd, Chain(s, n, f, nd), n < MaxCount
  PROVE  NodesOf(s, n) # Node
<1>1. Cardinality(NodesOf(s, n)) = n
  BY NodesCounted
<1>2. Cardinality(Node) \in Nat /\ MaxCount <= Cardinality(Node) /\ MaxCount \in Nat
  BY BlocksAssumption, QueueAssumption, FS_CardinalityType
<1> QED
  BY <1>1, <1>2
-----------------------------------------------------------------------------
(* What the holder of the lock is doing to the list.                         *)
AddSide == {"add_wait", "add_lock"} \cup AddLabels
GetSide == {"get_wait", "get_lock"} \cup GetLabels
InBody == (AddLabels \cup GetLabels) \ {"add_ok", "get_ok", "add_full", "get_empty"}

Linking == {"add_link", "add_first", "add_append"}
Owning == Linking \cup {"get_free"}
Uncounted == {"add_advance", "add_load", "add_store"}
StillCounted == {"get_free", "get_load", "get_store"}

(* With w the label of the holder of the lock and p, x, r, v its new or tmp, *)
(* next, register and i: how the list of n nodes s, q->last, the blocks and  *)
(* their contents and q->count fit together.                                 *)
Work(w, s, n, l, nd, hp, c, p, x, r, v) ==
  /\ n \in Nat /\ n <= MaxCount
  /\ c = n - One(w, Uncounted) + One(w, StillCounted)
  /\ w \in Uncounted => n > 0
  /\ w \in {"add_malloc"} \cup Linking \cup StillCounted => n < MaxCount
  /\ w \in Linking => nd[p] = [val |-> v, next |-> NULL]
  /\ w \in Owning => p \in Node \ NodesOf(s, n)
  /\ hp = NodesOf(s, n) \cup (IF w \in Owning THEN {p} ELSE {})
  /\ (w = "add_first" => n = 0) /\ (w = "add_append" => n > 0)
  /\ w = "add_advance" => n > 1 /\ l = s[n - 1]
  /\ w # "add_advance" /\ n > 0 => l = s[n]
  /\ ResetsLast /\ n = 0 => l = NULL
  /\ w \in {"get_read", "get_unlink"} => n > 0
  /\ w = "get_unlink" => p = s[1] /\ x = (IF n = 1 THEN NULL ELSE s[2])
  /\ w \in {"add_store", "get_store"} => r = c

Doing == IF holder \in Threads THEN pc[holder] ELSE "idle"

Typed ==
  /\ last \in Node \cup {NULL} /\ node \in Contents /\ heap \subseteq Node
  /\ ptr \in [Threads -> Node \cup {NULL}] /\ next \in [Threads -> Node \cup {NULL}]
  /\ reg \in [Threads -> Int] /\ val \in [Threads -> Values]
  /\ i \in [Writers -> Values]

(* Who is in the body has the lock.                                          *)
Placed ==
  /\ pc \in [Threads -> {"idle"} \cup AddSide \cup GetSide]
  /\ \A t \in Threads :
       /\ pc[t] \in AddSide => t \in Writers
       /\ pc[t] \in GetSide => t \in Readers
       /\ pc[t] \in InBody => holder = t

Queue(s, n) ==
  /\ Typed /\ Placed /\ fault = "none" /\ balance = count
  /\ Chain(s, n, first, node)
  /\ Work(Doing, s, n, last, node, heap, count,
          ptr[holder], next[holder], reg[holder], i[holder])

(* The values in the queue: a reader that has read the first has taken it.   *)
Waiting(w, s, n, nd) ==
  IF w = "get_unlink" THEN [k \in 1 .. n - 1 |-> nd[s[k + 1]].val]
                      ELSE [k \in 1 .. n |-> nd[s[k]].val]

(* The readers that take a value with this step.                             *)
Taking == {r \in Readers : pc[r] = "get_read" /\ pc'[r] = "get_unlink"}

(* A step of BoundedFifo, or none.                                           *)
FifoMove(a, b) ==
  \/ b = a /\ Sent' = Sent /\ val' = val /\ Taking = {}
  \/ \E w \in Writers :
       /\ Len(a) < MaxCount /\ b = Append(a, Sent[w])
       /\ Sent' = [Sent EXCEPT ![w] = Succ(@)] /\ val' = val /\ Taking = {}
  \/ \E r \in Taking :
       /\ a # <<>> /\ val' = [val EXCEPT ![r] = Head(a)]
       /\ b = Tail(a) /\ Sent' = Sent

(* The step of the body by which the holder t of the lock comes to l, and    *)
(* the list from s to s2.                                                    *)
Becomes(t, l, s, n, s2, n2) ==
  /\ pc' = [pc EXCEPT ![t] = l]
  /\ {l, pc[t]} \subseteq AddLabels \/ {l, pc[t]} \subseteq GetLabels
  /\ UNCHANGED <<fault, i>> /\ balance' = count'
  /\ Typed' /\ Chain(s2, n2, first', node')
  /\ Work(l, s2, n2, last', node', heap', count', ptr'[t], next'[t], reg'[t], i[t])
  /\ FifoMove(Waiting(pc[t], s, n, node), Waiting(l, s2, n2, node'))

(* What Becomes says of the holder is the invariant for everybody.           *)
LEMMA BodyKeeps ==
  ASSUME NEW s, NEW n, Queue(s, n), NEW t \in Threads, holder = t, holder' = t,
         NEW l, NEW s2, NEW n2, Becomes(t, l, s, n, s2, n2)
  PROVE  /\ Queue(s2, n2)'
         /\ FifoMove(Waiting(Doing, s, n, node), Waiting(Doing, s2, n2, node)')
<1>1. /\ pc' = [pc EXCEPT ![t] = l] /\ pc'[t] = l
      /\ {l, pc[t]} \subseteq AddLabels \/ {l, pc[t]} \subseteq GetLabels
      /\ fault' = "none" /\ balance' = count' /\ i' = i
      /\ Typed' /\ Chain(s2, n2, first', node')
  BY DEF Queue, Placed, Becomes
<1>2. Placed'
  <2>1. l \in AddSide \cup GetSide
    BY <1>1 DEF AddSide, GetSide
  <2>2. pc' \in [Threads -> {"idle"} \cup AddSide \cup GetSide]
    BY <1>1, <2>1 DEF Queue, Placed
  <2>3. /\ pc[t] \in AddSide => t \in Writers
        /\ pc[t] \in GetSide => t \in Readers
    BY DEF Queue, Placed
  <2>4. (l \in AddSide => t \in Writers) /\ (l \in GetSide => t \in Readers)
    BY <1>1, <2>3 DEF AddSide, GetSide, AddLabels, GetLabels
  <2>5. ASSUME NEW u \in Threads
        PROVE  /\ pc'[u] \in AddSide => u \in Writers
               /\ pc'[u] \in GetSide => u \in Readers
               /\ pc'[u] \in InBody => holder' = u
    <3>1. CASE u = t
      BY <1>1, <2>4, <3>1
    <3>2. CASE u # t
      BY <1>1, <3>2 DEF Queue, Placed
    <3> QED
      BY <3>1, <3>2
  <2> QED
    BY <2>2, <2>5 DEF Placed
<1>3. Doing = pc[t] /\ Doing' = l
  BY <1>1 DEF Doing
<1>4. Work(Doing', s2, n2, last', node', heap', count', ptr'[t], next'[t], reg'[t], i'[t])
  BY <1>1, <1>3 DEF Becomes
<1>5. Queue(s2, n2)'
  BY <1>1, <1>2, <1>4 DEF Queue
<1>6. Waiting(Doing, s2, n2, node)' = Waiting(Doing', s2, n2, node')
  BY DEF Waiting
<1> QED
  BY <1>3, <1>5, <1>6 DEF Becomes

(* A writer has sent its value when it has linked the node.                  *)
Crossed == {"add_advance", "add_load", "add_store", "add_ok"}

(* A reader has taken its value when it comes here.                          *)
Grabbing == {"get_unlink"}

(* A step of t that leaves i alone sends at most the value t was adding, and *)
(* takes a value only if it leads to Grabbing.                               *)
LEMMA SentMoves ==
  ASSUME Placed, i \in [Writers -> Values], NEW t \in Threads, NEW l,
         pc' = [pc EXCEPT ![t] = l], i' = i
  PROVE  /\ (l \in Crossed <=> pc[t] \in Crossed) => Sent' = Sent
         /\ l \in Crossed /\ pc[t] \notin Crossed /\ t \in Writers =>
              Sent[t] = i[t] /\ Sent' = [Sent EXCEPT ![t] = Succ(@)]
         /\ l \notin Grabbing => Taking = {}
<1>1. /\ \A u \in Threads : u # t => pc'[u] = pc[u]
      /\ pc'[t] = l /\ \A w \in Writers : w \in Threads
  BY DEF Placed, Threads
<1> QED
  BY <1>1 DEF Sent, Crossed, Grabbing, Taking, Threads

(* A step of the body that changes nothing but the thread's place.           *)
LEMMA OnlyPlace ==
  ASSUME NEW s, NEW n, Queue(s, n), NEW t \in Threads, holder = t, NEW l,
         pc' = [pc EXCEPT ![t] = l],
         {l, pc[t]} \subseteq AddLabels \/ {l, pc[t]} \subseteq GetLabels,
         UNCHANGED <<list, numbers, locals, clients, fault>>,
         l \in Crossed <=> pc[t] \in Crossed, "get_unlink" \notin {l, pc[t]},
         Work(l, s, n, last, node, heap, count, ptr[t], next[t], reg[t], i[t])
  PROVE  Becomes(t, l, s, n, s, n)
<1>1. UNCHANGED <<first, last, node, heap, count, balance, ptr, next, reg, val, i, fault>>
  BY DEF list, numbers, locals, clients
<1>2. Sent' = Sent /\ Taking = {}
  BY <1>1, SentMoves DEF Queue, Typed, Grabbing
<1>3. FifoMove(Waiting(pc[t], s, n, node), Waiting(l, s, n, node'))
  BY <1>1, <1>2 DEF FifoMove, Waiting
<1> QED
  BY <1>1, <1>3 DEF Becomes, Queue, Typed

(* What the invariant says of the holder of the lock.                        *)
LEMMA HolderWorks ==
  ASSUME NEW s, NEW n, Queue(s, n), NEW t \in Threads, holder = t
  PROVE  Work(pc[t], s, n, last, node, heap, count, ptr[t], next[t], reg[t], i[t])
BY DEF Queue, Doing
-----------------------------------------------------------------------------
(* The tests of queue_add and queue_get.                                     *)
LEMMA TestsKeep ==
  ASSUME NEW s, NEW n, Queue(s, n), NEW t \in Threads, holder = t,
         AddAssert(t) \/ AddTest(t) \/ AddLink(t) \/ GetAssert(t) \/ GetTest(t)
  PROVE  \E l : Becomes(t, l, s, n, s, n)
<1> DEFINE Now(l) == Work(l, s, n, last, node, heap, count, ptr[t], next[t], reg[t], i[t])
<1>0. Now(pc[t]) /\ MaxCount \in Nat
  BY HolderWorks, QueueAssumption
<1>1. CASE AddAssert(t)
  <2>1. count = n /\ count <= MaxCount
    BY <1>0, <1>1 DEF AddAssert, Work, One, Uncounted, StillCounted
  <2>2. Now("add_test")
    BY <1>0, <1>1 DEF AddAssert, Work, One, Uncounted, StillCounted, Linking, Owning
  <2>3. Becomes(t, "add_test", s, n, s, n)
    BY <1>1, <2>1, <2>2, OnlyPlace DEF AddAssert, Go, AddLabels, Crossed
  <2> QED
    BY <2>3
<1>2. CASE AddTest(t)
  <2>1. CASE count = MaxCount
    <3>1. Now("add_full")
      BY <1>0, <1>2 DEF AddTest, Work, One, Uncounted, StillCounted, Linking, Owning
    <3>2. Becomes(t, "add_full", s, n, s, n)
      BY <1>2, <2>1, <3>1, OnlyPlace DEF AddTest, Go, AddLabels, Crossed
    <3> QED
      BY <3>2
  <2>2. CASE count # MaxCount
    <3>1. Now("add_malloc")
      BY <1>0, <1>2, <2>2 DEF AddTest, Work, One, Uncounted, StillCounted, Linking, Owning
    <3>2. Becomes(t, "add_malloc", s, n, s, n)
      BY <1>2, <2>2, <3>1, OnlyPlace DEF AddTest, Go, AddLabels, Crossed
    <3> QED
      BY <3>2
  <2> QED
    BY <2>1, <2>2
<1>3. CASE AddLink(t)
  <2>1. first = NULL <=> n = 0
    <3>1. IsList(s, n, Node, NULL, first, NextOf(node)) /\ NULL \notin Node
      BY QueueAssumption DEF Queue, Chain
    <3> QED
      BY <3>1 DEF IsList
  <2>2. CASE n = 0
    <3>1. Now("add_first")
      BY <1>0, <1>3, <2>2 DEF AddLink, Work, One, Uncounted, StillCounted, Linking, Owning
    <3>2. Becomes(t, "add_first", s, n, s, n)
      BY <1>3, <2>1, <2>2, <3>1, OnlyPlace DEF AddLink, Go, AddLabels, Crossed
    <3> QED
      BY <3>2
  <2>3. CASE n # 0
    <3>1. Now("add_append")
      BY <1>0, <1>3, <2>3 DEF AddLink, Work, One, Uncounted, StillCounted, Linking, Owning
    <3>2. Becomes(t, "add_append", s, n, s, n)
      BY <1>3, <2>1, <2>3, <3>1, OnlyPlace DEF AddLink, Go, AddLabels, Crossed
    <3> QED
      BY <3>2
  <2> QED
    BY <2>2, <2>3
<1>4. CASE GetAssert(t)
  <2>1. count = n /\ count >= 0
    BY <1>0, <1>4 DEF GetAssert, Work, One, Uncounted, StillCounted
  <2>2. Now("get_test")
    BY <1>0, <1>4 DEF GetAssert, Work, One, Uncounted, StillCounted, Linking, Owning
  <2>3. Becomes(t, "get_test", s, n, s, n)
    BY <1>4, <2>1, <2>2, OnlyPlace DEF GetAssert, Go, GetLabels, Crossed
  <2> QED
    BY <2>3
<1>5. CASE GetTest(t)
  <2>1. CASE count = 0
    <3>1. Now("get_empty")
      BY <1>0, <1>5 DEF GetTest, Work, One, Uncounted, StillCounted, Linking, Owning
    <3>2. Becomes(t, "get_empty", s, n, s, n)
      BY <1>5, <2>1, <3>1, OnlyPlace DEF GetTest, Go, GetLabels, Crossed
    <3> QED
      BY <3>2
  <2>2. CASE count # 0
    <3>1. Now("get_read")
      BY <1>0, <1>5, <2>2 DEF GetTest, Work, One, Uncounted, StillCounted, Linking, Owning
    <3>2. Becomes(t, "get_read", s, n, s, n)
      BY <1>5, <2>2, <3>1, OnlyPlace DEF GetTest, Go, GetLabels, Crossed
    <3> QED
      BY <3>2
  <2> QED
    BY <2>1, <2>2
<1> QED
  BY <1>1, <1>2, <1>3, <1>4, <1>5

(* malloc finds a block, which stays off the list until it is filled in.     *)
LEMMA MallocKeeps ==
  ASSUME NEW s, NEW n, Queue(s, n), NEW t \in Threads, holder = t, AddMalloc(t)
  PROVE  Becomes(t, "add_link", s, n, s, n)
<1>0. Work(pc[t], s, n, last, node, heap, count, ptr[t], next[t], reg[t], i[t])
  BY HolderWorks
<1>1. pc[t] = "add_malloc" /\ n \in Nat /\ n < MaxCount /\ heap = NodesOf(s, n) /\ t \in Writers
  BY <1>0 DEF AddMalloc, Work, Owning, Linking, Queue, Placed, AddSide, AddLabels
<1>2. heap # Node
  BY <1>1, BlockLeft DEF Queue
<1>3. PICK m \in Node \ heap :
        /\ heap' = heap \cup {m}
        /\ node' = [node EXCEPT ![m] = [val |-> i[t], next |-> NULL]]
        /\ ptr' = [ptr EXCEPT ![t] = m]
        /\ Go(t, "add_link")
        /\ UNCHANGED <<first, last, fault, numbers, next, reg, val, clients>>
  BY <1>2 DEF AddMalloc
<1>4. /\ UNCHANGED <<first, last, count, balance, next, reg, val, i, fault>>
      /\ ptr'[t] = m /\ node'[m] = [val |-> i[t], next |-> NULL]
      /\ \A x \in Node : x # m => node'[x] = node[x]
  BY <1>3 DEF numbers, clients, Queue, Typed, Contents
<1>5. NodesOf(s, n) \subseteq Node /\ \A k \in 1 .. n : s[k] \in Node /\ node'[s[k]] = node[s[k]]
  <2>1. \A k \in 1 .. n : s[k] \in Node /\ s[k] # m
    BY <1>1, <1>3 DEF Queue, Chain, IsList, NodesOf
  <2> QED
    BY <1>4, <2>1 DEF NodesOf
<1>6. Chain(s, n, first', node')
  BY <1>4, <1>5, ChainKept DEF Queue, NodesOf
<1>7. Typed'
  <2>1. i[t] \in Values
    BY <1>1 DEF Queue, Typed
  <2>2. node' \in Contents
    BY <1>3, <2>1 DEF Queue, Typed, Contents
  <2>3. ptr' \in [Threads -> Node \cup {NULL}] /\ heap' \subseteq Node
    BY <1>3 DEF Queue, Typed
  <2> QED
    BY <1>4, <2>2, <2>3 DEF Queue, Typed
<1>8. Work("add_link", s, n, last', node', heap', count', ptr'[t], next'[t], reg'[t], i[t])
  BY <1>0, <1>1, <1>3, <1>4 DEF Work, One, Uncounted, StillCounted, Linking, Owning
<1>9. FifoMove(Waiting(pc[t], s, n, node), Waiting("add_link", s, n, node'))
  <2>1. Sent' = Sent /\ Taking = {}
    <3>1. pc' = [pc EXCEPT ![t] = "add_link"] /\ Placed /\ i \in [Writers -> Values]
      BY <1>3 DEF Go, Queue, Typed
    <3>2. "add_link" \notin Grabbing /\ ("add_link" \in Crossed <=> pc[t] \in Crossed)
      BY <1>1 DEF Crossed, Grabbing
    <3> QED
      BY <1>4, <3>1, <3>2, SentMoves
  <2> QED
    BY <1>1, <1>4, <1>5, <2>1 DEF FifoMove, Waiting
<1> QED
  BY <1>1, <1>3, <1>4, <1>6, <1>7, <1>8, <1>9 DEF Becomes, Go, AddLabels, Queue
-----------------------------------------------------------------------------
(* Values as sequences.                                                      *)
LEMMA AppendedTo ==
  ASSUME NEW n \in Nat, NEW a \in [1 .. n -> Values], NEW b, NEW v \in Values,
         b = [k \in 1 .. n + 1 |-> IF k = n + 1 THEN v ELSE a[k]]
  PROVE  Len(a) = n /\ b = Append(a, v)
OBVIOUS

(* Leaving out the first value is taking the tail.                           *)
LEMMA TakenFrom ==
  ASSUME NEW n \in Nat, n # 0, NEW a \in [1 .. n -> Values],
         NEW b, b = [k \in 1 .. n - 1 |-> a[k + 1]]
  PROVE  a # <<>> /\ Head(a) = a[1] /\ b = Tail(a)
<1>1. a \in Seq(Values) /\ Len(a) = n
  OBVIOUS
<1>2. a # <<>> /\ Head(a) = a[1]
  BY <1>1
<1>3. /\ Tail(a) \in Seq(Values) /\ Len(Tail(a)) = n - 1
      /\ \A k \in 1 .. n - 1 : Tail(a)[k] = a[k + 1]
  BY <1>1, <1>2, HeadTailProperties
<1>4. Tail(a) = [k \in 1 .. n - 1 |-> Tail(a)[k]]
  BY <1>3, LenProperties
<1> QED
  BY <1>2, <1>3, <1>4

(* The values in the queue are values.                                       *)
LEMMA WaitingIs ==
  ASSUME NEW s, NEW n \in Nat, NEW f, NEW nd \in Contents, Chain(s, n, f, nd),
         NEW w, w # "get_unlink"
  PROVE  /\ Waiting(w, s, n, nd) \in [1 .. n -> Values]
         /\ \A k \in 1 .. n : s[k] \in Node /\ Waiting(w, s, n, nd)[k] = nd[s[k]].val
<1>1. \A k \in 1 .. n : s[k] \in Node
  BY DEF Chain, IsList
<1>2. \A k \in 1 .. n : nd[s[k]].val \in Values
  BY <1>1 DEF Contents
<1> QED
  BY <1>1, <1>2 DEF Waiting

(* Into an empty list: the value is sent.                                    *)
LEMMA FirstKeeps ==
  ASSUME NEW s, NEW n, Queue(s, n), NEW t \in Threads, holder = t, AddFirst(t)
  PROVE  \E s2 : Becomes(t, "add_load", s, n, s2, 1)
<1> DEFINE p == ptr[t]
<1> DEFINE s2 == [k \in 1 .. 1 |-> p]
<1>0. Work(pc[t], s, n, last, node, heap, count, ptr[t], next[t], reg[t], i[t])
  BY HolderWorks
<1>1. /\ pc[t] = "add_first" /\ n = 0 /\ 0 < MaxCount /\ count = 0 /\ heap = {p}
      /\ node[p] = [val |-> i[t], next |-> NULL] /\ p \in Node /\ MaxCount \in Nat
  BY <1>0, QueueAssumption
     DEF AddFirst, Work, One, Uncounted, StillCounted, Owning, Linking, NodesOf
<1>2. /\ t \in Writers /\ i[t] \in Values
  BY <1>1 DEF Queue, Typed, Placed, AddSide, AddLabels
<1>3. /\ UNCHANGED <<node, heap, count, balance, ptr, next, reg, val, i, fault>>
      /\ first' = p /\ last' = p /\ pc' = [pc EXCEPT ![t] = "add_load"]
  BY DEF AddFirst, numbers, locals, clients, Go
<1>4. Chain(s2, 1, first', node')
  <2>1. node'[p].next = NULL
    BY <1>1, <1>3
  <2> HIDE DEF p
  <2> QED
    BY <1>1, <1>3, <2>1, ChainFirst
<1>5. Typed'
  BY <1>1, <1>3 DEF Queue, Typed
<1>6. NodesOf(s2, 1) = {p} /\ s2[1] = p
  BY DEF NodesOf
<1>7. Work("add_load", s2, 1, last', node', heap', count', ptr'[t], next'[t], reg'[t], i[t])
  <2> HIDE DEF p, s2
  <2> QED
    BY <1>1, <1>3, <1>6 DEF Work, One, Uncounted, StillCounted, Linking, Owning
<1>8. FifoMove(Waiting(pc[t], s, n, node), Waiting("add_load", s2, 1, node'))
  <2> DEFINE a == Waiting(pc[t], s, n, node)
  <2> DEFINE b == Waiting("add_load", s2, 1, node')
  <2>1. a \in [1 .. 0 -> Values]
    BY <1>1 DEF Waiting
  <2>2. b = [k \in 1 .. 1 |-> i[t]]
    BY <1>1, <1>3, <1>6 DEF Waiting
  <2>3. Len(a) = 0 /\ b = Append(a, i[t])
    <3>1. b = [k \in 1 .. 0 + 1 |-> IF k = 0 + 1 THEN i[t] ELSE a[k]]
      <4> HIDE DEF a
      <4> QED
        BY <2>2
    <3> HIDE DEF a, b
    <3> QED
      BY <1>2, <2>1, <3>1, AppendedTo
  <2>4. /\ Sent[t] = i[t] /\ Taking = {}
        /\ Sent' = [Sent EXCEPT ![t] = Succ(@)]
    <3>1. Placed /\ i \in [Writers -> Values]
      BY DEF Queue, Typed
    <3>2. "add_load" \notin Grabbing /\ "add_load" \in Crossed /\ pc[t] \notin Crossed
      BY <1>1 DEF Crossed, Grabbing
    <3> QED
      BY <1>2, <1>3, <3>1, <3>2, SentMoves
  <2> HIDE DEF a, b
  <2>5. FifoMove(a, b)
    BY <1>1, <1>2, <1>3, <2>3, <2>4 DEF FifoMove
  <2> QED
    BY <2>5 DEF a, b
<1> HIDE DEF p, s2
<1>9. Becomes(t, "add_load", s, n, s2, 1)
  BY <1>1, <1>3, <1>4, <1>5, <1>7, <1>8 DEF Becomes, AddLabels, Queue
<1> QED
  BY <1>9

(* Behind the last node: the value is sent, and q->last is one behind.       *)
LEMMA AppendKeeps ==
  ASSUME NEW s, NEW n, Queue(s, n), NEW t \in Threads, holder = t, AddAppend(t)
  PROVE  \E s2 : Becomes(t, "add_advance", s, n, s2, n + 1)
<1> DEFINE p == ptr[t]
<1> DEFINE s2 == Behind(s, n, p)
<1>0. Work(pc[t], s, n, last, node, heap, count, ptr[t], next[t], reg[t], i[t])
  BY HolderWorks
<1>1. /\ pc[t] = "add_append" /\ n \in Nat /\ n > 0 /\ n < MaxCount /\ count = n
      /\ heap = NodesOf(s, n) \cup {p} /\ last = s[n]
      /\ node[p] = [val |-> i[t], next |-> NULL] /\ p \in Node /\ p \notin NodesOf(s, n)
      /\ MaxCount \in Nat
  BY <1>0, QueueAssumption
     DEF AddAppend, Work, One, Uncounted, StillCounted, Owning, Linking
<1>2. t \in Writers /\ i[t] \in Values /\ node \in Contents /\ Chain(s, n, first, node)
  BY <1>1 DEF Queue, Typed, Placed, AddSide, AddLabels
<1>3. s \in [1 .. n -> Node] /\ n \in 1 .. n /\ s[n] \in Node /\ NULL \notin Node
  BY <1>1, <1>2, QueueAssumption DEF Chain, IsList
<1>4. /\ UNCHANGED <<first, last, heap, count, balance, ptr, next, reg, val, i, fault>>
      /\ node' = [node EXCEPT ![s[n]].next = p]
      /\ pc' = [pc EXCEPT ![t] = "add_advance"]
  BY <1>1, <1>3 DEF AddAppend, numbers, locals, clients, Go
<1>5. node' \in Contents /\ \A m \in Node : node'[m].val = node[m].val
  <2>1. node' = [node EXCEPT ![s[n]] = [node[s[n]] EXCEPT !.next = p]]
    BY <1>4
  <2>2. node[s[n]] \in [val : Values, next : Node \cup {NULL}]
    BY <1>2, <1>3 DEF Contents
  <2> QED
    BY <1>1, <1>2, <1>3, <2>1, <2>2 DEF Contents
<1>6. Typed'
  BY <1>4, <1>5 DEF Queue, Typed
<1>7. Chain(s2, n + 1, first', node')
  <2>1. node[p].next = NULL
    BY <1>1
  <2>2. n # 0 /\ first' = first
    BY <1>1, <1>4
  <2> HIDE DEF p
  <2>3. Chain(Behind(s, n, p), n + 1, first, node')
    BY <1>1, <1>2, <1>4, <2>1, <2>2, ChainLonger
  <2> QED
    BY <2>2, <2>3
<1>8. /\ NodesOf(s2, n + 1) = NodesOf(s, n) \cup {p}
      /\ s2[n + 1] = p /\ s2[n] = s[n] /\ \A k \in 1 .. n : s2[k] = s[k] /\ k # n + 1
  <2>1. s2[n + 1] = p /\ \A k \in 1 .. n : s2[k] = s[k] /\ k # n + 1
    BY <1>1 DEF Behind
  <2>2. 1 .. n + 1 = 1 .. n \cup {n + 1}
    BY <1>1
  <2> HIDE DEF s2
  <2> QED
    BY <1>3, <2>1, <2>2 DEF NodesOf
<1>9. Work("add_advance", s2, n + 1, last', node', heap', count', ptr'[t], next'[t], reg'[t], i[t])
  <2> HIDE DEF p, s2
  <2>1. n + 1 > 1 /\ (n + 1) - 1 = n /\ n + 1 <= MaxCount /\ n = (n + 1) - 1 + 0
    BY <1>1
  <2> QED
    BY <1>1, <1>4, <1>8, <2>1 DEF Work, One, Uncounted, StillCounted, Linking, Owning
<1>10. FifoMove(Waiting(pc[t], s, n, node), Waiting("add_advance", s2, n + 1, node'))
  <2> DEFINE a == Waiting(pc[t], s, n, node)
  <2> DEFINE b == Waiting("add_advance", s2, n + 1, node')
  <2>1. a \in [1 .. n -> Values] /\ \A k \in 1 .. n : s[k] \in Node /\ a[k] = node[s[k]].val
    BY <1>1, <1>2, WaitingIs
  <2>2. b = [k \in 1 .. n + 1 |-> node'[s2[k]].val]
    BY DEF Waiting
  <2>3. ASSUME NEW k \in 1 .. n + 1
        PROVE  node'[s2[k]].val = IF k = n + 1 THEN i[t] ELSE a[k]
    <3>1. CASE k = n + 1
      BY <1>1, <1>5, <1>8, <3>1
    <3>2. CASE k \in 1 .. n
      BY <1>5, <1>8, <2>1, <3>2
    <3> QED
      BY <1>1, <3>1, <3>2
  <2> HIDE DEF a, b, s2
  <2>4. b = [k \in 1 .. n + 1 |-> IF k = n + 1 THEN i[t] ELSE a[k]]
    BY <2>2, <2>3
  <2>5. Len(a) = n /\ b = Append(a, i[t])
    BY <1>1, <1>2, <2>1, <2>4, AppendedTo
  <2>6. /\ Sent[t] = i[t] /\ Taking = {}
        /\ Sent' = [Sent EXCEPT ![t] = Succ(@)]
    <3>1. Placed /\ i \in [Writers -> Values]
      BY DEF Queue, Typed
    <3>2. "add_advance" \notin Grabbing /\ "add_advance" \in Crossed /\ pc[t] \notin Crossed
      BY <1>1 DEF Crossed, Grabbing
    <3> QED
      BY <1>2, <1>4, <3>1, <3>2, SentMoves
  <2>7. FifoMove(a, b)
    BY <1>1, <1>2, <1>4, <2>5, <2>6 DEF FifoMove
  <2> QED
    BY <2>7 DEF a, b
<1> HIDE DEF p, s2
<1>11. Becomes(t, "add_advance", s, n, s2, n + 1)
  BY <1>1, <1>4, <1>6, <1>7, <1>9, <1>10 DEF Becomes, AddLabels, Queue
<1> QED
  BY <1>11

(* q->last catches up, and the count.                                        *)
LEMMA AdvanceKeeps ==
  ASSUME NEW s, NEW n, Queue(s, n), NEW t \in Threads, holder = t, AddAdvance(t)
  PROVE  Becomes(t, "add_load", s, n, s, n)
<1>0. Work(pc[t], s, n, last, node, heap, count, ptr[t], next[t], reg[t], i[t])
  BY HolderWorks
<1>1. /\ pc[t] = "add_advance" /\ n \in Nat /\ n > 1 /\ last = s[n - 1]
      /\ heap = NodesOf(s, n) /\ count = n - 1 /\ n <= MaxCount
  BY <1>0 DEF AddAdvance, Work, One, Uncounted, StillCounted, Owning, Linking
<1>2. /\ UNCHANGED <<first, node, heap, count, balance, ptr, next, reg, val, i, fault>>
      /\ last' = node[last].next /\ pc' = [pc EXCEPT ![t] = "add_load"]
  BY DEF AddAdvance, numbers, locals, clients, Go
<1>3. last' = s[n] /\ last' \in Node
  <2>1. n - 1 \in 1 .. n /\ n - 1 # n /\ (n - 1) + 1 = n /\ n \in 1 .. n
    BY <1>1
  <2>2. s \in [1 .. n -> Node] /\ NextOf(node)[s[n - 1]] = s[(n - 1) + 1]
    BY <2>1 DEF Queue, Chain, IsList
  <2> QED
    BY <1>1, <1>2, <2>1, <2>2 DEF NextOf
<1>4. Typed' /\ Chain(s, n, first', node')
  BY <1>2, <1>3 DEF Queue, Typed
<1>5. Work("add_load", s, n, last', node', heap', count', ptr'[t], next'[t], reg'[t], i[t])
  BY <1>1, <1>2, <1>3 DEF Work, One, Uncounted, StillCounted, Linking, Owning
<1>6. Sent' = Sent /\ Taking = {}
  <2>1. Placed /\ i \in [Writers -> Values]
    BY DEF Queue, Typed
  <2>2. "add_load" \notin Grabbing /\ ("add_load" \in Crossed <=> pc[t] \in Crossed)
    BY <1>1 DEF Crossed, Grabbing
  <2> QED
    BY <1>2, <2>1, <2>2, SentMoves
<1>7. FifoMove(Waiting(pc[t], s, n, node), Waiting("add_load", s, n, node'))
  BY <1>1, <1>2, <1>6 DEF FifoMove, Waiting
<1> QED
  BY <1>1, <1>2, <1>4, <1>5, <1>7 DEF Becomes, AddLabels, Queue

(* Both read and write the count without another thread in between.          *)
LEMMA CountKeeps ==
  ASSUME NEW s, NEW n, Queue(s, n), NEW t \in Threads, holder = t,
         AddLoad(t) \/ AddStore(t) \/ GetLoad(t) \/ GetStore(t)
  PROVE  \E l : Becomes(t, l, s, n, s, n)
<1>0. /\ Work(pc[t], s, n, last, node, heap, count, ptr[t], next[t], reg[t], i[t])
      /\ Placed /\ i \in [Writers -> Values] /\ balance = count /\ fault = "none"
      /\ reg \in [Threads -> Int] /\ Chain(s, n, first, node)
  BY HolderWorks DEF Queue, Typed
<1> DEFINE Now(l) == Work(l, s, n, last', node', heap', count', ptr'[t], next'[t], reg'[t], i[t])
<1>1. UNCHANGED <<first, last, node, heap, ptr, next, val, i, fault>>
  BY DEF AddLoad, AddStore, GetLoad, GetStore, list, numbers, locals, clients
<1>2. ASSUME NEW l, pc' = [pc EXCEPT ![t] = l], l \in Crossed <=> pc[t] \in Crossed,
             {l, pc[t]} \subseteq AddLabels \/ {l, pc[t]} \subseteq GetLabels,
             "get_unlink" \notin {l, pc[t]}, Now(l), balance' = count', reg' \in [Threads -> Int]
      PROVE  Becomes(t, l, s, n, s, n)
  <2>1. Typed'
    BY <1>1, <1>2 DEF Queue, Typed
  <2>2. Sent' = Sent /\ Taking = {}
    BY <1>0, <1>1, <1>2, SentMoves DEF Grabbing
  <2>3. FifoMove(Waiting(pc[t], s, n, node), Waiting(l, s, n, node'))
    BY <1>1, <1>2, <2>2 DEF FifoMove, Waiting
  <2> HIDE DEF Now
  <2> QED
    BY <1>0, <1>1, <1>2, <2>1, <2>3 DEF Becomes, Now
<1>3. CASE AddLoad(t)
  <2>1. /\ pc[t] = "add_load" /\ UNCHANGED <<count, balance>>
        /\ reg' = [reg EXCEPT ![t] = count] /\ pc' = [pc EXCEPT ![t] = "add_store"]
    BY <1>3 DEF AddLoad, numbers, Go
  <2>2. Now("add_store") /\ count \in Int
    BY <1>0, <1>1, <2>1 DEF Work, One, Uncounted, StillCounted, Linking, Owning
  <2>3. reg' \in [Threads -> Int] /\ balance' = count'
    BY <1>0, <2>1, <2>2
  <2> HIDE DEF Now
  <2>4. Becomes(t, "add_store", s, n, s, n)
    BY <1>2, <2>1, <2>2, <2>3 DEF Crossed, AddLabels
  <2> QED
    BY <2>4
<1>4. CASE GetLoad(t)
  <2>1. /\ pc[t] = "get_load" /\ UNCHANGED <<count, balance>>
        /\ reg' = [reg EXCEPT ![t] = count] /\ pc' = [pc EXCEPT ![t] = "get_store"]
    BY <1>4 DEF GetLoad, numbers, Go
  <2>2. Now("get_store") /\ count \in Int
    BY <1>0, <1>1, <2>1 DEF Work, One, Uncounted, StillCounted, Linking, Owning
  <2>3. reg' \in [Threads -> Int] /\ balance' = count'
    BY <1>0, <2>1, <2>2
  <2> HIDE DEF Now
  <2>4. Becomes(t, "get_store", s, n, s, n)
    BY <1>2, <2>1, <2>2, <2>3 DEF Crossed, GetLabels
  <2> QED
    BY <2>4
<1>5. CASE AddStore(t)
  <2>1. /\ pc[t] = "add_store" /\ count' = reg[t] + 1 /\ balance' = balance + 1 /\ reg' = reg
        /\ pc' = [pc EXCEPT ![t] = "add_ok"]
    BY <1>5 DEF AddStore, locals, Go
  <2>2. reg[t] = count /\ n \in Nat /\ count = n - 1
    BY <1>0, <2>1 DEF Work, One, Uncounted, StillCounted
  <2>3. count' = n /\ balance' = count'
    BY <1>0, <2>1, <2>2
  <2>4. Now("add_ok")
    BY <1>0, <1>1, <2>1, <2>2, <2>3 DEF Work, One, Uncounted, StillCounted, Linking, Owning
  <2> HIDE DEF Now
  <2>5. Becomes(t, "add_ok", s, n, s, n)
    BY <1>0, <1>2, <2>1, <2>3, <2>4 DEF Crossed, AddLabels
  <2> QED
    BY <2>5
<1>6. CASE GetStore(t)
  <2>1. /\ pc[t] = "get_store" /\ count' = reg[t] - 1 /\ balance' = balance - 1 /\ reg' = reg
        /\ pc' = [pc EXCEPT ![t] = "get_ok"]
    BY <1>6 DEF GetStore, locals, Go
  <2>2. reg[t] = count /\ n \in Nat /\ count = n + 1
    BY <1>0, <2>1 DEF Work, One, Uncounted, StillCounted
  <2>3. count' = n /\ balance' = count'
    BY <1>0, <2>1, <2>2
  <2>4. Now("get_ok")
    BY <1>0, <1>1, <2>1, <2>2, <2>3 DEF Work, One, Uncounted, StillCounted, Linking, Owning
  <2> HIDE DEF Now
  <2>5. Becomes(t, "get_ok", s, n, s, n)
    BY <1>0, <1>2, <2>1, <2>3, <2>4 DEF Crossed, GetLabels
  <2> QED
    BY <2>5
<1> QED
  BY <1>3, <1>4, <1>5, <1>6

(* A reader takes the value at the head ...                                  *)
LEMMA ReadKeeps ==
  ASSUME NEW s, NEW n, Queue(s, n), NEW t \in Threads, holder = t, GetRead(t)
  PROVE  Becomes(t, "get_unlink", s, n, s, n)
<1>0. Work(pc[t], s, n, last, node, heap, count, ptr[t], next[t], reg[t], i[t])
  BY HolderWorks
<1>1. /\ pc[t] = "get_read" /\ n \in Nat /\ n > 0 /\ count = n /\ n <= MaxCount
      /\ heap = NodesOf(s, n)
  BY <1>0 DEF GetRead, Work, One, Uncounted, StillCounted, Owning, Linking
<1>2. t \in Readers /\ node \in Contents /\ Chain(s, n, first, node)
  BY <1>1 DEF Queue, Typed, Placed, GetSide, GetLabels
<1>3. /\ 1 \in 1 .. n /\ s[1] \in Node /\ first = s[1] /\ first # NULL
      /\ node[s[1]].next = IF n = 1 THEN NULL ELSE s[2]
      /\ node[s[1]].val \in Values /\ node[s[1]].next \in Node \cup {NULL}
  <2>1. /\ 1 \in 1 .. n /\ s \in [1 .. n -> Node] /\ first = s[1]
        /\ NextOf(node)[s[1]] = IF 1 = n THEN NULL ELSE s[1 + 1]
    BY <1>1, <1>2 DEF Chain, IsList
  <2>2. s[1] \in Node /\ s[1] # NULL /\ 1 + 1 = 2
    BY <2>1, QueueAssumption
  <2>3. node[s[1]] \in [val : Values, next : Node \cup {NULL}]
    BY <1>2, <2>2 DEF Contents
  <2> QED
    BY <2>1, <2>2, <2>3 DEF NextOf
<1>4. /\ UNCHANGED <<first, last, node, heap, count, balance, reg, i, fault>>
      /\ ptr' = [ptr EXCEPT ![t] = s[1]]
      /\ val' = [val EXCEPT ![t] = node[s[1]].val]
      /\ next' = [next EXCEPT ![t] = node[s[1]].next]
      /\ pc' = [pc EXCEPT ![t] = "get_unlink"]
  BY <1>3 DEF GetRead, list, numbers, clients, Go
<1>5. Typed'
  BY <1>3, <1>4 DEF Queue, Typed
<1>6. ptr'[t] = s[1] /\ next'[t] = IF n = 1 THEN NULL ELSE s[2]
  BY <1>3, <1>4 DEF Queue, Typed
<1>7. Work("get_unlink", s, n, last', node', heap', count', ptr'[t], next'[t], reg'[t], i[t])
  BY <1>0, <1>1, <1>4, <1>6 DEF Work, One, Uncounted, StillCounted, Linking, Owning
<1>8. Sent' = Sent
  <2>1. Placed /\ i \in [Writers -> Values]
    BY DEF Queue, Typed
  <2>2. "get_unlink" \in Crossed <=> pc[t] \in Crossed
    BY <1>1 DEF Crossed
  <2> QED
    BY <1>4, <2>1, <2>2, SentMoves
<1>9. FifoMove(Waiting(pc[t], s, n, node), Waiting("get_unlink", s, n, node'))
  <2> DEFINE a == Waiting(pc[t], s, n, node)
  <2> DEFINE b == Waiting("get_unlink", s, n, node')
  <2>1. a \in [1 .. n -> Values] /\ \A k \in 1 .. n : a[k] = node[s[k]].val
    BY <1>1, <1>2, WaitingIs
  <2>2. b = [k \in 1 .. n - 1 |-> node[s[k + 1]].val]
    BY <1>4 DEF Waiting
  <2>3. \A k \in 1 .. n - 1 : k + 1 \in 1 .. n
    BY <1>1
  <2> HIDE DEF a, b
  <2>4. b = [k \in 1 .. n - 1 |-> a[k + 1]]
    BY <2>1, <2>2, <2>3
  <2>5. a # <<>> /\ Head(a) = a[1] /\ b = Tail(a)
    <3>1. n \in Nat /\ n # 0 /\ a \in [1 .. n -> Values]
      BY <1>1, <2>1
    <3> QED
      BY <2>4, <3>1, TakenFrom
  <2>6. val' = [val EXCEPT ![t] = Head(a)]
    BY <1>3, <1>4, <2>1, <2>5
  <2>7. t \in Taking
    BY <1>1, <1>2, <1>4 DEF Taking, Queue, Placed
  <2>8. FifoMove(a, b)
    BY <1>8, <2>5, <2>6, <2>7 DEF FifoMove
  <2> QED
    BY <2>8 DEF a, b
<1> QED
  BY <1>1, <1>2, <1>4, <1>5, <1>7, <1>9 DEF Becomes, GetLabels, Queue

(* ... unlinks the node ...                                                  *)
LEMMA UnlinkKeeps ==
  ASSUME NEW s, NEW n, Queue(s, n), NEW t \in Threads, holder = t, GetUnlink(t)
  PROVE  \E s2 : Becomes(t, "get_free", s, n, s2, n - 1)
<1> DEFINE s2 == Rest(s, n)
<1>0. Work(pc[t], s, n, last, node, heap, count, ptr[t], next[t], reg[t], i[t])
  BY HolderWorks
<1>1. /\ pc[t] = "get_unlink" /\ n \in Nat /\ n > 0 /\ n # 0 /\ count = n /\ n <= MaxCount
      /\ heap = NodesOf(s, n) /\ ptr[t] = s[1] /\ next[t] = IF n = 1 THEN NULL ELSE s[2]
      /\ last = s[n] /\ MaxCount \in Nat
  BY <1>0, QueueAssumption DEF GetUnlink, Work, One, Uncounted, StillCounted, Owning, Linking
<1>2. /\ UNCHANGED <<node, heap, count, balance, ptr, next, reg, val, i, fault>>
      /\ first' = next[t] /\ pc' = [pc EXCEPT ![t] = "get_free"]
      /\ last' = IF ResetsLast /\ next[t] = NULL THEN NULL ELSE last
  BY DEF GetUnlink, numbers, locals, clients, Go
<1>3. /\ s \in [1 .. n -> Node] /\ \A j, k \in 1 .. n : s[j] = s[k] => j = k
      /\ NULL \notin Node /\ Chain(s, n, first, node)
  BY QueueAssumption DEF Queue, Chain, IsList
<1>4. Chain(s2, n - 1, first', node')
  BY <1>1, <1>2, <1>3, ChainShorter
<1>5. Typed'
  BY <1>2 DEF Queue, Typed
<1>6. /\ s[1] \in Node /\ s[1] \notin NodesOf(s2, n - 1)
      /\ NodesOf(s, n) = NodesOf(s2, n - 1) \cup {s[1]}
  <2>1. \A k \in 1 .. n - 1 : s2[k] = s[k + 1] /\ k + 1 \in 1 .. n /\ k + 1 # 1
    BY <1>1 DEF Rest
  <2>2. 1 \in 1 .. n /\ \A k \in 1 .. n : k # 1 => k - 1 \in 1 .. n - 1 /\ (k - 1) + 1 = k
    BY <1>1
  <2> HIDE DEF s2
  <2>3. s[1] \notin NodesOf(s2, n - 1)
    BY <1>3, <2>1, <2>2 DEF NodesOf
  <2>4. NodesOf(s2, n - 1) \cup {s[1]} \subseteq NodesOf(s, n)
    BY <2>1, <2>2 DEF NodesOf
  <2>5. ASSUME NEW k \in 1 .. n PROVE s[k] \in NodesOf(s2, n - 1) \cup {s[1]}
    <3>1. CASE k = 1
      BY <3>1
    <3>2. CASE k # 1
      <4>1. k - 1 \in 1 .. n - 1 /\ s2[k - 1] = s[k]
        BY <2>1, <2>2, <3>2
      <4> QED
        BY <4>1 DEF NodesOf
    <3> QED
      BY <3>1, <3>2
  <2>6. NodesOf(s, n) \subseteq NodesOf(s2, n - 1) \cup {s[1]}
    BY <2>5 DEF NodesOf
  <2> QED
    BY <1>3, <2>2, <2>3, <2>4, <2>6
<1>7. /\ n - 1 > 0 => last' = s2[n - 1]
      /\ ResetsLast /\ n - 1 = 0 => last' = NULL
  <2>1. ASSUME n - 1 > 0 PROVE last' = s2[n - 1]
    <3>1. n - 1 \in 1 .. n - 1 /\ (n - 1) + 1 = n /\ 2 \in 1 .. n /\ n # 1
      BY <1>1, <2>1
    <3>2. next[t] # NULL
      BY <1>1, <1>3, <3>1
    <3> QED
      BY <1>1, <1>2, <3>1, <3>2 DEF Rest
  <2>2. n - 1 = 0 => next[t] = NULL
    BY <1>1
  <2> QED
    BY <1>2, <2>1, <2>2
<1>8. Work("get_free", s2, n - 1, last', node', heap', count', ptr'[t], next'[t], reg'[t], i[t])
  <2>1. n - 1 \in Nat /\ n - 1 < MaxCount /\ n - 1 <= MaxCount /\ n = (n - 1) - 0 + 1
    BY <1>1
  <2> HIDE DEF s2
  <2> QED
    BY <1>1, <1>2, <1>6, <1>7, <2>1 DEF Work, One, Uncounted, StillCounted, Linking, Owning
<1>9. Sent' = Sent /\ Taking = {}
  <2>1. Placed /\ i \in [Writers -> Values]
    BY DEF Queue, Typed
  <2>2. "get_free" \notin Grabbing /\ ("get_free" \in Crossed <=> pc[t] \in Crossed)
    BY <1>1 DEF Crossed, Grabbing
  <2> QED
    BY <1>2, <2>1, <2>2, SentMoves
<1>10. FifoMove(Waiting(pc[t], s, n, node), Waiting("get_free", s2, n - 1, node'))
  <2>1. Waiting("get_free", s2, n - 1, node') = [k \in 1 .. n - 1 |-> node[s2[k]].val]
    BY <1>2 DEF Waiting
  <2>2. \A k \in 1 .. n - 1 : s2[k] = s[k + 1]
    BY DEF Rest
  <2> HIDE DEF s2
  <2>3. Waiting("get_free", s2, n - 1, node') = Waiting(pc[t], s, n, node)
    BY <1>1, <2>1, <2>2 DEF Waiting
  <2> QED
    BY <1>2, <1>9, <2>3 DEF FifoMove
<1> HIDE DEF s2
<1>11. Becomes(t, "get_free", s, n, s2, n - 1)
  BY <1>1, <1>2, <1>4, <1>5, <1>8, <1>10 DEF Becomes, GetLabels, Queue
<1> QED
  BY <1>11

(* ... and frees it.                                                         *)
LEMMA FreeKeeps ==
  ASSUME NEW s, NEW n, Queue(s, n), NEW t \in Threads, holder = t, GetFree(t)
  PROVE  Becomes(t, "get_load", s, n, s, n)
<1>0. Work(pc[t], s, n, last, node, heap, count, ptr[t], next[t], reg[t], i[t])
  BY HolderWorks
<1>1. /\ pc[t] = "get_free" /\ n \in Nat /\ n < MaxCount /\ n <= MaxCount /\ count = n + 1
      /\ heap = NodesOf(s, n) \cup {ptr[t]} /\ ptr[t] \in Node /\ ptr[t] \notin NodesOf(s, n)
  BY <1>0 DEF GetFree, Work, One, Uncounted, StillCounted, Owning, Linking
<1>2. /\ UNCHANGED <<first, last, count, balance, ptr, next, reg, val, i, fault>>
      /\ heap' = NodesOf(s, n) /\ node' = [node EXCEPT ![ptr[t]] = Blank]
      /\ pc' = [pc EXCEPT ![t] = "get_load"]
  BY <1>1 DEF GetFree, numbers, locals, clients, Go
<1>3. Blank \in [val : Values, next : Node \cup {NULL}]
  BY QueueAssumption DEF Blank, Values
<1>4. node \in Contents /\ node' \in Contents
  BY <1>1, <1>2, <1>3 DEF Queue, Typed, Contents
<1>5. \A k \in 1 .. n : s[k] \in Node /\ node'[s[k]] = node[s[k]]
  <2>1. \A k \in 1 .. n : s[k] \in Node /\ s[k] # ptr[t]
    BY <1>1 DEF Queue, Chain, IsList, NodesOf
  <2> QED
    BY <1>2, <1>4, <2>1 DEF Contents
<1>6. NodesOf(s, n) \subseteq Node /\ Chain(s, n, first', node')
  <2>1. NodesOf(s, n) \subseteq Node /\ \A m \in NodesOf(s, n) : node'[m] = node[m]
    BY <1>5 DEF NodesOf
  <2>2. Chain(s, n, first, node)
    BY DEF Queue
  <2>3. Chain(s, n, first, node')
    BY <2>1, <2>2, ChainKept
  <2> QED
    BY <1>2, <2>1, <2>3
<1>7. Typed'
  BY <1>2, <1>4, <1>6 DEF Queue, Typed
<1>8. Work("get_load", s, n, last', node', heap', count', ptr'[t], next'[t], reg'[t], i[t])
  BY <1>0, <1>1, <1>2 DEF Work, One, Uncounted, StillCounted, Linking, Owning
<1>9. Sent' = Sent /\ Taking = {}
  <2>1. Placed /\ i \in [Writers -> Values]
    BY DEF Queue, Typed
  <2>2. "get_load" \notin Grabbing /\ ("get_load" \in Crossed <=> pc[t] \in Crossed)
    BY <1>1 DEF Crossed, Grabbing
  <2> QED
    BY <1>2, <2>1, <2>2, SentMoves
<1>10. FifoMove(Waiting(pc[t], s, n, node), Waiting("get_load", s, n, node'))
  BY <1>1, <1>2, <1>5, <1>9 DEF FifoMove, Waiting
<1> QED
  BY <1>1, <1>2, <1>6, <1>7, <1>8, <1>10 DEF Becomes, GetLabels, Queue

(* Every step of the body is one of BoundedFifo or none.                     *)
LEMMA BodyStep ==
  ASSUME NEW s, NEW n, Queue(s, n), NEW t \in Threads, Body(t), UNCHANGED holder
  PROVE  \E s2, n2 : /\ Queue(s2, n2)'
                     /\ FifoMove(Waiting(Doing, s, n, node), Waiting(Doing, s2, n2, node)')
<1>1. holder = t
  BY DEF Body, AddBody, GetBody, AddAssert, AddTest, AddMalloc, AddLink, AddFirst, AddAppend,
         AddAdvance, AddLoad, AddStore, GetAssert, GetTest, GetRead, GetUnlink, GetFree, GetLoad,
         GetStore, Queue, Placed, InBody, AddLabels, GetLabels
<1>2. \E l, s2, n2 : Becomes(t, l, s, n, s2, n2)
  BY <1>1, TestsKeep, MallocKeeps, FirstKeeps, AppendKeeps, AdvanceKeeps, CountKeeps, ReadKeeps,
     UnlinkKeeps, FreeKeeps DEF Body, AddBody, GetBody
<1> QED
  BY <1>1, <1>2, BodyKeeps
-----------------------------------------------------------------------------
(* Where a thread holds the lock or not, but does nothing to the list.       *)
Resting == {"idle", "add_wait", "get_wait", "add_lock", "get_lock", "add_assert", "add_test",
            "add_ok", "add_full", "get_assert", "get_test", "get_ok", "get_empty"}

(* A step of t to l outside the body: it may take or release the lock.       *)
Outer(t, l) ==
  /\ {l, pc[t]} \subseteq Resting /\ pc' = [pc EXCEPT ![t] = l]
  /\ UNCHANGED <<list, numbers, val, fault>>
  /\ ptr' \in [Threads -> Node \cup {NULL}] /\ next' \in [Threads -> Node \cup {NULL}]
  /\ reg' \in [Threads -> Int]
  /\ \A u \in Threads \ {t} : ptr'[u] = ptr[u] /\ next'[u] = next[u] /\ reg'[u] = reg[u]
  /\ \/ i' = i /\ (l \in Crossed <=> pc[t] \in Crossed)
     \/ l = "idle" /\ pc[t] = "add_ok" /\ i' = [i EXCEPT ![t] = Succ(@)]
  /\ (l \in AddSide => t \in Writers) /\ (l \in GetSide => t \in Readers)
  /\ \/ holder' = holder
     \/ holder = NoThread /\ holder' = t
     \/ holder = t /\ holder' = NoThread
  /\ l \in InBody => holder' = t

(* Resting threads work alike.                                               *)
LEMMA RestAlike ==
  ASSUME NEW w \in Resting, NEW w2 \in Resting, NEW s, NEW n, NEW l, NEW nd, NEW hp, NEW c,
         NEW p, NEW x, NEW r, NEW v, NEW p2, NEW x2, NEW r2, NEW v2,
         Work(w, s, n, l, nd, hp, c, p, x, r, v)
  PROVE  Work(w2, s, n, l, nd, hp, c, p2, x2, r2, v2)
BY DEF Resting, Work, One, Uncounted, StillCounted, Linking, Owning

(* Succ stays among the values.                                              *)
LEMMA SuccTyped == \A v \in Values : Succ(v) \in Values
BY QueueAssumption DEF Values, Succ

(* Outside the body the list and what waits in it stay.                      *)
LEMMA OuterStep ==
  ASSUME NEW s, NEW n, Queue(s, n), NEW t \in Threads, NEW l, Outer(t, l)
  PROVE  /\ Queue(s, n)'
         /\ FifoMove(Waiting(Doing, s, n, node), Waiting(Doing, s, n, node)')
<1>1. /\ Typed /\ Placed /\ fault = "none" /\ balance = count /\ Chain(s, n, first, node)
      /\ Work(Doing, s, n, last, node, heap, count,
              ptr[holder], next[holder], reg[holder], i[holder])
  BY DEF Queue
<1>2. UNCHANGED <<first, last, node, heap, count, balance, val, fault>>
  BY DEF Outer, list, numbers
<1>3. /\ {l, pc[t]} \subseteq Resting /\ pc' = [pc EXCEPT ![t] = l] /\ pc'[t] = l
      /\ \A u \in Threads : u # t => pc'[u] = pc[u]
      /\ NoThread \notin Threads
  BY <1>1, LockedQueueAssumption DEF Outer, Placed
<1>4. /\ pc[t] \in AddSide => t \in Writers
      /\ i' = i \/ (t \in Writers /\ i' = [i EXCEPT ![t] = Succ(@)])
  BY <1>1 DEF Placed, Outer, AddSide, AddLabels
<1>5. i' \in [Writers -> Values] /\ \A w \in Writers : w # t => i'[w] = i[w]
  BY <1>1, <1>4, SuccTyped DEF Typed
<1>6. Typed'
  BY <1>1, <1>2, <1>5 DEF Typed, Outer
<1>7. Placed'
  <2>1. l \in {"idle"} \cup AddSide \cup GetSide
    BY <1>3 DEF Resting, AddSide, GetSide, AddLabels, GetLabels
  <2>2. pc' \in [Threads -> {"idle"} \cup AddSide \cup GetSide]
    BY <1>1, <1>3, <2>1 DEF Placed
  <2>3. ASSUME NEW u \in Threads
        PROVE  /\ pc'[u] \in AddSide => u \in Writers
               /\ pc'[u] \in GetSide => u \in Readers
               /\ pc'[u] \in InBody => holder' = u
    <3>1. CASE u = t
      BY <1>3, <3>1 DEF Outer
    <3>2. CASE u # t
      <4>1. pc[u] \in InBody => holder = u
        BY <1>1 DEF Placed
      <4>2. holder = u => holder' = u
        BY <1>3, <3>2 DEF Outer
      <4> QED
        BY <1>1, <1>3, <3>2, <4>1, <4>2 DEF Placed
    <3> QED
      BY <3>1, <3>2
  <2> QED
    BY <2>2, <2>3 DEF Placed
<1>8. Sent' = Sent /\ Taking = {}
  <2>1. CASE i' = i /\ (l \in Crossed <=> pc[t] \in Crossed)
    BY <1>1, <1>3, <2>1, SentMoves DEF Typed, Resting, Grabbing
  <2>2. CASE l = "idle" /\ pc[t] = "add_ok" /\ i' = [i EXCEPT ![t] = Succ(@)]
    <3>1. ASSUME NEW w \in Writers
          PROVE  (IF pc'[w] \in Crossed THEN Succ(i'[w]) ELSE i'[w])
                   = IF pc[w] \in Crossed THEN Succ(i[w]) ELSE i[w]
      <4>1. CASE w = t
        BY <1>1, <1>3, <2>2, <4>1 DEF Crossed, Typed
      <4>2. CASE w # t
        BY <1>3, <1>5, <4>2 DEF Threads
      <4> QED
        BY <4>1, <4>2
    <3>2. Taking = {}
      BY <1>3, <2>2 DEF Taking, Threads
    <3> QED
      BY <3>1, <3>2 DEF Sent, Crossed
  <2> QED
    BY <2>1, <2>2 DEF Outer
<1>9. /\ Work(Doing', s, n, last, node, heap, count,
              ptr'[holder'], next'[holder'], reg'[holder'], i'[holder'])
      /\ Doing' = "get_unlink" <=> Doing = "get_unlink"
  <2>1. CASE holder \in Threads /\ holder # t
    <3>1. holder' = holder /\ Doing = pc[holder] /\ Doing' = pc[holder]
      BY <1>3, <2>1 DEF Outer, Doing
    <3>2. /\ ptr'[holder'] = ptr[holder] /\ next'[holder'] = next[holder]
          /\ reg'[holder'] = reg[holder]
      BY <2>1, <3>1 DEF Outer
    <3>3. pc[holder] \in Linking => i'[holder'] = i[holder]
      BY <1>1, <1>5, <2>1, <3>1 DEF Placed, Linking, AddSide, AddLabels
    <3> QED
      BY <1>1, <3>1, <3>2, <3>3 DEF Work
  <2>2. CASE holder \notin Threads \/ holder = t
    <3>1. Doing \in Resting
      BY <1>3, <2>2 DEF Doing, Resting
    <3>2. Doing' \in Resting
      BY <1>3, <2>2 DEF Doing, Resting, Outer
    <3>3. Doing # "get_unlink" /\ Doing' # "get_unlink"
      BY <3>1, <3>2 DEF Resting
    <3>4. Work(Doing', s, n, last, node, heap, count,
               ptr'[holder'], next'[holder'], reg'[holder'], i'[holder'])
      BY <1>1, <3>1, <3>2, RestAlike
    <3> QED
      BY <3>3, <3>4
  <2> QED
    BY <2>1, <2>2
<1>10. Queue(s, n)'
  BY <1>1, <1>2, <1>6, <1>7, <1>9 DEF Queue
<1>11. Waiting(Doing, s, n, node)' = Waiting(Doing, s, n, node)
  BY <1>2, <1>9 DEF Waiting
<1> QED
  BY <1>2, <1>8, <1>10, <1>11 DEF FifoMove

(* Entering or going on with a call.                                         *)
LEMMA CallIsOuter ==
  ASSUME NEW s, NEW n, Queue(s, n), NEW t \in Threads, NEW l, Call(t, l),
         {l, pc[t]} \subseteq Resting \ {"add_ok"},
         (l \in AddSide => t \in Writers) /\ (l \in GetSide => t \in Readers),
         holder' = holder \/ Lock!Acquire(t), l \in InBody => holder' = t
  PROVE  Outer(t, l)
<1>1. /\ UNCHANGED <<list, numbers, ptr, next, reg, val, i, fault>>
      /\ pc' = [pc EXCEPT ![t] = l]
  BY DEF Call, Go, locals, clients
<1>2. l \in Crossed <=> pc[t] \in Crossed
  BY DEF Resting, Crossed
<1>3. holder' = holder \/ (holder = NoThread /\ holder' = t)
  BY DEF Lock!Acquire
<1> QED
  BY <1>1, <1>2, <1>3 DEF Outer, Queue, Typed

(* Returning to the loop that called.                                        *)
LEMMA ReturnIsOuter ==
  ASSUME NEW s, NEW n, Queue(s, n), NEW t \in Threads, Return(t),
         holder' = holder \/ Lock!Release(t)
  PROVE  Outer(t, "idle")
<1>1. /\ UNCHANGED <<list, numbers, val, fault>>
      /\ pc' = [pc EXCEPT ![t] = "idle"]
      /\ ptr' = [ptr EXCEPT ![t] = NULL] /\ next' = [next EXCEPT ![t] = NULL]
      /\ reg' = [reg EXCEPT ![t] = 0]
      /\ pc[t] \in {"add_ok", "add_full", "get_ok", "get_empty"}
      /\ i' = IF pc[t] = "add_ok" THEN [i EXCEPT ![t] = Succ(@)] ELSE i
  BY DEF Return, WriterReturn, ReaderReturn, LeaveScope, Go
<1>2. /\ ptr' \in [Threads -> Node \cup {NULL}] /\ next' \in [Threads -> Node \cup {NULL}]
      /\ reg' \in [Threads -> Int]
      /\ \A u \in Threads \ {t} : ptr'[u] = ptr[u] /\ next'[u] = next[u] /\ reg'[u] = reg[u]
  BY <1>1 DEF Queue, Typed
<1>3. /\ "idle" \in Resting /\ pc[t] \in Resting
      /\ "idle" \notin AddSide \cup GetSide \cup InBody \cup Crossed
      /\ pc[t] # "add_ok" => pc[t] \notin Crossed
  BY <1>1 DEF Resting, AddSide, GetSide, InBody, AddLabels, GetLabels, Crossed
<1>4. \/ i' = i /\ ("idle" \in Crossed <=> pc[t] \in Crossed)
      \/ pc[t] = "add_ok" /\ i' = [i EXCEPT ![t] = Succ(@)]
  BY <1>1, <1>3
<1>5. holder' = holder \/ (holder = t /\ holder' = NoThread)
  BY DEF Lock!Release
<1> QED
  BY <1>1, <1>2, <1>3, <1>4, <1>5 DEF Outer

(* Only the lock changes hands.                                              *)
LEMMA LockIsOuter ==
  ASSUME NEW s, NEW n, Queue(s, n), NEW t \in Threads, UNCHANGED queueVars,
         pc[t] \in Resting \ InBody, Lock!Acquire(t) \/ Lock!Release(t)
  PROVE  Outer(t, pc[t])
<1>1. UNCHANGED <<list, numbers, pc, ptr, next, reg, val, i, fault>>
  BY DEF queueVars, locals, clients
<1>2. /\ pc' = [pc EXCEPT ![t] = pc[t]]
      /\ pc[t] \in AddSide => t \in Writers
      /\ pc[t] \in GetSide => t \in Readers
  BY <1>1 DEF Queue, Placed
<1> QED
  BY <1>1, <1>2 DEF Outer, Queue, Typed, Lock!Acquire, Lock!Release
-----------------------------------------------------------------------------
(* The body of queue_add and queue_get is the same in src/2.2a and 2.2e.     *)
LEMMA SameLockedBody ==
  ASSUME NEW t \in Threads
  PROVE  /\ Spinlock!AddBody(t) \/ Spinlock!GetBody(t) => Body(t)
         /\ Mutex!AddBody(t) \/ Mutex!GetBody(t) => Body(t)
<1>1. Spinlock!AddBody(t) \/ Spinlock!GetBody(t) => Body(t)
  BY DEF
    Spinlock!AddBody, Spinlock!GetBody, Spinlock!AddAssert, Spinlock!AddTest, Spinlock!AddMalloc,
    Spinlock!AddLink, Spinlock!AddFirst, Spinlock!AddAppend, Spinlock!AddAdvance,
    Spinlock!AddLoad, Spinlock!AddStore, Spinlock!GetAssert, Spinlock!GetTest, Spinlock!GetRead,
    Spinlock!GetUnlink, Spinlock!GetFree, Spinlock!GetLoad, Spinlock!GetStore, Spinlock!Go,
    Spinlock!Die, Spinlock!Blank, Spinlock!list, Spinlock!numbers, Spinlock!locals,
    Spinlock!clients, AddBody, GetBody, AddAssert, AddTest, AddMalloc, AddLink, AddFirst,
    AddAppend, AddAdvance, AddLoad, AddStore, GetAssert, GetTest, GetRead, GetUnlink, GetFree,
    GetLoad, GetStore, Go, Die, Blank, list, numbers, locals, clients, Body
<1>2. Mutex!AddBody(t) \/ Mutex!GetBody(t) => Body(t)
  BY DEF
    Mutex!AddBody, Mutex!GetBody, Mutex!AddAssert, Mutex!AddTest, Mutex!AddMalloc, Mutex!AddLink,
    Mutex!AddFirst, Mutex!AddAppend, Mutex!AddAdvance, Mutex!AddLoad, Mutex!AddStore,
    Mutex!GetAssert, Mutex!GetTest, Mutex!GetRead, Mutex!GetUnlink, Mutex!GetFree, Mutex!GetLoad,
    Mutex!GetStore, Mutex!Go, Mutex!Die, Mutex!Blank, Mutex!list, Mutex!numbers, Mutex!locals,
    Mutex!clients, AddBody, GetBody, AddAssert, AddTest, AddMalloc, AddLink, AddFirst, AddAppend,
    AddAdvance, AddLoad, AddStore, GetAssert, GetTest, GetRead, GetUnlink, GetFree, GetLoad,
    GetStore, Go, Die, Blank, list, numbers, locals, clients, Body
<1> QED
  BY <1>1, <1>2

(* The loops are the same in all four.                                       *)
LEMMA SameLoops ==
  ASSUME NEW t \in Threads
  PROVE  /\ Spinlock!Return(t) \/ Mutex!Return(t) \/ Cond!Return(t) \/ Sem!Return(t) => Return(t)
         /\ \A l : Spinlock!Call(t, l) \/ Mutex!Call(t, l) \/ Cond!Call(t, l) \/ Sem!Call(t, l)
                     => Call(t, l)
         /\ UNCHANGED Cond!queueVars \/ UNCHANGED Sem!queueVars => UNCHANGED queueVars
<1>1. Spinlock!Return(t) => Return(t)
  BY DEF
    Spinlock!Return, Spinlock!WriterReturn, Spinlock!ReaderReturn, Spinlock!LeaveScope,
    Spinlock!Go, Spinlock!Succ, Spinlock!list, Spinlock!numbers, Spinlock!locals,
    Spinlock!clients, Return, WriterReturn, ReaderReturn, LeaveScope, Go, Succ, list, numbers,
    locals, clients
<1>2. Mutex!Return(t) => Return(t)
  BY DEF
    Mutex!Return, Mutex!WriterReturn, Mutex!ReaderReturn, Mutex!LeaveScope, Mutex!Go, Mutex!Succ,
    Mutex!list, Mutex!numbers, Mutex!locals, Mutex!clients, Return, WriterReturn, ReaderReturn,
    LeaveScope, Go, Succ, list, numbers, locals, clients
<1>3. Cond!Return(t) => Return(t)
  BY DEF
    Cond!Return, Cond!WriterReturn, Cond!ReaderReturn, Cond!LeaveScope, Cond!Go, Cond!Succ,
    Cond!list, Cond!numbers, Cond!locals, Cond!clients, Return, WriterReturn, ReaderReturn,
    LeaveScope, Go, Succ, list, numbers, locals, clients
<1>4. Sem!Return(t) => Return(t)
  BY DEF
    Sem!Return, Sem!WriterReturn, Sem!ReaderReturn, Sem!LeaveScope, Sem!Go, Sem!Succ, Sem!list,
    Sem!numbers, Sem!locals, Sem!clients, Return, WriterReturn, ReaderReturn, LeaveScope, Go,
    Succ, list, numbers, locals, clients
<1>5. \A l : Spinlock!Call(t, l) => Call(t, l)
  BY DEF
    Spinlock!Call, Spinlock!Go, Spinlock!list, Spinlock!numbers, Spinlock!locals,
    Spinlock!clients, Call, Go, list, numbers, locals, clients
<1>6. \A l : Mutex!Call(t, l) => Call(t, l)
  BY DEF
    Mutex!Call, Mutex!Go, Mutex!list, Mutex!numbers, Mutex!locals, Mutex!clients, Call, Go, list,
    numbers, locals, clients
<1>7. \A l : Cond!Call(t, l) => Call(t, l)
  BY DEF
    Cond!Call, Cond!Go, Cond!list, Cond!numbers, Cond!locals, Cond!clients, Call, Go, list,
    numbers, locals, clients
<1>8. \A l : Sem!Call(t, l) => Call(t, l)
  BY DEF
    Sem!Call, Sem!Go, Sem!list, Sem!numbers, Sem!locals, Sem!clients, Call, Go, list, numbers,
    locals, clients
<1>9. UNCHANGED Cond!queueVars \/ UNCHANGED Sem!queueVars => UNCHANGED queueVars
  BY DEF
    Cond!queueVars, Cond!list, Cond!numbers, Cond!locals, Cond!clients, Sem!queueVars, Sem!list,
    Sem!numbers, Sem!locals, Sem!clients, queueVars, list, numbers, locals, clients
<1> QED
  BY <1>1, <1>2, <1>3, <1>4, <1>5, <1>6, <1>7, <1>8, <1>9

(* What a thread does in any of the four: a step of the body, a step towards *)
(* it, the return from it, or to take or release the lock in its place.      *)
Towards == {"add_wait", "add_lock", "add_assert", "get_wait", "get_lock", "get_assert", "get_test"}

GoesOn(t, l) ==
  /\ l \in Towards /\ Call(t, l)
  /\ pc[t] \in {"idle", "add_wait", "get_wait", "add_lock", "get_lock"}
  /\ \/ l \in AddSide /\ (t \in Writers \/ pc[t] \in AddSide)
     \/ l \in GetSide /\ (t \in Readers \/ pc[t] \in GetSide)
  /\ UNCHANGED holder \/ Lock!Acquire(t)
  /\ l \in InBody => holder' = t

Around(t) ==
  \/ Body(t) /\ UNCHANGED holder
  \/ Return(t) /\ (UNCHANGED holder \/ Lock!Release(t))
  \/ \E l : GoesOn(t, l)
  \/ /\ UNCHANGED queueVars /\ pc[t] \in Resting \ InBody
     /\ Lock!Acquire(t) \/ Lock!Release(t)
  \/ UNCHANGED queueVars /\ UNCHANGED holder

(* What leaves queue and lock alone keeps everything.                        *)
LEMMA StillStep ==
  ASSUME NEW s, NEW n, Queue(s, n), UNCHANGED queueVars, UNCHANGED holder
  PROVE  /\ Queue(s, n)'
         /\ FifoMove(Waiting(Doing, s, n, node), Waiting(Doing, s, n, node)')
<1>1. UNCHANGED <<first, last, node, heap, count, balance, pc, ptr, next, reg, val, i, fault>>
  BY DEF queueVars, list, numbers, locals, clients
<1>2. Queue(s, n)' /\ Sent' = Sent /\ val' = val /\ Taking = {}
  BY <1>1 DEF Queue, Typed, Placed, Doing, Sent, Taking
<1>3. Waiting(Doing, s, n, node)' = Waiting(Doing, s, n, node)
  BY <1>1 DEF Waiting, Doing
<1> QED
  BY <1>2, <1>3 DEF FifoMove

(* All of it keeps the list, and is a step of BoundedFifo or none.           *)
LEMMA AroundStep ==
  ASSUME NEW s, NEW n, Queue(s, n), NEW t \in Threads, Around(t)
  PROVE  \E s2, n2 : /\ Queue(s2, n2)'
                     /\ FifoMove(Waiting(Doing, s, n, node), Waiting(Doing, s2, n2, node)')
<1>1. CASE Body(t) /\ UNCHANGED holder
  BY <1>1, BodyStep
<1>2. CASE Return(t) /\ (UNCHANGED holder \/ Lock!Release(t))
  BY <1>2, ReturnIsOuter, OuterStep
<1>3. ASSUME NEW l, GoesOn(t, l) PROVE Outer(t, l)
  <2>1. {l, pc[t]} \subseteq Resting \ {"add_ok"}
    BY <1>3 DEF Towards, Resting, GoesOn
  <2>2. l \in AddSide => l \notin GetSide
    BY DEF AddSide, GetSide, AddLabels, GetLabels
  <2>3. (l \in AddSide => t \in Writers) /\ (l \in GetSide => t \in Readers)
    BY <1>3, <2>2 DEF Queue, Placed, GoesOn
  <2> QED
    BY <1>3, <2>1, <2>3, CallIsOuter DEF GoesOn
<1>4. CASE /\ UNCHANGED queueVars /\ pc[t] \in Resting \ InBody
           /\ Lock!Acquire(t) \/ Lock!Release(t)
  BY <1>4, LockIsOuter, OuterStep
<1>5. CASE UNCHANGED queueVars /\ UNCHANGED holder
  BY <1>5, StillStep
<1> QED
  BY <1>1, <1>2, <1>3, <1>4, <1>5, OuterStep DEF Around

(* Where Towards lies.                                                       *)
LEMMA TowardsSides ==
  /\ {"add_wait", "add_lock", "add_assert"} \subseteq Towards \cap AddSide
  /\ {"get_wait", "get_lock", "get_assert", "get_test"} \subseteq Towards \cap GetSide
  /\ InBody \cap {"add_wait", "get_wait", "add_lock", "get_lock", "add_ok", "get_ok"} = {}
BY DEF Towards, AddSide, GetSide, InBody, AddLabels, GetLabels

(* src/2.2a does nothing else. *)
LEMMA SpinlockAround == ASSUME NEW t \in Threads, Spinlock!Step(t) PROVE Around(t)
<1>1. CASE Spinlock!LockAdd(t)
  <2>1. /\ pc[t] = "idle" /\ t \in Writers /\ Call(t, "add_assert")
        /\ Lock!Acquire(t) /\ holder' = t
    BY <1>1, SameLoops DEF Spinlock!LockAdd, Spinlock!Lock!Acquire, Lock!Acquire
  <2>2. GoesOn(t, "add_assert")
    BY <2>1, TowardsSides DEF GoesOn
  <2> QED
    BY <2>2 DEF Around
<1>2. CASE Spinlock!LockGet(t)
  <2>1. /\ pc[t] = "idle" /\ t \in Readers
        /\ Call(t, "get_assert") \/ Call(t, "get_test")
        /\ Lock!Acquire(t) /\ holder' = t
    BY <1>2, SameLoops DEF Spinlock!LockGet, Spinlock!Lock!Acquire, Lock!Acquire
  <2>2. GoesOn(t, "get_assert") \/ GoesOn(t, "get_test")
    BY <2>1, TowardsSides DEF GoesOn
  <2> QED
    BY <2>2 DEF Around
<1>3. CASE (Spinlock!AddBody(t) \/ Spinlock!GetBody(t)) /\ UNCHANGED holder
  BY <1>3, SameLockedBody DEF Around
<1>4. CASE Spinlock!Unlock(t)
  BY <1>4, SameLoops DEF Spinlock!Unlock, Spinlock!Lock!Release, Lock!Release, Around
<1> QED
  BY <1>1, <1>2, <1>3, <1>4 DEF Spinlock!Step, Spinlock!QueueAdd, Spinlock!QueueGet

(* src/2.2e does nothing else. *)
LEMMA MutexAround == ASSUME NEW t \in Threads, Mutex!Step(t) PROVE Around(t)
<1>1. CASE Mutex!LockAdd(t)
  <2>1. /\ pc[t] = "idle" /\ t \in Writers /\ Call(t, "add_assert")
        /\ Lock!Acquire(t) /\ holder' = t
    BY <1>1, SameLoops DEF Mutex!LockAdd, Mutex!Lock!Acquire, Lock!Acquire
  <2>2. GoesOn(t, "add_assert")
    BY <2>1, TowardsSides DEF GoesOn
  <2> QED
    BY <2>2 DEF Around
<1>2. CASE Mutex!LockGet(t)
  <2>1. /\ pc[t] = "idle" /\ t \in Readers
        /\ Call(t, "get_assert") \/ Call(t, "get_test")
        /\ Lock!Acquire(t) /\ holder' = t
    BY <1>2, SameLoops DEF Mutex!LockGet, Mutex!Lock!Acquire, Lock!Acquire
  <2>2. GoesOn(t, "get_assert") \/ GoesOn(t, "get_test")
    BY <2>1, TowardsSides DEF GoesOn
  <2> QED
    BY <2>2 DEF Around
<1>3. CASE (Mutex!AddBody(t) \/ Mutex!GetBody(t)) /\ UNCHANGED holder
  BY <1>3, SameLockedBody DEF Around
<1>4. CASE Mutex!Unlock(t)
  BY <1>4, SameLoops DEF Mutex!Unlock, Mutex!Lock!Release, Lock!Release, Around
<1> QED
  BY <1>1, <1>2, <1>3, <1>4 DEF Mutex!Step, Mutex!QueueAdd, Mutex!QueueGet

(* Nor does src/2.2f ...                                                     *)
LEMMA CondAround ==
  ASSUME NEW t \in Threads, Cond!Step(t) \/ Cond!SpuriousWakeup(t) PROVE Around(t)
<1>1. CASE Cond!LockMutex(t)
  <2>1. /\ Lock!Acquire(t) /\ holder' = t
        /\ \/ pc[t] = "idle" /\ t \in Writers /\ Call(t, "add_wait")
           \/ pc[t] = "idle" /\ t \in Readers /\ Call(t, "get_wait")
           \/ pc[t] \in {"add_wait", "get_wait"} /\ UNCHANGED queueVars
    BY <1>1, SameLoops DEF Cond!LockMutex, Cond!Lock!Acquire, Lock!Acquire
  <2>2. \/ GoesOn(t, "add_wait") \/ GoesOn(t, "get_wait")
        \/ pc[t] \in {"add_wait", "get_wait"} /\ UNCHANGED queueVars
    BY <2>1, TowardsSides DEF GoesOn
  <2>3. {"add_wait", "get_wait"} \subseteq Resting \ InBody
    BY TowardsSides DEF Resting
  <2> QED
    BY <2>1, <2>2, <2>3 DEF Around
<1>2. CASE Cond!AwaitNotFull(t)
  <2>1. /\ pc[t] = "add_wait" /\ holder = t
        /\ \/ Lock!Release(t) /\ UNCHANGED queueVars
           \/ Call(t, "add_assert") /\ UNCHANGED holder
    BY <1>2, SameLoops DEF Cond!AwaitNotFull, Cond!Lock!Release, Lock!Release, Cond!sync
  <2>2. GoesOn(t, "add_assert") \/ (Lock!Release(t) /\ UNCHANGED queueVars)
    BY <2>1, TowardsSides DEF GoesOn
  <2>3. "add_wait" \in Resting \ InBody
    BY TowardsSides DEF Resting
  <2> QED
    BY <2>1, <2>2, <2>3 DEF Around
<1>3. CASE Cond!AwaitNotEmpty(t)
  <2>1. /\ pc[t] = "get_wait" /\ holder = t
        /\ \/ Lock!Release(t) /\ UNCHANGED queueVars
           \/ Call(t, "get_assert") /\ UNCHANGED holder
    BY <1>3, SameLoops DEF Cond!AwaitNotEmpty, Cond!Lock!Release, Lock!Release, Cond!sync
  <2>2. GoesOn(t, "get_assert") \/ (Lock!Release(t) /\ UNCHANGED queueVars)
    BY <2>1, TowardsSides DEF GoesOn
  <2>3. "get_wait" \in Resting \ InBody
    BY TowardsSides DEF Resting
  <2> QED
    BY <2>1, <2>2, <2>3 DEF Around
<1>4. CASE (Cond!AddBody(t) \/ Cond!GetBody(t)) /\ UNCHANGED Cond!sync
  BY <1>4, SameBody DEF Around, Cond!sync
<1>5. CASE Cond!Unlock(t)
  BY <1>5, SameLoops DEF Cond!Unlock, Cond!Lock!Release, Lock!Release, Around
<1>6. CASE Cond!SpuriousWakeup(t)
  BY <1>6, SameLoops DEF Cond!SpuriousWakeup, Around
<1> QED
  BY <1>1, <1>2, <1>3, <1>4, <1>5, <1>6 DEF Cond!Step, Cond!QueueAdd, Cond!QueueGet

(* ... nor src/2.2g.                                                         *)
LEMMA SemAround == ASSUME NEW t \in Threads, Sem!Step(t) PROVE Around(t)
<1>1. CASE Sem!SemWait(t)
  <2>1. /\ pc[t] = "idle" /\ UNCHANGED holder
        /\ \/ t \in Writers /\ Call(t, "add_lock")
           \/ t \in Readers /\ Call(t, "get_lock")
    BY <1>1, SameLoops DEF Sem!SemWait
  <2>2. GoesOn(t, "add_lock") \/ GoesOn(t, "get_lock")
    BY <2>1, TowardsSides DEF GoesOn
  <2> QED
    BY <2>2 DEF Around
<1>2. CASE Sem!LockMutex(t)
  <2>1. /\ Lock!Acquire(t) /\ holder' = t
        /\ \/ pc[t] = "add_lock" /\ Call(t, "add_assert")
           \/ pc[t] = "get_lock" /\ Call(t, "get_assert")
    BY <1>2, SameLoops DEF Sem!LockMutex, Sem!Lock!Acquire, Lock!Acquire
  <2>2. GoesOn(t, "add_assert") \/ GoesOn(t, "get_assert")
    BY <2>1, TowardsSides DEF GoesOn
  <2> QED
    BY <2>2 DEF Around
<1>3. CASE Sem!Body(t) /\ UNCHANGED Sem!sync
  BY <1>3, SameBody DEF Around, Sem!sync
<1>4. CASE Sem!Unlock(t)
  <2>1. /\ Lock!Release(t)
        /\ \/ pc[t] \in {"add_ok", "get_ok"} /\ UNCHANGED queueVars
           \/ Return(t)
    BY <1>4, SameLoops DEF Sem!Unlock, Sem!Lock!Release, Lock!Release
  <2> QED
    BY <2>1, TowardsSides DEF Around, Resting
<1>5. CASE Sem!Post(t)
  BY <1>5, SameLoops DEF Sem!Post, Around
<1> QED
  BY <1>1, <1>2, <1>3, <1>4, <1>5 DEF Sem!Step
-----------------------------------------------------------------------------
(* Following the list with At visits its nodes, and then stays at NULL.      *)
LEMMA AtVisitsList ==
  ASSUME NEW s, NEW n, NEW f, NEW nd, Chain(s, n, f, nd), NEW walk,
         walk = CHOOSE a : a = [k \in Nat |->
           IF k = 0 THEN f ELSE IF a[k - 1] = NULL THEN NULL ELSE nd[a[k - 1]].next],
         NEW j \in Nat
  PROVE  walk[j] = IF j < n THEN s[j + 1] ELSE NULL
<1> DEFINE g == [k \in Nat |-> IF k < n THEN s[k + 1] ELSE NULL]
<1> DEFINE E(a, k) == IF k = 0 THEN f ELSE IF a[k - 1] = NULL THEN NULL ELSE nd[a[k - 1]].next
<1>1. /\ n \in Nat /\ s \in [1 .. n -> Node] /\ NULL \notin Node
      /\ f = IF n = 0 THEN NULL ELSE s[1]
      /\ \A k \in 1 .. n : nd[s[k]].next = IF k = n THEN NULL ELSE s[k + 1]
  BY QueueAssumption DEF Chain, IsList, NextOf
<1>2. ASSUME NEW k \in Nat, NEW a, a[k] = g[k] PROVE E(a, k + 1) = g[k + 1]
  <2>1. CASE k < n
    <3>1. k + 1 \in 1 .. n /\ a[k] = s[k + 1] /\ s[k + 1] # NULL
      BY <1>1, <1>2, <2>1
    <3> QED
      BY <1>1, <3>1
  <2>2. CASE ~(k < n)
    BY <1>1, <1>2, <2>2
  <2> QED
    BY <2>1, <2>2
<1>3. \A a : E(a, 0) = g[0]
  BY <1>1
<1>4. \A k \in Nat : g[k] = E(g, k)
  <2> TAKE k \in Nat
  <2> HIDE DEF E, g
  <2>1. k # 0 => k - 1 \in Nat /\ (k - 1) + 1 = k
    OBVIOUS
  <2> QED
    BY <1>2, <1>3, <2>1
<1>5. g = [k \in Nat |-> E(g, k)]
  BY <1>4
<1>6. walk = [k \in Nat |-> E(walk, k)]
  BY <1>5
<1>7. \A k \in Nat : walk[k] = E(walk, k)
  <2> HIDE DEF E, g
  <2> QED
    BY <1>6
<1> DEFINE T == {k \in Nat : walk[k] = g[k]}
<1>8. 0 \in T
  BY <1>3, <1>7
<1>9. ASSUME NEW k \in Nat, k \in T PROVE k + 1 \in T
  <2> HIDE DEF E, g
  <2> QED
    BY <1>2, <1>7, <1>9
<1> HIDE DEF T
<1>10. j \in T
  BY <1>8, <1>9, SetInduction
<1> QED
  BY <1>10 DEF T

SizeOf(walk) == Cardinality({k \in 0 .. Cardinality(Node) : walk[k] # NULL})

ItemsOf(walk, nd, taken) ==
  LET values == [k \in 1 .. SizeOf(walk) |-> nd[walk[k - 1]].val]
  IN IF taken THEN Tail(values) ELSE values

(* The length of such a walk, and the values on it.                          *)
LEMMA WalkRead ==
  ASSUME NEW s, NEW n, n <= MaxCount, NEW f, NEW nd \in Contents, Chain(s, n, f, nd), NEW walk,
         \A j \in Nat : walk[j] = IF j < n THEN s[j + 1] ELSE NULL,
         NEW w, w = "get_unlink" => n > 0
  PROVE  SizeOf(walk) = n /\ ItemsOf(walk, nd, w = "get_unlink") = Waiting(w, s, n, nd)
<1> DEFINE C == Cardinality(Node)
<1>1. /\ n \in Nat /\ C \in Nat /\ n <= C /\ s \in [1 .. n -> Node] /\ NULL \notin Node
  <2>1. C \in Nat /\ MaxCount \in Nat /\ MaxCount <= C
    BY BlocksAssumption, QueueAssumption, FS_CardinalityType
  <2>2. n \in Nat /\ s \in [1 .. n -> Node] /\ NULL \notin Node
    BY QueueAssumption DEF Chain, IsList
  <2> HIDE DEF C
  <2> QED
    BY <2>1, <2>2
<1>2. {k \in 0 .. C : walk[k] # NULL} = 0 .. n - 1
  <2> HIDE DEF C
  <2>1. ASSUME NEW k \in 0 .. C, walk[k] # NULL PROVE k \in 0 .. n - 1
    BY <1>1, <2>1
  <2>2. ASSUME NEW k \in 0 .. n - 1 PROVE k \in 0 .. C /\ walk[k] # NULL
    <3>1. k \in Nat /\ k < n /\ k + 1 \in 1 .. n
      BY <1>1
    <3> QED
      BY <1>1, <3>1
  <2> QED
    BY <2>1, <2>2
<1>3. Cardinality(0 .. n - 1) = n
  <2>1. Cardinality(0 .. n - 1) = IF 0 > n - 1 THEN 0 ELSE (n - 1) - 0 + 1
    BY <1>1, FS_Interval
  <2> QED
    BY <1>1, <2>1
<1>4. SizeOf(walk) = n
  BY <1>2, <1>3 DEF SizeOf
<1> DEFINE values == [k \in 1 .. n |-> nd[s[k]].val]
<1>5. \A k \in 1 .. n : walk[k - 1] = s[k]
  BY <1>1
<1>6. ItemsOf(walk, nd, w = "get_unlink") = IF w = "get_unlink" THEN Tail(values) ELSE values
  BY <1>4, <1>5 DEF ItemsOf
<1>7. CASE w # "get_unlink"
  BY <1>4, <1>6, <1>7 DEF Waiting
<1>8. CASE w = "get_unlink"
  <2> DEFINE b == [k \in 1 .. n - 1 |-> values[k + 1]]
  <2>1. values \in [1 .. n -> Values]
    BY <1>1 DEF Contents
  <2>2. n # 0 /\ n \in Nat
    BY <1>1, <1>8
  <2>3. b = [k \in 1 .. n - 1 |-> nd[s[k + 1]].val]
    <3>1. \A k \in 1 .. n - 1 : k + 1 \in 1 .. n
      BY <1>1
    <3> QED
      BY <3>1
  <2> HIDE DEF values
  <2>4. b = Tail(values)
    BY <2>1, <2>2, TakenFrom
  <2> QED
    BY <1>4, <1>6, <1>8, <2>3, <2>4 DEF Waiting
<1> QED
  BY <1>4, <1>7, <1>8

(* Only the holder of the lock is in the body.                               *)
LEMMA InBodyIs ==
  ASSUME NEW s, NEW n, Queue(s, n), NEW S, S \subseteq InBody
  PROVE  ThreadsAt(S) = IF Doing \in S THEN {holder} ELSE {}
BY DEF Queue, Placed, ThreadsAt, Doing, InBody, AddLabels, GetLabels

(* What At, Size and Items are, in one state and in the next.                *)
LEMMA ItemsRead ==
  /\ \A s, n : Queue(s, n) =>
       /\ \A j \in Nat : At[j] = IF j < n THEN s[j + 1] ELSE NULL
       /\ Size = n /\ Items = Waiting(Doing, s, n, node)
  /\ \A s, n : Queue(s, n)' => Items' = Waiting(Doing, s, n, node)'
<1> DEFINE W(f, nd) == CHOOSE a : a = [k \in Nat |->
             IF k = 0 THEN f ELSE IF a[k - 1] = NULL THEN NULL ELSE nd[a[k - 1]].next]
<1>1. At = W(first, node) /\ At' = W(first', node')
  BY DEF At
<1>2. /\ Size = SizeOf(At)
      /\ Items = ItemsOf(At, node, ThreadsAt({"get_unlink"}) # {})
      /\ Items' = ItemsOf(At', node', ThreadsAt({"get_unlink"})' # {})
  BY DEF Size, SizeOf, Items, ItemsOf
<1>3. ASSUME NEW s, NEW n, NEW f, NEW nd \in Contents, Chain(s, n, f, nd), n <= MaxCount,
             NEW w, w = "get_unlink" => n > 0
      PROVE  /\ \A j \in Nat : W(f, nd)[j] = IF j < n THEN s[j + 1] ELSE NULL
             /\ SizeOf(W(f, nd)) = n
             /\ ItemsOf(W(f, nd), nd, w = "get_unlink") = Waiting(w, s, n, nd)
  <2>1. PICK walk : walk = W(f, nd)
    OBVIOUS
  <2>2. \A j \in Nat : walk[j] = IF j < n THEN s[j + 1] ELSE NULL
    BY <1>3, <2>1, AtVisitsList
  <2> HIDE DEF W
  <2>3. SizeOf(walk) = n /\ ItemsOf(walk, nd, w = "get_unlink") = Waiting(w, s, n, nd)
    BY <1>3, <2>2, WalkRead
  <2> QED
    BY <2>1, <2>2, <2>3
<1> HIDE DEF W
<1>4. ASSUME NEW s, NEW n, Queue(s, n)
      PROVE  /\ \A j \in Nat : At[j] = IF j < n THEN s[j + 1] ELSE NULL
             /\ Size = n /\ Items = Waiting(Doing, s, n, node)
  <2>1. /\ node \in Contents /\ Chain(s, n, first, node) /\ n <= MaxCount
        /\ Doing = "get_unlink" => n > 0
    BY <1>4 DEF Queue, Typed, Work
  <2>2. ThreadsAt({"get_unlink"}) # {} <=> Doing = "get_unlink"
    BY <1>4, InBodyIs DEF InBody, GetLabels
  <2>3. /\ \A j \in Nat : W(first, node)[j] = IF j < n THEN s[j + 1] ELSE NULL
        /\ SizeOf(W(first, node)) = n
        /\ ItemsOf(W(first, node), node, Doing = "get_unlink") = Waiting(Doing, s, n, node)
    BY <1>3, <2>1
  <2>4. Items = ItemsOf(W(first, node), node, Doing = "get_unlink")
    <3>1. (ThreadsAt({"get_unlink"}) # {}) = (Doing = "get_unlink")
      BY <2>2
    <3> QED
      BY <1>1, <1>2, <3>1
  <2> QED
    BY <1>1, <1>2, <2>3, <2>4
<1>5. ASSUME NEW s, NEW n, Queue(s, n)' PROVE Items' = Waiting(Doing, s, n, node)'
  <2>1. /\ node' \in Contents /\ Chain(s, n, first', node') /\ n <= MaxCount
        /\ Doing' = "get_unlink" => n > 0
    BY <1>5 DEF Queue, Typed, Work
  <2>2. (ThreadsAt({"get_unlink"})' # {}) = (Doing' = "get_unlink")
    BY <1>5 DEF Queue, Placed, ThreadsAt, Doing, InBody, GetLabels
  <2>3. ItemsOf(W(first', node'), node', Doing' = "get_unlink") = Waiting(Doing', s, n, node')
    BY <1>3, <2>1
  <2>4. Items' = ItemsOf(W(first', node'), node', Doing' = "get_unlink")
    BY <1>1, <1>2, <2>2
  <2>5. Waiting(Doing, s, n, node)' = Waiting(Doing', s, n, node')
    BY DEF Waiting
  <2> QED
    BY <2>3, <2>4, <2>5
<1> QED
  BY <1>4, <1>5
-----------------------------------------------------------------------------
(* One writer and one reader.                                                *)

(* A step of the program: of a thread that uses the queue, or of one that    *)
(* does not.                                                                 *)
AnyStep == (UNCHANGED queueVars /\ UNCHANGED holder) \/ \E t \in Threads : Around(t)

LEMMA AnyStepMoves ==
  ASSUME NEW s, NEW n, Queue(s, n), AnyStep
  PROVE  \E s2, n2 : Queue(s2, n2)' /\ FifoMove(Items, Items')
<1>1. PICK s2, n2 : /\ Queue(s2, n2)'
                    /\ FifoMove(Waiting(Doing, s, n, node), Waiting(Doing, s2, n2, node)')
  BY AroundStep, StillStep DEF AnyStep
<1>2. Items = Waiting(Doing, s, n, node) /\ Items' = Waiting(Doing, s2, n2, node)'
  BY <1>1, ItemsRead
<1> QED
  BY <1>1, <1>2

(* The values a begin with v, each follows the one before, and u comes next. *)
Follow(v, a, u) ==
  /\ \A k \in 1 .. Len(a) - 1 : a[k + 1] = Succ(a[k])
  /\ a = <<>> => u = v
  /\ a # <<>> => a[1] = v /\ u = Succ(a[Len(a)])

LEMMA FollowLonger ==
  ASSUME NEW v, NEW a \in Seq(Values), NEW u \in Values, Follow(v, a, u)
  PROVE  Follow(v, Append(a, u), Succ(u))
<1> DEFINE b == Append(a, u)
<1>1. /\ Len(b) = Len(a) + 1 /\ b[Len(a) + 1] = u /\ Len(a) \in Nat
      /\ \A k \in 1 .. Len(a) : b[k] = a[k]
      /\ a = <<>> <=> Len(a) = 0
  BY AppendProperties, LenProperties, EmptySeq
<1>2. b # <<>>
  BY <1>1, EmptySeq
<1> HIDE DEF b
<1>3. b[1] = v
  BY <1>1 DEF Follow
<1>4. ASSUME NEW k \in 1 .. Len(b) - 1 PROVE b[k + 1] = Succ(b[k])
  <2>1. CASE k = Len(a)
    BY <1>1, <1>4, <2>1 DEF Follow
  <2>2. CASE k # Len(a)
    <3>1. k \in 1 .. Len(a) - 1 /\ k \in 1 .. Len(a) /\ k + 1 \in 1 .. Len(a)
      BY <1>1, <1>4, <2>2
    <3> QED
      BY <1>1, <3>1 DEF Follow
  <2> QED
    BY <2>1, <2>2
<1>5. Follow(v, b, Succ(u))
  BY <1>1, <1>2, <1>3, <1>4 DEF Follow
<1> QED
  BY <1>5 DEF b

LEMMA FollowShorter ==
  ASSUME NEW v, NEW a \in Seq(Values), NEW u, Follow(v, a, u), a # <<>>
  PROVE  Head(a) = v /\ Follow(Succ(v), Tail(a), u)
<1> DEFINE b == Tail(a)
<1>1. /\ Len(b) = Len(a) - 1 /\ Len(a) \in Nat /\ Len(a) # 0 /\ Head(a) = a[1]
      /\ \A k \in 1 .. Len(a) - 1 : b[k] = a[k + 1]
      /\ b = <<>> <=> Len(b) = 0
  <2>1. /\ b \in Seq(Values) /\ Len(b) = Len(a) - 1
        /\ \A k \in 1 .. Len(b) : b[k] = a[k + 1]
    BY HeadTailProperties
  <2>2. Len(a) \in Nat \ {0} /\ Head(a) = a[1]
    BY EmptySeq
  <2>3. b = <<>> <=> Len(b) = 0
    BY <2>1, EmptySeq
  <2> HIDE DEF b
  <2> QED
    BY <2>1, <2>2, <2>3
<1> HIDE DEF b
<1>2. ASSUME NEW k \in 1 .. Len(b) - 1 PROVE b[k + 1] = Succ(b[k])
  <2>1. k \in 1 .. Len(a) - 1 /\ k + 1 \in 1 .. Len(a) - 1
    BY <1>1, <1>2
  <2>2. b[k] = a[k + 1] /\ b[k + 1] = a[(k + 1) + 1]
    BY <1>1, <2>1
  <2>3. a[(k + 1) + 1] = Succ(a[k + 1])
    BY <2>1 DEF Follow
  <2> QED
    BY <2>2, <2>3
<1>3. ASSUME b = <<>> PROVE u = Succ(v)
  <2>1. Len(a) = 1
    BY <1>1, <1>3
  <2> QED
    BY <2>1 DEF Follow
<1>4. ASSUME b # <<>> PROVE b[1] = Succ(v) /\ u = Succ(b[Len(b)])
  <2>1. 1 \in 1 .. Len(a) - 1 /\ Len(b) \in 1 .. Len(a) - 1 /\ Len(b) + 1 = Len(a)
    BY <1>1, <1>4
  <2>2. b[1] = a[1 + 1] /\ b[Len(b)] = a[Len(a)]
    BY <1>1, <2>1
  <2>3. a[1 + 1] = Succ(a[1]) /\ a[1] = v /\ u = Succ(a[Len(a)])
    BY <2>1 DEF Follow
  <2> QED
    BY <2>2, <2>3
<1>5. Follow(Succ(v), b, u)
  BY <1>2, <1>3, <1>4 DEF Follow
<1> QED
  BY <1>1, <1>5 DEF b, Follow

(* A reader that has a value it has not compared yet.                        *)
Took == {"get_unlink", "get_free", "get_load", "get_store", "get_ok"}

(* The value the reader is to take next.                                     *)
Due(r) == IF pc[r] \in Took THEN Succ(val[r]) ELSE expected[r]

(* From the value the reader is to take to the one the writer is to add all  *)
(* values follow one another, the waiting ones in between.                   *)
Ordered(w, r) ==
  /\ expected \in [Readers -> Values] /\ ~misordered
  /\ pc[r] \in Took => val[r] = expected[r]
  /\ Follow(Due(r), Items, Sent[w])

(* Where the reader's value is, and what becomes of what it expects.         *)
ReaderStays(r) ==
  /\ expected' = expected /\ (misordered' => misordered)
  /\ pc'[r] \in Took <=> pc[r] \in Took \/ r \in Taking

ReaderCompares(r) ==
  /\ pc[r] = "get_ok" /\ pc'[r] = "idle"
  /\ misordered' = (misordered \/ expected[r] # val[r])
  /\ expected' = [expected EXCEPT ![r] = Succ(val[r])]

(* A step of t to l that leaves alone what the reader expects.               *)
LEMMA ReaderStaysAt ==
  ASSUME Placed, NEW r \in Readers, NEW t \in Threads, NEW l,
         pc' = [pc EXCEPT ![t] = l], expected' = expected, misordered' => misordered,
         \/ l \notin Took /\ pc[t] \notin Took
         \/ l \in Took /\ (pc[t] \in Took \/ (l = "get_unlink" /\ pc[t] = "get_read"))
  PROVE  ReaderStays(r)
<1>1. r \in Threads
  BY DEF Threads
<1>2. CASE r # t
  BY <1>1, <1>2 DEF Placed, ReaderStays, Taking, Took
<1>3. CASE r = t
  <2>1. pc'[r] = l
    BY <1>1, <1>3 DEF Placed
  <2> QED
    BY <1>3, <2>1 DEF ReaderStays, Taking, Took
<1> QED
  BY <1>2, <1>3

LEMMA BodyReads ==
  ASSUME Placed, NEW r \in Readers, NEW t \in Threads, Body(t) PROVE ReaderStays(r)
<1>0. expected' = expected /\ (misordered' => misordered)
  BY DEF Body, AddBody, GetBody, AddAssert, AddTest, AddMalloc, AddLink, AddFirst, AddAppend,
     AddAdvance, AddLoad, AddStore, GetAssert, GetTest, GetRead, GetUnlink, GetFree, GetLoad,
     GetStore, clients
<1>1. CASE UNCHANGED pc
  BY <1>0, <1>1 DEF ReaderStays, Taking
<1>2. ASSUME NEW l, pc' = [pc EXCEPT ![t] = l], {l, pc[t]} \subseteq AddLabels PROVE ReaderStays(r)
  <2>1. l \notin Took /\ pc[t] \notin Took
    BY <1>2 DEF AddLabels, Took
  <2> QED
    BY <1>0, <1>2, <2>1, ReaderStaysAt
<1>3. ASSUME NEW l, pc' = [pc EXCEPT ![t] = l],
             \/ {l, pc[t]} \subseteq {"get_assert", "get_test", "get_read", "get_empty"}
             \/ l = "get_unlink" /\ pc[t] = "get_read"
             \/ {l, pc[t]} \subseteq Took
      PROVE  ReaderStays(r)
  <2>1. CASE {l, pc[t]} \subseteq {"get_assert", "get_test", "get_read", "get_empty"}
    <3>1. l \notin Took /\ pc[t] \notin Took
      BY <2>1 DEF Took
    <3> QED
      BY <1>0, <1>3, <3>1, ReaderStaysAt
  <2>2. CASE {l, pc[t]} \subseteq Took \/ (l = "get_unlink" /\ pc[t] = "get_read")
    <3>1. l \in Took
      BY <2>2 DEF Took
    <3> QED
      BY <1>0, <1>3, <2>2, <3>1, ReaderStaysAt
  <2> QED
    BY <1>3, <2>1, <2>2
<1>4. AddBody(t) => UNCHANGED pc \/ \E l : pc' = [pc EXCEPT ![t] = l] /\ {l, pc[t]} \subseteq AddLabels
  BY DEF AddBody, AddAssert, AddTest, AddMalloc, AddLink, AddFirst, AddAppend, AddAdvance, AddLoad,
     AddStore, Go, Die, AddLabels
<1>5. GetBody(t) =>
        \/ UNCHANGED pc
        \/ \E l : /\ pc' = [pc EXCEPT ![t] = l]
                  /\ \/ {l, pc[t]} \subseteq {"get_assert", "get_test", "get_read", "get_empty"}
                     \/ l = "get_unlink" /\ pc[t] = "get_read"
                     \/ {l, pc[t]} \subseteq Took
  BY DEF GetBody, GetAssert, GetTest, GetRead, GetUnlink, GetFree, GetLoad, GetStore, Go, Die, Took
<1> QED
  BY <1>1, <1>2, <1>3, <1>4, <1>5 DEF Body

(* A step either moves the reader on or has it compare its value.            *)
LEMMA AroundReads ==
  ASSUME Placed, NEW r, Readers = {r}, NEW t \in Threads, Around(t)
  PROVE  ReaderStays(r) \/ ReaderCompares(r)
<1>0. r \in Readers
  OBVIOUS
<1>1. CASE Body(t)
  BY <1>0, <1>1, BodyReads
<1>2. CASE Return(t)
  <2>1. pc' = [pc EXCEPT ![t] = "idle"]
    BY <1>2 DEF Return, WriterReturn, ReaderReturn, LeaveScope, Go
  <2>2. CASE pc[t] = "get_ok"
    <3>1. t = r /\ pc'[t] = "idle"
      BY <2>1, <2>2 DEF Placed, GetSide, GetLabels
    <3> QED
      BY <1>2, <2>2, <3>1 DEF Return, ReaderReturn, ReaderCompares
  <2>3. CASE pc[t] # "get_ok"
    <3>1. pc[t] \in {"add_ok", "add_full", "get_empty"}
      BY <1>2, <2>3 DEF Return
    <3>2. pc[t] \notin Took /\ "idle" \notin Took
      BY <3>1 DEF Took
    <3>3. expected' = expected /\ (misordered' => misordered)
      <4>1. CASE pc[t] \in {"add_ok", "add_full"}
        BY <1>2, <4>1 DEF Return, WriterReturn
      <4>2. CASE pc[t] = "get_empty"
        <5>1. ReaderReturn(t, FALSE)
          BY <1>2, <4>2 DEF Return
        <5> QED
          BY <5>1 DEF ReaderReturn
      <4> QED
        BY <3>1, <4>1, <4>2
    <3> QED
      BY <1>0, <2>1, <3>2, <3>3, ReaderStaysAt
  <2> QED
    BY <2>2, <2>3
<1>3. ASSUME NEW l, GoesOn(t, l) PROVE ReaderStays(r)
  <2>1. l \notin Took /\ pc[t] \notin Took
    BY <1>3 DEF GoesOn, Towards, Took
  <2>2. pc' = [pc EXCEPT ![t] = l] /\ expected' = expected /\ (misordered' => misordered)
    BY <1>3 DEF GoesOn, Call, Go, clients
  <2> QED
    BY <1>0, <2>1, <2>2, ReaderStaysAt
<1>4. CASE UNCHANGED queueVars
  BY <1>4 DEF queueVars, clients, ReaderStays, Taking
<1> QED
  BY <1>1, <1>2, <1>3, <1>4 DEF Around

(* The values that wait, and the next of a writer, are values.               *)
LEMMA ItemsTyped ==
  ASSUME NEW s, NEW n, Queue(s, n)
  PROVE  Items \in Seq(Values) /\ \A w \in Writers : Sent[w] \in Values
<1>1. node \in Contents /\ Chain(s, n, first, node) /\ n \in Nat /\ i \in [Writers -> Values]
  BY DEF Queue, Typed, Work
<1>2. \A w \in Writers : Sent[w] \in Values
  BY <1>1, SuccTyped DEF Sent
<1>3. Items = Waiting(Doing, s, n, node)
  BY ItemsRead
<1>4. s \in [1 .. n -> Node] /\ \A k \in 1 .. n : node[s[k]].val \in Values
  BY <1>1 DEF Chain, IsList, Contents
<1>5. CASE Doing # "get_unlink"
  <2>1. Items \in [1 .. n -> Values]
    BY <1>3, <1>4, <1>5 DEF Waiting
  <2> QED
    BY <1>1, <1>2, <2>1
<1>6. CASE Doing = "get_unlink"
  <2>1. n > 0
    BY <1>6 DEF Queue, Work
  <2>2. n - 1 \in Nat /\ \A k \in 1 .. n - 1 : k + 1 \in 1 .. n
    BY <1>1, <2>1
  <2>3. Items = [k \in 1 .. n - 1 |-> node[s[k + 1]].val]
    BY <1>3, <1>6 DEF Waiting
  <2>4. Items \in [1 .. n - 1 -> Values]
    BY <1>4, <2>2, <2>3
  <2> QED
    BY <1>2, <2>2, <2>4
<1> QED
  BY <1>5, <1>6

(* What the reader gets is what it expects, at every step.                   *)
LEMMA OrderStep ==
  ASSUME NEW s, NEW n, Queue(s, n), NEW w, NEW r, Writers = {w}, Readers = {r},
         Ordered(w, r), AnyStep
  PROVE  Ordered(w, r)'
<1>0. /\ r \in Readers /\ r \in Threads /\ w \in Writers /\ Placed /\ val \in [Threads -> Values]
      /\ Items \in Seq(Values) /\ Sent[w] \in Values
  BY ItemsTyped DEF Queue, Typed, Threads
<1>1. FifoMove(Items, Items')
  BY AnyStepMoves
<1>2. ReaderStays(r) \/ ReaderCompares(r)
  <2>1. CASE \E t \in Threads : Around(t)
    BY <1>0, <2>1, AroundReads
  <2>2. CASE UNCHANGED queueVars
    BY <2>2 DEF queueVars, clients, ReaderStays, Taking
  <2> QED
    BY <2>1, <2>2 DEF AnyStep
<1>3. CASE r \in Taking
  <2>1. /\ Items # <<>> /\ val' = [val EXCEPT ![r] = Head(Items)]
        /\ Items' = Tail(Items) /\ Sent' = Sent
    BY <1>1, <1>3 DEF FifoMove, Taking
  <2>2. pc[r] = "get_read" /\ pc'[r] = "get_unlink" /\ "get_read" \notin Took /\ "get_unlink" \in Took
    BY <1>3 DEF Taking, Took
  <2>3. expected' = expected /\ (misordered' => misordered)
    BY <1>2, <2>2 DEF ReaderStays, ReaderCompares
  <2>4. Due(r) = expected[r] /\ Follow(expected[r], Items, Sent[w])
    BY <2>2 DEF Ordered, Due
  <2>5. Head(Items) = expected[r] /\ Follow(Succ(expected[r]), Tail(Items), Sent[w])
    BY <1>0, <2>1, <2>4, FollowShorter
  <2>6. val'[r] = expected[r]
    BY <1>0, <2>1, <2>5
  <2>7. Due(r)' = Succ(expected[r])
    BY <2>2, <2>6 DEF Due
  <2>8. Follow(Due(r)', Items', Sent'[w])
    BY <2>1, <2>5, <2>7
  <2> QED
    BY <2>3, <2>6, <2>8 DEF Ordered
<1>4. CASE r \notin Taking
  <2>1. /\ val' = val
        /\ \/ Items' = Items /\ Sent' = Sent
           \/ Items' = Append(Items, Sent[w]) /\ Sent' = [Sent EXCEPT ![w] = Succ(@)]
    BY <1>1, <1>4 DEF FifoMove, Taking
  <2>2. Sent'[w] = Sent[w] \/ Sent'[w] = Succ(Sent[w])
    BY <1>0, <2>1 DEF Sent
  <2>3. ASSUME Due(r)' = Due(r) PROVE Follow(Due(r)', Items', Sent'[w])
    <3>1. Follow(Due(r), Items, Sent[w])
      BY DEF Ordered
    <3>2. CASE Items' = Items /\ Sent' = Sent
      BY <2>3, <3>1, <3>2
    <3>3. CASE Items' = Append(Items, Sent[w]) /\ Sent' = [Sent EXCEPT ![w] = Succ(@)]
      <4>1. Sent'[w] = Succ(Sent[w])
        BY <1>0, <3>3 DEF Sent
      <4>2. Follow(Due(r), Append(Items, Sent[w]), Succ(Sent[w]))
        BY <1>0, <3>1, FollowLonger
      <4> QED
        BY <2>3, <3>3, <4>1, <4>2
    <3> QED
      BY <2>1, <3>2, <3>3
  <2>4. CASE ReaderStays(r)
    <3>1. /\ expected' = expected /\ (misordered' => misordered)
          /\ (pc'[r] \in Took) <=> (pc[r] \in Took)
      BY <1>4, <2>4 DEF ReaderStays
    <3>2. Due(r)' = Due(r)
      BY <2>1, <3>1 DEF Due
    <3> QED
      BY <2>1, <2>3, <3>1, <3>2 DEF Ordered
  <2>5. CASE ReaderCompares(r)
    <3>1. /\ pc[r] \in Took /\ pc'[r] \notin Took
          /\ misordered' = (misordered \/ expected[r] # val[r])
          /\ expected' = [expected EXCEPT ![r] = Succ(val[r])]
      BY <2>5 DEF ReaderCompares, Took
    <3>2. val[r] = expected[r] /\ ~misordered /\ expected \in [Readers -> Values]
      BY <3>1 DEF Ordered
    <3>3. Succ(val[r]) \in Values
      BY <1>0, SuccTyped
    <3>4. /\ expected' \in [Readers -> Values] /\ ~misordered'
          /\ expected'[r] = Succ(val[r])
      BY <1>0, <3>1, <3>2, <3>3
    <3>5. Due(r)' = Due(r)
      BY <3>1, <3>4 DEF Due
    <3> QED
      BY <2>3, <3>1, <3>4, <3>5 DEF Ordered
  <2> QED
    BY <1>2, <2>4, <2>5
<1> QED
  BY <1>3, <1>4
=============================================================================
