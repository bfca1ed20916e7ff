------------------------------- MODULE RwList -------------------------------
(***************************************************************************)
(* The list of src/2.3/main.c: a read-write lock for the links and a mutex *)
(* per node.  A counting thread finds its next pair under the read lock,   *)
(* locks the two nodes, gives the read lock back and compares; a swapping  *)
(* thread exchanges neighbours under the write lock and takes no node.     *)
(* The statistics and the comparison itself are left out.  The read-write  *)
(* lock is the C library's, which by default lets readers in whenever no   *)
(* writer holds it.                                                        *)
(***************************************************************************)
EXTENDS Naturals, FiniteSets

CONSTANTS Counters,  \* count_increasing, count_decreasing, count_equal
          Swappers,  \* the threads running swap_thread
          MaxSize,   \* bound: the list has at most this many nodes
          NULL,
          NoThread   \* nobody

Threads == Counters \cup Swappers
Node == 1 .. MaxSize

VARIABLES first, next,     \* s->first, node->next
          size,            \* s->size
          list_size,       \* how many nodes main is to make
          readers, writer, \* the holders of s->rwlock
          lock,            \* who holds node->sync
          pc,              \* where each thread is; "unborn" while main builds the list
          index,           \* current_index
          prev, curr       \* the pair of a counter

list == <<first, next, size, list_size>>
rwlock == <<readers, writer>>
pair == <<prev, curr>>
vars == <<list, rwlock, lock, pc, index, pair>>

Init ==
  /\ first = NULL
  /\ next = [n \in Node |-> NULL]
  /\ size = 0
  /\ list_size \in Node
  /\ readers = {} /\ writer = NoThread
  /\ lock = [n \in Node |-> NoThread]
  /\ pc = [t \in Threads |-> "unborn"]
  /\ index = [t \in Threads |-> 0]
  /\ prev = [t \in Threads |-> NULL]
  /\ curr = [t \in Threads |-> NULL]

Go(t, l) == pc' = [pc EXCEPT ![t] = l]

(* The k-th node of the list, counted from 0. *)
At[k \in Nat] ==
  IF k = 0 THEN first ELSE IF At[k - 1] = NULL THEN NULL ELSE next[At[k - 1]]
-----------------------------------------------------------------------------
(* main: storage_add, list_size times, and then the threads *)

StorageAdd ==
  /\ size < list_size
  /\ LET new == size + 1
     IN IF first = NULL
          THEN first' = new /\ UNCHANGED next
          ELSE next' = [next EXCEPT ![At[size - 1]] = new] /\ UNCHANGED first
  /\ size' = size + 1
  /\ UNCHANGED <<list_size, rwlock, lock, pc, index, pair>>

StartThreads ==
  /\ size = list_size
  /\ \A t \in Threads : pc[t] = "unborn"
  /\ pc' = [t \in Threads |-> "idle"]
  /\ UNCHANGED <<list, rwlock, lock, index, pair>>
-----------------------------------------------------------------------------
(* count_increasing, count_decreasing, count_equal *)

RdLock(t) ==
  /\ pc[t] = "idle" /\ t \in Counters
  /\ writer = NoThread
  /\ readers' = readers \cup {t}
  /\ Go(t, "find")
  /\ UNCHANGED <<list, writer, lock, index, pair>>

RdUnlock(t, l) == readers' = readers \ {t} /\ UNCHANGED writer /\ Go(t, l)

(* There is no pair to look for, or a pass is over. *)
NoPair(t) ==
  /\ pc[t] = "find" /\ (size < 2 \/ index[t] >= size - 1)
  /\ index' = IF size < 2 THEN index ELSE [index EXCEPT ![t] = 0]
  /\ RdUnlock(t, "idle")
  /\ UNCHANGED <<list, lock, pair>>

(* The walk from s->first to the pair. *)
FindPair(t) ==
  /\ pc[t] = "find" /\ size >= 2 /\ index[t] < size - 1
  /\ IF At[index[t]] = NULL \/ At[index[t] + 1] = NULL
       THEN /\ index' = [index EXCEPT ![t] = 0]
            /\ RdUnlock(t, "idle")
            /\ UNCHANGED pair
       ELSE /\ prev' = [prev EXCEPT ![t] = At[index[t]]]
            /\ curr' = [curr EXCEPT ![t] = At[index[t] + 1]]
            /\ Go(t, "lock_prev")
            /\ UNCHANGED <<rwlock, index>>
  /\ UNCHANGED <<list, lock>>

LockNode(t, n, l) ==
  /\ lock[n] = NoThread
  /\ lock' = [lock EXCEPT ![n] = t]
  /\ Go(t, l)
  /\ UNCHANGED <<list, rwlock, index, pair>>

LockPrev(t) == pc[t] = "lock_prev" /\ LockNode(t, prev[t], "lock_curr")

LockCurr(t) == pc[t] = "lock_curr" /\ LockNode(t, curr[t], "unlock_rw")

ReleaseList(t) ==
  /\ pc[t] = "unlock_rw"
  /\ RdUnlock(t, "compare")
  /\ UNCHANGED <<list, lock, index, pair>>

Compare(t) ==
  /\ pc[t] = "compare"
  /\ lock' = [lock EXCEPT ![prev[t]] = NoThread, ![curr[t]] = NoThread]
  /\ prev' = [prev EXCEPT ![t] = NULL]
  /\ curr' = [curr EXCEPT ![t] = NULL]
  /\ index' = [index EXCEPT ![t] = @ + 1]
  /\ Go(t, "idle")
  /\ UNCHANGED <<list, rwlock>>

Counter(t) ==
  \/ RdLock(t) \/ NoPair(t) \/ FindPair(t) \/ LockPrev(t) \/ LockCurr(t)
  \/ ReleaseList(t) \/ Compare(t)
-----------------------------------------------------------------------------
(* swap_thread *)

NextIndex(t) == [index EXCEPT ![t] = (@ + 1) % (IF size > 1 THEN size - 1 ELSE 1)]

(* rand_r decides whether to swap this time. *)
Decide(t) ==
  /\ pc[t] = "idle" /\ t \in Swappers
  /\ \/ index' = NextIndex(t) /\ UNCHANGED pc
     \/ Go(t, "wrlock") /\ UNCHANGED index
  /\ UNCHANGED <<list, rwlock, lock, pair>>

(* Mutant: swap_thread takes the list while others read it. *)
SwapAmongReaders(t) ==
  /\ pc[t] = "wrlock"
  /\ writer = NoThread
  /\ writer' = t
  /\ Go(t, IF size < 2 THEN "unlock" ELSE "swap")
  /\ UNCHANGED <<list, readers, lock, index, pair>>

WrLock(t) ==
  /\ pc[t] = "wrlock"
  /\ writer = NoThread /\ readers = {}
  /\ writer' = t
  /\ Go(t, IF size < 2 THEN "unlock" ELSE "swap")
  /\ UNCHANGED <<list, readers, lock, index, pair>>

(* Mutant: s->first is not moved when the first pair is exchanged. *)
SwapBehindHead(t) ==
  /\ pc[t] = "swap"
  /\ LET k == index[t] % (size - 1)
         node1 == At[k]
         node2 == At[k + 1]
         exchanged == [next EXCEPT ![node1] = next[node2], ![node2] = node1]
     IN next' = CASE node2 = NULL -> next
                  [] node2 # NULL /\ k = 0 -> exchanged
                  [] OTHER -> [exchanged EXCEPT ![At[k - 1]] = node2]
  /\ index' = NextIndex(t)
  /\ Go(t, "unlock")
  /\ UNCHANGED <<first, size, list_size, rwlock, lock, pair>>

(* Exchanges the nodes at k and k + 1, if the walk finds them. *)
SwapPair(t) ==
  /\ pc[t] = "swap"
  /\ LET k == index[t] % (size - 1)
         node1 == At[k]
         node2 == At[k + 1]
         exchanged == [next EXCEPT ![node1] = next[node2], ![node2] = node1]
     IN IF node2 = NULL
          THEN UNCHANGED <<first, next>>
          ELSE /\ first' = IF k = 0 THEN node2 ELSE first
               /\ next' = IF k = 0 THEN exchanged
                                   ELSE [exchanged EXCEPT ![At[k - 1]] = node2]
  /\ index' = NextIndex(t)
  /\ Go(t, "unlock")
  /\ UNCHANGED <<size, list_size, rwlock, lock, pair>>

WrUnlock(t) ==
  /\ pc[t] = "unlock"
  /\ writer' = NoThread
  /\ Go(t, "idle")
  /\ UNCHANGED <<list, readers, lock, index, pair>>

Swapper(t) == Decide(t) \/ WrLock(t) \/ SwapPair(t) \/ WrUnlock(t)

Next == StorageAdd \/ StartThreads \/ \E t \in Threads : Counter(t) \/ Swapper(t)

Spec == Init /\ [][Next]_vars
-----------------------------------------------------------------------------
(* Until a counter has locked both nodes of its pair they are neighbours on  *)
(* the list, although swaps take no node mutex.                              *)
PairIsCurrent ==
  \A t \in Counters :
    pc[t] \in {"lock_prev", "lock_curr", "unlock_rw"} => next[prev[t]] = curr[t]

(* The threads t waits for: holders of the node, or of the read-write lock. *)
WaitsFor(t) ==
  CASE pc[t] = "lock_prev" -> {lock[prev[t]]} \ {NoThread}
    [] pc[t] = "lock_curr" -> {lock[curr[t]]} \ {NoThread}
    [] pc[t] = "wrlock" -> readers \cup ({writer} \ {NoThread})
    [] pc[t] = "idle" /\ t \in Counters -> {writer} \ {NoThread}
    [] OTHER -> {}

(* No deadlock across the two kinds of lock: in every group of threads some  *)
(* thread waits for nobody in the group.                                     *)
NoWaitCycle ==
  \A group \in (SUBSET Threads) \ {{}} : \E t \in group : WaitsFor(t) \cap group = {}
=============================================================================
