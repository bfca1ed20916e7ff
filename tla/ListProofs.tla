----------------------------- MODULE ListProofs -----------------------------
(***************************************************************************)
(* The two lists of src/2.3, for any set of threads and any size.          *)
(*                                                                         *)
(* The first part is about main1.c, HandOverHand.  A link is only          *)
(* rewritten by the holder of the node it starts from, so what a thread    *)
(* has read from a node it still holds stays true whatever the others do.  *)
(* Placed says what that is at each label; with "a thread holds exactly    *)
(* the nodes it should" it is inductive.                                   *)
(*                                                                         *)
(* The second part is about main.c, RwList, here Rw: the list is always a  *)
(* sequence s of distinct nodes, on which nothing happens but appending    *)
(* and the exchange of neighbours, and the pair of a counter stands on it, *)
(* since a swapper is alone in the list.                                   *)
(*                                                                         *)
(* The third part takes both as MCLists puts them side by side, and shows  *)
(* that main.c's list, read along its links, implements SwappedList.       *)
(***************************************************************************)
EXTENDS MCLists, ListTheorems

(* Where the locals of thread t point, and which of them are neighbours.     *)
Placed(t) ==
  /\ pc[t] \in {"lock_first", "second", "peek", "choose"} => cur[t] \in Node
  /\ pc[t] \in {"lock_second", "lock_swap", "compare", "lock_next", "lock_pair", "swap_head",
                "relink", "choose_pair"} =>
       cur[t] \in Node /\ nxt[t] \in Node /\ next[cur[t]] = nxt[t]
  /\ pc[t] = "lock_second" => prev[t] = NULL
  /\ pc[t] \in {"lock_cur", "lock_pair", "choose_pair", "lock_next"} =>
       prev[t] \in Node /\ cur[t] \in Node /\ next[prev[t]] = cur[t]
  /\ pc[t] \in {"lock_next", "lock_pair", "end"} =>
       prev[t] \in Node /\ cur[t] \in Node /\ prev[t] # cur[t]
  /\ pc[t] \in {"compare", "choose_pair"} => prev[t] # cur[t] /\ prev[t] # nxt[t]
  /\ pc[t] \in {"compare", "choose_pair", "swap_head", "relink"} => cur[t] # nxt[t]

(* Thread t holds the nodes it should. *)
Mine(t) == \A n \in Node : lock[n] = t <=> n \in Held(t)

ListInv == TypeOK /\ \A t \in Threads : Mine(t) /\ Placed(t)

(* When the threads start no node is locked and the list runs from 1 to Size. *)
LEMMA ListInit == Init => ListInv
<1> SUFFICES ASSUME Init PROVE ListInv
  OBVIOUS
<1>1. TypeOK
  <2>1. 1 \in Node /\ \A n \in Node : n # Size => n + 1 \in Node
    BY ListAssumption DEF Node
  <2>2. next \in [Node -> Node \cup {NULL}]
    BY <2>1 DEF Init
  <2> QED
    BY <2>1, <2>2 DEF Init, TypeOK, Labels
<1>2. ASSUME NEW t \in Threads PROVE Mine(t) /\ Placed(t)
  BY ListAssumption
     DEF Init, Mine, Placed, Held, HoldsPrev, HoldsNext, HoldsCurrent
<1> QED
  BY <1>1, <1>2 DEF ListInv

(* A step of t alone: the other threads stay where they are and keep their   *)
(* nodes, and t rewrites links only at nodes it holds.                       *)
Alone(t) ==
  /\ \A u \in Threads \ {t} :
       /\ pc'[u] = pc[u] /\ prev'[u] = prev[u] /\ cur'[u] = cur[u] /\ nxt'[u] = nxt[u]
       /\ \A n \in Node : lock'[n] = u <=> lock[n] = u
  /\ \A n \in Node : lock[n] # t => next'[n] = next[n]

(* What the others rely on survives a step of t alone.                       *)
LEMMA OthersKept ==
  ASSUME ListInv, TypeOK', NEW t \in Threads, Mine(t)', Placed(t)', Alone(t)
  PROVE  ListInv'
<1>1. ASSUME NEW u \in Threads \ {t} PROVE Mine(u)'
  BY <1>1 DEF ListInv, Mine, Held, Alone
<1>2. ASSUME NEW u \in Threads \ {t} PROVE Placed(u)'
  <2>1. \A n \in Held(u) : next'[n] = next[n]
    BY <1>2 DEF ListInv, Mine, Held, Alone
  <2>2. /\ cur[u] \in Node /\ pc[u] \in HoldsCurrent => next'[cur[u]] = next[cur[u]]
        /\ prev[u] \in Node /\ pc[u] \in HoldsPrev => next'[prev[u]] = next[prev[u]]
    BY <2>1 DEF Held
  <2> QED
    BY <1>2, <2>2 DEF ListInv, Alone, Placed, HoldsCurrent, HoldsPrev, HoldsNext
<1> QED
  BY <1>1, <1>2 DEF ListInv

(* A step that does not concern any thread's nodes: only main's variables.   *)
LEMMA MainKeeps ==
  ASSUME ListInv, TypeOK', UNCHANGED <<list, lock, pc, locals>>
  PROVE  ListInv'
BY DEF ListInv, Mine, Placed, Held, HoldsPrev, HoldsNext, HoldsCurrent, list, locals
-----------------------------------------------------------------------------
(* Every step keeps the types: no pointer but a thread's cur, prev or nxt    *)
(* is followed, and those are nodes where they are followed.                 *)
LEMMA TypeStep == ListInv /\ [Next]_vars => TypeOK'
<1> SUFFICES ASSUME ListInv, [Next]_vars PROVE TypeOK'
  OBVIOUS
<1>0. TypeOK /\ NULL \notin Node /\ NoThread \notin Threads
  BY ListAssumption DEF ListInv
<1> USE DEF Go, Point, Unlock, LockNode, Restart, list, locals, process, Labels
<1>1. CASE UNCHANGED vars
  BY <1>0, <1>1 DEF TypeOK, vars
<1>2. CASE Cancel \/ FreeList
  BY <1>0, <1>2 DEF TypeOK, Cancel, FreeList
<1>3. ASSUME NEW t \in Threads, Step(t) PROVE TypeOK'
  <2>0. Placed(t)
    BY DEF ListInv
  <2>1. CASE CheckCancel(t)
    BY <1>0, <2>1 DEF TypeOK, CheckCancel
  <2>2. CASE ReadFirst(t)
    BY <1>0, <2>2 DEF TypeOK, ReadFirst
  <2>3. CASE LockFirst(t)
    BY <1>0, <2>3 DEF TypeOK, LockFirst
  <2>4. CASE EndWalk(t)
    BY <1>0, <2>4 DEF TypeOK, EndWalk
  <2>5. CASE ReadSecond(t)
    BY <1>0, <2>0, <2>5 DEF TypeOK, ReadSecond, Placed
  <2>6. CASE LockSecond(t)
    BY <1>0, <2>6 DEF TypeOK, LockSecond
  <2>7. CASE Compare(t)
    BY <1>0, <2>0, <2>7 DEF TypeOK, Compare, Placed
  <2>8. CASE LockNext(t)
    BY <1>0, <2>8 DEF TypeOK, LockNext
  <2>9. CASE Peek(t)
    BY <1>0, <2>9 DEF TypeOK, Peek
  <2>10. CASE ChooseHead(t)
    BY <1>0, <2>0, <2>10 DEF TypeOK, ChooseHead, Placed
  <2>11. CASE ChooseWalk(t)
    BY <1>0, <2>0, <2>11 DEF TypeOK, ChooseWalk, Placed
  <2>12. CASE LockSwap(t)
    BY <1>0, <2>12 DEF TypeOK, LockSwap
  <2>13. CASE SwapHead(t)
    BY <1>0, <2>0, <2>13 DEF TypeOK, SwapHead, Placed
  <2>14. CASE Relink(t)
    BY <1>0, <2>0, <2>14 DEF TypeOK, Relink, Placed
  <2>15. CASE LockCurrent(t)
    BY <1>0, <2>0, <2>15 DEF TypeOK, LockCurrent, Placed
  <2>16. CASE LockPair(t)
    BY <1>0, <2>16 DEF TypeOK, LockPair
  <2>17. CASE SwapPair(t)
    BY <1>0, <2>0, <2>17 DEF TypeOK, SwapPair, Advance, Placed
  <2>18. CASE KeepPair(t)
    BY <1>0, <2>0, <2>18 DEF TypeOK, KeepPair, Advance, Placed
  <2> QED
    BY <1>3, <2>1, <2>2, <2>3, <2>4, <2>5, <2>6, <2>7, <2>8, <2>9, <2>10, <2>11, <2>12,
       <2>13, <2>14, <2>15, <2>16, <2>17, <2>18 DEF Step, Counter, Swapper
<1> QED
  BY <1>1, <1>2, <1>3 DEF Next
-----------------------------------------------------------------------------
(* lock_node(n) where the next label adds n to the nodes t must hold.        *)
LEMMA LockStep ==
  ASSUME ListInv, NEW t \in Threads, NEW n \in Node, NEW l, LockNode(t, n, l),
         Held(t)' = Held(t) \cup {n}
  PROVE  Mine(t)' /\ Alone(t)
<1>1. TypeOK /\ Mine(t) /\ NoThread \notin Threads
  BY ListAssumption DEF ListInv
<1>2. lock' = [lock EXCEPT ![n] = t] /\ lock[n] = NoThread
  BY DEF LockNode
<1>3. Mine(t)'
  BY <1>1, <1>2 DEF Mine, TypeOK
<1>4. Alone(t)
  BY <1>1, <1>2 DEF Alone, TypeOK, LockNode, Go, list, locals
<1> QED
  BY <1>3, <1>4

(* Back to the test of the loop, with all the nodes t held unlocked.         *)
LEMMA RestartStep ==
  ASSUME ListInv, NEW t \in Threads, NEW nodes, Restart(t, nodes), Held(t) = nodes \cap Node
  PROVE  Mine(t)' /\ Placed(t)' /\ Alone(t)
<1>1. TypeOK /\ Mine(t) /\ NoThread \notin Threads
  BY ListAssumption DEF ListInv
<1>2. pc'[t] = "check" /\ UNCHANGED next
  BY <1>1 DEF Restart, Go, TypeOK, list
<1>3. \A n \in Node : lock'[n] = IF lock[n] = t THEN NoThread ELSE lock[n]
  BY <1>1 DEF Restart, Unlock, Mine
<1>4. Mine(t)'
  BY <1>1, <1>2, <1>3 DEF Mine, Held, HoldsPrev, HoldsNext, HoldsCurrent
<1>5. Placed(t)'
  BY <1>2 DEF Placed
<1>6. Alone(t)
  BY <1>1, <1>2, <1>3 DEF Alone, Restart, Go, Point, TypeOK
<1> QED
  BY <1>4, <1>5, <1>6
-----------------------------------------------------------------------------
(* Every step of a thread that is in its walk keeps the invariant: it takes  *)
(* one node, or lets go of some, and what it then relies on it has read from *)
(* a node it holds.                                                          *)
LEMMA CounterStep ==
  ASSUME ListInv, NEW t \in Threads,
         CheckCancel(t) \/ ReadFirst(t) \/ LockFirst(t) \/ EndWalk(t) \/ Counter(t)
  PROVE  Mine(t)' /\ Placed(t)' /\ Alone(t)
<1>0. TypeOK /\ Mine(t) /\ Placed(t) /\ NULL \notin Node /\ NoThread \notin Threads
  BY ListAssumption DEF ListInv
<1>1. CASE CheckCancel(t)
  BY <1>0, <1>1
     DEF CheckCancel, Go, list, locals, TypeOK, Mine, Placed, Alone, Held, HoldsPrev,
         HoldsNext, HoldsCurrent
<1>2. CASE ReadFirst(t)
  BY <1>0, <1>2
     DEF ReadFirst, Go, list, locals, TypeOK, Mine, Placed, Alone, Held, HoldsPrev,
         HoldsNext, HoldsCurrent
<1>3. CASE LockFirst(t)
  <2>1. /\ cur[t] \in Node /\ pc[t] = "lock_first"
        /\ LockNode(t, cur[t], IF t \in Counters THEN "second" ELSE "choose")
    BY <1>0, <1>3 DEF Placed, LockFirst
  <2>2. Held(t)' = Held(t) \cup {cur[t]}
    BY <1>0, <2>1
       DEF LockNode, Go, TypeOK, locals, Held, HoldsPrev, HoldsNext, HoldsCurrent
  <2>3. Placed(t)'
    BY <1>0, <2>1 DEF LockNode, Go, TypeOK, list, locals, Placed, Mine, Held, HoldsPrev,
                      HoldsNext, HoldsCurrent
  <2> QED
    BY <2>1, <2>2, <2>3, LockStep
<1>4. CASE EndWalk(t)
  <2>1. Restart(t, {prev[t], cur[t]}) /\ Held(t) = {prev[t], cur[t]} \cap Node
    BY <1>0, <1>4 DEF EndWalk, Held, HoldsPrev, HoldsNext, HoldsCurrent
  <2> QED
    BY <2>1, RestartStep
<1>5. CASE ReadSecond(t)
  <2>1. CASE next[cur[t]] = NULL
    <3>1. Restart(t, {cur[t]}) /\ Held(t) = {cur[t]} \cap Node
      BY <1>0, <1>5, <2>1 DEF ReadSecond, Held, HoldsPrev, HoldsNext, HoldsCurrent
    <3> QED
      BY <3>1, RestartStep
  <2>2. CASE next[cur[t]] # NULL
    BY <1>0, <1>5, <2>2
       DEF ReadSecond, Point, Go, list, locals, TypeOK, Mine, Placed, Alone, Held, HoldsPrev,
           HoldsNext, HoldsCurrent
  <2> QED
    BY <2>1, <2>2
<1>6. CASE LockSecond(t)
  <2>1. nxt[t] \in Node /\ LockNode(t, nxt[t], "compare") /\ pc[t] = "lock_second"
    BY <1>0, <1>6 DEF Placed, LockSecond
  <2>2. Held(t)' = Held(t) \cup {nxt[t]}
    BY <1>0, <2>1
       DEF LockNode, Go, TypeOK, locals, Held, HoldsPrev, HoldsNext, HoldsCurrent, Placed
  <2>3. Placed(t)'
    BY <1>0, <2>1 DEF LockNode, Go, TypeOK, list, locals, Placed, Mine, Held, HoldsPrev,
                      HoldsNext, HoldsCurrent
  <2> QED
    BY <2>1, <2>2, <2>3, LockStep
<1>7. CASE Compare(t)
  BY <1>0, <1>7
     DEF Compare, Point, Unlock, Go, list, locals, TypeOK, Mine, Placed, Alone, Held,
         HoldsPrev, HoldsNext, HoldsCurrent
<1>8. CASE LockNext(t)
  <2>1. nxt[t] \in Node /\ LockNode(t, nxt[t], "compare") /\ pc[t] = "lock_next"
    BY <1>0, <1>8 DEF Placed, LockNext
  <2>2. Held(t)' = Held(t) \cup {nxt[t]}
    BY <1>0, <2>1
       DEF LockNode, Go, TypeOK, locals, Held, HoldsPrev, HoldsNext, HoldsCurrent
  <2>3. Placed(t)'
    BY <1>0, <2>1 DEF LockNode, Go, TypeOK, list, locals, Placed, Mine, Held, HoldsPrev,
                      HoldsNext, HoldsCurrent
  <2> QED
    BY <2>1, <2>2, <2>3, LockStep
<1> QED
  BY <1>1, <1>2, <1>3, <1>4, <1>5, <1>6, <1>7, <1>8 DEF Counter

(* The same for a step of swap_thread: it rewrites links only at the two or  *)
(* three nodes it holds.                                                     *)
LEMMA SwapperStep ==
  ASSUME ListInv, NEW t \in Threads, Swapper(t)
  PROVE  Mine(t)' /\ Placed(t)' /\ Alone(t)
<1>0. TypeOK /\ Mine(t) /\ Placed(t) /\ NULL \notin Node /\ NoThread \notin Threads
  BY ListAssumption DEF ListInv
<1>1. CASE Peek(t)
  <2>1. CASE next[cur[t]] = NULL
    <3>1. Restart(t, {}) /\ Held(t) = {} \cap Node
      BY <1>0, <1>1, <2>1 DEF Peek, Held, HoldsPrev, HoldsNext, HoldsCurrent
    <3> QED
      BY <3>1, RestartStep
  <2>2. CASE next[cur[t]] # NULL
    BY <1>0, <1>1, <2>2
       DEF Peek, Point, Go, list, locals, TypeOK, Mine, Placed, Alone, Held, HoldsPrev,
           HoldsNext, HoldsCurrent
  <2> QED
    BY <2>1, <2>2
<1>2. CASE ChooseHead(t)
  BY <1>0, <1>2
     DEF ChooseHead, Point, Unlock, Go, list, locals, TypeOK, Mine, Placed, Alone, Held,
         HoldsPrev, HoldsNext, HoldsCurrent
<1>3. CASE ChooseWalk(t)
  <2>1. CASE next[cur[t]] = NULL
    <3>1. Restart(t, {cur[t]}) /\ Held(t) = {cur[t]} \cap Node
      BY <1>0, <1>3, <2>1 DEF ChooseWalk, Held, HoldsPrev, HoldsNext, HoldsCurrent
    <3> QED
      BY <3>1, RestartStep
  <2>2. CASE next[cur[t]] # NULL
    BY <1>0, <1>3, <2>2
       DEF ChooseWalk, Point, Go, list, locals, TypeOK, Mine, Placed, Alone, Held, HoldsPrev,
           HoldsNext, HoldsCurrent
  <2> QED
    BY <2>1, <2>2
<1>4. CASE LockSwap(t)
  <2>1. nxt[t] \in Node /\ LockNode(t, nxt[t], "swap_head") /\ pc[t] = "lock_swap"
    BY <1>0, <1>4 DEF Placed, LockSwap
  <2>2. Held(t)' = Held(t) \cup {nxt[t]}
    BY <1>0, <2>1
       DEF LockNode, Go, TypeOK, locals, Held, HoldsPrev, HoldsNext, HoldsCurrent
  <2>3. Placed(t)'
    BY <1>0, <2>1 DEF LockNode, Go, TypeOK, list, locals, Placed, Mine, Held, HoldsPrev,
                      HoldsNext, HoldsCurrent
  <2> QED
    BY <2>1, <2>2, <2>3, LockStep
<1>5. CASE SwapHead(t)
  BY <1>0, <1>5
     DEF SwapHead, Point, Unlock, Go, list, locals, TypeOK, Mine, Placed, Alone, Held,
         HoldsPrev, HoldsNext, HoldsCurrent
<1>6. CASE Relink(t)
  BY <1>0, <1>6
     DEF Relink, Point, Unlock, Go, list, locals, TypeOK, Mine, Placed, Alone, Held,
         HoldsPrev, HoldsNext, HoldsCurrent
<1>7. CASE LockCurrent(t)
  BY <1>0, <1>7
     DEF LockCurrent, Point, Unlock, Go, list, locals, TypeOK, Mine, Placed, Alone, Held,
         HoldsPrev, HoldsNext, HoldsCurrent
<1>8. CASE LockPair(t)
  <2>1. nxt[t] \in Node /\ LockNode(t, nxt[t], "choose_pair") /\ pc[t] = "lock_pair"
    BY <1>0, <1>8 DEF Placed, LockPair
  <2>2. Held(t)' = Held(t) \cup {nxt[t]}
    BY <1>0, <2>1
       DEF LockNode, Go, TypeOK, locals, Held, HoldsPrev, HoldsNext, HoldsCurrent
  <2>3. Placed(t)'
    BY <1>0, <2>1 DEF LockNode, Go, TypeOK, list, locals, Placed, Mine, Held, HoldsPrev,
                      HoldsNext, HoldsCurrent
  <2> QED
    BY <2>1, <2>2, <2>3, LockStep
<1>9. CASE SwapPair(t)
  BY <1>0, <1>9
     DEF SwapPair, Point, Unlock, Go, list, locals, TypeOK, Mine, Placed, Alone, Held, Advance,
         HoldsPrev, HoldsNext, HoldsCurrent
<1>10. CASE KeepPair(t)
  BY <1>0, <1>10
     DEF KeepPair, Point, Unlock, Go, list, locals, TypeOK, Mine, Placed, Alone, Held, Advance,
         HoldsPrev, HoldsNext, HoldsCurrent
<1> QED
  BY <1>1, <1>2, <1>3, <1>4, <1>5, <1>6, <1>7, <1>8, <1>9, <1>10 DEF Swapper

(* So ListInv is inductive.                                                  *)
LEMMA ListStep == ListInv /\ [Next]_vars => ListInv'
<1> SUFFICES ASSUME ListInv, [Next]_vars PROVE ListInv'
  OBVIOUS
<1>0. TypeOK'
  BY TypeStep
<1>1. CASE UNCHANGED vars
  BY <1>0, <1>1, MainKeeps DEF vars
<1>2. CASE Cancel \/ FreeList
  <2>1. UNCHANGED <<list, lock, pc, locals>>
    BY <1>2 DEF Cancel, FreeList
  <2> QED
    BY <1>0, <2>1, MainKeeps
<1>3. ASSUME NEW t \in Threads, Step(t) PROVE ListInv'
  <2>1. Mine(t)' /\ Placed(t)' /\ Alone(t)
    BY <1>3, CounterStep, SwapperStep DEF Step
  <2> QED
    BY <1>0, <2>1, OthersKept
<1> QED
  BY <1>1, <1>2, <1>3 DEF Next
-----------------------------------------------------------------------------
(* ListInv always holds.                                                     *)
LEMMA ListAlways == Spec => []ListInv
BY ListInit, ListStep, PTL DEF Spec

(* The pointers, the locks and the labels of main1.c keep their types, for   *)
(* any threads and any size of the list: list->first always points to a      *)
(* node, although it is read and written with no lock of its own.            *)
THEOREM ListTypes == Spec => []TypeOK
<1>1. ListInv => TypeOK
  BY DEF ListInv
<1> QED
  BY <1>1, ListAlways, PTL

(* However many threads of main1.c run on a list of whatever size, each      *)
(* holds exactly the node mutexes that its place in the loop calls for: at   *)
(* most three, none left behind when a walk ends.                            *)
THEOREM LocksExact == Spec => []HoldsExactly
<1>1. ListInv => HoldsExactly
  BY DEF ListInv, Mine, HoldsExactly, Held
<1> QED
  BY <1>1, ListAlways, PTL

(* However many threads of main1.c run, the nodes a thread compares or       *)
(* exchanges follow one another on the list at that moment.                  *)
THEOREM Neighbours == Spec => []WorksOnNeighbours
<1>1. ListInv => WorksOnNeighbours
  BY DEF ListInv, Placed, WorksOnNeighbours
<1> QED
  BY <1>1, ListAlways, PTL
-----------------------------------------------------------------------------
(* The links lead from lower to higher numbers: no node can be reached from  *)
(* itself, even on a list that a stale list->first has broken.               *)
Ranked(r) ==
  r \in [Node -> Nat] /\ \A n \in Node : next[n] # NULL => r[n] < r[next[n]]

(* When the nodes a and b = next[a] have changed places, a gets a number     *)
(* between that of b and those of the nodes behind b.                        *)
After(r, a, b) == [n \in Node |-> IF n = a THEN 2 * r[b] + 1 ELSE 2 * r[n]]

(* Doubling leaves room for one number between any two. *)
LEMMA Doubled ==
  ASSUME NEW x \in Nat, NEW y \in Nat
  PROVE  /\ 2 * x \in Nat /\ 2 * x < 2 * x + 1
         /\ x < y => 2 * x < 2 * y /\ 2 * x + 1 < 2 * y /\ 2 * x < 2 * y + 1
  OBVIOUS

(* The exchange leaves the links leading upwards. *)
LEMMA ExchangeRanked ==
  ASSUME NULL \notin Node, NEW r \in [Node -> Nat], NEW nx, NEW nx2,
         \A n \in Node : nx[n] \in Node \cup {NULL} /\ (nx[n] # NULL => r[n] < r[nx[n]]),
         NEW a \in Node, NEW b \in Node, nx[a] = b, nx2[a] = nx[b], nx2[b] = a,
         \A n \in Node \ {a, b} : nx2[n] = nx[n] \/ (nx[n] = a /\ nx2[n] = b),
         NEW n \in Node, nx2[n] # NULL
  PROVE  After(r, a, b)[n] < After(r, a, b)[nx2[n]]
<1> DEFINE r2 == After(r, a, b)
<1>1. r[a] < r[b] /\ r[a] \in Nat /\ r[b] \in Nat /\ a # b
  OBVIOUS
<1>2. r2[a] = 2 * r[b] + 1 /\ \A m \in Node \ {a} : r2[m] = 2 * r[m]
  BY DEF After
<1> HIDE DEF r2
<1>3. ASSUME n = a PROVE r2[n] < r2[nx2[n]]
  <2>1. nx[b] \in Node /\ r[b] < r[nx[b]] /\ r[nx[b]] \in Nat
    BY <1>3
  <2>2. nx[b] # a
    BY <1>1, <2>1
  <2>3. r2[n] = 2 * r[b] + 1 /\ r2[nx2[n]] = 2 * r[nx[b]]
    BY <1>2, <1>3, <2>1, <2>2
  <2>4. 2 * r[b] + 1 < 2 * r[nx[b]]
    BY <1>1, <2>1, Doubled
  <2> QED
    BY <2>3, <2>4, Zenon
<1>4. ASSUME n = b PROVE r2[n] < r2[nx2[n]]
  <2>1. r2[n] = 2 * r[b] /\ r2[nx2[n]] = 2 * r[b] + 1
    BY <1>1, <1>2, <1>4
  <2>2. 2 * r[b] < 2 * r[b] + 1
    BY <1>1, Doubled
  <2> QED
    BY <2>1, <2>2, Zenon
<1>5. ASSUME n # a, n # b, nx[n] = a PROVE r2[n] < r2[nx2[n]]
  <2>1. r[n] < r[a] /\ r[n] \in Nat /\ (nx2[n] = a \/ nx2[n] = b)
    BY <1>5
  <2>2. r2[n] = 2 * r[n] /\ (r2[nx2[n]] = 2 * r[b] + 1 \/ r2[nx2[n]] = 2 * r[b])
    BY <1>1, <1>2, <1>5, <2>1
  <2>3. r[n] < r[b]
    BY <1>1, <2>1
  <2>4. 2 * r[n] < 2 * r[b] + 1 /\ 2 * r[n] < 2 * r[b]
    BY <1>1, <2>1, <2>3, Doubled
  <2> QED
    BY <2>2, <2>4, Zenon
<1>6. ASSUME n # a, n # b, nx[n] # a PROVE r2[n] < r2[nx2[n]]
  <2>1. nx2[n] = nx[n]
    BY <1>6
  <2>2. nx[n] \in Node /\ r[n] < r[nx[n]] /\ r[n] \in Nat /\ r[nx[n]] \in Nat
    BY <2>1
  <2>3. r2[n] = 2 * r[n] /\ r2[nx2[n]] = 2 * r[nx[n]]
    BY <1>2, <1>6, <2>1, <2>2
  <2>4. 2 * r[n] < 2 * r[nx[n]]
    BY <2>2, Doubled
  <2> QED
    BY <2>3, <2>4, Zenon
<1>7. r2[n] < r2[nx2[n]]
  BY <1>3, <1>4, <1>5, <1>6, Zenon
<1> QED
  BY <1>7 DEF r2

(* No step makes the links go round in a circle.                             *)
LEMMA RankStep ==
  ASSUME ListInv, NEW r, Ranked(r), [Next]_vars
  PROVE  \E r2 : Ranked(r2)'
<1>0. TypeOK /\ NULL \notin Node
  BY ListAssumption DEF ListInv
<1>1. CASE UNCHANGED next
  BY <1>1 DEF Ranked
<1>2. ASSUME NEW t \in Threads, Relink(t) \/ SwapPair(t) PROVE \E r2 : Ranked(r2)'
  <2> DEFINE a == cur[t]
  <2> DEFINE b == nxt[t]
  <2>1. Placed(t)
    BY DEF ListInv
  <2>2. a \in Node /\ b \in Node /\ next[a] = b /\ a # b
    BY <1>2, <2>1 DEF Placed, Relink, SwapPair
  <2>3. /\ next'[a] = next[b] /\ next'[b] = a
        /\ \A n \in Node \ {a, b} : next'[n] = next[n] \/ (next[n] = a /\ next'[n] = b)
    <3>1. CASE Relink(t)
      BY <1>0, <2>2, <3>1 DEF Relink, TypeOK
    <3>2. CASE SwapPair(t)
      <4>1. prev[t] \in Node /\ prev[t] # a /\ prev[t] # b /\ next[prev[t]] = a
        BY <2>1, <3>2 DEF Placed, SwapPair
      <4>2. next' = [next EXCEPT ![prev[t]] = b, ![a] = next[b], ![b] = a]
        BY <3>2 DEF SwapPair
      <4> QED
        BY <1>0, <2>2, <4>1, <4>2 DEF TypeOK
    <3> QED
      BY <1>2, <3>1, <3>2
  <2> HIDE DEF a, b
  <2>4. r \in [Node -> Nat] /\ \A n \in Node :
          next[n] \in Node \cup {NULL} /\ (next[n] # NULL => r[n] < r[next[n]])
    BY <1>0 DEF Ranked, TypeOK
  <2>5. ASSUME NEW n \in Node, next'[n] # NULL
        PROVE  After(r, a, b)[n] < After(r, a, b)[next'[n]]
    BY <1>0, <2>2, <2>3, <2>4, <2>5, ExchangeRanked
  <2>6. After(r, a, b) \in [Node -> Nat]
    BY <2>2, <2>4 DEF After
  <2>7. PICK r2 : r2 = After(r, a, b)
    OBVIOUS
  <2>8. Ranked(r2)'
    BY <2>5, <2>6, <2>7 DEF Ranked
  <2> QED
    BY <2>8
<1>3. ASSUME NEW t \in Threads, Step(t), ~Relink(t), ~SwapPair(t) PROVE UNCHANGED next
  BY <1>3 DEF Step, CheckCancel, ReadFirst, LockFirst, EndWalk, Counter, ReadSecond, LockSecond,
     Compare, LockNext, Swapper, Peek, ChooseHead, ChooseWalk, LockSwap, SwapHead, LockCurrent,
     LockPair, KeepPair, LockNode, Restart, list
<1> QED
  BY <1>1, <1>2, <1>3 DEF Next, vars, list, Cancel, FreeList

(* Whoever waits while holding a node waits for one further on.              *)
LEMMA WaitsFurtherOn ==
  ASSUME ListInv, NEW r, Ranked(r), NEW t \in Threads, Awaits(t) # NULL,
         NEW n \in Node, lock[n] = t
  PROVE  Awaits(t) \in Node /\ r[n] < r[Awaits(t)]
<1>1. TypeOK /\ NULL \notin Node /\ Placed(t) /\ n \in Held(t)
  BY ListAssumption DEF ListInv, Mine
<1>2. pc[t] \in {"lock_second", "lock_swap", "lock_next", "lock_pair", "lock_cur"}
  BY <1>1 DEF Awaits, Held, HoldsPrev, HoldsCurrent, HoldsNext
<1>3. CASE pc[t] = "lock_cur"
  BY <1>1, <1>3 DEF Awaits, Held, HoldsPrev, HoldsCurrent, HoldsNext, Placed, Ranked
<1>4. CASE pc[t] \in {"lock_second", "lock_swap", "lock_next", "lock_pair"}
  <2>1. /\ Awaits(t) = nxt[t] /\ nxt[t] \in Node /\ cur[t] \in Node /\ next[cur[t]] = nxt[t]
        /\ r[cur[t]] < r[nxt[t]] /\ r[cur[t]] \in Nat /\ r[nxt[t]] \in Nat
    BY <1>1, <1>4 DEF Awaits, Placed, Ranked
  <2>2. n = cur[t] \/ (n = prev[t] /\ pc[t] \in {"lock_next", "lock_pair"})
    BY <1>1, <1>4 DEF Held, HoldsPrev, HoldsCurrent, HoldsNext
  <2>3. CASE n = prev[t] /\ pc[t] \in {"lock_next", "lock_pair"}
    <3>1. next[n] = cur[t] /\ r[n] < r[cur[t]] /\ r[n] \in Nat
      BY <1>1, <2>1, <2>3 DEF Placed, Ranked
    <3> QED
      BY <2>1, <3>1
  <2> QED
    BY <2>1, <2>2, <2>3
<1> QED
  BY <1>2, <1>3, <1>4

(* The numbers of finitely many nodes have a bound.                          *)
LEMMA RanksBounded ==
  ASSUME NEW r \in [Node -> Nat]
  PROVE  \E b \in Nat : \A n \in Node : r[n] <= b
<1> DEFINE T == {k \in Nat : \E b \in Nat : \A n \in Node : n <= k => r[n] <= b}
<1>0. Node = 1 .. Size /\ Size \in Nat
  BY ListAssumption DEF Node
<1>1. 0 \in T
  BY <1>0
<1>2. ASSUME NEW k \in Nat, k \in T PROVE k + 1 \in T
  <2>1. PICK b \in Nat : \A n \in Node : n <= k => r[n] <= b
    BY <1>2
  <2>2. CASE k + 1 \in Node
    <3> DEFINE c == IF r[k + 1] <= b THEN b ELSE r[k + 1]
    <3>1. c \in Nat /\ b <= c /\ r[k + 1] <= c
      BY <2>2
    <3> HIDE DEF c
    <3>2. ASSUME NEW n \in Node, n <= k + 1 PROVE r[n] <= c
      <4>1. n \in Nat /\ r[n] \in Nat
        BY <1>0
      <4>2. CASE n = k + 1
        BY <3>1, <4>2
      <4>3. CASE n # k + 1
        <5>1. n <= k
          BY <3>2, <4>1, <4>3
        <5> QED
          BY <2>1, <3>1, <4>1, <5>1
      <4> QED
        BY <4>2, <4>3
    <3> QED
      BY <3>1, <3>2
  <2>3. CASE k + 1 \notin Node
    <3>1. \A n \in Node : n <= k + 1 => n <= k
      BY <1>0, <2>3
    <3> QED
      BY <2>1, <3>1
  <2> QED
    BY <2>2, <2>3
<1>3. Size \in T
  <2> HIDE DEF T
  <2> QED
    BY <1>0, <1>1, <1>2, SetInduction
<1> QED
  BY <1>0, <1>3

(* In a group whose threads wait only for one another, the one that waits    *)
(* for the node with the greatest number would wait for a holder that waits  *)
(* for a node with a greater one.                                            *)
LEMMA RankedNoWaitCycle ==
  ASSUME ListInv, NEW r, Ranked(r)
  PROVE  NoWaitCycle
<1>1. SUFFICES ASSUME NEW group \in SUBSET Threads, NEW t \in group,
                      \A u \in group : Awaits(u) # NULL /\ lock[Awaits(u)] \in group
               PROVE  FALSE
  BY DEF NoWaitCycle
<1>2. r \in [Node -> Nat]
  BY DEF Ranked
<1>3. PICK b \in Nat : \A n \in Node : r[n] <= b
  BY <1>2, RanksBounded
<1>4. ASSUME NEW u \in group PROVE Awaits(u) \in Node
  <2>1. TypeOK /\ Placed(u)
    BY DEF ListInv
  <2> QED
    BY <1>1, <2>1 DEF Awaits, Placed
<1> DEFINE T == {r[Awaits(u)] + 1 : u \in group}
<1>5. T \subseteq 1 .. b + 1 /\ T # {}
  BY <1>2, <1>3, <1>4
<1>6. PICK u \in group : \A k \in T : k <= r[Awaits(u)] + 1
  <2>1. PICK m \in T : \A k \in T : k <= m
    <3>1. b + 1 \in Nat
      OBVIOUS
    <3> HIDE DEF T
    <3> QED
      BY <1>5, <3>1, Greatest
  <2> QED
    BY <2>1
<1>7. PICK v \in group : v = lock[Awaits(u)]
  BY <1>1
<1>8. r[Awaits(u)] < r[Awaits(v)] /\ r[Awaits(u)] \in Nat /\ r[Awaits(v)] \in Nat
  BY <1>1, <1>2, <1>4, <1>7, WaitsFurtherOn
<1>9. r[Awaits(v)] + 1 \in T
  OBVIOUS
<1> HIDE DEF T
<1>10. r[Awaits(v)] + 1 <= r[Awaits(u)] + 1
  BY <1>6, <1>9
<1> QED
  BY <1>8, <1>10

(* When the threads start each node's number is its own name.                *)
LEMMA RankInit ==
  ASSUME Init
  PROVE  \E r : Ranked(r)
<1> DEFINE r == [n \in Node |-> n]
<1>1. Ranked(r)
  BY ListAssumption DEF Init, Ranked, Node
<1> QED
  BY <1>1

(* However many threads of main1.c run, and although swaps change the order  *)
(* in which the nodes are locked and a stale list->first may cut the list in *)
(* two, no group of threads waits only for one another.                      *)
THEOREM ListNoWaitCycle == Spec => []NoWaitCycle
<1> DEFINE Acyclic == \E r : Ranked(r)
<1>1. Init => Acyclic
  BY RankInit
<1>2. ListInv /\ Acyclic /\ [Next]_vars => Acyclic'
  BY RankStep
<1>3. ListInv /\ Acyclic => NoWaitCycle
  BY RankedNoWaitCycle
<1> HIDE DEF Acyclic
<1> QED
  BY <1>1, <1>2, <1>3, ListAlways, PTL DEF Spec
-----------------------------------------------------------------------------
(* What MCLists assumes of the constants.                                    *)
Sane ==
  /\ RwCounters \cap RwSwappers = {} /\ Rw!Threads # {}
  /\ MaxSize \in Nat \ {0}
  /\ NULL \notin Rw!Node
  /\ NoThread \notin Rw!Threads

(* MCLists assumes it.                                                       *)
LEMMA RwSane == Sane
BY RwListAssumption DEF Sane

Paired == {"lock_prev", "lock_curr", "unlock_rw"}
Reading == {"find"} \cup Paired
CounterLabels == {"unborn", "idle", "compare"} \cup Reading
SwapperLabels == {"unborn", "idle", "wrlock", "swap", "unlock"}

RwTypes ==
  /\ size \in Nat /\ list_size \in Rw!Node /\ size <= list_size
  /\ rwLock \in [Rw!Node -> Rw!Threads \cup {NoThread}]
  /\ rwPc \in [Rw!Threads -> CounterLabels \cup SwapperLabels]
  /\ \A t \in RwCounters : rwPc[t] \in CounterLabels
  /\ \A t \in RwSwappers : rwPc[t] \in SwapperLabels
  /\ index \in [Rw!Threads -> Nat]
  /\ rwPrev \in [Rw!Threads -> Rw!Node \cup {NULL}] /\ curr \in [Rw!Threads -> Rw!Node \cup {NULL}]

(* A swapper that relinks is alone in the list.                              *)
ListLocked ==
  /\ readers = {t \in RwCounters : rwPc[t] \in Reading}
  /\ \A t \in Rw!Threads : rwPc[t] \in {"swap", "unlock"} <=> writer = t
  /\ writer # NoThread => readers = {}
  /\ \A t \in Rw!Threads : rwPc[t] = "swap" => size >= 2

(* main starts the threads, all at once, when the list has its size.         *)
Built ==
  /\ size < list_size => \A t \in Rw!Threads : rwPc[t] = "unborn"
  /\ (\A t \in Rw!Threads : rwPc[t] = "unborn") \/ (\A t \in Rw!Threads : rwPc[t] # "unborn")

(* A node mutex is held by a counter that has it in its pair.                *)
NodesLocked ==
  \A n \in Rw!Node : rwLock[n] # NoThread =>
    /\ rwLock[n] \in RwCounters
    /\ \/ rwPc[rwLock[n]] = "lock_curr" /\ n = rwPrev[rwLock[n]]
       \/ rwPc[rwLock[n]] \in {"unlock_rw", "compare"} /\ n \in {rwPrev[rwLock[n]], curr[rwLock[n]]}

(* s is the list, and the nodes main has not made yet are not on it.         *)
Lists(s, n, f, nx) ==
  /\ f \in Rw!Node \cup {NULL} /\ nx \in [Rw!Node -> Rw!Node \cup {NULL}]
  /\ IsList(s, n, Rw!Node, NULL, f, nx)
  /\ \A k \in 1 .. n : s[k] <= n
  /\ \A m \in Rw!Node : m > n => nx[m] = NULL

Listed(s) == Lists(s, size, rwFirst, rwNext)

(* A counter's pair are neighbours at a place of s.                          *)
PairsOn(s) ==
  \A t \in RwCounters : rwPc[t] \in Paired =>
    \E k \in 1 .. size - 1 : rwPrev[t] = s[k] /\ curr[t] = s[k + 1]

RwInv == RwTypes /\ ListLocked /\ Built /\ NodesLocked /\ \E s : Listed(s) /\ PairsOn(s)
-----------------------------------------------------------------------------
(* The nodes one meets from s->first on.                                     *)
LEMMA WalkIs ==
  ASSUME Sane, NEW s, NEW n, NEW f, NEW nx, Lists(s, n, f, nx),
         NEW walk, walk = CHOOSE a : IsWalk(a, NULL, f, nx), NEW j \in Nat
  PROVE  walk[j] = IF j < n THEN s[j + 1] ELSE NULL
<1>1. f \in Rw!Node \cup {NULL} /\ \A m \in Rw!Node : nx[m] \in Rw!Node \cup {NULL}
  BY DEF Lists
<1>2. Follows(walk, NULL, f, nx)
  BY <1>1, WalkDefined
<1>3. IsList(s, n, Rw!Node, NULL, f, nx) /\ NULL \notin Rw!Node
  BY DEF Sane, Lists
<1> QED
  BY <1>2, <1>3, WalkVisitsList

(* The walk of the program's functions, from s->first.                       *)
LEMMA AtIs ==
  ASSUME Sane, NEW s, Listed(s), NEW j \in Nat
  PROVE  Rw!At[j] = IF j < size THEN s[j + 1] ELSE NULL
<1>1. Rw!At = CHOOSE a : IsWalk(a, NULL, rwFirst, rwNext)
  BY DEF Rw!At, IsWalk
<1> QED
  BY <1>1, WalkIs DEF Listed

(* storage_add makes s one node longer.                                      *)
Longer(s, n) == [k \in 1 .. n + 1 |-> IF k <= n THEN s[k] ELSE n + 1]

Added(s, n, f, nx, f2, nx2) ==
  /\ f2 = IF n = 0 THEN n + 1 ELSE f
  /\ nx2 = IF n = 0 THEN nx ELSE [nx EXCEPT ![s[n]] = n + 1]

(* The longer list is a list again.                                          *)
LEMMA LongerIsList ==
  ASSUME Sane, NEW n \in Nat, n + 1 \in Rw!Node, NEW s, NEW f, NEW f2, NEW nx, NEW nx2,
         Lists(s, n, f, nx), Added(s, n, f, nx, f2, nx2)
  PROVE  Lists(Longer(s, n), n + 1, f2, nx2)
<1> DEFINE s2 == Longer(s, n)
<1>1. /\ s \in [1 .. n -> Rw!Node] /\ \A j, k \in 1 .. n : s[j] = s[k] => j = k
      /\ \A k \in 1 .. n : s[k] \in Nat /\ s[k] <= n
      /\ f = IF n = 0 THEN NULL ELSE s[1]
      /\ \A k \in 1 .. n : nx[s[k]] = IF k = n THEN NULL ELSE s[k + 1]
      /\ f \in Rw!Node \cup {NULL} /\ nx \in [Rw!Node -> Rw!Node \cup {NULL}]
      /\ \A m \in Rw!Node : m > n => nx[m] = NULL
      /\ f2 = IF n = 0 THEN n + 1 ELSE f
      /\ nx2 = IF n = 0 THEN nx ELSE [nx EXCEPT ![s[n]] = n + 1]
  BY DEF Lists, Added, IsList, Rw!Node
<1>2. (\A k \in 1 .. n : s2[k] = s[k]) /\ s2[n + 1] = n + 1
  BY DEF Longer
<1>3. s2 \in [1 .. n + 1 -> Rw!Node]
  BY <1>1 DEF Longer
<1>4. ASSUME NEW j \in 1 .. n + 1, NEW k \in 1 .. n + 1, s2[j] = s2[k] PROVE j = k
  <2>1. (j \in 1 .. n \/ j = n + 1) /\ (k \in 1 .. n \/ k = n + 1)
    OBVIOUS
  <2> QED
    BY <1>1, <1>2, <1>4, <2>1
<1>5. f2 = s2[1]
  <2>1. CASE n = 0
    BY <1>1, <1>2, <2>1
  <2>2. CASE n # 0
    BY <1>1, <1>2, <2>2
  <2> QED
    BY <2>1, <2>2
<1>6. ASSUME NEW k \in 1 .. n + 1
      PROVE  nx2[s2[k]] = IF k = n + 1 THEN NULL ELSE s2[k + 1]
  <2>1. CASE k = n + 1
    <3>1. n # 0 => s[n] # n + 1
      BY <1>1
    <3>2. nx2[n + 1] = nx[n + 1] /\ nx[n + 1] = NULL
      BY <1>1, <3>1
    <3> QED
      BY <1>2, <2>1, <3>2
  <2>2. CASE k = n
    <3>1. n \in 1 .. n /\ n # 0
      BY <2>2
    <3> QED
      BY <1>1, <1>2, <2>2, <3>1
  <2>3. CASE k < n
    <3>1. k \in 1 .. n /\ n \in 1 .. n /\ k + 1 \in 1 .. n /\ n # 0
      BY <2>3
    <3>2. s[k] # s[n] /\ s[k] \in Rw!Node /\ nx2[s[k]] = nx[s[k]]
      BY <1>1, <2>3, <3>1
    <3> QED
      BY <1>1, <1>2, <2>3, <3>1, <3>2
  <2> QED
    BY <2>1, <2>2, <2>3
<1> HIDE DEF s2
<1>7. IsList(s2, n + 1, Rw!Node, NULL, f2, nx2)
  BY <1>3, <1>4, <1>5, <1>6 DEF IsList
<1>8. \A k \in 1 .. n + 1 : s2[k] <= n + 1
  BY <1>1, <1>2
<1>9. nx2 \in [Rw!Node -> Rw!Node \cup {NULL}] /\ \A m \in Rw!Node : m > n + 1 => nx2[m] = NULL
  <2>1. CASE n = 0
    BY <1>1, <2>1 DEF Rw!Node
  <2>2. CASE n # 0
    <3>1. n \in 1 .. n /\ s[n] \in Rw!Node /\ s[n] <= n
      BY <1>1, <2>2
    <3> QED
      BY <1>1, <2>2, <3>1 DEF Rw!Node
  <2> QED
    BY <2>1, <2>2
<1>10. f2 \in Rw!Node \cup {NULL}
  BY <1>1
<1>11. Lists(s2, n + 1, f2, nx2)
  BY <1>7, <1>8, <1>9, <1>10 DEF Lists
<1> QED
  BY <1>11 DEF s2

(* swap_thread exchanges the k-th and the next node, counted from 0.         *)
Exchanged(s, k) == [s EXCEPT ![k + 1] = s[k + 2], ![k + 2] = s[k + 1]]

(* What it does to s->first and to the links.                                *)
Relinked(s, k, f, nx, f2, nx2) ==
  /\ f2 = IF k = 0 THEN s[k + 2] ELSE f
  /\ nx2 = LET exchanged == [nx EXCEPT ![s[k + 1]] = nx[s[k + 2]], ![s[k + 2]] = s[k + 1]]
           IN IF k = 0 THEN exchanged ELSE [exchanged EXCEPT ![s[k]] = s[k + 2]]

(* So is the list with two neighbours exchanged.                             *)
LEMMA ExchangedIsList ==
  ASSUME Sane, NEW n \in Nat, NEW s, NEW f, NEW f2, NEW nx, NEW nx2, NEW k \in 0 .. n - 2,
         Lists(s, n, f, nx), Relinked(s, k, f, nx, f2, nx2)
  PROVE  Lists(Exchanged(s, k), n, f2, nx2)
<1> DEFINE s2 == Exchanged(s, k)
<1>0. /\ k + 1 \in 1 .. n /\ k + 2 \in 1 .. n /\ k \in Nat /\ n # 0
      /\ k # 0 => k \in 1 .. n /\ (k + 1) + 1 = k + 2 /\ k + 1 # n
  OBVIOUS
<1>1. /\ s \in [1 .. n -> Rw!Node] /\ \A i, j \in 1 .. n : s[i] = s[j] => i = j
      /\ f = s[1]
      /\ \A j \in 1 .. n : nx[s[j]] = IF j = n THEN NULL ELSE s[j + 1]
      /\ nx \in [Rw!Node -> Rw!Node \cup {NULL}]
  BY <1>0 DEF Lists, IsList
<1>2. /\ s2[k + 1] = s[k + 2] /\ s2[k + 2] = s[k + 1]
      /\ \A j \in 1 .. n : j # k + 1 /\ j # k + 2 => s2[j] = s[j]
      /\ s2 \in [1 .. n -> Rw!Node]
  BY <1>0, <1>1 DEF Exchanged
<1> HIDE DEF s2
<1>3. ASSUME NEW i \in 1 .. n, NEW j \in 1 .. n, s2[i] = s2[j] PROVE i = j
  <2> DEFINE at(x) == IF x = k + 1 THEN k + 2 ELSE IF x = k + 2 THEN k + 1 ELSE x
  <2>1. \A x \in 1 .. n : at(x) \in 1 .. n /\ s2[x] = s[at(x)]
    BY <1>0, <1>2
  <2>2. at(i) = at(j)
    BY <1>1, <1>3, <2>1
  <2> QED
    BY <1>0, <2>2
<1>4. f2 = s2[1]
  <2>1. CASE k = 0
    BY <1>2, <2>1 DEF Relinked
  <2>2. CASE k # 0
    BY <1>0, <1>1, <1>2, <2>2 DEF Relinked
  <2> QED
    BY <2>1, <2>2
<1>5. /\ s[k + 1] \in Rw!Node /\ s[k + 2] \in Rw!Node /\ s[k + 1] # s[k + 2]
      /\ k # 0 => s[k] \in Rw!Node /\ s[k] # s[k + 1] /\ s[k] # s[k + 2]
  BY <1>0, <1>1
<1>6. /\ nx2[s[k + 1]] = nx[s[k + 2]]
      /\ nx2[s[k + 2]] = s[k + 1]
      /\ k # 0 => nx2[s[k]] = s[k + 2]
      /\ \A m \in Rw!Node : m # s[k + 1] /\ m # s[k + 2] /\ (k # 0 => m # s[k]) => nx2[m] = nx[m]
      /\ nx2 \in [Rw!Node -> Rw!Node \cup {NULL}]
  <2>1. CASE k = 0
    BY <1>1, <1>5, <2>1 DEF Relinked
  <2>2. CASE k # 0
    <3>1. nx2 = [[nx EXCEPT ![s[k + 1]] = nx[s[k + 2]], ![s[k + 2]] = s[k + 1]]
                   EXCEPT ![s[k]] = s[k + 2]]
      BY <2>2 DEF Relinked
    <3>2. nx[s[k + 2]] \in Rw!Node \cup {NULL}
      BY <1>1, <1>5
    <3> QED
      BY <1>1, <1>5, <2>2, <3>1, <3>2
  <2> QED
    BY <2>1, <2>2
<1>7. ASSUME NEW j \in 1 .. n PROVE nx2[s2[j]] = IF j = n THEN NULL ELSE s2[j + 1]
  <2>1. CASE j = k + 1
    BY <1>0, <1>2, <1>6, <2>1
  <2>2. CASE j = k + 2
    <3>1. nx2[s2[j]] = nx[s[k + 2]] /\ nx[s[k + 2]] = IF j = n THEN NULL ELSE s[j + 1]
      BY <1>0, <1>1, <1>2, <1>6, <2>2
    <3>2. j # n => s2[j + 1] = s[j + 1]
      BY <1>0, <1>2, <2>2
    <3> QED
      BY <3>1, <3>2
  <2>3. CASE j = k
    BY <1>0, <1>2, <1>6, <2>3
  <2>4. CASE j # k /\ j # k + 1 /\ j # k + 2
    <3>1. s[j] # s[k + 1] /\ s[j] # s[k + 2] /\ (k # 0 => s[j] # s[k])
      BY <1>0, <1>1, <2>4
    <3>2. nx2[s2[j]] = nx[s[j]] /\ nx[s[j]] = IF j = n THEN NULL ELSE s[j + 1]
      BY <1>1, <1>2, <1>6, <2>4, <3>1
    <3>3. j # n => j + 1 \in 1 .. n /\ j + 1 # k + 1 /\ j + 1 # k + 2
      BY <1>0, <2>4
    <3> QED
      BY <1>2, <3>2, <3>3
  <2> QED
    BY <2>1, <2>2, <2>3, <2>4
<1>8. IsList(s2, n, Rw!Node, NULL, f2, nx2)
  BY <1>0, <1>2, <1>3, <1>4, <1>7 DEF IsList
<1>9. \A j \in 1 .. n : s[j] <= n /\ s2[j] <= n
  BY <1>0, <1>2 DEF Lists
<1>10. ASSUME NEW m \in Rw!Node, m > n PROVE nx2[m] = NULL
  <2>0. m \in Int /\ ~(m <= n)
    BY <1>10 DEF Rw!Node
  <2>1. m # s[k + 1] /\ m # s[k + 2] /\ (k # 0 => m # s[k])
    BY <1>0, <1>9, <2>0
  <2> QED
    BY <1>6, <1>10, <2>1 DEF Lists
<1>11. f2 \in Rw!Node \cup {NULL}
  BY <1>0, <1>2, <1>4
<1>12. Lists(s2, n, f2, nx2)
  BY <1>6, <1>8, <1>9, <1>10, <1>11 DEF Lists
<1> QED
  BY <1>12 DEF s2
-----------------------------------------------------------------------------
(* What storage_add does to the list.                                        *)
LEMMA AddStep ==
  ASSUME Sane, RwTypes, NEW s, Listed(s), Rw!StorageAdd
  PROVE  Lists(Longer(s, size), size + 1, rwFirst', rwNext')
<1>1. /\ size \in Nat /\ size + 1 \in Rw!Node /\ NULL \notin Rw!Node
  BY DEF Sane, RwTypes, Rw!StorageAdd, Rw!Node
<1>2. /\ s \in [1 .. size -> Rw!Node]
      /\ rwFirst = IF size = 0 THEN NULL ELSE s[1]
  BY DEF Listed, Lists, IsList
<1>3. rwFirst = NULL <=> size = 0
  BY <1>1, <1>2
<1>4. size # 0 => Rw!At[size - 1] = s[size]
  <2>1. ASSUME size # 0 PROVE Rw!At[size - 1] = s[(size - 1) + 1]
    BY <1>1, <2>1, AtIs
  <2> QED
    BY <1>1, <2>1
<1>5. Added(s, size, rwFirst, rwNext, rwFirst', rwNext')
  <2>1. CASE size = 0
    BY <1>3, <2>1 DEF Rw!StorageAdd, Added
  <2>2. CASE size # 0
    BY <1>3, <1>4, <2>2 DEF Rw!StorageAdd, Added
  <2> QED
    BY <2>1, <2>2
<1> QED
  BY <1>1, <1>5, LongerIsList DEF Listed

(* What swap_thread does to it: it always finds its two nodes.               *)
LEMMA SwapStep ==
  ASSUME Sane, RwTypes, ListLocked, NEW s, Listed(s), NEW t \in Rw!Threads, Rw!SwapPair(t)
  PROVE  \E k \in 0 .. size - 2 : Lists(Exchanged(s, k), size, rwFirst', rwNext')
<1>1. /\ size \in Nat /\ size >= 2 /\ index[t] \in Nat /\ NULL \notin Rw!Node
  BY DEF Sane, RwTypes, ListLocked, Rw!SwapPair
<1> DEFINE k == index[t] % (size - 1)
<1>2. k \in 0 .. size - 2
  BY <1>1
<1>3. s \in [1 .. size -> Rw!Node]
  BY DEF Listed, Lists, IsList
<1>4. /\ Rw!At[k] = s[k + 1] /\ Rw!At[k + 1] = s[k + 2]
      /\ s[k + 1] \in Rw!Node /\ s[k + 2] \in Rw!Node
      /\ k # 0 => Rw!At[k - 1] = s[k]
  <2> HIDE DEF k
  <2>1. Rw!At[k] = s[k + 1]
    BY <1>1, <1>2, AtIs
  <2>2. Rw!At[k + 1] = s[(k + 1) + 1]
    BY <1>1, <1>2, AtIs
  <2>3. ASSUME k # 0 PROVE Rw!At[k - 1] = s[(k - 1) + 1]
    BY <1>1, <1>2, <2>3, AtIs
  <2> QED
    BY <1>1, <1>2, <1>3, <2>1, <2>2, <2>3
<1>5. Relinked(s, k, rwFirst, rwNext, rwFirst', rwNext')
  <2> DEFINE exchanged ==
        [rwNext EXCEPT ![Rw!At[k]] = rwNext[Rw!At[k + 1]], ![Rw!At[k + 1]] = Rw!At[k]]
  <2>1. /\ rwFirst' = IF k = 0 THEN Rw!At[k + 1] ELSE rwFirst
        /\ rwNext' = IF k = 0 THEN exchanged ELSE [exchanged EXCEPT ![Rw!At[k - 1]] = Rw!At[k + 1]]
    BY <1>1, <1>4 DEF Rw!SwapPair
  <2> HIDE DEF k
  <2>2. CASE k = 0
    BY <1>4, <2>1, <2>2 DEF Relinked
  <2>3. CASE k # 0
    BY <1>4, <2>1, <2>3 DEF Relinked
  <2> QED
    BY <2>2, <2>3
<1> HIDE DEF k
<1>6. Lists(Exchanged(s, k), size, rwFirst', rwNext')
  BY <1>1, <1>2, <1>5, ExchangedIsList DEF Listed
<1> QED
  BY <1>2, <1>6
-----------------------------------------------------------------------------
(* What one step of a thread t is about.                                     *)
LEMMA CounterIs ==
  ASSUME Sane, RwTypes, NEW t \in Rw!Threads, rwPc[t] \in Reading \cup {"compare"}
  PROVE  t \in RwCounters /\ t \notin RwSwappers
BY DEF Sane, RwTypes, Rw!Threads, Reading, Paired, SwapperLabels

(* Only a swapper takes the write lock.                                      *)
LEMMA SwapperIs ==
  ASSUME Sane, RwTypes, NEW t \in Rw!Threads, rwPc[t] \in {"wrlock", "swap", "unlock"}
  PROVE  t \in RwSwappers /\ t \notin RwCounters
BY DEF Sane, RwTypes, Rw!Threads, Reading, Paired, CounterLabels

(* The steps of a thread that leave the list as it is.                       *)
QuietStep(t) == Rw!Counter(t) \/ Rw!Decide(t) \/ Rw!WrLock(t) \/ Rw!WrUnlock(t)

(* They change neither s->first nor a link nor the size.                     *)
LEMMA QuietList ==
  ASSUME NEW t \in Rw!Threads, QuietStep(t)
  PROVE  UNCHANGED <<rwFirst, rwNext, size, list_size>>
BY DEF QuietStep, Rw!Counter, Rw!RdLock, Rw!NoPair, Rw!FindPair, Rw!LockPrev, Rw!LockCurr,
   Rw!LockNode, Rw!ReleaseList,
       Rw!Compare, Rw!Decide, Rw!WrLock, Rw!WrUnlock, Rw!list

(* The walk of a counter ends at neighbours.                                 *)
LEMMA PairFound ==
  ASSUME Sane, RwTypes, NEW s, Listed(s), NEW t \in Rw!Threads, Rw!FindPair(t)
  PROVE  \E k \in 1 .. size - 1 :
           /\ s[k] \in Rw!Node /\ Rw!At[index[t]] = s[k]
           /\ s[k + 1] \in Rw!Node /\ Rw!At[index[t] + 1] = s[k + 1]
<1> DEFINE j == index[t]
<1>1. j \in Nat /\ size \in Nat /\ j < size - 1
  BY DEF RwTypes, Rw!FindPair
<1> HIDE DEF j
<1>2. j + 1 \in 1 .. size - 1 /\ j + 1 \in 1 .. size /\ (j + 1) + 1 \in 1 .. size
  BY <1>1
<1>3. s \in [1 .. size -> Rw!Node]
  BY DEF Listed, Lists, IsList
<1>4. Rw!At[j] = s[j + 1] /\ Rw!At[j + 1] = s[(j + 1) + 1]
  BY <1>1, AtIs
<1>5. /\ Rw!At[j] = s[j + 1] /\ Rw!At[j + 1] = s[(j + 1) + 1]
      /\ s[j + 1] \in Rw!Node /\ s[(j + 1) + 1] \in Rw!Node
  BY <1>2, <1>3, <1>4
<1> QED
  BY <1>2, <1>5 DEF j

(* They keep the types,                                                      *)
LEMMA QuietTypes ==
  ASSUME Sane, RwTypes, NEW s, Listed(s), NEW t \in Rw!Threads, QuietStep(t)
  PROVE  RwTypes'
<1>1. CASE Rw!RdLock(t)
  BY <1>1, QuietList DEF Sane, RwTypes, Rw!RdLock, Rw!Go, Rw!list, Rw!rwlock, Rw!pair, Rw!Threads,
     CounterLabels, SwapperLabels, Reading, Paired
<1>2. CASE Rw!NoPair(t)
  BY <1>2, QuietList
     DEF Sane, RwTypes, Rw!NoPair, Rw!RdUnlock, Rw!Go, Rw!list, Rw!rwlock, Rw!pair, Rw!Threads,
     CounterLabels, SwapperLabels, Reading, Paired
<1>3. CASE Rw!FindPair(t)
  <2>1. /\ Rw!At[index[t]] \in Rw!Node /\ Rw!At[index[t] + 1] \in Rw!Node
        /\ Rw!At[index[t]] # NULL /\ Rw!At[index[t] + 1] # NULL
    BY <1>3, PairFound DEF Sane
  <2>2. t \in RwCounters /\ t \notin RwSwappers
    BY <1>3, CounterIs DEF Rw!FindPair, Reading
  <2> QED
    BY <1>3, <2>1, <2>2, QuietList DEF RwTypes, Rw!FindPair, Rw!Go, Rw!list, Rw!rwlock, Rw!Threads,
       CounterLabels, SwapperLabels, Reading, Paired
<1>4. CASE Rw!LockPrev(t)
  BY <1>4, QuietList
     DEF Sane, RwTypes, Rw!LockPrev, Rw!LockNode, Rw!Go, Rw!list, Rw!rwlock, Rw!pair, Rw!Threads,
     CounterLabels, SwapperLabels, Reading, Paired
<1>5. CASE Rw!LockCurr(t)
  BY <1>5, QuietList
     DEF Sane, RwTypes, Rw!LockCurr, Rw!LockNode, Rw!Go, Rw!list, Rw!rwlock, Rw!pair, Rw!Threads,
     CounterLabels, SwapperLabels, Reading, Paired
<1>6. CASE Rw!ReleaseList(t)
  BY <1>6, QuietList
     DEF Sane, RwTypes, Rw!ReleaseList, Rw!RdUnlock, Rw!Go, Rw!list, Rw!rwlock, Rw!pair,
         Rw!Threads,
     CounterLabels, SwapperLabels, Reading, Paired
<1>7. CASE Rw!Compare(t)
  <2>1. t \in RwCounters /\ t \notin RwSwappers
    BY <1>7, CounterIs DEF Rw!Compare
  <2>2. /\ rwPc' = [rwPc EXCEPT ![t] = "idle"] /\ index' = [index EXCEPT ![t] = @ + 1]
        /\ rwLock' = [rwLock EXCEPT ![rwPrev[t]] = NoThread, ![curr[t]] = NoThread]
        /\ rwPrev' = [rwPrev EXCEPT ![t] = NULL] /\ curr' = [curr EXCEPT ![t] = NULL]
        /\ UNCHANGED <<size, list_size>>
    BY <1>7 DEF Rw!Compare, Rw!Go, Rw!list
  <2>3. rwLock' \in [Rw!Node -> Rw!Threads \cup {NoThread}]
    BY <2>2 DEF RwTypes
  <2>4. index' \in [Rw!Threads -> Nat]
    BY <2>2 DEF RwTypes
  <2> QED
    BY <2>1, <2>2, <2>3, <2>4 DEF RwTypes, Rw!Threads, CounterLabels, SwapperLabels
<1>8. CASE Rw!Decide(t)
  BY <1>8, QuietList
     DEF Sane, RwTypes, Rw!Decide, Rw!NextIndex, Rw!Go, Rw!list, Rw!rwlock, Rw!pair, Rw!Threads,
     CounterLabels, SwapperLabels, Reading, Paired
<1>9. CASE Rw!WrLock(t)
  BY <1>9, QuietList DEF Sane, RwTypes, Rw!WrLock, Rw!Go, Rw!list, Rw!rwlock, Rw!pair, Rw!Threads,
     CounterLabels, SwapperLabels, Reading, Paired
<1>10. CASE Rw!WrUnlock(t)
  BY <1>10, QuietList
     DEF Sane, RwTypes, Rw!WrUnlock, Rw!Go, Rw!list, Rw!rwlock, Rw!pair, Rw!Threads,
     CounterLabels, SwapperLabels, Reading, Paired
<1> QED
  BY <1>1, <1>2, <1>3, <1>4, <1>5, <1>6, <1>7, <1>8, <1>9, <1>10 DEF QuietStep, Rw!Counter

(* they keep a swapper alone in the list,                                    *)
LEMMA QuietLocks ==
  ASSUME Sane, RwTypes, ListLocked, NEW t \in Rw!Threads, QuietStep(t)
  PROVE  ListLocked'
<1>1. CASE Rw!RdLock(t)
  BY <1>1, QuietList
     DEF Sane, RwTypes, ListLocked, Rw!RdLock, Rw!Go, Rw!list, Rw!rwlock, Rw!pair, Rw!Threads,
     CounterLabels, SwapperLabels, Reading, Paired
<1>2. CASE Rw!NoPair(t)
  BY <1>2, QuietList
     DEF Sane, RwTypes, ListLocked, Rw!NoPair, Rw!RdUnlock, Rw!Go, Rw!list, Rw!rwlock, Rw!pair,
         Rw!Threads,
     CounterLabels, SwapperLabels, Reading, Paired
<1>3. CASE Rw!FindPair(t)
  BY <1>3, QuietList
     DEF Sane, RwTypes, ListLocked, Rw!FindPair, Rw!RdUnlock, Rw!Go, Rw!list, Rw!rwlock, Rw!pair,
     Rw!Threads, CounterLabels, SwapperLabels, Reading, Paired
<1>4. CASE Rw!LockPrev(t)
  BY <1>4, QuietList
     DEF Sane, RwTypes, ListLocked, Rw!LockPrev, Rw!LockNode, Rw!Go, Rw!list, Rw!rwlock, Rw!pair,
     Rw!Threads, CounterLabels, SwapperLabels, Reading, Paired
<1>5. CASE Rw!LockCurr(t)
  BY <1>5, QuietList
     DEF Sane, RwTypes, ListLocked, Rw!LockCurr, Rw!LockNode, Rw!Go, Rw!list, Rw!rwlock, Rw!pair,
     Rw!Threads, CounterLabels, SwapperLabels, Reading, Paired
<1>6. CASE Rw!ReleaseList(t)
  BY <1>6, QuietList
     DEF Sane, RwTypes, ListLocked, Rw!ReleaseList, Rw!RdUnlock, Rw!Go, Rw!list, Rw!rwlock,
         Rw!pair,
     Rw!Threads, CounterLabels, SwapperLabels, Reading, Paired
<1>7. CASE Rw!Compare(t)
  BY <1>7, QuietList
     DEF Sane, RwTypes, ListLocked, Rw!Compare, Rw!Go, Rw!list, Rw!rwlock, Rw!pair, Rw!Threads,
     CounterLabels, SwapperLabels, Reading, Paired
<1>8. CASE Rw!Decide(t)
  BY <1>8, QuietList
     DEF Sane, RwTypes, ListLocked, Rw!Decide, Rw!NextIndex, Rw!Go, Rw!list, Rw!rwlock, Rw!pair,
     Rw!Threads, CounterLabels, SwapperLabels, Reading, Paired
<1>9. CASE Rw!WrLock(t)
  BY <1>9, QuietList
     DEF Sane, RwTypes, ListLocked, Rw!WrLock, Rw!Go, Rw!list, Rw!rwlock, Rw!pair, Rw!Threads,
     CounterLabels, SwapperLabels, Reading, Paired
<1>10. CASE Rw!WrUnlock(t)
  BY <1>10, QuietList
     DEF Sane, RwTypes, ListLocked, Rw!WrUnlock, Rw!Go, Rw!list, Rw!rwlock, Rw!pair, Rw!Threads,
     CounterLabels, SwapperLabels, Reading, Paired
<1> QED
  BY <1>1, <1>2, <1>3, <1>4, <1>5, <1>6, <1>7, <1>8, <1>9, <1>10 DEF QuietStep, Rw!Counter

(* they are steps of threads that have been started,                         *)
LEMMA QuietBuilt ==
  ASSUME Sane, RwTypes, Built, NEW t \in Rw!Threads, QuietStep(t)
  PROVE  Built'
<1>1. CASE Rw!RdLock(t)
  BY <1>1, QuietList DEF RwTypes, Built, Rw!RdLock, Rw!Go, Rw!rwlock
<1>2. CASE Rw!NoPair(t)
  BY <1>2, QuietList DEF RwTypes, Built, Rw!NoPair, Rw!RdUnlock, Rw!Go, Rw!rwlock
<1>3. CASE Rw!FindPair(t)
  BY <1>3, QuietList DEF RwTypes, Built, Rw!FindPair, Rw!RdUnlock, Rw!Go, Rw!rwlock
<1>4. CASE Rw!LockPrev(t)
  BY <1>4, QuietList DEF RwTypes, Built, Rw!LockPrev, Rw!LockNode, Rw!Go, Rw!rwlock
<1>5. CASE Rw!LockCurr(t)
  BY <1>5, QuietList DEF RwTypes, Built, Rw!LockCurr, Rw!LockNode, Rw!Go, Rw!rwlock
<1>6. CASE Rw!ReleaseList(t)
  BY <1>6, QuietList DEF RwTypes, Built, Rw!ReleaseList, Rw!RdUnlock, Rw!Go, Rw!rwlock
<1>7. CASE Rw!Compare(t)
  BY <1>7, QuietList DEF RwTypes, Built, Rw!Compare, Rw!Go, Rw!rwlock
<1>8. CASE Rw!Decide(t)
  BY <1>8, QuietList DEF RwTypes, Built, Rw!Decide, Rw!NextIndex, Rw!Go, Rw!rwlock
<1>9. CASE Rw!WrLock(t)
  BY <1>9, QuietList DEF RwTypes, Built, Rw!WrLock, Rw!Go, Rw!rwlock
<1>10. CASE Rw!WrUnlock(t)
  BY <1>10, QuietList DEF RwTypes, Built, Rw!WrUnlock, Rw!Go, Rw!rwlock
<1> QED
  BY <1>1, <1>2, <1>3, <1>4, <1>5, <1>6, <1>7, <1>8, <1>9, <1>10 DEF QuietStep, Rw!Counter

(* a node stays with the counter that has it in its pair,                    *)
LEMMA QuietNodes ==
  ASSUME Sane, RwTypes, NodesLocked, NEW t \in Rw!Threads, QuietStep(t)
  PROVE  NodesLocked'
<1>1. CASE Rw!RdLock(t)
  BY <1>1, CounterIs, SwapperIs DEF Sane, RwTypes, NodesLocked, Rw!RdLock,
     Rw!Go, Rw!rwlock, Rw!pair, Rw!Threads, Reading, Paired
<1>2. CASE Rw!NoPair(t)
  BY <1>2, CounterIs, SwapperIs DEF Sane, RwTypes, NodesLocked, Rw!NoPair, Rw!RdUnlock,
     Rw!Go, Rw!rwlock, Rw!pair, Rw!Threads, Reading, Paired
<1>3. CASE Rw!FindPair(t)
  BY <1>3, CounterIs, SwapperIs DEF Sane, RwTypes, NodesLocked, Rw!FindPair, Rw!RdUnlock,
     Rw!Go, Rw!rwlock, Rw!pair, Rw!Threads, Reading, Paired
<1>4. CASE Rw!LockPrev(t)
  BY <1>4, CounterIs, SwapperIs DEF Sane, RwTypes, NodesLocked, Rw!LockPrev, Rw!LockNode,
     Rw!Go, Rw!rwlock, Rw!pair, Rw!Threads, Reading, Paired
<1>5. CASE Rw!LockCurr(t)
  BY <1>5, CounterIs, SwapperIs DEF Sane, RwTypes, NodesLocked, Rw!LockCurr, Rw!LockNode,
     Rw!Go, Rw!rwlock, Rw!pair, Rw!Threads, Reading, Paired
<1>6. CASE Rw!ReleaseList(t)
  BY <1>6, CounterIs, SwapperIs DEF Sane, RwTypes, NodesLocked, Rw!ReleaseList, Rw!RdUnlock,
     Rw!Go, Rw!rwlock, Rw!pair, Rw!Threads, Reading, Paired
<1>7. CASE Rw!Compare(t)
  BY <1>7, CounterIs, SwapperIs DEF Sane, RwTypes, NodesLocked, Rw!Compare,
     Rw!Go, Rw!rwlock, Rw!pair, Rw!Threads, Reading, Paired
<1>8. CASE Rw!Decide(t)
  BY <1>8, CounterIs, SwapperIs DEF Sane, RwTypes, NodesLocked, Rw!Decide, Rw!NextIndex,
     Rw!Go, Rw!rwlock, Rw!pair, Rw!Threads, Reading, Paired
<1>9. CASE Rw!WrLock(t)
  BY <1>9, CounterIs, SwapperIs DEF Sane, RwTypes, NodesLocked, Rw!WrLock,
     Rw!Go, Rw!rwlock, Rw!pair, Rw!Threads, Reading, Paired
<1>10. CASE Rw!WrUnlock(t)
  BY <1>10, CounterIs, SwapperIs DEF Sane, RwTypes, NodesLocked, Rw!WrUnlock,
     Rw!Go, Rw!rwlock, Rw!pair, Rw!Threads, Reading, Paired
<1> QED
  BY <1>1, <1>2, <1>3, <1>4, <1>5, <1>6, <1>7, <1>8, <1>9, <1>10 DEF QuietStep, Rw!Counter

(* and a pair is always one found on s.                                      *)
LEMMA QuietPairs ==
  ASSUME Sane, RwTypes, NEW s, Listed(s), PairsOn(s), NEW t \in Rw!Threads, QuietStep(t)
  PROVE  PairsOn(s)'
<1>1. CASE Rw!RdLock(t)
  BY <1>1, QuietList, CounterIs, SwapperIs DEF Sane, RwTypes, PairsOn, Rw!RdLock,
     Rw!Go, Rw!rwlock, Rw!pair, Rw!Threads, Reading, Paired
<1>2. CASE Rw!NoPair(t)
  BY <1>2, QuietList, CounterIs, SwapperIs DEF Sane, RwTypes, PairsOn, Rw!NoPair, Rw!RdUnlock,
     Rw!Go, Rw!rwlock, Rw!pair, Rw!Threads, Reading, Paired
<1>3. CASE Rw!FindPair(t)
  <2>1. PICK k \in 1 .. size - 1 : /\ s[k] \in Rw!Node /\ Rw!At[index[t]] = s[k]
                                   /\ s[k + 1] \in Rw!Node /\ Rw!At[index[t] + 1] = s[k + 1]
    BY <1>3, PairFound
  <2>2. /\ rwPc' = [rwPc EXCEPT ![t] = "lock_prev"] /\ UNCHANGED size
        /\ rwPrev' = [rwPrev EXCEPT ![t] = s[k]] /\ curr' = [curr EXCEPT ![t] = s[k + 1]]
    BY <1>3, <2>1 DEF Sane, Rw!FindPair, Rw!Go, Rw!list
  <2> QED
    BY <2>2 DEF RwTypes, PairsOn, Rw!Threads
<1>4. CASE Rw!LockPrev(t)
  BY <1>4, QuietList, CounterIs, SwapperIs DEF Sane, RwTypes, PairsOn, Rw!LockPrev, Rw!LockNode,
     Rw!Go, Rw!rwlock, Rw!pair, Rw!Threads, Reading, Paired
<1>5. CASE Rw!LockCurr(t)
  BY <1>5, QuietList, CounterIs, SwapperIs DEF Sane, RwTypes, PairsOn, Rw!LockCurr, Rw!LockNode,
     Rw!Go, Rw!rwlock, Rw!pair, Rw!Threads, Reading, Paired
<1>6. CASE Rw!ReleaseList(t)
  BY <1>6, QuietList, CounterIs, SwapperIs DEF Sane, RwTypes, PairsOn, Rw!ReleaseList, Rw!RdUnlock,
     Rw!Go, Rw!rwlock, Rw!pair, Rw!Threads, Reading, Paired
<1>7. CASE Rw!Compare(t)
  BY <1>7, QuietList, CounterIs, SwapperIs DEF Sane, RwTypes, PairsOn, Rw!Compare,
     Rw!Go, Rw!rwlock, Rw!pair, Rw!Threads, Reading, Paired
<1>8. CASE Rw!Decide(t)
  BY <1>8, QuietList, CounterIs, SwapperIs DEF Sane, RwTypes, PairsOn, Rw!Decide, Rw!NextIndex,
     Rw!Go, Rw!rwlock, Rw!pair, Rw!Threads, Reading, Paired
<1>9. CASE Rw!WrLock(t)
  BY <1>9, QuietList, CounterIs, SwapperIs DEF Sane, RwTypes, PairsOn, Rw!WrLock,
     Rw!Go, Rw!rwlock, Rw!pair, Rw!Threads, Reading, Paired
<1>10. CASE Rw!WrUnlock(t)
  BY <1>10, QuietList, CounterIs, SwapperIs DEF Sane, RwTypes, PairsOn, Rw!WrUnlock,
     Rw!Go, Rw!rwlock, Rw!pair, Rw!Threads, Reading, Paired
<1> QED
  BY <1>1, <1>2, <1>3, <1>4, <1>5, <1>6, <1>7, <1>8, <1>9, <1>10 DEF QuietStep, Rw!Counter
-----------------------------------------------------------------------------
(* A swapper that exchanges two nodes disturbs no counter.                   *)
LEMMA SwapKeeps ==
  ASSUME Sane, RwTypes, ListLocked, Built, NodesLocked, NEW s, NEW t \in Rw!Threads, Rw!SwapPair(t)
  PROVE  /\ RwTypes' /\ ListLocked' /\ Built' /\ NodesLocked' /\ PairsOn(s)'
         /\ size' = size /\ \A u \in Rw!Threads : rwPc[u] # "unborn" /\ rwPc'[u] # "unborn"
<1>1. /\ t \in RwSwappers /\ t \notin RwCounters /\ rwPc[t] = "swap"
      /\ index[t] \in Nat /\ size \in Nat /\ size >= 2
  BY SwapperIs DEF Rw!SwapPair, RwTypes, ListLocked
<1>2. /\ rwPc' = [rwPc EXCEPT ![t] = "unlock"] /\ index' = Rw!NextIndex(t)
      /\ UNCHANGED <<size, list_size, readers, writer, rwLock, rwPrev, curr>>
  BY DEF Rw!SwapPair, Rw!Go, Rw!rwlock, Rw!pair
<1>3. index' \in [Rw!Threads -> Nat]
  BY <1>1, <1>2 DEF Rw!NextIndex, RwTypes
<1>4. RwTypes'
  BY <1>1, <1>2, <1>3 DEF RwTypes, Rw!Threads, SwapperLabels
<1>5. ListLocked'
  BY <1>1, <1>2 DEF Sane, RwTypes, ListLocked, Rw!Threads
<1>6. Built' /\ \A u \in Rw!Threads : rwPc[u] # "unborn" /\ rwPc'[u] # "unborn"
  BY <1>1, <1>2 DEF RwTypes, Built
<1>7. NodesLocked'
  BY <1>1, <1>2 DEF RwTypes, NodesLocked, Rw!Threads
<1>8. PairsOn(s)'
  <2>1. writer = t /\ NoThread # t
    BY <1>1 DEF Sane, ListLocked
  <2>2. \A u \in RwCounters : rwPc[u] \notin Reading
    BY <2>1 DEF ListLocked
  <2> QED
    BY <1>1, <1>2, <2>2 DEF RwTypes, PairsOn, Reading, Rw!Threads
<1> QED
  BY <1>2, <1>4, <1>5, <1>6, <1>7, <1>8

(* While main builds the list and when it starts the threads they do nothing. *)
LEMMA RwMainKeeps ==
  ASSUME Sane, RwTypes, ListLocked, Built, NodesLocked, NEW s, Rw!StorageAdd \/ Rw!StartThreads
  PROVE  /\ RwTypes' /\ ListLocked' /\ Built' /\ NodesLocked' /\ PairsOn(s)'
         /\ \A t \in Rw!Threads : rwPc[t] = "unborn"
<1>1. CASE Rw!StorageAdd
  <2>1. /\ size \in Nat /\ size < list_size /\ size' = size + 1
        /\ UNCHANGED <<list_size, readers, writer, rwLock, rwPc, index, rwPrev, curr>>
    BY <1>1 DEF RwTypes, Rw!StorageAdd, Rw!rwlock, Rw!pair
  <2>2. \A t \in Rw!Threads : rwPc[t] = "unborn"
    BY <2>1 DEF Built
  <2>3. RwTypes'
    BY <2>1 DEF RwTypes, Rw!Node
  <2>4. ListLocked' /\ Built' /\ NodesLocked' /\ PairsOn(s)'
    BY <2>1, <2>2 DEF ListLocked, Built, NodesLocked, PairsOn, Rw!Threads, Paired
  <2> QED
    BY <2>2, <2>3, <2>4
<1>2. CASE Rw!StartThreads
  <2>1. /\ \A t \in Rw!Threads : rwPc[t] = "unborn"
        /\ rwPc' = [t \in Rw!Threads |-> "idle"] /\ size = list_size
        /\ UNCHANGED <<size, list_size, readers, writer, rwLock, index, rwPrev, curr>>
    BY <1>2 DEF Rw!StartThreads, Rw!list, Rw!rwlock, Rw!pair
  <2>2. RwTypes' /\ Built'
    BY <2>1 DEF RwTypes, Built, Rw!Threads, Rw!Node, CounterLabels, SwapperLabels
  <2>3. ListLocked'
    BY <2>1 DEF ListLocked, Rw!Threads, Reading, Paired
  <2>4. NodesLocked' /\ PairsOn(s)'
    BY <2>1 DEF NodesLocked, PairsOn, Rw!Threads, Paired
  <2> QED
    BY <2>1, <2>2, <2>3, <2>4
<1> QED
  BY <1>1, <1>2

(* main has started the threads.                                             *)
Started == \A t \in Rw!Threads : rwPc[t] # "unborn"

(* What a step makes of the list s: the steps of SwappedList.                *)
StepsTo(s, s2) ==
  \/ s2 = s /\ UNCHANGED <<size, Started>>
  \/ ~Started /\ ~Started' /\ size' = size + 1 /\ s2 = Longer(s, size)
  \/ ~Started /\ Started' /\ size' = size /\ size > 0 /\ s2 = s
  \/ /\ Started /\ Started' /\ size' = size
     /\ \E k \in 0 .. size - 2 : s2 = Exchanged(s, k)

(* Every step keeps the invariant and changes s as StepsTo says.             *)
LEMMA RwListStep ==
  ASSUME Sane, RwTypes, ListLocked, Built, NodesLocked, NEW s, Listed(s), PairsOn(s),
         [Rw!Next]_Rw!vars
  PROVE  /\ RwTypes' /\ ListLocked' /\ Built' /\ NodesLocked'
         /\ \E s2 : Listed(s2)' /\ PairsOn(s2)' /\ StepsTo(s, s2)
<1>0. PICK u : u \in Rw!Threads
  BY DEF Sane
<1>1. CASE Rw!StorageAdd
  <2>1. Lists(Longer(s, size), size', rwFirst', rwNext') /\ size' = size + 1 /\ UNCHANGED rwPc
    BY <1>1, AddStep DEF Rw!StorageAdd
  <2> DEFINE s2 == [k \in 1 .. size + 1 |-> IF k <= size THEN s[k] ELSE size + 1]
  <2>2. PICK q : q = Longer(s, size)
    OBVIOUS
  <2>3. StepsTo(s, q)
    BY <1>0, <1>1, <2>1, <2>2, RwMainKeeps DEF StepsTo, Started
  <2>4. Listed(q)' /\ PairsOn(q)'
    BY <1>1, <2>1, <2>2, RwMainKeeps DEF Listed
  <2> QED
    BY <1>1, <2>3, <2>4, RwMainKeeps
<1>2. CASE Rw!StartThreads
  <2>1. /\ UNCHANGED <<size, rwFirst, rwNext>> /\ size > 0
        /\ rwPc' = [t \in Rw!Threads |-> "idle"]
    BY <1>2 DEF Rw!StartThreads, Rw!list, RwTypes, Rw!Node
  <2>2. StepsTo(s, s)
    BY <1>0, <1>2, <2>1, RwMainKeeps DEF StepsTo, Started
  <2>3. Listed(s)'
    BY <2>1 DEF Listed
  <2> QED
    BY <1>2, <2>2, <2>3, RwMainKeeps
<1>3. CASE \E t \in Rw!Threads : Rw!SwapPair(t)
  <2>1. PICK t \in Rw!Threads : Rw!SwapPair(t)
    BY <1>3
  <2>2. PICK k \in 0 .. size - 2 : Lists(Exchanged(s, k), size, rwFirst', rwNext')
    BY <2>1, SwapStep
  <2>3. PICK q : q = Exchanged(s, k)
    OBVIOUS
  <2>4. size' = size
    BY <2>1, SwapKeeps
  <2>5. Listed(q)' /\ PairsOn(q)'
    BY <2>1, <2>2, <2>3, <2>4, SwapKeeps DEF Listed
  <2>6. StepsTo(s, q)
    BY <2>1, <2>3, <2>4, SwapKeeps DEF StepsTo, Started
  <2> QED
    BY <2>1, <2>5, <2>6, SwapKeeps
<1>4. CASE \E t \in Rw!Threads : QuietStep(t)
  <2>1. PICK t \in Rw!Threads : QuietStep(t)
    BY <1>4
  <2>2. RwTypes' /\ ListLocked' /\ Built' /\ NodesLocked' /\ PairsOn(s)'
    BY <2>1, QuietTypes, QuietLocks, QuietBuilt, QuietNodes, QuietPairs
  <2>3. UNCHANGED <<rwFirst, rwNext, size>>
    BY <2>1, QuietList
  <2>4. Started /\ Started'
    <3>1. rwPc[t] # "unborn" /\ rwPc'[t] # "unborn"
      BY <2>1
         DEF QuietStep, Rw!Counter, Rw!RdLock, Rw!NoPair, Rw!FindPair, Rw!RdUnlock, Rw!LockPrev,
             Rw!LockCurr,
         Rw!LockNode, Rw!ReleaseList, Rw!Compare, Rw!Decide, Rw!WrLock, Rw!WrUnlock, Rw!Go, RwTypes
    <3> QED
      BY <2>2, <3>1 DEF Started, Built
  <2>5. StepsTo(s, s)
    BY <2>3, <2>4 DEF StepsTo
  <2> QED
    BY <2>2, <2>3, <2>5 DEF Listed
<1>5. CASE UNCHANGED Rw!vars
  <2>1. StepsTo(s, s)
    BY <1>5 DEF Rw!vars, Rw!list, StepsTo, Started
  <2> QED
    BY <1>5, <2>1
       DEF Rw!vars, Rw!list, Rw!rwlock, Rw!pair, RwTypes, ListLocked, Built, NodesLocked, Listed,
       PairsOn
<1> QED
  BY <1>1, <1>2, <1>3, <1>4, <1>5 DEF Rw!Next, Rw!Swapper, QuietStep

(* Before main has made a node.                                              *)
LEMMA ListStarts ==
  ASSUME Sane, Rw!Init
  PROVE  /\ RwTypes /\ ListLocked /\ Built /\ NodesLocked /\ size = 0 /\ ~Started
         /\ \E s : Listed(s) /\ PairsOn(s)
<1>1. RwTypes
  BY DEF Sane, Rw!Init, RwTypes, Rw!Threads, Rw!Node, CounterLabels, SwapperLabels
<1>2. ListLocked /\ Built /\ NodesLocked
  BY DEF Sane, Rw!Init, ListLocked, Built, NodesLocked, Rw!Threads, Reading, Paired
<1>3. size = 0 /\ ~Started
  BY DEF Sane, Rw!Init, Started
<1> DEFINE s == [k \in 1 .. 0 |-> 1]
<1>4. Listed(s)
  BY DEF Rw!Init, Listed, Lists, IsList
<1>5. PairsOn(s)
  BY DEF Rw!Init, PairsOn, Paired, Rw!Threads
<1> QED
  BY <1>1, <1>2, <1>3, <1>4, <1>5

(* The list invariant is kept by every step.                                 *)
LEMMA InvStep ==
  ASSUME Sane, RwInv, [Rw!Next]_Rw!vars
  PROVE  RwInv'
<1>1. PICK s : Listed(s) /\ PairsOn(s)
  BY DEF RwInv
<1>2. /\ RwTypes' /\ ListLocked' /\ Built' /\ NodesLocked'
      /\ \E s2 : Listed(s2)' /\ PairsOn(s2)' /\ StepsTo(s, s2)
  BY <1>1, RwListStep DEF RwInv
<1> QED
  BY <1>2 DEF RwInv

(* The pair of a counter are neighbours.                                     *)
LEMMA InvPairs ==
  ASSUME RwInv
  PROVE  Rw!PairIsCurrent
<1>1. PICK s : Listed(s) /\ PairsOn(s)
  BY DEF RwInv
<1>2. SUFFICES ASSUME NEW t \in RwCounters, rwPc[t] \in Paired PROVE rwNext[rwPrev[t]] = curr[t]
  BY DEF Rw!PairIsCurrent, Paired
<1>3. PICK k \in 1 .. size - 1 : rwPrev[t] = s[k] /\ curr[t] = s[k + 1]
  BY <1>1, <1>2 DEF PairsOn
<1>4. size \in Nat /\ \A j \in 1 .. size : rwNext[s[j]] = IF j = size THEN NULL ELSE s[j + 1]
  BY <1>1 DEF Listed, Lists, IsList
<1> QED
  BY <1>3, <1>4

(* In a group of threads that wait for one another nobody waits for a node:  *)
(* whoever holds the wanted node furthest down the list waits for none, or   *)
(* for one still further down.                                               *)
LEMMA NobodyWaitsForANode ==
  ASSUME Sane, RwInv, NEW group \in SUBSET Rw!Threads,
         \A t \in group : Rw!WaitsFor(t) \cap group # {}
  PROVE  \A t \in group : rwPc[t] \notin {"lock_prev", "lock_curr"}
<1>1. SUFFICES ASSUME NEW t \in group, rwPc[t] \in {"lock_prev", "lock_curr"} PROVE FALSE
  OBVIOUS
<1>2. PICK s : Listed(s) /\ PairsOn(s)
  BY DEF RwInv
<1>3. /\ size \in Nat /\ s \in [1 .. size -> Rw!Node]
      /\ \A j, k \in 1 .. size : s[j] = s[k] => j = k
  BY <1>2 DEF Listed, Lists, IsList
<1>4. RwTypes /\ NodesLocked
  BY DEF RwInv
<1> DEFINE Wants(u, m) ==
      \/ rwPc[u] = "lock_prev" /\ rwPrev[u] = s[m]
      \/ rwPc[u] = "lock_curr" /\ curr[u] = s[m]
<1> DEFINE P == {m \in 1 .. size : \E u \in group : Wants(u, m)}
<1>5. ASSUME NEW u \in group, rwPc[u] \in {"lock_prev", "lock_curr"}
      PROVE  \E k \in 1 .. size - 1 :
               k \in 1 .. size /\ k + 1 \in 1 .. size /\ rwPrev[u] = s[k] /\ curr[u] = s[k + 1]
  <2>1. u \in RwCounters
    BY <1>4, <1>5, CounterIs DEF Reading, Paired
  <2>2. PICK k \in 1 .. size - 1 : rwPrev[u] = s[k] /\ curr[u] = s[k + 1]
    BY <1>2, <1>5, <2>1 DEF PairsOn, Paired
  <2>3. k \in 1 .. size /\ k + 1 \in 1 .. size
    BY <1>3
  <2> QED
    BY <2>2, <2>3
<1>6. P # {}
  <2>1. PICK k \in 1 .. size - 1 :
          k \in 1 .. size /\ k + 1 \in 1 .. size /\ rwPrev[t] = s[k] /\ curr[t] = s[k + 1]
    BY <1>1, <1>5
  <2> QED
    BY <1>1, <2>1
<1>7. PICK m \in P : \A k \in P : k <= m
  <2>1. P \subseteq 1 .. size
    OBVIOUS
  <2> HIDE DEF P
  <2> QED
    BY <1>3, <1>6, <2>1, Greatest
<1>8. PICK u \in group : Wants(u, m)
  BY <1>7
<1>9. Rw!WaitsFor(u) = {rwLock[s[m]]} \ {NoThread}
  BY <1>8 DEF Rw!WaitsFor
<1>10. PICK v \in group : v = rwLock[s[m]] /\ v # NoThread
  BY <1>9
<1>11. s[m] \in Rw!Node
  BY <1>3, <1>7
<1>12. CASE rwPc[v] = "lock_curr" /\ s[m] = rwPrev[v]
  <2>1. PICK k \in 1 .. size - 1 :
          k \in 1 .. size /\ k + 1 \in 1 .. size /\ rwPrev[v] = s[k] /\ curr[v] = s[k + 1]
    BY <1>5, <1>12
  <2>2. k = m
    BY <1>3, <1>7, <1>12, <2>1
  <2>3. m + 1 \in P
    BY <1>12, <2>1, <2>2
  <2> QED
    BY <1>3, <1>7, <2>3
<1>13. CASE rwPc[v] \in {"unlock_rw", "compare"}
  BY <1>13 DEF Rw!WaitsFor
<1> QED
  BY <1>4, <1>10, <1>11, <1>12, <1>13 DEF NodesLocked

(* A group of threads that wait only for one another would have to wait for  *)
(* the read-write lock, whose holders wait for nodes or not at all.          *)
LEMMA InvNoWaitCycle ==
  ASSUME Sane, RwInv
  PROVE  Rw!NoWaitCycle
<1>1. SUFFICES ASSUME NEW group \in SUBSET Rw!Threads, NEW t \in group,
                      \A u \in group : Rw!WaitsFor(u) \cap group # {}
               PROVE  FALSE
  BY DEF Rw!NoWaitCycle
<1>2. RwTypes /\ ListLocked
  BY DEF RwInv
<1>3. \A u \in group : rwPc[u] \notin {"lock_prev", "lock_curr"}
  BY <1>1, NobodyWaitsForANode
<1>4. \A u \in group : u \notin readers
  <2>1. SUFFICES ASSUME NEW u \in group, u \in readers PROVE FALSE
    OBVIOUS
  <2>2. rwPc[u] \in {"find", "unlock_rw"}
    BY <1>2, <1>3, <2>1 DEF ListLocked, Reading, Paired
  <2>3. Rw!WaitsFor(u) = {}
    BY <2>2 DEF Rw!WaitsFor
  <2> QED
    BY <1>1, <2>3
<1>5. \A u \in group : u # writer
  <2>1. SUFFICES ASSUME NEW u \in group, u = writer PROVE FALSE
    OBVIOUS
  <2>2. rwPc[u] \in {"swap", "unlock"}
    BY <1>2, <2>1 DEF ListLocked
  <2>3. Rw!WaitsFor(u) = {}
    BY <2>2 DEF Rw!WaitsFor
  <2> QED
    BY <1>1, <2>3
<1>6. Rw!WaitsFor(t) \subseteq readers \cup {writer}
  BY <1>3 DEF Rw!WaitsFor
<1> QED
  BY <1>1, <1>4, <1>5, <1>6
-----------------------------------------------------------------------------
(* Whatever the two programs do, the list of main.c takes a step of RwList. *)
LEMMA RwStep == [BothNext]_bothVars => [Rw!Next]_Rw!vars
BY DEF BothNext, bothVars, rwVars, Rw!vars, Rw!list, Rw!rwlock, Rw!pair

(* And the list of main1.c one of HandOverHand. *)
LEMMA NodeStep == [BothNext]_bothVars => [Next]_vars
BY DEF BothNext, bothVars
-----------------------------------------------------------------------------
(* The links of main1.c's list lead from lower to higher numbers.            *)
Acyclic == \E r : Ranked(r)

(* The inductive invariant of both programs.                                 *)
BothInv == ListInv /\ Acyclic /\ RwInv

(* Both programs start within the invariant.                                 *)
LEMMA BothStart == BothInit => BothInv
<1> SUFFICES ASSUME BothInit PROVE BothInv
  OBVIOUS
<1>1. ListInv /\ Acyclic
  BY ListInit, RankInit DEF BothInit, Acyclic
<1>2. Rw!Init
  BY DEF BothInit
<1>3. RwInv
  BY <1>2, RwSane, ListStarts DEF RwInv
<1> QED
  BY <1>1, <1>3 DEF BothInv

(* No step of either leaves it.                                              *)
LEMMA BothStep == BothInv /\ [BothNext]_bothVars => BothInv'
<1> SUFFICES ASSUME BothInv, [BothNext]_bothVars PROVE BothInv'
  OBVIOUS
<1>1. [Next]_vars /\ [Rw!Next]_Rw!vars
  BY NodeStep, RwStep
<1>2. ListInv' /\ Acyclic'
  BY <1>1, ListStep, RankStep DEF BothInv, Acyclic
<1>3. RwInv'
  BY <1>1, RwSane, InvStep DEF BothInv
<1> QED
  BY <1>2, <1>3 DEF BothInv

(* So they are always within it.                                             *)
LEMMA BothAlways == BothSpec => []BothInv
BY BothStart, BothStep, PTL DEF BothSpec

(* On the list of main.c a counter's pair are neighbours until it has both   *)
(* locked, whatever the swappers do.                                         *)
THEOREM PairsAreCurrent == BothSpec => []PairIsCurrent
<1>1. BothInv => PairIsCurrent
  BY RwSane, InvPairs
     DEF BothInv, PairIsCurrent, Rw!PairIsCurrent, Rw!PairIsCurrent
<1> QED
  BY <1>1, BothAlways, PTL

(* Neither list can deadlock: in no group of threads does each one wait for  *)
(* another of the group.                                                     *)
THEOREM ListsNeverDeadlock == BothSpec => []NoDeadlock
<1>1. BothInv => NoWaitCycle
  BY RankedNoWaitCycle DEF BothInv, Acyclic
<1>2. BothInv => Rw!NoWaitCycle
  BY RwSane, InvNoWaitCycle DEF BothInv
<1>3. Rw!NoWaitCycle => Rw!NoWaitCycle
  BY DEF Rw!NoWaitCycle, Rw!NoWaitCycle, Rw!WaitsFor, Rw!WaitsFor, Rw!Threads, Rw!Threads
<1>4. BothInv => NoDeadlock
  BY <1>1, <1>2, <1>3 DEF NoDeadlock
<1> QED
  BY <1>4, BothAlways, PTL
-----------------------------------------------------------------------------
(* What Order reads off a walk, and that on a list it is the list.           *)
Visited(walk) ==
  [k \in 1 .. Cardinality({j \in 0 .. MaxSize : walk[j] # NULL}) |-> walk[k - 1]]

(* On a list s of n nodes it is s.                                           *)
LEMMA VisitedIs ==
  ASSUME NEW N, NULL \notin N, NEW n \in Nat, n <= MaxSize, NEW s \in [1 .. n -> N], NEW walk,
         \A j \in Nat : walk[j] = IF j < n THEN s[j + 1] ELSE NULL
  PROVE  Visited(walk) = s
<1>1. MaxSize \in Nat
  BY RwListAssumption
<1>2. ASSUME NEW j \in 0 .. n - 1 PROVE walk[j] = s[j + 1] /\ s[j + 1] \in N
  OBVIOUS
<1>3. {j \in 0 .. MaxSize : walk[j] # NULL} = 0 .. n - 1
  <2>1. ASSUME NEW j \in 0 .. MaxSize, walk[j] # NULL PROVE j \in 0 .. n - 1
    BY <1>1, <2>1
  <2>2. ASSUME NEW j \in 0 .. n - 1 PROVE j \in 0 .. MaxSize /\ walk[j] # NULL
    BY <1>1, <1>2
  <2> QED
    BY <2>1, <2>2
<1>4. Cardinality(0 .. n - 1) = n
  <2>1. Cardinality(0 .. n - 1) = IF 0 > n - 1 THEN 0 ELSE (n - 1) - 0 + 1
    BY FS_Interval
  <2> QED
    BY <2>1
<1>5. Visited(walk) = [k \in 1 .. n |-> walk[k - 1]]
  BY <1>3, <1>4 DEF Visited
<1>6. \A k \in 1 .. n : walk[k - 1] = s[k]
  OBVIOUS
<1> QED
  BY <1>5, <1>6

(* Order is the list of main.c.                                              *)
LEMMA OrderIs ==
  ASSUME NEW s, NEW n \in Nat, n <= MaxSize, NEW f, NEW nx, Lists(s, n, f, nx),
         NEW walk, walk = CHOOSE a : IsWalk(a, NULL, f, nx)
  PROVE  Visited(walk) = s
<1>1. \A j \in Nat : walk[j] = IF j < n THEN s[j + 1] ELSE NULL
  BY RwSane, WalkIs
<1>2. s \in [1 .. n -> Rw!Node] /\ NULL \notin Rw!Node
  BY RwSane DEF Lists, IsList, Sane
<1> QED
  BY <1>1, <1>2, VisitedIs

(* s as the value of Order, in one state and in the next.                    *)
LEMMA OrderRead ==
  /\ \A s : RwTypes /\ Listed(s) => Order = s
  /\ \A s : RwTypes' /\ Listed(s)' => Order' = s
<1>1. Order = Visited(Rw!At) /\ Order' = Visited(Rw!At')
  BY DEF Order, Visited
<1>2. /\ Rw!At = CHOOSE a : IsWalk(a, NULL, rwFirst, rwNext)
      /\ Rw!At' = CHOOSE a : IsWalk(a, NULL, rwFirst', rwNext')
  BY DEF Rw!At, IsWalk
<1>3. ASSUME RwTypes PROVE size \in Nat /\ size <= MaxSize
  BY <1>3, RwListAssumption DEF RwTypes, Rw!Node
<1>4. ASSUME RwTypes' PROVE size' \in Nat /\ size' <= MaxSize
  BY <1>4, RwListAssumption DEF RwTypes, Rw!Node
<1>5. ASSUME NEW s, RwTypes, Listed(s) PROVE Order = s
  BY <1>1, <1>2, <1>3, <1>5, OrderIs DEF Listed
<1>6. ASSUME NEW s, RwTypes', Listed(s)' PROVE Order' = s
  BY <1>1, <1>2, <1>4, <1>6, OrderIs DEF Listed
<1> QED
  BY <1>5, <1>6

(* main's new node comes last.                                               *)
LEMMA LongerIsAppended ==
  ASSUME NEW n \in Nat, NEW s \in [1 .. n -> Rw!Node]
  PROVE  s \in Seq(Rw!Node) /\ Len(s) = n /\ Longer(s, n) = Append(s, n + 1)
BY DEF Longer

(* Each step of main.c's list is one of SwappedList or leaves it alone.      *)
LEMMA OrderStep ==
  ASSUME RwInv, [Rw!Next]_Rw!vars
  PROVE  [Sequence!Grow \/ Sequence!Start \/ Sequence!Exchange]_<<Order, Started>>
<1>1. PICK s : Listed(s) /\ PairsOn(s)
  BY DEF RwInv
<1>2. PICK s2 : RwTypes' /\ Listed(s2)' /\ StepsTo(s, s2)
  BY <1>1, RwSane, RwListStep DEF RwInv
<1>3. RwTypes /\ Order = s /\ Order' = s2
  BY <1>1, <1>2, OrderRead DEF RwInv
<1>5. /\ size \in Nat /\ s \in [1 .. size -> Rw!Node] /\ s2 \in [1 .. size' -> Rw!Node]
      /\ size' \in Nat /\ \A j, k \in 1 .. size' : s2[j] = s2[k] => j = k
  BY <1>1, <1>2 DEF RwTypes, Listed, Lists, IsList
<1>6. s \in Seq(Rw!Node) /\ Len(s) = size
  BY <1>5
<1>7. CASE s2 = s /\ UNCHANGED <<size, Started>>
  BY <1>3, <1>7
<1>8. CASE ~Started /\ ~Started' /\ size' = size + 1 /\ s2 = Longer(s, size)
  <2>1. s2 = Append(s, size + 1)
    BY <1>5, <1>8, LongerIsAppended
  <2>2. s2[size + 1] = size + 1 /\ size + 1 \in 1 .. size'
        /\ \A k \in 1 .. size : s2[k] = s[k] /\ k \in 1 .. size' /\ k # size + 1
    BY <1>5, <1>8 DEF Longer
  <2>3. size + 1 \in Rw!Node
    BY <1>5, <2>2
  <2>4. size + 1 \notin {s[k] : k \in 1 .. size}
    BY <1>5, <2>2
  <2>5. Sequence!Range(s) = {s[k] : k \in 1 .. size}
    BY <1>5 DEF Sequence!Range
  <2>6. Sequence!Grow
    BY <1>3, <1>8, <2>1, <2>3, <2>4, <2>5
       DEF Sequence!Grow, Started, Rw!Node
  <2> QED
    BY <2>6
<1>9. CASE ~Started /\ Started' /\ size' = size /\ size > 0 /\ s2 = s
  <2>1. s # <<>>
    BY <1>6, <1>9
  <2>2. Sequence!Start
    BY <1>3, <1>9, <2>1 DEF Sequence!Start, Started
  <2> QED
    BY <2>2
<1>10. ASSUME Started, Started', size' = size, NEW k \in 0 .. size - 2,
              s2 = Exchanged(s, k)
       PROVE  Sequence!Exchange
  <2>1. k + 1 \in 1 .. Len(s) - 1 /\ (k + 1) + 1 = k + 2
    BY <1>5, <1>6
  <2>2. s2 = [s EXCEPT ![k + 1] = s[(k + 1) + 1], ![(k + 1) + 1] = s[k + 1]]
    BY <1>10, <2>1 DEF Exchanged
  <2>3. \E j \in 1 .. Len(s) - 1 : s2 = [s EXCEPT ![j] = s[j + 1], ![j + 1] = s[j]]
    BY <2>1, <2>2
  <2> QED
    BY <1>3, <1>10, <2>3 DEF Sequence!Exchange, Started
<1> QED
  BY <1>2, <1>7, <1>8, <1>9, <1>10 DEF StepsTo

(* The list starts empty. *)
LEMMA OrderStart == BothInit => Sequence!Init
<1> SUFFICES ASSUME BothInit PROVE Sequence!Init
  OBVIOUS
<1>1. RwTypes /\ size = 0 /\ ~Started /\ \E s : Listed(s)
  BY RwSane, ListStarts DEF BothInit
<1>2. PICK s : Listed(s)
  BY <1>1
<1>3. Order = s
  BY <1>1, <1>2, OrderRead
<1>4. s \in [1 .. 0 -> Rw!Node]
  BY <1>1, <1>2 DEF Listed, Lists, IsList
<1>5. s = <<>>
  BY <1>4
<1>6. ~Started
  BY <1>1 DEF Started, Rw!Threads
<1> QED
  BY <1>3, <1>5, <1>6 DEF Sequence!Init, Started

(* Read along its links, the list of main.c is built node by node and then   *)
(* has neighbours exchanged, one pair at a time and nothing else: swap_thread *)
(* never loses, doubles or moves away a node, for any number of threads and  *)
(* of nodes.                                                                 *)
THEOREM ListIsASequence == BothSpec => KeepsTheSequence
<1>1. BothInv /\ [BothNext]_bothVars =>
        [Sequence!Grow \/ Sequence!Start \/ Sequence!Exchange]_<<
          Order, \A t \in Rw!Threads : rwPc[t] # "unborn">>
  BY RwStep, OrderStep DEF BothInv, Started
<1> QED
  BY <1>1, OrderStart, BothAlways, PTL DEF BothSpec, KeepsTheSequence, Sequence!Spec
=============================================================================
