---------------------------- MODULE HandOverHand ----------------------------
(***************************************************************************)
(* The list of src/2.3/main1.c, which has one mutex per node and none for  *)
(* list->first: counting threads walk it hand over hand and compare        *)
(* neighbours, swapping threads exchange neighbours.  What a counter does  *)
(* with a comparison, and the counters of passes, are left out.            *)
(***************************************************************************)
EXTENDS Naturals, FiniteSets

CONSTANTS Counters,  \* increases_thread, decreases_thread, equal_thread
          Swappers,  \* the threads running swap_thread
          Size,      \* the number of nodes, named 1 .. Size in their first order
          NULL,
          NoThread   \* the holder of a free node

Threads == Counters \cup Swappers
Node == 1 .. Size

ASSUME ListAssumption ==
  /\ Counters \cap Swappers = {}
  /\ Size \in Nat \ {0}
  /\ NULL \notin Node
  /\ NoThread \notin Threads

VARIABLES first,   \* list->first
          next,    \* node->next
          lock,    \* who holds node->lock
          pc,      \* where each thread is
          prev, cur, nxt, \* the locals prev, current (or first) and next (or second)
          cancel,  \* the flag that stops the threads
          main,    \* "running", "freed" once main has freed the list
          left,    \* the nodes not freed
          crashed  \* a thread has followed a NULL pointer

list == <<first, next>>
locals == <<prev, cur, nxt>>
process == <<cancel, main, left, crashed>>
vars == <<list, lock, pc, locals, process>>

Labels == {"check", "start", "lock_first", "second", "lock_second", "compare",
           "lock_next", "end", "peek", "choose", "lock_swap", "swap_head", "relink",
           "lock_cur", "lock_pair", "choose_pair", "done"}

Init ==
  /\ first = 1
  /\ next = [n \in Node |-> IF n = Size THEN NULL ELSE n + 1]
  /\ lock = [n \in Node |-> NoThread]
  /\ pc = [t \in Threads |-> "check"]
  /\ prev = [t \in Threads |-> NULL]
  /\ cur = [t \in Threads |-> NULL]
  /\ nxt = [t \in Threads |-> NULL]
  /\ cancel = FALSE
  /\ main = "running"
  /\ left = Node
  /\ crashed = FALSE

Go(t, l) == pc' = [pc EXCEPT ![t] = l]

Point(t, p, c, n) ==
  /\ prev' = [prev EXCEPT ![t] = p]
  /\ cur' = [cur EXCEPT ![t] = c]
  /\ nxt' = [nxt EXCEPT ![t] = n]

Unlock(nodes) == lock' = [n \in Node |-> IF n \in nodes THEN NoThread ELSE lock[n]]

(* lock_node(n), then on to label l. *)
LockNode(t, n, l) ==
  /\ lock[n] = NoThread
  /\ lock' = [lock EXCEPT ![n] = t]
  /\ Go(t, l)
  /\ UNCHANGED <<list, locals, process>>

(* Back to the test of the loop, with the given nodes unlocked. *)
Restart(t, nodes) ==
  /\ Unlock(nodes)
  /\ Go(t, "check")
  /\ Point(t, NULL, NULL, NULL)
  /\ UNCHANGED <<list, process>>
-----------------------------------------------------------------------------
(* Both kinds of thread *)

CheckCancel(t) ==
  /\ pc[t] = "check"
  /\ Go(t, IF cancel THEN "done" ELSE "start")
  /\ UNCHANGED <<list, lock, locals, process>>

(* list->first is read before any lock is held. *)
ReadFirst(t) ==
  /\ pc[t] = "start"
  /\ cur' = [cur EXCEPT ![t] = first]
  /\ Go(t, IF t \in Counters THEN "lock_first" ELSE "peek")
  /\ UNCHANGED <<list, lock, prev, nxt, process>>

LockFirst(t) ==
  /\ pc[t] = "lock_first"
  /\ LockNode(t, cur[t], IF t \in Counters THEN "second" ELSE "choose")

(* Mutant: the last node of the walk is not unlocked. *)
EndWalkKeepsLock(t) == pc[t] = "end" /\ Restart(t, {prev[t]})

(* The end of a walk. *)
EndWalk(t) == pc[t] = "end" /\ Restart(t, {prev[t], cur[t]})
-----------------------------------------------------------------------------
(* increases_thread, decreases_thread, equal_thread *)

(* Mutant: a list of one node is left locked. *)
ReadSecondKeepsLock(t) ==
  /\ pc[t] = "second"
  /\ \/ next[cur[t]] = NULL /\ Restart(t, {})
     \/ /\ next[cur[t]] # NULL
        /\ Point(t, NULL, cur[t], next[cur[t]])
        /\ Go(t, "lock_second")
        /\ UNCHANGED <<list, lock, process>>

ReadSecond(t) ==
  /\ pc[t] = "second"
  /\ \/ next[cur[t]] = NULL /\ Restart(t, {cur[t]})
     \/ /\ next[cur[t]] # NULL
        /\ Point(t, NULL, cur[t], next[cur[t]])
        /\ Go(t, "lock_second")
        /\ UNCHANGED <<list, lock, process>>

LockSecond(t) == pc[t] = "lock_second" /\ LockNode(t, nxt[t], "compare")

(* Mutant: the node behind is not unlocked. *)
CompareKeepsLock(t) ==
  /\ pc[t] = "compare"
  /\ Point(t, cur[t], nxt[t], next[nxt[t]])
  /\ Go(t, IF next[nxt[t]] = NULL THEN "end" ELSE "lock_next")
  /\ UNCHANGED <<list, lock, process>>

(* Mutant: both nodes are unlocked before the next one is locked. *)
CompareLetsGo(t) ==
  /\ pc[t] = "compare"
  /\ Unlock({prev[t], cur[t], nxt[t]})
  /\ Point(t, cur[t], nxt[t], next[nxt[t]])
  /\ Go(t, IF next[nxt[t]] = NULL THEN "end" ELSE "lock_next")
  /\ UNCHANGED <<list, process>>

Compare(t) ==
  /\ pc[t] = "compare"
  /\ Unlock({prev[t]})
  /\ Point(t, cur[t], nxt[t], next[nxt[t]])
  /\ Go(t, IF next[nxt[t]] = NULL THEN "end" ELSE "lock_next")
  /\ UNCHANGED <<list, process>>

LockNext(t) == pc[t] = "lock_next" /\ LockNode(t, nxt[t], "compare")

Counter(t) == ReadSecond(t) \/ LockSecond(t) \/ Compare(t) \/ LockNext(t)
-----------------------------------------------------------------------------
(* swap_thread *)

(* first->next is read before first is locked. *)
Peek(t) ==
  /\ pc[t] = "peek"
  /\ \/ next[cur[t]] = NULL /\ Restart(t, {})
     \/ next[cur[t]] # NULL /\ Go(t, "lock_first") /\ UNCHANGED <<list, lock, locals, process>>

(* rand_r decides for the head: the node after it is locked unchecked. *)
ChooseHead(t) ==
  /\ pc[t] = "choose"
  /\ IF next[cur[t]] = NULL
       THEN crashed' = TRUE /\ UNCHANGED <<pc, locals>>
       ELSE /\ Point(t, NULL, cur[t], next[cur[t]])
            /\ Go(t, "lock_swap")
            /\ UNCHANGED crashed
  /\ UNCHANGED <<list, lock, cancel, main, left>>

(* rand_r decides to look for a pair further down. *)
ChooseWalk(t) ==
  /\ pc[t] = "choose"
  /\ \/ next[cur[t]] = NULL /\ Restart(t, {cur[t]})
     \/ /\ next[cur[t]] # NULL
        /\ Point(t, cur[t], next[cur[t]], NULL)
        /\ Go(t, "lock_cur")
        /\ UNCHANGED <<list, lock, process>>

LockSwap(t) == pc[t] = "lock_swap" /\ LockNode(t, nxt[t], "swap_head")

(* Mutant: list->first is set to the node after the pair. *)
SwapHeadTooFar(t) ==
  /\ pc[t] = "swap_head"
  /\ first' = next[nxt[t]]
  /\ Go(t, "relink")
  /\ UNCHANGED <<next, lock, locals, process>>

SwapHead(t) ==
  /\ pc[t] = "swap_head"
  /\ first' = nxt[t]
  /\ Go(t, "relink")
  /\ UNCHANGED <<next, lock, locals, process>>

Relink(t) ==
  /\ pc[t] = "relink"
  /\ next' = [next EXCEPT ![cur[t]] = next[nxt[t]], ![nxt[t]] = cur[t]]
  /\ Unlock({cur[t], nxt[t]})
  /\ Go(t, "check")
  /\ Point(t, NULL, NULL, NULL)
  /\ UNCHANGED <<first, process>>

LockCurrent(t) ==
  /\ pc[t] = "lock_cur"
  /\ lock[cur[t]] = NoThread
  /\ lock' = [lock EXCEPT ![cur[t]] = t]
  /\ nxt' = [nxt EXCEPT ![t] = next[cur[t]]]
  /\ Go(t, IF next[cur[t]] = NULL THEN "end" ELSE "lock_pair")
  /\ UNCHANGED <<list, prev, cur, process>>

LockPair(t) == pc[t] = "lock_pair" /\ LockNode(t, nxt[t], "choose_pair")

(* Go on to the next triple with c and n as the last two nodes of this one. *)
Advance(t, c, n) ==
  /\ Unlock({prev[t]})
  /\ Point(t, c, n, next'[n])
  /\ Go(t, IF next'[n] = NULL THEN "end" ELSE "lock_pair")
  /\ UNCHANGED <<first, process>>

SwapPair(t) ==
  /\ pc[t] = "choose_pair"
  /\ next' = [next EXCEPT ![prev[t]] = nxt[t], ![cur[t]] = next[nxt[t]], ![nxt[t]] = cur[t]]
  /\ Advance(t, nxt[t], cur[t])

KeepPair(t) ==
  /\ pc[t] = "choose_pair"
  /\ UNCHANGED next
  /\ Advance(t, cur[t], nxt[t])

Swapper(t) ==
  \/ Peek(t) \/ ChooseHead(t) \/ ChooseWalk(t) \/ LockSwap(t) \/ SwapHead(t) \/ Relink(t)
  \/ LockCurrent(t) \/ LockPair(t) \/ SwapPair(t) \/ KeepPair(t)
-----------------------------------------------------------------------------
(* main: the nodes that following next from first visits *)
At[k \in Nat] ==
  IF k = 0 THEN first ELSE IF At[k - 1] = NULL THEN NULL ELSE next[At[k - 1]]

Reachable == {At[k] : k \in 0 .. Size} \ {NULL}

Cancel ==
  /\ ~cancel
  /\ cancel' = TRUE
  /\ UNCHANGED <<list, lock, pc, locals, main, left, crashed>>

(* After the joins *)
FreeList ==
  /\ main = "running" /\ cancel
  /\ \A t \in Threads : pc[t] = "done"
  /\ left' = left \ Reachable
  /\ main' = "freed"
  /\ UNCHANGED <<list, lock, pc, locals, cancel, crashed>>

Step(t) == CheckCancel(t) \/ ReadFirst(t) \/ LockFirst(t) \/ EndWalk(t) \/ Counter(t) \/ Swapper(t)

Next == ~crashed /\ ((\E t \in Threads : Step(t)) \/ Cancel \/ FreeList)

Spec == Init /\ [][Next]_vars

(* The threads run, main wakes up after its 30 seconds and joins them. *)
FairSpec ==
  /\ Spec
  /\ \A t \in Threads : WF_vars(~crashed /\ Step(t))
  /\ WF_vars(~crashed /\ (Cancel \/ FreeList))
-----------------------------------------------------------------------------
TypeOK ==
  LET Pointer == Node \cup {NULL}
  IN /\ first \in Node
     /\ next \in [Node -> Pointer]
     /\ lock \in [Node -> Threads \cup {NoThread}]
     /\ pc \in [Threads -> Labels]
     /\ prev \in [Threads -> Pointer] /\ cur \in [Threads -> Pointer] /\ nxt \in [Threads -> Pointer]
     /\ cancel \in BOOLEAN /\ crashed \in BOOLEAN
     /\ main \in {"running", "freed"}
     /\ left \subseteq Node

(* The nodes each thread must be holding where it is: at most three, and     *)
(* none between two walks.                                                   *)
HoldsPrev == {"compare", "choose_pair", "lock_next", "end", "lock_pair", "lock_cur"}
HoldsNext == {"compare", "choose_pair", "swap_head", "relink"}
HoldsCurrent == {"second", "lock_second", "choose", "lock_swap", "lock_next", "end",
                 "lock_pair"} \cup HoldsNext

Held(t) ==
  {n \in Node : \/ n = prev[t] /\ pc[t] \in HoldsPrev
                \/ n = cur[t] /\ pc[t] \in HoldsCurrent
                \/ n = nxt[t] /\ pc[t] \in HoldsNext}

HoldsExactly == \A t \in Threads : {n \in Node : lock[n] = t} = Held(t)

(* Whatever the other threads swap meanwhile, the nodes a thread works on    *)
(* are neighbours on the list: a counter compares two nodes that follow one  *)
(* another, a swapper exchanges two such nodes behind their predecessor.     *)
WorksOnNeighbours ==
  \A t \in Threads :
    /\ pc[t] \in {"compare", "swap_head", "relink", "choose_pair"} => next[cur[t]] = nxt[t]
    /\ pc[t] = "choose_pair" => next[prev[t]] = cur[t]

(* The node a thread is about to lock while it holds others. *)
Awaits(t) ==
  CASE pc[t] \in {"lock_second", "lock_next", "lock_swap", "lock_pair"} -> nxt[t]
    [] pc[t] \in {"lock_first", "lock_cur"} -> cur[t]
    [] OTHER -> NULL

(* No deadlock: among the threads waiting for nodes held by others, no group *)
(* waits only for one another.                                               *)
NoWaitCycle ==
  \A group \in (SUBSET Threads) \ {{}} :
    \E t \in group : Awaits(t) = NULL \/ lock[Awaits(t)] \notin group

(* Once main sets cancel, every thread leaves its loop and main frees the    *)
(* list, unless the process has crashed.                                     *)
Stops == cancel ~> (main = "freed" \/ crashed)

(* swap_thread locks "the first node" (main1.c:305) before it exchanges the  *)
(* first and the second.                                                     *)
LocksTheFirstNode == \A t \in Swappers : pc[t] \in {"choose", "lock_swap", "swap_head"} => cur[t] = first
=============================================================================
