------------------------------- MODULE MCLists -------------------------------
(***************************************************************************)
(* The two lists of src/2.3 side by side: main1.c, a mutex per node, under *)
(* the names of HandOverHand, and main.c, a read-write lock, as Rw.  The   *)
(* program that does not run is left in its initial state.                 *)
(***************************************************************************)
EXTENDS HandOverHand, Sequences

CONSTANTS RwCounters, RwSwappers, MaxSize

VARIABLES program, rwFirst, rwNext, size, list_size, readers, writer, rwLock, rwPc, index,
          rwPrev, curr

Rw == INSTANCE RwList WITH
  Counters <- RwCounters, Swappers <- RwSwappers, first <- rwFirst, next <- rwNext,
  lock <- rwLock, pc <- rwPc, prev <- rwPrev

ASSUME RwListAssumption ==
  /\ RwCounters \cap RwSwappers = {} /\ Rw!Threads # {}
  /\ MaxSize \in Nat \ {0}
  /\ NULL \notin Rw!Node
  /\ NoThread \notin Rw!Threads

rwVars == <<rwFirst, rwNext, size, list_size, readers, writer, rwLock, rwPc, index, rwPrev, curr>>
bothVars == <<vars, program, rwVars>>

BothInit ==
  /\ program \in {"main", "main1"}
  /\ Init /\ Rw!Init
  /\ program = "main1" => list_size = MaxSize

BothNext ==
  \/ program = "main1" /\ Next /\ UNCHANGED <<program, rwVars>>
  \/ program = "main" /\ Rw!Next /\ UNCHANGED <<program, vars>>

(* The fairness of HandOverHand!FairSpec *)
BothSpec ==
  /\ BothInit /\ [][BothNext]_bothVars
  /\ \A t \in Threads : WF_vars(program = "main1" /\ ~crashed /\ Step(t))
  /\ WF_vars(program = "main1" /\ ~crashed /\ (Cancel \/ FreeList))
-----------------------------------------------------------------------------
(* A counter of main.c locks two nodes that are neighbours on the list until *)
(* it has both, although swaps take no node mutex.                           *)
PairIsCurrent == Rw!PairIsCurrent

(* No deadlock, neither among the node mutexes of main1.c, although swaps    *)
(* change the order they are taken in, nor in main.c across its two kinds of *)
(* lock: no group of threads waits only for one another.                     *)
NoDeadlock == NoWaitCycle /\ Rw!NoWaitCycle

(* The nodes that following next from s->first visits *)
Order ==
  [k \in 1 .. Cardinality({j \in 0 .. MaxSize : Rw!At[j] # NULL}) |-> Rw!At[k - 1]]
Sequence == INSTANCE SwappedList WITH
  Node <- Rw!Node, order <- Order, built <- \A t \in Rw!Threads : rwPc[t] # "unborn"

(* The list of main.c behaves as one sequence of nodes on which nothing      *)
(* happens but appending and, later, the exchange of neighbours: no node is  *)
(* lost, doubled or moved further, however swap_thread relinks them.        *)
KeepsTheSequence == Sequence!Spec
=============================================================================
