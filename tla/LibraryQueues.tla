---------------------------- MODULE LibraryQueues ----------------------------
(***************************************************************************)
(* The queues built on locks of the C library, side by side: variant says  *)
(* which program a behaviour belongs to.  The modules that extend this one *)
(* say which programs there are.                                           *)
(***************************************************************************)
EXTENDS HolderQueue

VARIABLES variant, not_empty, not_full, empty, full

Spinlock == INSTANCE LockQueue WITH GetAsserts <- TRUE    \* src/2.2a
Mutex == INSTANCE LockQueue WITH GetAsserts <- FALSE      \* src/2.2e
Cond == INSTANCE CondQueue                                \* src/2.2f
Sem == INSTANCE SemQueue                                  \* src/2.2g

(* The heap has room for a full queue: malloc fails only when it has not. *)
ASSUME BlocksAssumption == IsFiniteSet(Node) /\ MaxCount <= Cardinality(Node)

conds == <<not_empty, not_full>>
sems == <<empty, full>>
=============================================================================
