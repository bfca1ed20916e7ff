------------------------------- MODULE MCQueues -------------------------------
(***************************************************************************)
(* The four queues built on locks of the C library: variant says which of  *)
(* the directories the behaviour belongs to, and what the other variants   *)
(* would use stays as it is.                                               *)
(***************************************************************************)
EXTENDS LibraryQueues, TLC

vars == <<queueVars, holder, variant, conds, sems>>

NoConds == not_empty = {} /\ not_full = {}
NoSems == empty = 0 /\ full = 0

Init ==
  \/ variant \in {"2.2a", "2.2e"} /\ Spinlock!Init /\ NoConds /\ NoSems
  \/ variant = "2.2f" /\ Cond!Init /\ NoSems
  \/ variant = "2.2g" /\ Sem!Init /\ NoConds

Next ==
  /\ UNCHANGED variant
  /\ \/ variant = "2.2a" /\ Spinlock!Next /\ UNCHANGED <<conds, sems>>
     \/ variant = "2.2e" /\ Mutex!Next /\ UNCHANGED <<conds, sems>>
     \/ variant = "2.2f" /\ Cond!Next /\ UNCHANGED sems
     \/ variant = "2.2g" /\ Sem!Next /\ UNCHANGED conds

Spec == Init /\ [][Next]_vars

(* malloc does not tell blocks apart, nor does a lock tell threads apart. *)
Symmetry == Permutations(Node) \cup Permutations(Writers) \cup Permutations(Readers)
-----------------------------------------------------------------------------
(* The type invariant of whichever variant runs. *)
TypeOK ==
  CASE variant = "2.2f" -> Cond!TypeOK
    [] variant = "2.2g" -> Sem!TypeOK
    [] OTHER -> Spinlock!TypeOK

(* With condition variables or semaphores neither queue_add nor queue_get    *)
(* ever returns 0.                                                           *)
NeverRefuses ==
  (variant = "2.2f" => Cond!NeverRefuses) /\ (variant = "2.2g" => Sem!NeverRefuses)

(* No signal of src/2.2f is lost. *)
NoLostSignal == variant = "2.2f" => Cond!NoLostSignal

(* No token of the semaphores of src/2.2g is lost or made up. *)
TokensMatchCount == variant = "2.2g" => Sem!TokensMatchCount
=============================================================================
