----------------------------- MODULE LockedQueue -----------------------------
(***************************************************************************)
(* The linked queue with a lock in it, q->lock of the directories that     *)
(* have one, whether the C library provides it or src/2.4.                 *)
(***************************************************************************)
EXTENDS LinkedQueue

CONSTANT NoThread  \* the holder of a free lock

ASSUME LockedQueueAssumption == NoThread \notin Threads
=============================================================================
