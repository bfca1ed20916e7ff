---------------------------- MODULE MonitoredQueue ----------------------------
(***************************************************************************)
(* The queue of src/2.4: queue_add, queue_get and the monitor's            *)
(* queue_print_stats between LOCK and UNLOCK.  queue.c is the same file in *)
(* src/2.4/mutex and src/2.4/spinlock but for the lock the macros name;    *)
(* the modules that extend this one say when LOCK and UNLOCK return.       *)
(***************************************************************************)
EXTENDS LockedQueue

CONSTANT monitor  \* the thread that queue_init starts

ASSUME MonitorAssumption == monitor \notin Threads \cup {NoThread}

VARIABLES mpc,      \* where the monitor is: "idle", "count", "counts", "printed"
          printed   \* the numbers it has read for its printf

stats == <<mpc, printed>>

QueueThreads == Threads \cup {monitor}

MonitorInit == mpc = "idle" /\ printed = [size |-> 0, balance |-> 0]

(* Where a thread is while it is in LOCK, at "idle", or in UNLOCK. *)
AtLock(t) == IF t = monitor THEN mpc = "idle" ELSE pc[t] = "idle"

AtUnlock(t) ==
  IF t = monitor THEN mpc = "printed"
                 ELSE pc[t] \in {"add_ok", "add_full", "get_ok", "get_empty"}

(* LOCK has returned to its caller. *)
Enter(t) ==
  /\ AtLock(t)
  /\ \/ t \in Writers /\ Call(t, "add_assert") /\ UNCHANGED stats
     \/ t \in Readers /\ Call(t, "get_assert") /\ UNCHANGED stats
     \/ t = monitor /\ mpc' = "count" /\ UNCHANGED <<queueVars, printed>>

(* UNLOCK has returned to its caller. *)
Leave(t) ==
  /\ AtUnlock(t)
  /\ \/ t \in Threads /\ Return(t) /\ UNCHANGED stats
     \/ t = monitor /\ mpc' = "idle" /\ UNCHANGED <<queueVars, printed>>

(* The arguments of the printf are read one after another. *)
PrintStats(t) ==
  /\ t = monitor
  /\ \/ mpc = "count" /\ mpc' = "counts" /\ printed' = [printed EXCEPT !.size = count]
     \/ mpc = "counts" /\ mpc' = "printed" /\ printed' = [printed EXCEPT !.balance = balance]
  /\ UNCHANGED queueVars

Inside(t) == PrintStats(t) \/ (t \in Threads /\ Body(t) /\ UNCHANGED stats)
-----------------------------------------------------------------------------
(* The current size the monitor prints is the difference of the two counts   *)
(* it prints: what it reads is one moment of the queue.                      *)
SnapshotConsistent == mpc = "printed" => printed.size = printed.balance
=============================================================================
