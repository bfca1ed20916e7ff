------------------------------ MODULE QueueLife ------------------------------
(***************************************************************************)
(* The monitor thread that queue_init starts and queue_destroy, which are  *)
(* the same text in src/sync, 2.2a, 2.2e, 2.2f and 2.2g but for the locks  *)
(* queue_destroy destroys: none, a spinlock, a mutex, with two condition   *)
(* variables or semaphores.                                                *)
(***************************************************************************)
EXTENDS LinkedQueue

VARIABLES monitor,    \* qmonitor: "printing", "sleeping" or "gone"
          cancelled,  \* pthread_cancel(q->qmonitor_tid) has been called
          live        \* q is allocated

life == <<monitor, cancelled, live>>

DestroyLabels == {"join", "free", "done"}

LifeInit == monitor = "printing" /\ cancelled = FALSE /\ live = TRUE
-----------------------------------------------------------------------------
(* queue_print_stats reads q; printf and sleep are cancellation points. *)

MonitorPrint ==
  /\ monitor = "printing"
  /\ monitor' = "sleeping"
  /\ fault' = IF live THEN fault ELSE "uaf"
  /\ UNCHANGED <<list, numbers, pc, locals, clients, cancelled, live>>

MonitorWake ==
  /\ monitor = "sleeping"
  /\ monitor' = "printing"
  /\ UNCHANGED <<queueVars, cancelled, live>>

MonitorExit ==
  /\ monitor # "gone" /\ cancelled
  /\ monitor' = "gone"
  /\ UNCHANGED <<queueVars, cancelled, live>>

Monitor == MonitorPrint \/ MonitorWake \/ MonitorExit
-----------------------------------------------------------------------------
(* queue_destroy *)

DestroyCancel(t) ==
  /\ pc[t] = "idle"
  /\ cancelled' = TRUE
  /\ Go(t, "join")
  /\ UNCHANGED <<list, numbers, locals, clients, fault, monitor, live>>

(* Mutant: queue_destroy does not join the monitor it has cancelled. *)
DestroyWithoutJoin(t) ==
  /\ pc[t] = "join"
  /\ ptr' = [ptr EXCEPT ![t] = first]
  /\ Go(t, "free")
  /\ UNCHANGED <<list, numbers, next, reg, val, clients, fault, life>>

DestroyJoin(t) ==
  /\ pc[t] = "join" /\ monitor = "gone"
  /\ ptr' = [ptr EXCEPT ![t] = first]
  /\ Go(t, "free")
  /\ UNCHANGED <<list, numbers, next, reg, val, clients, fault, life>>

DestroyFreeNode(t) ==
  /\ pc[t] = "free" /\ ptr[t] # NULL
  /\ ptr' = [ptr EXCEPT ![t] = node[ptr[t]].next]
  /\ heap' = heap \ {ptr[t]}
  /\ UNCHANGED <<first, last, node, numbers, pc, next, reg, val, clients, fault, life>>

DestroyFreeQueue(t) ==
  /\ pc[t] = "free" /\ ptr[t] = NULL
  /\ live' = FALSE
  /\ Go(t, "done")
  /\ UNCHANGED <<list, numbers, locals, clients, fault, monitor, cancelled>>

QueueDestroy(t) ==
  DestroyCancel(t) \/ DestroyJoin(t) \/ DestroyFreeNode(t) \/ DestroyFreeQueue(t)
=============================================================================
