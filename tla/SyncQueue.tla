------------------------------ MODULE SyncQueue ------------------------------
(***************************************************************************)
(* The queue of src/sync, whose functions take no lock.                    *)
(***************************************************************************)
EXTENDS LinkedQueue

QueueAdd(t) == (pc[t] = "idle" /\ t \in Writers /\ Call(t, "add_assert")) \/ AddBody(t)

QueueGet(t) == (pc[t] = "idle" /\ t \in Readers /\ Call(t, "get_assert")) \/ GetBody(t)

Step(t) == QueueAdd(t) \/ QueueGet(t) \/ Return(t)
=============================================================================
