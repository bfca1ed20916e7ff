----------------------------- MODULE HolderQueue -----------------------------
(***************************************************************************)
(* The linked queue with a lock of the C library in it: q->lock of         *)
(* src/2.2a, 2.2e, 2.2f and 2.2g, which keeps the promise of LockPromise.  *)
(***************************************************************************)
EXTENDS LockedQueue

VARIABLE holder  \* who holds q->lock

Lock == INSTANCE LockPromise
=============================================================================
