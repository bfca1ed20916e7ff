----------------------------- MODULE BoundedFifo -----------------------------
(***************************************************************************)
(* What a queue promises: at most Capacity values wait in it, each writer's *)
(* values enter in the order it sends them, and a reader receives the value *)
(* at the head, which leaves the queue.                                    *)
(***************************************************************************)
EXTENDS Naturals, Sequences

CONSTANTS Writers, Readers,
          Capacity,  \* how many values the queue may hold
          Modulus    \* values are counted modulo this

VARIABLES items,    \* the values in the queue, oldest first
          sent,     \* the value each writer sends next
          received  \* the value each reader received last

fifoVars == <<items, sent, received>>

FifoInit ==
  /\ items = <<>>
  /\ sent = [w \in Writers |-> 0]
  /\ received = [r \in Readers |-> 0]

Put(w) ==
  /\ Len(items) < Capacity
  /\ items' = Append(items, sent[w])
  /\ sent' = [sent EXCEPT ![w] = (@ + 1) % Modulus]
  /\ UNCHANGED received

Take(r) ==
  /\ items # <<>>
  /\ received' = [received EXCEPT ![r] = Head(items)]
  /\ items' = Tail(items)
  /\ UNCHANGED sent

FifoNext == (\E w \in Writers : Put(w)) \/ (\E r \in Readers : Take(r))

FifoSpec == FifoInit /\ [][FifoNext]_fifoVars
=============================================================================
