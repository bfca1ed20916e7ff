----------------------------- MODULE SwappedList -----------------------------
(***************************************************************************)
(* What the programs of src/2.3 want of a list: main builds it node by     *)
(* node and from then on neighbours change places, in one step.            *)
(***************************************************************************)
EXTENDS Naturals, Sequences, Functions

CONSTANT Node

VARIABLES order, \* the nodes from the first to the last
          built  \* the threads have been started

Init == order = <<>> /\ built = FALSE

Grow ==
  /\ ~built /\ UNCHANGED built
  /\ \E n \in Node \ Range(order) : order' = Append(order, n)

Start == ~built /\ order # <<>> /\ built' = TRUE /\ UNCHANGED order

Exchange ==
  /\ built /\ UNCHANGED built
  /\ \E k \in 1 .. Len(order) - 1 :
       order' = [order EXCEPT ![k] = order[k + 1], ![k + 1] = order[k]]

Spec == Init /\ [][Grow \/ Start \/ Exchange]_<<order, built>>
=============================================================================
