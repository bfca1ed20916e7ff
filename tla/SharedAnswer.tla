----------------------------- MODULE SharedAnswer -----------------------------
(***************************************************************************)
(* What a cache entry promises its users: it is resolved once, to an       *)
(* answer of some length or to a refusal, and each user gets all of that   *)
(* answer or is refused, never something else and never part of it.        *)
(***************************************************************************)
CONSTANTS Users, Cells, Lengths, Pending, Refused, None

Outcomes == Lengths \cup {Refused}

VARIABLES result,   \* of each cell
          cell,     \* the cell a user has come to
          answer    \* what the user has got

vars == <<result, cell, answer>>

Init ==
  /\ result = [c \in Cells |-> Pending]
  /\ cell = [u \in Users |-> None]
  /\ answer = [u \in Users |-> None]

Come(u, c) == cell[u] = None /\ cell' = [cell EXCEPT ![u] = c] /\ UNCHANGED <<result, answer>>

Resolve(c, r) ==
  result[c] = Pending /\ result' = [result EXCEPT ![c] = r] /\ UNCHANGED <<cell, answer>>

Answer(u) ==
  /\ answer[u] = None /\ cell[u] # None
  /\ result[cell[u]] \in Outcomes
  /\ answer' = [answer EXCEPT ![u] = result[cell[u]]]
  /\ UNCHANGED <<result, cell>>

Next ==
  \/ \E c \in Cells : (\E u \in Users : Come(u, c)) \/ (\E r \in Outcomes : Resolve(c, r))
  \/ \E u \in Users : Answer(u)

Spec == Init /\ [][Next]_vars
=============================================================================
