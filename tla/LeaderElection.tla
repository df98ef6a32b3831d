--------------------------- MODULE LeaderElection ---------------------------
(***************************************************************************)
(* What a Raft election promises, with no votes and no messages: each term *)
(* has at most one winner, and a term, once won, stays won by that node.   *)
(***************************************************************************)
CONSTANTS Node, Term, Nobody

VARIABLE winner  \* winner[t]: who has won term t

Init == winner = [t \in Term |-> Nobody]

Win(t, n) ==
  /\ winner[t] = Nobody
  /\ winner' = [winner EXCEPT ![t] = n]

Next == \E t \in Term, n \in Node : Win(t, n)

Spec == Init /\ [][Next]_winner

=============================================================================
