----------------------------- MODULE MCFailover -----------------------------
(* Small instances of Failover for TLC.                                    *)
EXTENDS Failover, TLC

CONSTANTS
  a1, a2, a3, f1, f2, f3, f4,
  MaxInFlight   \* bound: messages in flight at once

\* Tier B deals the followers round-robin over the anchors.
RoundRobin ==
  [f \in Follower |->
     CASE f = f2 -> a2
       [] f = f3 /\ a3 \in Anchor -> a3
       [] OTHER -> a1]

\* Phase 4 attaches every follower to the victim.
AllToVictim == [f \in Follower |-> a1]

FewInFlight == Cardinality(msgs) <= MaxInFlight

\* f1 and f4 start at the same anchor and have the same options.
SameStart == Permutations({f1, f4})

=============================================================================
