------------------------------ MODULE MCTrust -------------------------------
(* Small instances of Trust for TLC.                                       *)
EXTENDS Trust

CONSTANTS u1, u2, u3, u4, u5

\* What the theorem of HonestNeverExcluded asks of the parameters.
ASSUME HonestAreSafe == Blind = {} /\ LapsesHarmless

=============================================================================
