------------------------------- MODULE MCSpoof -------------------------------
(* Small instances of SpoofDetector for TLC.                               *)
EXTENDS SpoofDetector

\* Everybody within reach of everybody, but for the first and the last.
AllButEnds == Pairs \ {<<0, N - 1>>}

FirstPair == {<<0, 1>>}

\* What the theorem of VictimsFoundInTime asks of the parameters.
ASSUME EnoughTicks == BudgetSuffices

=============================================================================
