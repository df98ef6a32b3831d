----------------------------- MODULE MCVerifier -----------------------------
(* A small instance of Verifier for TLC: the paper's distances, tiles and  *)
(* thresholds, with few UAVs and periods.                                  *)
EXTENDS Verifier

\* Places 3 and -12 are within r_verify of each other, and so are 621 and 700.
\* At -12 the forger's displacement of 3000 m comes back to the same tile.
Places == {-12, 3, 621, 700}

\* Tile 13, the one of place 621, is too poor to confirm anything.
InitialPositions == [u \in UAV |-> CASE u = 0 -> 621 [] u = 1 -> 3 [] OTHER -> -12]

KeypointsOfTiles == [t \in 0..(NTiles - 1) |-> IF t = 13 THEN 6 ELSE 50]

\* The verifier's image of tile 28, the one of place 700, is damaged.
ReadableTiles == 0..(NTiles - 1) \ {28}

\* What VerdictsAreSound and QueueHasRoom need of the parameters.
ASSUME VerdictsNeedProof == OneIsNotEnough
ASSUME RoomForAll == Demand <= MaxLen

=============================================================================
