------------------------------ MODULE MCPhase3 -------------------------------
(* Small instances of Phase3 for TLC.                                      *)
EXTENDS Phase3

\* Two anchors and one follower.
Smallest == [m |-> 2, k |-> 1, relay |-> 1]

\* The chains of the campaigns: triangles, or one relay per level.
AllShapes == [m : {3}, k : 0 .. 4, relay : {1, 3}] \union {Smallest}

\* 80 m (--step-m) east, and at 30 degrees from it.
Eastward == <<80, 0>>
TwoDirections == {Eastward, <<69, 40>>}

\* What the theorem of HopIsExact asks of the positions.
ASSUME ChainsAreLadders == \A s \in Shapes, dir \in Directions : Laddered(s, dir)

=============================================================================
