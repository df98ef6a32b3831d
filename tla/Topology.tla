------------------------------- MODULE Topology -------------------------------
(***************************************************************************)
(* phase3-gen-topology.py: a chain of clusters, the pairs within radio     *)
(* range, and the breadth-first search that certifies at which hop from    *)
(* the anchors the test follower is.                                       *)
(*                                                                         *)
(* A shape has a level of m anchors and k levels of relay followers.       *)
(* Positions are rounded to metres, the chain runs in a few directions.    *)
(***************************************************************************)
EXTENDS Integers, Sequences, FiniteSets, SequencesExt

CONSTANTS
  Shapes,     \* the records [m, k, relay] generated
  Directions, \* of the chain: vectors of length step_m
  RComm       \* r_comm_m

\* With no relay there is no last level to take the test follower from.
ASSUME TopologyAssumption ==
  Shapes \subseteq [m : Nat \ {0}, k : Nat, relay : Nat \ {0}]

Unset == -2

UAVs(s) == 0 .. s.m + s.k * s.relay - 1

Anchors(s) == 0 .. s.m - 1

LevelOf(s, u) == IF u < s.m THEN 0 ELSE 1 + (u - s.m) \div s.relay

Width(s, level) == IF level = 0 THEN s.m ELSE s.relay

\* 20 m (r_anchor_m) in the direction of a multiple of 60 or 90 degrees.
Cos20(deg) ==
  CASE deg = 0 -> 20 [] deg \in {60, 300} -> 10 [] deg \in {90, 270} -> 0
    [] deg \in {120, 240} -> -10 [] deg = 180 -> -20

Sin20(deg) ==
  CASE deg \in {0, 180} -> 0 [] deg \in {60, 120} -> 17 [] deg = 90 -> 20
    [] deg \in {240, 300} -> -17 [] deg = 270 -> -20

\* Clusters of more than one UAV are circles, turned from level to level.
Position(s, dir, u) ==
  LET level == LevelOf(s, u)
      n == Width(s, level)
      i == IF level = 0 THEN u ELSE (u - s.m) % s.relay
      deg == ((360 * i + 180 * level) \div n) % 360
      centre == <<level * dir[1], level * dir[2]>>
  IN  IF n = 1 THEN centre ELSE <<centre[1] + Cos20(deg), centre[2] + Sin20(deg)>>

Square(x) == x * x

Edges(s, dir) ==
  {e \in UAVs(s) \X UAVs(s) :
     LET p == Position(s, dir, e[1])
         q == Position(s, dir, e[2])
     IN  /\ e[1] < e[2]
         /\ Square(p[1] - q[1]) + Square(p[2] - q[2]) <= Square(RComm)}

\* Mutant: one level too far from the last.
TestIdBefore(s) == IF s.k < 2 THEN 0 ELSE s.m + (s.k - 2) * s.relay

\* The first UAV of the last level.
TestId(s) == IF s.k = 0 THEN 0 ELSE s.m + (s.k - 1) * s.relay

-----------------------------------------------------------------------------
(* The search, one visited UAV per step.                                   *)

VARIABLES
  shape, direction,
  edges,  \* _compute_edges
  dist,   \* hops from the test follower to the UAVs seen so far
  queue,
  hop     \* observed_hop_to_anchor

topoVars == <<shape, direction, edges, dist, queue, hop>>

TopoInit ==
  /\ shape \in Shapes /\ direction \in Directions
  /\ edges = Edges(shape, direction)
  /\ dist = [u \in {TestId(shape)} |-> 0]
  /\ queue = <<TestId(shape)>>
  /\ hop = IF TestId(shape) \in Anchors(shape) THEN 0 ELSE Unset

Adjacent(u) == {v \in UAVs(shape) : <<u, v>> \in edges \/ <<v, u>> \in edges}

Ascending(S) ==
  [i \in 1 .. Cardinality(S) |-> CHOOSE v \in S : Cardinality({w \in S : w < v}) = i - 1]

\* The neighbours not seen yet, in the order of the adjacency lists.
Unseen(u) == Ascending(Adjacent(u) \ DOMAIN dist)

\* Mutant: pop instead of popleft.
VisitLast ==
  LET u == Last(queue)
      new == Unseen(u)
      seen == [v \in DOMAIN dist \union Adjacent(u) |->
                 IF v \in DOMAIN dist THEN dist[v] ELSE dist[u] + 1]
  IN  /\ hop = Unset /\ queue # <<>>
      /\ hop' = IF Adjacent(u) \intersect Anchors(shape) # {} THEN dist[u] + 1 ELSE Unset
      /\ dist' = seen
      /\ queue' = Front(queue) \o new
      /\ UNCHANGED <<shape, direction, edges>>

\* The code returns at the first anchor among the neighbours; -1 says that
\* there is no way to any.
Visit ==
  LET u == Head(queue)
      new == Unseen(u)
      seen == [v \in DOMAIN dist \union Adjacent(u) |->
                 IF v \in DOMAIN dist THEN dist[v] ELSE dist[u] + 1]
  IN  /\ hop = Unset /\ queue # <<>>
      /\ queue' = Tail(queue) \o new
      /\ hop' = IF Adjacent(u) \intersect Anchors(shape) # {} THEN dist[u] + 1
                ELSE IF queue' = <<>> THEN -1 ELSE Unset
      /\ dist' = seen
      /\ UNCHANGED <<shape, direction, edges>>

-----------------------------------------------------------------------------
(* Properties.                                                             *)

\* The UAVs at most n hops from the test follower.
Within[n \in Nat] ==
  IF n = 0 THEN {TestId(shape)}
  ELSE Within[n - 1] \union UNION {Adjacent(u) : u \in Within[n - 1]}

\* The search returns the length of a shortest path to an anchor.
HopIsShortest ==
  hop >= 0 =>
    /\ Within[hop] \intersect Anchors(shape) # {}
    /\ hop > 0 => Within[hop - 1] \intersect Anchors(shape) = {}

\* The generator keeps its promise: the test follower is at hop k, no level
\* is skipped and the chain does not break. (_check's verdict)
HopIsExact == hop # Unset => hop = shape.k

\* The geometry that the promise rests on: links join UAVs of the same or of
\* successive levels, and lead from everywhere one level down.
Laddered(s, dir) ==
  LET linked(u, v) == <<u, v>> \in Edges(s, dir) \/ <<v, u>> \in Edges(s, dir)
  IN  \A u \in UAVs(s) :
        /\ \A v \in UAVs(s) : linked(u, v) => LevelOf(s, u) - LevelOf(s, v) \in -1 .. 1
        /\ LevelOf(s, u) > 0 =>
             \E v \in UAVs(s) : linked(u, v) /\ LevelOf(s, v) = LevelOf(s, u) - 1

=============================================================================
