-------------------------------- MODULE Phase3 --------------------------------
(***************************************************************************)
(* A Phase 3 trial: the generator writes a topology, and the runner starts *)
(* the nodes of it. Larger topologies are only generated.                  *)
(***************************************************************************)
EXTENDS Topology, FactorGraph

CONSTANTS Flown, FlownDirection   \* the topology that is flown

ASSUME FlownAssumption ==
  /\ UAV = UAVs(Flown)
  /\ Anchor = Anchors(Flown)
  /\ Link = {{e[1], e[2]} : e \in Edges(Flown, FlownDirection)}

vars == <<topoVars, graphVars>>

Init == TopoInit /\ GraphInit

Fly ==
  /\ hop # Unset /\ shape = Flown /\ direction = FlownDirection
  /\ GraphNext
  /\ UNCHANGED topoVars

Next == (Visit /\ UNCHANGED graphVars) \/ Fly

\* The executor serves the 20 Hz timers and the estimates heard.
Fairness ==
  /\ WF_vars(Visit /\ UNCHANGED graphVars)
  /\ \A f \in Node : WF_vars(Fly /\ Tick(f))
  /\ \A f \in Node : WF_vars(Fly /\ \E p \in UAV : OnPeer(f, p))

Spec == Init /\ [][Next]_vars /\ Fairness

\* On the topology that is flown, every node comes to estimate every other,
\* however few links there are, as long as the updates of neither fail.
SwarmEstimated ==
  <>(shape = Flown /\ direction = FlownDirection =>
       \A f \in Node, p \in UAV : Estimated(f, p))

=============================================================================
