----------------------------- MODULE MCCampaign -----------------------------
(* A small instance of Campaign for TLC.  The workers' process ids follow  *)
(* each other across a multiple of 100, but for the last one, which has    *)
(* the ROS domain of the first: only a sweep with three jobs has both.     *)
(* Phase 4 may be given two jobs as well as one, and Phase 6 has the one   *)
(* that its campaign script starts it with by default.  An earlier sweep   *)
(* has left nothing, or the files of all trials and nodes on the domain of *)
(* the first worker.                                                       *)
EXTENDS Campaign

JobsOfScripts == [phase3 |-> {1, 2}, phase4 |-> {1, 2}, phase5 |-> {2, 3}, phase6 |-> {1}]
PidsOfWorkers == [w \in Worker |-> IF w = 2 THEN 399 ELSE 299 + w]
LeftByEarlierSweeps == {[files |-> {}, domains |-> {}],
                        [files |-> {0, 1}, domains |-> {100}]}

=============================================================================
