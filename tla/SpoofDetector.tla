---------------------------- MODULE SpoofDetector ----------------------------
(***************************************************************************)
(* A trial of Phase 5: the broadcasters, the ranging simulator, the one    *)
(* spoof detector, and the collector that judges what it finds.            *)
(*                                                                         *)
(* Positions are reduced to what decides a conflict: a range disagrees     *)
(* with the reported positions of its two ends only when at least one of   *)
(* them is reported with an offset, always when exactly one is, unless the *)
(* geometry hides it.                                                      *)
(*                                                                         *)
(* The unit of time is the period of the simulator. In each unit every     *)
(* position is broadcast, every pair is measured once and the detector     *)
(* ticks at least Ticks times, in any order.                               *)
(***************************************************************************)
EXTENDS Integers, FiniteSets

CONSTANTS
  N,          \* n_uavs
  NSpoofed,   \* the values of n_spoofed
  Edge,       \* the pairs within r_comm
  Marginal,   \* the pairs for which an offset at one end may not show
  MSuspect,   \* m_suspect
  Window,     \* window_s
  Cooldown,   \* cooldown_s
  Ticks,      \* how often the detector ticks in a unit, at least
  Budget,     \* t_pass_budget_s
  Observe     \* t_observe_s

UAV == 0 .. N - 1

Pairs == {e \in UAV \X UAV : e[1] < e[2]}

ASSUME SpoofAssumption ==
  /\ N \in Nat
  /\ NSpoofed \subseteq 0 .. N
  /\ Edge \subseteq Pairs
  /\ Marginal \subseteq Edge
  /\ {MSuspect, Observe} \subseteq Nat \ {0}
  /\ {Window, Cooldown, Ticks, Budget} \subseteq Nat

Ends(e) == {e[1], e[2]}

Never == -1

Older(t, limit) == IF t < limit THEN t + 1 ELSE limit

Nothing == [u \in {} |-> {}]

VARIABLES
  victims,    \* spoof_ids
  offset,     \* those whose broadcaster has its spoof_offset
  fresh,      \* those who got it in the current unit
  reported,   \* the UAVs the detector has a position of, and
  shifted,    \* those whose last position showed the offset
  located,    \* the UAVs the simulator has a position of
  ranges,     \* /uwb/range
  age,        \* age[e]: time since the last conflict over e
  quiet,      \* quiet[u]: time since the last alert about u
  peerSets,   \* peer_sets during a tick, empty between ticks
  simmed, ticks, \* what has happened in the current unit
  collecting,
  clock,      \* time since start_collecting
  firstAlert  \* per_victim and alerted_ids

swarmVars == <<victims, offset, fresh>>
detectorVars == <<reported, shifted, age, quiet, peerSets, ticks>>
simVars == <<located, ranges, simmed>>
trialVars == <<collecting, clock, firstAlert>>
vars == <<swarmVars, detectorVars, simVars, trialVars>>

Init ==
  /\ victims \in {V \in SUBSET UAV : Cardinality(V) \in NSpoofed}
  /\ offset = {} /\ fresh = {}
  /\ reported = {} /\ shifted = {} /\ located = {}
  /\ ranges = {}
  /\ age = [e \in Edge |-> Window + 1]
  /\ quiet = [u \in UAV |-> Cooldown]
  /\ peerSets = Nothing
  /\ simmed = FALSE /\ ticks = 0
  /\ collecting = FALSE
  /\ clock = 0
  /\ firstAlert = [u \in UAV |-> Never]

-----------------------------------------------------------------------------
(* Broadcasters and simulator.                                             *)

\* Mutant: the rank of a victim is taken for its id.
OnParamByRank(v) ==
  /\ collecting
  /\ v \in victims
  /\ Cardinality(offset) < Cardinality(victims)
  /\ offset' = offset \union {Cardinality(offset)}
  /\ fresh' = fresh \union {Cardinality(offset)}
  /\ UNCHANGED <<victims, detectorVars, simVars, trialVars>>

\* The runner's set_parameters: the main thread goes through spoof_ids.
OnParam(v) ==
  /\ collecting
  /\ v \in victims \ offset
  /\ \A w \in victims \ offset : v <= w
  /\ offset' = offset \union {v}
  /\ fresh' = fresh \union {v}
  /\ UNCHANGED <<victims, detectorVars, simVars, trialVars>>

\* The true position of u reaches the simulator.
Locate(u) ==
  /\ u \notin located
  /\ located' = located \union {u}
  /\ UNCHANGED <<swarmVars, detectorVars, ranges, simmed, trialVars>>

\* The queue of 2000 holds more than one round and is drained in between.
SimTick ==
  /\ ~simmed
  /\ ranges = {}
  /\ ranges' = {e \in Edge : Ends(e) \subseteq located}
  /\ simmed' = TRUE
  /\ UNCHANGED <<swarmVars, detectorVars, located, trialVars>>

-----------------------------------------------------------------------------
(* Detector: its callbacks exclude one another.                            *)

Idle == DOMAIN peerSets = {}

Shows(u) == IF u \in offset THEN shifted \union {u} ELSE shifted \ {u}

OnPose(u) ==
  /\ Idle
  /\ reported' = reported \union {u}
  /\ shifted' = Shows(u)
  /\ UNCHANGED <<age, quiet, peerSets, ticks>>
  /\ UNCHANGED <<swarmVars, simVars, trialVars>>

\* Mutant: two unknown positions count as a conflict.
ConflictsUnchecked(e) ==
  IF Ends(e) \subseteq shifted \/ e \in Marginal THEN BOOLEAN
  ELSE {~(Ends(e) \subseteq reported) \/ Ends(e) \intersect shifted # {}}

\* Whether the residual may exceed t_spoof.
Conflicts(e) ==
  IF ~(Ends(e) \subseteq reported) \/ Ends(e) \intersect shifted = {} THEN {FALSE}
  ELSE IF Ends(e) \subseteq shifted \/ e \in Marginal THEN BOOLEAN
  ELSE {TRUE}

\* The pairs are measured in the order of pair_list.
Before(e, f) == e[1] < f[1] \/ (e[1] = f[1] /\ e[2] < f[2])

OnRange(e) ==
  /\ Idle
  /\ e \in ranges
  /\ \A f \in ranges : ~Before(f, e)
  /\ ranges' = ranges \ {e}
  /\ \E conflict \in Conflicts(e) :
       age' = IF conflict THEN [age EXCEPT ![e] = 0] ELSE age
  /\ UNCHANGED <<reported, shifted, quiet, peerSets, ticks>>
  /\ UNCHANGED <<swarmVars, located, simmed, trialVars>>

\* pair_events: both ends of a conflict within the window have it.
Conflicting(u) == {v \in UAV : \E e \in Edge : Ends(e) = {u, v} /\ age[e] <= Window}

\* max takes the first of equals, in the order of known_uav_ids.
Best(u) ==
  /\ u \in DOMAIN peerSets
  /\ \A v \in DOMAIN peerSets :
       \/ Cardinality(peerSets[v]) < Cardinality(peerSets[u])
       \/ Cardinality(peerSets[v]) = Cardinality(peerSets[u]) /\ u <= v

Suspect(u) == Best(u) /\ Cardinality(peerSets[u]) >= MSuspect

BeginTick ==
  /\ Idle
  /\ peerSets' = [u \in UAV |-> Conflicting(u)]
  /\ ticks' = Older(ticks, Ticks)
  /\ UNCHANGED <<reported, shifted, age, quiet>>
  /\ UNCHANGED <<swarmVars, simVars, trialVars>>

\* peer_sets without the keys K and, in every set, the peers P.
Without(K, P) ==
  [v \in DOMAIN peerSets \ K |-> peerSets[v] \ P]

Alerted(u) == Suspect(u) /\ quiet[u] >= Cooldown

\* The collector hears of an alert within the unit in which it is raised.
OnAlert(u) ==
  firstAlert' = IF collecting /\ firstAlert[u] = Never
                THEN [firstAlert EXCEPT ![u] = clock] ELSE firstAlert

Flag(u) ==
  /\ Alerted(u)
  /\ peerSets' = Without({u}, {u})
  /\ quiet' = [quiet EXCEPT ![u] = 0]
  /\ OnAlert(u)
  /\ UNCHANGED <<reported, shifted, age, ticks>>
  /\ UNCHANGED <<swarmVars, simVars, collecting, clock>>

\* Mutant: a skipped UAV is peeled all the same.
SkipAndPeel(u) ==
  /\ Suspect(u) /\ quiet[u] < Cooldown
  /\ peerSets' = Without({u}, {u})
  /\ UNCHANGED <<reported, shifted, age, quiet, ticks>>
  /\ UNCHANGED <<swarmVars, simVars, trialVars>>

\* In cooldown: out of this tick, but still a peer of the others.
Skip(u) ==
  /\ Suspect(u) /\ quiet[u] < Cooldown
  /\ peerSets' = Without({u}, {})
  /\ UNCHANGED <<reported, shifted, age, quiet, ticks>>
  /\ UNCHANGED <<swarmVars, simVars, trialVars>>

EndTick ==
  /\ \E u \in UAV : Best(u) /\ Cardinality(peerSets[u]) < MSuspect
  /\ peerSets' = Nothing
  /\ UNCHANGED <<reported, shifted, age, quiet, ticks>>
  /\ UNCHANGED <<swarmVars, simVars, trialVars>>

-----------------------------------------------------------------------------
(* Runner.                                                                 *)

\* t_steady_s is long enough for every position to have been heard.
StartCollecting ==
  /\ ~collecting
  /\ reported = UAV /\ located = UAV
  /\ collecting' = TRUE
  /\ UNCHANGED <<swarmVars, detectorVars, simVars, clock, firstAlert>>

\* One unit of time: what is due in it has happened.
Pass ==
  /\ Idle /\ simmed /\ ticks = Ticks
  /\ ranges = {}
  /\ offset \ shifted \subseteq fresh
  /\ collecting => offset = victims /\ clock < Observe
  /\ clock' = IF collecting THEN clock + 1 ELSE clock
  /\ age' = [e \in Edge |-> Older(age[e], Window + 1)]
  /\ quiet' = [u \in UAV |-> Older(quiet[u], Cooldown)]
  /\ fresh' = {}
  /\ simmed' = FALSE /\ ticks' = 0
  /\ UNCHANGED <<victims, offset, reported, shifted, located, ranges>>
  /\ UNCHANGED <<peerSets, collecting, firstAlert>>

Detected == {v \in victims : firstAlert[v] # Never}

FalsePositives == {u \in UAV \ victims : firstAlert[u] # Never}

InBudget == {v \in Detected : firstAlert[v] < Budget}

Next ==
  \/ \E u \in UAV : OnParam(u) \/ Locate(u) \/ OnPose(u)
  \/ \E u \in UAV : Flag(u) \/ Skip(u)
  \/ \E e \in Edge : OnRange(e)
  \/ SimTick \/ BeginTick \/ EndTick \/ StartCollecting \/ Pass

Spec == Init /\ [][Next]_vars

-----------------------------------------------------------------------------
(* Properties.                                                             *)

\* Types. In particular nothing is shifted that has no offset, and an alert
\* is never counted before the collector listens.
TypeOK ==
  /\ victims \subseteq UAV /\ offset \subseteq victims /\ fresh \subseteq offset
  /\ reported \subseteq UAV /\ shifted \subseteq reported \intersect offset
  /\ located \subseteq UAV /\ ranges \subseteq Edge
  /\ age \in [Edge -> 0 .. Window + 1]
  /\ quiet \in [UAV -> 0 .. Cooldown]
  /\ DOMAIN peerSets \subseteq UAV
  /\ peerSets \in [DOMAIN peerSets -> SUBSET UAV]
  /\ {simmed, collecting} \subseteq BOOLEAN /\ ticks \in 0 .. Ticks
  /\ clock \in 0 .. Observe
  /\ firstAlert \in [UAV -> Never .. clock]

Neighbours(u) == {v \in UAV : \E e \in Edge : Ends(e) = {u, v}}

\* An alert is about a UAV that is spoofed already, or about one with at
\* least m_suspect spoofed neighbours: whatever the order of injections,
\* positions, ranges and ticks, nobody else is ever suspected. (A victim
\* may count as detected before its own injection, by its neighbours'.)
AlertJustified ==
  \A u \in (Detected \union FalsePositives) \ offset :
    Cardinality(Neighbours(u) \intersect offset) >= MSuspect

\* The neighbours over which the offset of v is sure to show.
Exposed(v) == {w \in Neighbours(v) \ victims : \A e \in Marginal : Ends(e) # {v, w}}

\* A victim that shows to m_suspect honest neighbours is found within the
\* budget, although honest UAVs may be flagged and peeled before it.
VictimsFoundInTime ==
  clock >= Budget =>
    {v \in victims : Cardinality(Exposed(v)) >= MSuspect} \subseteq InBudget

\* The innocents among so many victims that they look like one.
Suspectable(V) == {u \in UAV \ V : Cardinality(Neighbours(u) \intersect V) >= MSuspect}

\* What makes the budget suffice: it takes three units for the offsets to be
\* injected, reported and measured; in what is left of it, each tick that
\* misses a victim flags an innocent, which is then in cooldown.
BudgetSuffices ==
  /\ Window >= 1 /\ Ticks >= 1 /\ Budget >= 4
  /\ \A V \in SUBSET UAV : Cardinality(V) \in NSpoofed =>
       \/ Suspectable(V) = {}
       \/ Budget - 3 <= Cooldown /\ Cardinality(Suspectable(V)) < Ticks * (Budget - 3)

\* "Peeling attributes the conflict to the actually-spoofed UAV, which
\* eliminates the false positives": an honest UAV that has fewer conflicts
\* than each spoofed UAV it conflicts with is not alerted.
PeelingAttributes ==
  \A u \in UAV \ victims : Alerted(u) =>
    \E v \in Conflicting(u) :
      Cardinality(Conflicting(v)) <= Cardinality(Conflicting(u))

=============================================================================
