----------------------------- MODULE SpoofProofs -----------------------------
(***************************************************************************)
(* Proofs about SpoofDetector, for any number of UAVs, any layout, any set *)
(* of victims and any parameters of the detector.                          *)
(***************************************************************************)
EXTENDS SpoofDetector, FiniteSetTheorems, TLAPS

LEMMA Parameters ==
  /\ N \in Nat /\ Edge \subseteq Pairs /\ Marginal \subseteq Edge
  /\ MSuspect \in Nat \ {0} /\ Observe \in Nat \ {0}
  /\ Window \in Nat /\ Cooldown \in Nat /\ Ticks \in Nat /\ Budget \in Nat
  BY SpoofAssumption

LEMMA OlderFacts ==
  ASSUME NEW limit \in Nat, NEW t \in 0 .. limit
  PROVE  Older(t, limit) \in 0 .. limit /\ Older(t, limit) >= t
  BY DEF Older

LEMMA UAVFinite ==
  ASSUME NEW S \in SUBSET UAV
  PROVE  IsFiniteSet(S)
  <1>1. IsFiniteSet(UAV)
    BY Parameters, FS_Interval DEF UAV
  <1> QED
    BY <1>1, FS_Subset

LEMMA MoreUAVs ==
  ASSUME NEW S \in SUBSET UAV, NEW T \in SUBSET UAV, S \subseteq T
  PROVE  /\ Cardinality(S) \in Nat /\ Cardinality(T) \in Nat
         /\ Cardinality(S) <= Cardinality(T)
  <1>1. IsFiniteSet(S) /\ IsFiniteSet(T)
    BY UAVFinite
  <1> QED
    BY <1>1, FS_Subset, FS_CardinalityType

-----------------------------------------------------------------------------
(* Types.                                                                  *)

\* Initially.
LEMMA InitTypes == Init => TypeOK
  <1> SUFFICES ASSUME Init PROVE TypeOK
    OBVIOUS
  <1>1. victims \subseteq UAV
    BY DEF Init
  <1>2. DOMAIN peerSets = {} /\ peerSets \in [DOMAIN peerSets -> SUBSET UAV]
    BY DEF Init, Nothing
  <1>3. age \in [Edge -> 0 .. Window + 1] /\ quiet \in [UAV -> 0 .. Cooldown]
    BY Parameters DEF Init
  <1>4. clock \in 0 .. Observe /\ firstAlert \in [UAV -> Never .. clock]
    BY Parameters DEF Init, Never
  <1>5. /\ offset = {} /\ fresh = {} /\ reported = {} /\ shifted = {}
        /\ located = {} /\ ranges = {} /\ ticks = 0
        /\ simmed = FALSE /\ collecting = FALSE
    BY DEF Init
  <1>6. DOMAIN peerSets \subseteq UAV /\ ticks \in 0 .. Ticks
    BY <1>2, <1>5, Parameters
  <1> QED
    BY <1>1, <1>2, <1>3, <1>4, <1>5, <1>6 DEF TypeOK

\* An alert of u, whoever raised it, is counted at most once.
LEMMA AlertTypes ==
  ASSUME TypeOK, NEW u \in UAV, OnAlert(u)
  PROVE  /\ firstAlert' \in [UAV -> Never .. clock]
         /\ \A w \in UAV : firstAlert'[w] # Never => firstAlert[w] # Never \/ w = u
  BY DEF TypeOK, OnAlert, Never

\* The dict only loses keys and peers in the course of a tick.
LEMMA WithoutFacts ==
  ASSUME TypeOK, NEW u \in UAV, NEW P
  PROVE  /\ DOMAIN Without({u}, P) \subseteq DOMAIN peerSets
         /\ Without({u}, P) \in [DOMAIN Without({u}, P) -> SUBSET UAV]
         /\ \A v \in DOMAIN Without({u}, P) : Without({u}, P)[v] \subseteq peerSets[v]
  BY DEF TypeOK, Without

LEMMA StepTypes ==
  ASSUME TypeOK, [Next]_vars
  PROVE  TypeOK'
  <1> USE Parameters
  <1>1. ASSUME NEW u \in UAV, OnParam(u) PROVE TypeOK'
    BY <1>1 DEF TypeOK, OnParam, detectorVars, simVars, trialVars
  <1>2. ASSUME NEW u \in UAV, Locate(u) PROVE TypeOK'
    BY <1>2 DEF TypeOK, Locate, swarmVars, detectorVars, trialVars
  <1>3. ASSUME NEW u \in UAV, OnPose(u) PROVE TypeOK'
    BY <1>3 DEF TypeOK, OnPose, Shows, swarmVars, simVars, trialVars
  <1>4. ASSUME NEW u \in UAV, Flag(u) PROVE TypeOK'
    <2>1. firstAlert' \in [UAV -> Never .. clock]
      BY <1>4, AlertTypes DEF Flag
    <2>2. quiet' \in [UAV -> 0 .. Cooldown]
      BY <1>4 DEF Flag, TypeOK
    <2>3. /\ DOMAIN peerSets' \subseteq UAV
          /\ peerSets' \in [DOMAIN peerSets' -> SUBSET UAV]
      BY <1>4, WithoutFacts DEF Flag, TypeOK
    <2> QED
      BY <1>4, <2>1, <2>2, <2>3 DEF TypeOK, Flag, swarmVars, simVars
  <1>5. ASSUME NEW u \in UAV, Skip(u) PROVE TypeOK'
    <2>1. /\ DOMAIN peerSets' \subseteq UAV
          /\ peerSets' \in [DOMAIN peerSets' -> SUBSET UAV]
      BY <1>5, WithoutFacts DEF Skip, TypeOK
    <2> QED
      BY <1>5, <2>1 DEF TypeOK, Skip, swarmVars, simVars, trialVars
  <1>6. ASSUME NEW e \in Edge, OnRange(e) PROVE TypeOK'
    <2>1. age' \in [Edge -> 0 .. Window + 1]
      BY <1>6 DEF TypeOK, OnRange
    <2> QED
      BY <1>6, <2>1 DEF TypeOK, OnRange, swarmVars, trialVars
  <1>7. CASE SimTick
    BY <1>7 DEF TypeOK, SimTick, swarmVars, detectorVars, trialVars
  <1>8. CASE BeginTick
    <2>1. ticks' \in 0 .. Ticks
      BY <1>8, OlderFacts DEF BeginTick, TypeOK
    <2>2. /\ DOMAIN peerSets' \subseteq UAV
          /\ peerSets' \in [DOMAIN peerSets' -> SUBSET UAV]
      BY <1>8 DEF BeginTick, Conflicting
    <2> QED
      BY <1>8, <2>1, <2>2 DEF TypeOK, BeginTick, swarmVars, simVars, trialVars
  <1>9. CASE EndTick
    BY <1>9 DEF TypeOK, EndTick, Nothing, swarmVars, simVars, trialVars
  <1>10. CASE StartCollecting
    BY <1>10 DEF TypeOK, StartCollecting, swarmVars, detectorVars, simVars
  <1>11. CASE Pass
    <2>1. age' \in [Edge -> 0 .. Window + 1] /\ quiet' \in [UAV -> 0 .. Cooldown]
      BY <1>11, OlderFacts DEF Pass, TypeOK
    <2>2. clock' \in 0 .. Observe /\ firstAlert' \in [UAV -> Never .. clock']
      BY <1>11 DEF Pass, TypeOK, Never
    <2>3. offset' \subseteq victims' /\ fresh' \subseteq offset' /\ ticks' \in 0 .. Ticks
      BY <1>11 DEF Pass, TypeOK
    <2>4. /\ UNCHANGED <<victims, offset, reported, shifted, located, ranges>>
          /\ UNCHANGED <<peerSets, collecting>> /\ simmed' = FALSE
      BY <1>11 DEF Pass
    <2> QED
      BY <2>1, <2>2, <2>3, <2>4 DEF TypeOK
  <1>12. CASE UNCHANGED vars
    BY <1>12 DEF TypeOK, vars, swarmVars, detectorVars, simVars, trialVars
  <1> QED
    BY <1>1, <1>2, <1>3, <1>4, <1>5, <1>6, <1>7, <1>8, <1>9, <1>10, <1>11, <1>12
    DEF Next

\* Type correctness of the trial.
THEOREM TypesAreRight == Spec => []TypeOK
  <1>1. Init => TypeOK
    BY InitTypes
  <1>2. TypeOK /\ [Next]_vars => TypeOK'
    BY StepTypes
  <1> QED
    BY <1>1, <1>2, PTL DEF Spec

-----------------------------------------------------------------------------
(* Alerts.                                                                 *)

\* A recorded conflict has an end with an offset.
ConflictReal == \A e \in Edge : age[e] <= Window => Ends(e) \intersect offset # {}

\* So has a peer that the tick still holds against a UAV, or the UAV itself.
PeersReal ==
  \A u \in DOMAIN peerSets : \A v \in peerSets[u] :
    v \in Neighbours(u) /\ (u \in offset \/ v \in offset)

Guilty(u) == u \in offset \/ Cardinality(Neighbours(u) \intersect offset) >= MSuspect

AlertedGuilty == \A u \in UAV : firstAlert[u] # Never => Guilty(u)

NumberKept == Cardinality(victims) \in NSpoofed

IInv == TypeOK /\ NumberKept /\ ConflictReal /\ PeersReal /\ AlertedGuilty

LEMMA InitInductive == Init => IInv
  <1> SUFFICES ASSUME Init PROVE IInv
    OBVIOUS
  <1>1. ConflictReal
    BY Parameters DEF Init, ConflictReal
  <1>2. PeersReal
    BY DEF Init, PeersReal, Nothing
  <1>3. AlertedGuilty
    BY DEF Init, AlertedGuilty
  <1>4. NumberKept
    BY DEF Init, NumberKept
  <1> QED
    BY <1>1, <1>2, <1>3, <1>4, InitTypes DEF IInv

\* Offsets are only added, and never make a UAV less guilty.
LEMMA GuiltyStays ==
  ASSUME IInv, offset' \subseteq UAV, offset \subseteq offset', NEW u \in UAV, Guilty(u)
  PROVE  Guilty(u)'
  <1> DEFINE P == Neighbours(u) \intersect offset
             Q == Neighbours(u) \intersect offset'
  <1>1. P \in SUBSET UAV /\ Q \in SUBSET UAV /\ P \subseteq Q
    BY DEF Neighbours
  <1>2. Cardinality(P) \in Nat /\ Cardinality(Q) \in Nat /\ Cardinality(P) <= Cardinality(Q)
    BY <1>1, MoreUAVs
  <1> QED
    BY <1>2, Parameters DEF Guilty

\* What the greedy rule flags has the conflicts that make it guilty.
LEMMA AlertedIsGuilty ==
  ASSUME IInv, NEW u \in UAV, Alerted(u)
  PROVE  Guilty(u)
  <1>1. u \in DOMAIN peerSets /\ Cardinality(peerSets[u]) >= MSuspect
    BY DEF Alerted, Suspect, Best
  <1>2. CASE u \notin offset
    <2>1. peerSets[u] \subseteq Neighbours(u) \intersect offset
      BY <1>1, <1>2 DEF IInv, PeersReal
    <2>2. Neighbours(u) \intersect offset \in SUBSET UAV /\ peerSets[u] \in SUBSET UAV
      BY <1>1 DEF IInv, TypeOK, Neighbours
    <2>3. /\ Cardinality(peerSets[u]) \in Nat
          /\ Cardinality(Neighbours(u) \intersect offset) \in Nat
          /\ Cardinality(peerSets[u]) <= Cardinality(Neighbours(u) \intersect offset)
      BY <2>1, <2>2, MoreUAVs
    <2> QED
      BY <1>1, <2>3, Parameters DEF Guilty
  <1> QED
    BY <1>2 DEF Guilty

LEMMA StepConflicts ==
  ASSUME IInv, [Next]_vars
  PROVE  ConflictReal'
  <1>1. CASE UNCHANGED age /\ offset \subseteq offset'
    BY <1>1 DEF IInv, ConflictReal
  <1>2. ASSUME NEW e \in Edge, OnRange(e) PROVE ConflictReal'
    <2>1. offset' = offset
      BY <1>2 DEF OnRange, swarmVars
    <2>2. PICK c \in Conflicts(e) : age' = IF c THEN [age EXCEPT ![e] = 0] ELSE age
      BY <1>2 DEF OnRange
    <2>3. c => Ends(e) \intersect offset # {}
      BY <2>2 DEF Conflicts, IInv, TypeOK, Ends
    <2> QED
      BY <2>1, <2>2, <2>3 DEF IInv, TypeOK, ConflictReal
  <1>3. CASE Pass
    <2>1. offset' = offset
      BY <1>3 DEF Pass
    <2>2. \A e \in Edge : age'[e] >= age[e] /\ age[e] \in Nat /\ age'[e] \in Nat
      <3> SUFFICES ASSUME NEW e \in Edge
                   PROVE  age'[e] >= age[e] /\ age[e] \in Nat /\ age'[e] \in Nat
        OBVIOUS
      <3>1. age'[e] = Older(age[e], Window + 1) /\ age[e] \in 0 .. Window + 1
        BY <1>3 DEF Pass, IInv, TypeOK
      <3>2. Window + 1 \in Nat
        BY Parameters
      <3> QED
        BY <3>1, <3>2, OlderFacts
    <2> QED
      BY <2>1, <2>2, Parameters DEF IInv, ConflictReal
  <1>4. (\E e \in Edge : OnRange(e)) \/ Pass \/ (UNCHANGED age /\ offset \subseteq offset')
    BY DEF Next, OnParam, Locate, OnPose, Flag, Skip, SimTick, BeginTick, EndTick,
           StartCollecting, vars, swarmVars, detectorVars, simVars, trialVars
  <1> QED
    BY <1>1, <1>2, <1>3, <1>4

LEMMA StepPeers ==
  ASSUME IInv, [Next]_vars
  PROVE  PeersReal'
  <1>1. CASE UNCHANGED peerSets /\ offset \subseteq offset'
    BY <1>1 DEF IInv, PeersReal, Neighbours
  <1>2. CASE BeginTick
    <2>1. offset' = offset /\ peerSets' = [u \in UAV |-> Conflicting(u)]
      BY <1>2 DEF BeginTick, swarmVars
    <2>2. ASSUME NEW u \in UAV, NEW v \in Conflicting(u)
          PROVE  v \in Neighbours(u) /\ (u \in offset \/ v \in offset)
      BY <2>2 DEF IInv, ConflictReal, Conflicting, Neighbours
    <2> QED
      BY <2>1, <2>2 DEF PeersReal, Neighbours
  <1>3. CASE EndTick
    BY <1>3 DEF EndTick, Nothing, PeersReal
  <1>4. ASSUME NEW u \in UAV, Flag(u) \/ Skip(u) PROVE PeersReal'
    <2>1. offset' = offset /\ (peerSets' = Without({u}, {u}) \/ peerSets' = Without({u}, {}))
      BY <1>4 DEF Flag, Skip, swarmVars
    <2>2. /\ DOMAIN peerSets' \subseteq DOMAIN peerSets
          /\ \A v \in DOMAIN peerSets' : peerSets'[v] \subseteq peerSets[v]
      BY <2>1, WithoutFacts DEF IInv
    <2> QED
      BY <2>1, <2>2 DEF IInv, PeersReal, Neighbours
  <1>5. \/ BeginTick \/ EndTick \/ (\E u \in UAV : Flag(u) \/ Skip(u))
        \/ (UNCHANGED peerSets /\ offset \subseteq offset')
    BY DEF Next, OnParam, Locate, OnPose, OnRange, SimTick, StartCollecting, Pass,
           vars, swarmVars, detectorVars, simVars, trialVars
  <1> QED
    BY <1>1, <1>2, <1>3, <1>4, <1>5

LEMMA StepAlerts ==
  ASSUME IInv, [Next]_vars
  PROVE  AlertedGuilty'
  <1>1. offset \subseteq offset' /\ offset' \subseteq UAV
    <2>1. offset \subseteq offset'
      BY DEF Next, OnParam, Locate, OnPose, OnRange, Flag, Skip, SimTick, BeginTick,
             EndTick, StartCollecting, Pass, vars, swarmVars
    <2> QED
      BY <2>1, StepTypes DEF IInv, TypeOK
  <1>2. ASSUME NEW u \in UAV, Guilty(u) PROVE Guilty(u)'
    BY <1>1, <1>2, GuiltyStays
  <1>3. CASE UNCHANGED firstAlert
    BY <1>2, <1>3 DEF IInv, AlertedGuilty
  <1>4. ASSUME NEW u \in UAV, Flag(u) PROVE AlertedGuilty'
    <2>1. Guilty(u)
      BY <1>4, AlertedIsGuilty DEF Flag
    <2>2. \A w \in UAV : firstAlert'[w] # Never => firstAlert[w] # Never \/ w = u
      BY <1>4, AlertTypes DEF Flag, IInv
    <2> QED
      BY <1>2, <2>1, <2>2 DEF IInv, AlertedGuilty
  <1>5. (\E u \in UAV : Flag(u)) \/ UNCHANGED firstAlert
    BY DEF Next, OnParam, Locate, OnPose, OnRange, Skip, SimTick, BeginTick,
           EndTick, StartCollecting, Pass, vars, trialVars
  <1> QED
    BY <1>3, <1>4, <1>5

LEMMA StepNumber ==
  ASSUME IInv, [Next]_vars
  PROVE  NumberKept'
  <1>1. UNCHANGED victims
    BY DEF Next, OnParam, Locate, OnPose, OnRange, Flag, Skip, SimTick, BeginTick,
           EndTick, StartCollecting, Pass, vars, swarmVars
  <1> QED
    BY <1>1 DEF IInv, NumberKept

LEMMA StepInductive == IInv /\ [Next]_vars => IInv'
  BY StepTypes, StepNumber, StepConflicts, StepPeers, StepAlerts DEF IInv

LEMMA AlwaysInductive == Spec => []IInv
  BY InitInductive, StepInductive, PTL DEF Spec

LEMMA InductiveJustifies == IInv => AlertJustified
  BY DEF IInv, TypeOK, AlertedGuilty, Guilty, AlertJustified, Detected, FalsePositives

\* In every trial an alert is about a UAV that is already spoofed, or about
\* one with at least m_suspect neighbours that are.
THEOREM AlertsAreJustified == Spec => []AlertJustified
  BY AlwaysInductive, InductiveJustifies, PTL

\* With fewer victims than m_suspect there are no false positives at all,
\* whatever the geometry: every alert is about a victim.
THEOREM FewVictimsNoFalsePositives ==
  ASSUME \A n \in NSpoofed : n < MSuspect
  PROVE  Spec => [](FalsePositives = {})
  <1>1. ASSUME IInv PROVE FalsePositives = {}
    <2>1. SUFFICES ASSUME NEW u \in FalsePositives PROVE FALSE
      OBVIOUS
    <2>2. u \in UAV /\ u \notin offset /\ Guilty(u)
      BY <1>1, <2>1 DEF IInv, TypeOK, AlertedGuilty, FalsePositives
    <2>3. /\ Neighbours(u) \intersect offset \in SUBSET UAV /\ victims \in SUBSET UAV
          /\ Neighbours(u) \intersect offset \subseteq victims
      BY <1>1 DEF IInv, TypeOK
    <2>4. /\ Cardinality(Neighbours(u) \intersect offset) \in Nat
          /\ Cardinality(victims) \in Nat
          /\ Cardinality(Neighbours(u) \intersect offset) <= Cardinality(victims)
      BY <2>3, MoreUAVs
    <2> QED
      BY <1>1, <2>2, <2>4, Parameters, SpoofAssumption DEF Guilty, IInv, NumberKept
  <1> QED
    BY <1>1, AlwaysInductive, PTL

-----------------------------------------------------------------------------
(* Victims.                                                                *)

\* The ranges that show the offset of a victim.
Sure == {e \in Edge \ Marginal : Ends(e) \intersect victims # {} /\ ~(Ends(e) \subseteq victims)}

\* How far the offsets have come, unit by unit: they are injected in the
\* first, reported in the second and measured in the third, and in each later.
RolledOut ==
  /\ collecting => reported = UAV /\ located = UAV
  /\ ~collecting => offset = {} /\ clock = 0
  /\ clock >= 1 => offset = victims /\ fresh = {}
  /\ clock >= 2 => victims \subseteq shifted
  /\ clock >= 2 /\ simmed => \A e \in Sure \ ranges : age[e] = 0
  /\ clock >= 3 => \A e \in Sure : age[e] <= 1

\* Whoever is in cooldown was alerted while the collector listened.
CooldownTold == \A u \in UAV : quiet[u] < Cooldown => firstAlert[u] # Never

\* The innocents flagged since the third unit.
Spent == {u \in UAV \ victims : firstAlert[u] # Never /\ quiet[u] <= clock - 3}

\* The ticks begun since then.
Begun == Ticks * (clock - 3) + ticks

Shown(v) == v \in DOMAIN peerSets /\ Exposed(v) \subseteq peerSets[v]

Owed == {v \in victims : Cardinality(Exposed(v)) >= MSuspect} \ InBudget

\* As long as a victim is owed an alert, every tick but the current one has
\* spent an innocent, and so has the current one unless it still shows the
\* victim.
EachTickTells ==
  clock >= 3 => \A v \in Owed :
    /\ clock < Budget
    /\ \/ Cardinality(Spent) >= Begun
       \/ Shown(v) /\ Cardinality(Spent) >= Begun - 1

FoundInv == IInv /\ RolledOut /\ CooldownTold /\ EachTickTells

LEMMA EndsInSwarm == \A e \in Edge : Ends(e) \subseteq UAV
  BY Parameters DEF Pairs, Ends

\* Once every victim shows its offset, a sure range conflicts.
LEMMA SureConflicts ==
  ASSUME TypeOK, RolledOut, clock >= 2, NEW e \in Sure
  PROVE  Conflicts(e) = {TRUE}
  <1>1. clock >= 1 /\ collecting
    BY DEF TypeOK, RolledOut
  <1>2. reported = UAV /\ shifted = victims
    BY <1>1 DEF TypeOK, RolledOut
  <1>3. e \in Edge /\ e \notin Marginal /\ Ends(e) \intersect victims # {} /\ ~ (Ends(e) \subseteq victims)
    BY DEF Sure
  <1>4. Ends(e) \subseteq UAV
    BY <1>3, EndsInSwarm
  <1> QED
    BY <1>2, <1>3, <1>4 DEF Conflicts

LEMMA InitRolledOut == Init => RolledOut
  BY DEF Init, RolledOut

LEMMA StepRolledOut ==
  ASSUME TypeOK, RolledOut, [Next]_vars
  PROVE  RolledOut'
  <1> USE Parameters
  <1>0. clock \in Nat /\ victims \subseteq UAV
    BY DEF TypeOK
  <1>1. ASSUME NEW v \in UAV, OnParam(v) PROVE RolledOut'
    <2>1. collecting /\ v \in victims \ offset
          /\ UNCHANGED <<victims, reported, located, shifted, collecting, clock>>
      BY <1>1 DEF OnParam, detectorVars, simVars, trialVars
    <2>2. ~ (clock >= 1)
      BY <2>1 DEF RolledOut
    <2>3. ~ (clock >= 2) /\ ~ (clock >= 3)
      BY <1>0, <2>2
    <2> QED
      BY <2>1, <2>2, <2>3 DEF RolledOut
  <1>2. ASSUME NEW u \in UAV, Locate(u) PROVE RolledOut'
    <2>1. /\ u \notin located
          /\ UNCHANGED <<victims, offset, fresh, reported, shifted, collecting, clock>>
      BY <1>2 DEF Locate, swarmVars, detectorVars, trialVars
    <2>2. ~collecting /\ clock = 0
      BY <2>1 DEF RolledOut
    <2> QED
      BY <2>1, <2>2 DEF RolledOut
  <1>3. ASSUME NEW u \in UAV, OnPose(u) PROVE RolledOut'
    <2>1. /\ reported' = reported \union {u} /\ shifted' = Shows(u)
          /\ UNCHANGED <<victims, offset, fresh, located, ranges, age, simmed, collecting, clock>>
      BY <1>3 DEF OnPose, swarmVars, simVars, trialVars
    <2>2. clock >= 2 => victims \subseteq shifted'
      BY <1>0, <2>1 DEF RolledOut, Shows
    <2> QED
      BY <2>1, <2>2 DEF RolledOut, Sure
  <1>4. ASSUME NEW e \in Edge, OnRange(e) PROVE RolledOut'
    <2>1. /\ ranges' = ranges \ {e}
          /\ UNCHANGED <<victims, offset, fresh, reported, shifted, located, simmed, collecting, clock>>
      BY <1>4 DEF OnRange, swarmVars, trialVars
    <2>2. PICK c \in Conflicts(e) : age' = IF c THEN [age EXCEPT ![e] = 0] ELSE age
      BY <1>4 DEF OnRange
    <2>3. Sure' = Sure /\ Sure \subseteq Edge
      BY <2>1 DEF Sure
    <2>4. \A f \in Edge : age'[f] = age[f] \/ age'[f] = 0
      BY <2>2 DEF TypeOK
    <2>5. clock >= 2 /\ e \in Sure => age'[e] = 0
      <3>1. SUFFICES ASSUME clock >= 2, e \in Sure PROVE age'[e] = 0
        OBVIOUS
      <3>2. c = TRUE
        BY <2>2, <3>1, SureConflicts
      <3> QED
        BY <2>2, <3>2 DEF TypeOK
    <2>6. clock >= 2 /\ simmed => \A f \in Sure \ ranges' : age'[f] = 0
      <3>1. SUFFICES ASSUME clock >= 2, simmed, NEW f \in Sure \ ranges' PROVE age'[f] = 0
        OBVIOUS
      <3>2. CASE f = e
        BY <2>5, <3>1, <3>2
      <3>3. CASE f # e
        <4>1. f \in Sure \ ranges
          BY <2>1, <3>1, <3>3
        <4>2. age[f] = 0
          BY <3>1, <4>1 DEF RolledOut
        <4> QED
          BY <2>3, <2>4, <4>1, <4>2
      <3> QED
        BY <3>2, <3>3
    <2>7. clock >= 3 => \A f \in Sure : age'[f] <= 1
      BY <2>3, <2>4 DEF RolledOut
    <2> QED
      BY <2>1, <2>3, <2>6, <2>7 DEF RolledOut
  <1>5. CASE SimTick
    <2>1. /\ ranges' = {e \in Edge : Ends(e) \subseteq located}
          /\ UNCHANGED <<victims, offset, fresh, reported, shifted, located, age, collecting, clock>>
      BY <1>5 DEF SimTick, swarmVars, detectorVars, trialVars
    <2>2. Sure' = Sure /\ Sure \subseteq Edge
      BY <2>1 DEF Sure
    <2>3. clock >= 2 => ranges' = Edge
      BY <1>0, <2>1, EndsInSwarm DEF RolledOut
    <2>4. clock >= 2 => Sure \ ranges' = {}
      BY <2>2, <2>3
    <2> QED
      BY <2>1, <2>2, <2>4 DEF RolledOut
  <1>6. CASE StartCollecting
    <2>1. /\ ~collecting /\ reported = UAV /\ located = UAV
          /\ UNCHANGED <<victims, offset, fresh, reported, shifted, located, clock>>
      BY <1>6 DEF StartCollecting, swarmVars, detectorVars, simVars
    <2>2. clock = 0 /\ collecting'
      BY <1>6, <2>1 DEF RolledOut, StartCollecting
    <2> QED
      BY <2>1, <2>2 DEF RolledOut
  <1>7. CASE Pass
    <2>1. /\ simmed /\ ranges = {} /\ offset \ shifted \subseteq fresh
          /\ collecting => offset = victims
          /\ clock' = IF collecting THEN clock + 1 ELSE clock
          /\ age' = [e \in Edge |-> Older(age[e], Window + 1)]
          /\ fresh' = {} /\ simmed' = FALSE
          /\ UNCHANGED <<victims, offset, reported, shifted, located, ranges, collecting>>
      BY <1>7 DEF Pass
    <2>2. CASE ~collecting
      BY <2>1, <2>2 DEF RolledOut
    <2>3. CASE collecting
      <3>1. clock' = clock + 1 /\ offset' = victims' /\ collecting'
            /\ reported' = UAV /\ located' = UAV
        BY <2>1, <2>3 DEF RolledOut
      <3>2. clock >= 1 => victims \subseteq shifted
        BY <2>1, <2>3 DEF RolledOut
      <3>3. Sure' = Sure /\ Sure \subseteq Edge
        BY <2>1 DEF Sure
      <3>4. clock >= 2 => \A e \in Sure : age'[e] <= 1
        <4>1. SUFFICES ASSUME clock >= 2, NEW e \in Sure PROVE age'[e] <= 1
          OBVIOUS
        <4>2. age[e] = 0
          BY <2>1, <4>1 DEF RolledOut
        <4>3. age'[e] = Older(0, Window + 1)
          BY <2>1, <3>3, <4>2
        <4> QED
          BY <4>3 DEF Older
      <3>5. (clock' >= 2 => clock >= 1) /\ (clock' >= 3 => clock >= 2)
        BY <1>0, <3>1
      <3> QED
        BY <2>1, <3>1, <3>2, <3>3, <3>4, <3>5 DEF RolledOut
    <2> QED
      BY <2>2, <2>3
  <1>8. ASSUME UNCHANGED <<victims, offset, fresh, reported, shifted, located, ranges, age,
                           simmed, collecting, clock>>
        PROVE  RolledOut'
    BY <1>8 DEF RolledOut, Sure
  <1>9. \/ \E u \in UAV : OnParam(u) \/ Locate(u) \/ OnPose(u)
        \/ \E e \in Edge : OnRange(e)
        \/ SimTick \/ StartCollecting \/ Pass
        \/ UNCHANGED <<victims, offset, fresh, reported, shifted, located, ranges, age,
                       simmed, collecting, clock>>
    BY DEF Next, Flag, Skip, BeginTick, EndTick, vars, swarmVars, detectorVars, simVars, trialVars
  <1> QED
    BY <1>1, <1>2, <1>3, <1>4, <1>5, <1>6, <1>7, <1>8, <1>9

LEMMA StepCooldownTold ==
  ASSUME IInv, RolledOut, CooldownTold, [Next]_vars
  PROVE  CooldownTold'
  <1>1. CASE UNCHANGED <<quiet, firstAlert>>
    BY <1>1 DEF CooldownTold
  <1>2. ASSUME NEW u \in UAV, Flag(u) PROVE CooldownTold'
    <2>1. Alerted(u) /\ quiet' = [quiet EXCEPT ![u] = 0] /\ OnAlert(u)
      BY <1>2 DEF Flag
    <2>2. Guilty(u)
      BY <2>1, AlertedIsGuilty
    <2>3. collecting
      <3>1. SUFFICES ASSUME offset = {} PROVE FALSE
        BY DEF RolledOut
      <3>2. Neighbours(u) \intersect offset = {} /\ u \notin offset
        BY <3>1
      <3>3. Cardinality(Neighbours(u) \intersect offset) = 0
        BY <3>2, FS_EmptySet
      <3> QED
        BY <2>2, <3>2, <3>3, Parameters DEF Guilty
    <2>4. firstAlert \in [UAV -> Never .. clock] /\ clock \in Nat /\ quiet \in [UAV -> 0 .. Cooldown]
      BY Parameters DEF IInv, TypeOK
    <2>5. firstAlert'[u] # Never /\ \A w \in UAV : firstAlert[w] # Never => firstAlert'[w] # Never
      BY <2>1, <2>3, <2>4 DEF OnAlert, Never
    <2> QED
      BY <2>1, <2>4, <2>5 DEF CooldownTold
  <1>3. CASE Pass
    <2>1. quiet' = [u \in UAV |-> Older(quiet[u], Cooldown)] /\ firstAlert' = firstAlert
      BY <1>3 DEF Pass
    <2>2. SUFFICES ASSUME NEW u \in UAV, quiet'[u] < Cooldown PROVE firstAlert[u] # Never
      BY <2>1 DEF CooldownTold
    <2>3. quiet[u] \in 0 .. Cooldown /\ quiet'[u] = Older(quiet[u], Cooldown)
      BY <2>1 DEF IInv, TypeOK
    <2>4. quiet[u] < Cooldown
      BY <2>2, <2>3, Parameters DEF Older
    <2> QED
      BY <2>4 DEF CooldownTold
  <1>4. (\E u \in UAV : Flag(u)) \/ Pass \/ UNCHANGED <<quiet, firstAlert>>
    BY DEF Next, OnParam, Locate, OnPose, OnRange, Skip, SimTick, BeginTick, EndTick,
           StartCollecting, vars, swarmVars, detectorVars, simVars, trialVars
  <1> QED
    BY <1>1, <1>2, <1>3, <1>4

\* From the third unit a tick sees every conflict that is sure to show.
LEMMA ExposedConflict ==
  ASSUME IInv, RolledOut, BudgetSuffices, clock >= 3, NEW v \in victims
  PROVE  Exposed(v) \subseteq Conflicting(v)
  <1>1. SUFFICES ASSUME NEW w \in Exposed(v) PROVE w \in Conflicting(v)
    OBVIOUS
  <1>2. w \in UAV /\ w \notin victims /\ \A e \in Marginal : Ends(e) # {v, w}
    BY DEF Exposed, Neighbours
  <1>3. PICK e \in Edge : Ends(e) = {v, w}
    BY DEF Exposed, Neighbours
  <1>4. e \in Sure
    BY <1>2, <1>3 DEF Sure
  <1>5. age[e] <= 1 /\ age[e] \in Nat
    BY <1>3, <1>4, Parameters DEF RolledOut, IInv, TypeOK
  <1>6. age[e] <= Window
    BY <1>5, Parameters DEF BudgetSuffices
  <1> QED
    BY <1>2, <1>3, <1>6 DEF Conflicting

LEMMA SpentFacts ==
  ASSUME IInv
  PROVE  /\ Spent \in SUBSET UAV /\ IsFiniteSet(Spent) /\ Cardinality(Spent) \in Nat
         /\ Suspectable(victims) \in SUBSET UAV /\ Spent \subseteq Suspectable(victims)
         /\ Cardinality(Suspectable(victims)) \in Nat
         /\ Cardinality(Spent) <= Cardinality(Suspectable(victims))
  <1>1. Spent \in SUBSET UAV /\ Suspectable(victims) \in SUBSET UAV
    BY DEF Spent, Suspectable
  <1>2. ASSUME NEW u \in UAV \ victims, Guilty(u) PROVE u \in Suspectable(victims)
    <2> DEFINE P == Neighbours(u) \intersect offset
               Q == Neighbours(u) \intersect victims
    <2>1. P \in SUBSET UAV /\ Q \in SUBSET UAV /\ P \subseteq Q /\ Cardinality(P) >= MSuspect
      BY <1>2 DEF IInv, TypeOK, Guilty, Neighbours
    <2>2. Cardinality(P) \in Nat /\ Cardinality(Q) \in Nat /\ Cardinality(P) <= Cardinality(Q)
      BY <2>1, MoreUAVs
    <2>3. Cardinality(Q) >= MSuspect
      BY <2>1, <2>2, Parameters
    <2> QED
      BY <2>3 DEF Suspectable
  <1>3. Spent \subseteq Suspectable(victims)
    BY <1>2 DEF IInv, AlertedGuilty, Spent
  <1> QED
    BY <1>1, <1>3, UAVFinite, MoreUAVs

\* What there is to know of a victim that is owed an alert.
LEMMA OwedFacts ==
  ASSUME IInv, EachTickTells, clock >= 3, NEW v \in Owed
  PROVE  /\ v \in victims /\ v \in UAV /\ firstAlert[v] = Never
         /\ clock \in Nat /\ clock < Budget /\ Begun \in Int
         /\ Exposed(v) \in SUBSET UAV /\ Exposed(v) \intersect victims = {}
         /\ Cardinality(Exposed(v)) >= MSuspect
  <1>1. v \in victims /\ v \notin InBudget /\ Cardinality(Exposed(v)) >= MSuspect
    BY DEF Owed
  <1>2. victims \subseteq UAV /\ clock \in Nat /\ firstAlert \in [UAV -> Never .. clock]
        /\ ticks \in Nat
    BY Parameters DEF IInv, TypeOK
  <1>3. clock < Budget
    BY DEF EachTickTells
  <1>4. firstAlert[v] = Never
    <2>1. SUFFICES ASSUME firstAlert[v] # Never PROVE FALSE
      OBVIOUS
    <2>2. firstAlert[v] \in Never .. clock
      BY <1>1, <1>2
    <2>3. firstAlert[v] < Budget
      BY <1>2, <1>3, <2>2, Parameters DEF Never
    <2> QED
      BY <1>1, <2>1, <2>3 DEF InBudget, Detected
  <1>5. Begun \in Int
    BY <1>2, Parameters DEF Begun
  <1>6. Exposed(v) \in SUBSET UAV /\ Exposed(v) \intersect victims = {}
    BY DEF Exposed, Neighbours
  <1> QED
    BY <1>1, <1>2, <1>3, <1>4, <1>5, <1>6

\* Nobody is owed an alert who was not owed it before.
LEMMA OwedShrinks ==
  ASSUME IInv, [Next]_vars
  PROVE  Owed' \subseteq Owed /\ victims' = victims /\ \A v : Exposed(v)' = Exposed(v)
  <1>1. victims' = victims
    BY DEF Next, OnParam, Locate, OnPose, OnRange, Flag, Skip, SimTick, BeginTick,
           EndTick, StartCollecting, Pass, vars, swarmVars
  <1>2. \A v : Exposed(v)' = Exposed(v)
    BY <1>1 DEF Exposed, Neighbours
  <1>3. (\E u \in UAV : Flag(u)) \/ UNCHANGED firstAlert
    BY DEF Next, OnParam, Locate, OnPose, OnRange, Skip, SimTick, BeginTick,
           EndTick, StartCollecting, Pass, vars, trialVars
  <1>4. \A w \in UAV : firstAlert[w] # Never => firstAlert'[w] = firstAlert[w]
    <2>1. ASSUME NEW u \in UAV, Flag(u)
          PROVE  \A w \in UAV : firstAlert[w] # Never => firstAlert'[w] = firstAlert[w]
      BY <2>1 DEF Flag, OnAlert, IInv, TypeOK
    <2> QED
      BY <1>3, <2>1
  <1>5. InBudget \subseteq InBudget'
    BY <1>1, <1>4 DEF InBudget, Detected, IInv, TypeOK
  <1> QED
    BY <1>1, <1>2, <1>5 DEF Owed

LEMMA FlagTells ==
  ASSUME IInv, RolledOut, EachTickTells, BudgetSuffices, NEW u \in UAV, Flag(u)
  PROVE  EachTickTells'
  <1> USE Parameters
  <1>1. /\ Alerted(u) /\ peerSets' = Without({u}, {u})
        /\ quiet' = [quiet EXCEPT ![u] = 0] /\ OnAlert(u)
        /\ UNCHANGED <<victims, offset, ticks, collecting, clock>>
    BY DEF Flag, swarmVars
  <1>2. Owed' \subseteq Owed /\ \A v : Exposed(v)' = Exposed(v)
    BY OwedShrinks DEF Next
  <1>3. SUFFICES ASSUME clock >= 3, NEW v \in Owed'
                 PROVE  /\ clock < Budget
                        /\ \/ Cardinality(Spent') >= Begun
                           \/ Shown(v)' /\ Cardinality(Spent') >= Begun - 1
    BY <1>1 DEF EachTickTells, Begun
  <1>4. v \in Owed
    BY <1>2
  <1>5. /\ v \in victims /\ v \in UAV /\ firstAlert[v] = Never
        /\ clock \in Nat /\ clock < Budget /\ Begun \in Int
        /\ Exposed(v) \in SUBSET UAV /\ Exposed(v) \intersect victims = {}
    BY <1>3, <1>4, OwedFacts
  <1>6. collecting
    BY <1>3, <1>5 DEF RolledOut
  <1>7. firstAlert \in [UAV -> Never .. clock] /\ quiet \in [UAV -> 0 .. Cooldown]
        /\ victims \subseteq UAV
    BY DEF IInv, TypeOK
  <1>8. firstAlert'[u] # Never /\ \A w \in UAV \ {u} : firstAlert'[w] = firstAlert[w]
    BY <1>1, <1>5, <1>6, <1>7 DEF OnAlert, Never
  <1>9. u # v
    <2>1. SUFFICES ASSUME u = v PROVE FALSE
      OBVIOUS
    <2>2. firstAlert'[v] = clock
      BY <1>1, <1>5, <1>6, <1>7, <2>1 DEF OnAlert
    <2>3. v \in InBudget'
      BY <1>1, <1>5, <1>8, <2>1, <2>2 DEF InBudget, Detected
    <2> QED
      BY <2>3 DEF Owed
  <1>10. quiet'[u] = 0 /\ \A w \in UAV \ {u} : quiet'[w] = quiet[w]
    BY <1>1, <1>7
  <1>11. \/ Cardinality(Spent) >= Begun
         \/ Shown(v) /\ Cardinality(Spent) >= Begun - 1
    BY <1>3, <1>4 DEF EachTickTells
  <1>12. IsFiniteSet(Spent) /\ Cardinality(Spent) \in Nat
    BY SpentFacts
  <1>13. CASE u \in victims
    <2>1. Spent' = Spent
      BY <1>1, <1>8, <1>10, <1>13 DEF Spent
    <2>2. Shown(v) => Shown(v)'
      BY <1>1, <1>2, <1>5, <1>9, <1>13 DEF Shown, Without
    <2> QED
      BY <1>5, <1>11, <2>1, <2>2
  <1>14. CASE u \notin victims
    <2>1. Spent' = Spent \union {u}
      BY <1>1, <1>3, <1>5, <1>8, <1>10, <1>14 DEF Spent
    <2>2. Guilty(u)
      BY <1>1, AlertedIsGuilty
    <2>3. u \in Suspectable(victims)
      <3> DEFINE P == Neighbours(u) \intersect offset
                 Q == Neighbours(u) \intersect victims
      <3>1. P \in SUBSET UAV /\ Q \in SUBSET UAV /\ P \subseteq Q /\ Cardinality(P) >= MSuspect
        BY <1>14, <2>2 DEF IInv, TypeOK, Guilty, Neighbours
      <3>2. Cardinality(P) \in Nat /\ Cardinality(Q) \in Nat /\ Cardinality(P) <= Cardinality(Q)
        BY <3>1, MoreUAVs
      <3>3. Cardinality(Q) >= MSuspect
        BY <3>1, <3>2
      <3> QED
        BY <1>14, <3>3 DEF Suspectable
    <2>4. Budget - 3 <= Cooldown
      BY <1>7, <2>3 DEF BudgetSuffices, IInv, NumberKept
    <2>5. quiet[u] >= Cooldown /\ quiet[u] \in Nat
      BY <1>1, <1>7 DEF Alerted
    <2>6. u \notin Spent
      BY <1>5, <2>4, <2>5 DEF Spent
    <2>7. Cardinality(Spent') = Cardinality(Spent) + 1
      BY <1>12, <2>1, <2>6, FS_AddElement
    <2> QED
      BY <1>5, <1>11, <1>12, <2>7
  <1> QED
    BY <1>13, <1>14

LEMMA PassTells ==
  ASSUME IInv, IInv', RolledOut, EachTickTells, BudgetSuffices, Pass
  PROVE  EachTickTells'
  <1> USE Parameters
  <1>1. /\ Idle /\ ticks = Ticks /\ ticks' = 0
        /\ clock' = IF collecting THEN clock + 1 ELSE clock
        /\ quiet' = [w \in UAV |-> Older(quiet[w], Cooldown)]
        /\ UNCHANGED <<victims, peerSets, firstAlert>>
    BY DEF Pass
  <1>2. Owed' \subseteq Owed
    BY OwedShrinks DEF Next
  <1>3. SUFFICES ASSUME clock' >= 3, NEW v \in Owed'
                 PROVE  clock' < Budget /\ Cardinality(Spent') >= Begun'
    BY DEF EachTickTells
  <1>4. v \in Owed
    BY <1>2
  <1>5. clock \in Nat /\ clock' = clock + 1 /\ clock' \in Nat
    BY <1>1, <1>3 DEF RolledOut, IInv, TypeOK
  <1>6. Begun' = Ticks * (clock' - 3)
    BY <1>1, <1>5 DEF Begun
  <1>7. Cardinality(Spent) \in Nat /\ Cardinality(Spent) <= Cardinality(Suspectable(victims))
        /\ Cardinality(Suspectable(victims)) \in Nat /\ Spent \subseteq Suspectable(victims)
    BY SpentFacts
  <1>8. CASE clock = 2
    <2>1. clock' = 3 /\ Begun' = 0
      BY <1>5, <1>6, <1>8
    <2>2. Cardinality(Spent') \in Nat
      <3>1. Spent' \in SUBSET UAV
        BY DEF Spent
      <3> QED
        BY <3>1, UAVFinite, FS_CardinalityType
    <2> QED
      BY <2>1, <2>2 DEF BudgetSuffices
  <1>9. CASE clock >= 3
    <2>1. clock < Budget
      BY <1>4, <1>9, OwedFacts
    <2>2. Cardinality(Spent) >= Begun
      BY <1>1, <1>4, <1>9 DEF EachTickTells, Shown, Idle
    <2>3. Begun = Ticks * (clock - 3) + Ticks
      BY <1>1 DEF Begun
    <2>4. Begun' = Begun
      BY <1>5, <1>6, <2>3
    <2>5. clock' < Budget
      <3>1. SUFFICES ASSUME ~ (clock' < Budget) PROVE FALSE
        OBVIOUS
      <3>2. clock' = Budget
        BY <1>5, <2>1, <3>1
      <3>3. Cardinality(Spent) >= Ticks * (Budget - 3)
        BY <1>6, <2>2, <2>4, <3>2
      <3>4. PICK left \in Nat \ {0} : left = Budget - 3
        BY DEF BudgetSuffices
      <3>5. Ticks \in Nat \ {0}
        BY DEF BudgetSuffices
      <3>6. Ticks * left \in Nat \ {0}
        BY <3>5
      <3>7. Cardinality(Spent) # 0
        BY <1>7, <3>3, <3>4, <3>6
      <3>8. Suspectable(victims) # {}
        BY <1>7, <3>7, FS_EmptySet
      <3>9. victims \in SUBSET UAV /\ Cardinality(victims) \in NSpoofed
        BY DEF IInv, TypeOK, NumberKept
      <3>10. Cardinality(Suspectable(victims)) < Ticks * (Budget - 3)
        BY <3>8, <3>9 DEF BudgetSuffices
      <3> QED
        BY <1>7, <3>3, <3>4, <3>6, <3>10
    <2>6. Spent \subseteq Spent'
      <3>1. SUFFICES ASSUME NEW u \in Spent PROVE u \in Spent'
        OBVIOUS
      <3>2. u \in UAV \ victims /\ firstAlert[u] # Never /\ quiet[u] <= clock - 3
        BY DEF Spent
      <3>3. quiet[u] \in Nat /\ quiet'[u] = Older(quiet[u], Cooldown)
        BY <1>1, <3>2 DEF IInv, TypeOK
      <3>4. victims \in SUBSET UAV /\ Cardinality(victims) \in NSpoofed /\ Suspectable(victims) # {}
        BY <1>7, <3>1 DEF IInv, TypeOK, NumberKept
      <3>5. Budget - 3 <= Cooldown
        BY <3>4 DEF BudgetSuffices
      <3>6. quiet'[u] <= clock' - 3
        BY <1>5, <2>1, <3>2, <3>3, <3>5 DEF Older
      <3> QED
        BY <1>1, <3>2, <3>6 DEF Spent
    <2>7. Cardinality(Spent) <= Cardinality(Spent') /\ Cardinality(Spent') \in Nat
      <3>1. Spent \in SUBSET UAV /\ Spent' \in SUBSET UAV
        BY DEF Spent
      <3> QED
        BY <2>6, <3>1, MoreUAVs
    <2>8. Begun \in Int
      BY <1>4, <1>9, OwedFacts
    <2> QED
      BY <1>7, <2>2, <2>4, <2>5, <2>7, <2>8
  <1> QED
    BY <1>3, <1>5, <1>8, <1>9

LEMMA StepTells ==
  ASSUME IInv, IInv', RolledOut, CooldownTold, EachTickTells, BudgetSuffices, [Next]_vars
  PROVE  EachTickTells'
  <1> USE Parameters
  <1>1. ASSUME NEW u \in UAV, Flag(u) PROVE EachTickTells'
    BY <1>1, FlagTells
  <1>2. CASE Pass
    BY <1>2, PassTells
  <1> DEFINE Other == \/ BeginTick \/ EndTick \/ \E u \in UAV : Skip(u)
                      \/ UNCHANGED <<peerSets, ticks>> /\ UNCHANGED <<quiet, clock, firstAlert>>
  <1>3. CASE Other
    <2>1. UNCHANGED <<victims, quiet, clock, firstAlert>>
      BY <1>3, OwedShrinks DEF BeginTick, EndTick, Skip, trialVars
    <2>2. SUFFICES ASSUME clock >= 3, NEW v \in Owed'
                   PROVE  \/ Cardinality(Spent) >= Begun'
                          \/ Shown(v)' /\ Cardinality(Spent) >= Begun' - 1
      <3>1. Spent' = Spent
        BY <2>1 DEF Spent
      <3>2. ASSUME clock >= 3, NEW w \in Owed' PROVE clock < Budget
        <4>1. w \in Owed
          BY OwedShrinks
        <4> QED
          BY <3>2, <4>1 DEF EachTickTells
      <3> QED
        BY <2>1, <2>2, <3>1, <3>2 DEF EachTickTells
    <2>3. v \in Owed /\ Exposed(v)' = Exposed(v)
      BY OwedShrinks
    <2>4. /\ v \in victims /\ v \in UAV /\ firstAlert[v] = Never
          /\ clock \in Nat /\ Begun \in Int
          /\ Exposed(v) \in SUBSET UAV /\ Cardinality(Exposed(v)) >= MSuspect
      BY <2>2, <2>3, OwedFacts
    <2>5. \/ Cardinality(Spent) >= Begun
          \/ Shown(v) /\ Cardinality(Spent) >= Begun - 1
      BY <2>2, <2>3 DEF EachTickTells
    <2>6. Cardinality(Spent) \in Nat
      BY SpentFacts
    <2>7. CASE BeginTick
      <3>1. Idle /\ peerSets' = [u \in UAV |-> Conflicting(u)] /\ ticks' = Older(ticks, Ticks)
        BY <2>7 DEF BeginTick
      <3>2. Shown(v)'
        BY <2>2, <2>3, <2>4, <3>1, ExposedConflict DEF Shown
      <3>3. Cardinality(Spent) >= Begun
        BY <2>5, <3>1 DEF Shown, Idle
      <3>4. ticks \in Nat /\ ticks' \in Nat /\ ticks' <= ticks + 1
        BY <3>1 DEF Older, IInv, TypeOK
      <3> DEFINE before == Ticks * (clock - 3)
      <3>5. before \in Int
        BY <2>4
      <3>6. Begun = before + ticks /\ Begun' = before + ticks'
        BY <2>1 DEF Begun
      <3> HIDE DEF before
      <3>7. Cardinality(Spent) >= Begun' - 1
        BY <2>6, <3>3, <3>4, <3>5, <3>6
      <3> QED
        BY <3>2, <3>7
    <2>8. CASE EndTick
      <3>1. UNCHANGED ticks
        BY <2>8 DEF EndTick
      <3>2. PICK u \in UAV : Best(u) /\ Cardinality(peerSets[u]) < MSuspect
        BY <2>8 DEF EndTick
      <3>3. ~Shown(v)
        <4>1. SUFFICES ASSUME v \in DOMAIN peerSets, Exposed(v) \subseteq peerSets[v] PROVE FALSE
          BY DEF Shown
        <4>2. u \in DOMAIN peerSets /\ peerSets[u] \in SUBSET UAV /\ peerSets[v] \in SUBSET UAV
          BY <3>2, <4>1 DEF Best, IInv, TypeOK
        <4>3. /\ Cardinality(Exposed(v)) \in Nat /\ Cardinality(peerSets[v]) \in Nat
              /\ Cardinality(Exposed(v)) <= Cardinality(peerSets[v])
          BY <2>4, <4>1, <4>2, MoreUAVs
        <4>4. Cardinality(peerSets[u]) \in Nat
          BY <4>2, MoreUAVs
        <4>5. \/ Cardinality(peerSets[v]) < Cardinality(peerSets[u])
              \/ Cardinality(peerSets[v]) = Cardinality(peerSets[u])
          BY <3>2, <4>1 DEF Best
        <4> QED
          BY <2>4, <3>2, <4>3, <4>4, <4>5
      <3> QED
        BY <2>1, <2>5, <3>1, <3>3 DEF Begun
    <2>9. ASSUME NEW u \in UAV, Skip(u)
          PROVE  \/ Cardinality(Spent) >= Begun'
                 \/ Shown(v)' /\ Cardinality(Spent) >= Begun' - 1
      <3>1. peerSets' = Without({u}, {}) /\ quiet[u] < Cooldown /\ UNCHANGED ticks
        BY <2>9 DEF Skip
      <3>2. u # v
        BY <2>4, <3>1 DEF CooldownTold
      <3>3. Shown(v) => Shown(v)'
        BY <2>3, <3>1, <3>2 DEF Shown, Without
      <3> QED
        BY <2>1, <2>5, <3>1, <3>3 DEF Begun
    <2>10. CASE UNCHANGED <<peerSets, ticks>>
      BY <2>1, <2>3, <2>5, <2>10 DEF Begun, Shown
    <2> QED
      BY <1>3, <2>7, <2>8, <2>9, <2>10
  <1>4. (\E u \in UAV : Flag(u)) \/ Pass \/ Other
    BY DEF Next, OnParam, Locate, OnPose, OnRange, SimTick, StartCollecting,
           vars, swarmVars, detectorVars, simVars, trialVars
  <1> HIDE DEF Other
  <1> QED
    BY <1>1, <1>2, <1>3, <1>4

\* Where the budget leaves more ticks than there are innocents to be flagged
\* first, every victim that shows to m_suspect honest neighbours is found in
\* time, in any layout and any order of injections, reports, ranges and ticks.
THEOREM VictimsAreFound ==
  ASSUME BudgetSuffices
  PROVE  Spec => []VictimsFoundInTime
  <1>1. Init => FoundInv
    <2> SUFFICES ASSUME Init PROVE FoundInv
      OBVIOUS
    <2>1. CooldownTold
      BY Parameters DEF Init, CooldownTold
    <2>2. EachTickTells
      BY DEF Init, EachTickTells
    <2> QED
      BY <2>1, <2>2, InitInductive, InitRolledOut DEF FoundInv
  <1>2. FoundInv /\ [Next]_vars => FoundInv'
    <2> SUFFICES ASSUME FoundInv, [Next]_vars PROVE FoundInv'
      OBVIOUS
    <2>1. IInv /\ TypeOK /\ IInv'
      BY StepInductive DEF FoundInv, IInv
    <2>2. RolledOut'
      BY <2>1, StepRolledOut DEF FoundInv
    <2>3. CooldownTold'
      BY <2>1, StepCooldownTold DEF FoundInv
    <2>4. EachTickTells'
      BY <2>1, StepTells DEF FoundInv
    <2> QED
      BY <2>1, <2>2, <2>3, <2>4 DEF FoundInv
  <1>3. FoundInv => VictimsFoundInTime
    <2> SUFFICES ASSUME FoundInv, clock >= Budget, NEW v \in victims,
                        Cardinality(Exposed(v)) >= MSuspect, v \notin InBudget
                 PROVE  FALSE
      BY DEF VictimsFoundInTime
    <2>1. v \in Owed
      BY DEF Owed
    <2>2. clock \in Nat /\ Budget >= 4 /\ Budget \in Nat
      BY Parameters DEF FoundInv, IInv, TypeOK, BudgetSuffices
    <2>3. clock >= 3
      BY <2>2
    <2>4. clock < Budget
      BY <2>1, <2>3 DEF FoundInv, EachTickTells
    <2> QED
      BY <2>2, <2>4
  <1> QED
    BY <1>1, <1>2, <1>3, PTL DEF Spec

\* With fewer victims than m_suspect, as in the production campaign, no
\* innocent is in the way: the victims are found within four units.
THEOREM FewVictimsAreFound ==
  ASSUME \A n \in NSpoofed : n < MSuspect, Window >= 1, Ticks >= 1, Budget >= 4
  PROVE  Spec => []VictimsFoundInTime
  <1>1. ASSUME NEW V \in SUBSET UAV, Cardinality(V) \in NSpoofed PROVE Suspectable(V) = {}
    <2>1. SUFFICES ASSUME NEW u \in UAV, Cardinality(Neighbours(u) \intersect V) >= MSuspect
                   PROVE  FALSE
      BY DEF Suspectable
    <2>2. Neighbours(u) \intersect V \in SUBSET UAV
      OBVIOUS
    <2>3. /\ Cardinality(Neighbours(u) \intersect V) \in Nat /\ Cardinality(V) \in Nat
          /\ Cardinality(Neighbours(u) \intersect V) <= Cardinality(V)
      BY <2>2, MoreUAVs
    <2>4. Cardinality(V) < MSuspect
      BY <1>1
    <2> QED
      BY <2>1, <2>3, <2>4, Parameters
  <1>2. BudgetSuffices
    BY <1>1 DEF BudgetSuffices
  <1> QED
    BY <1>2, VictimsAreFound

=============================================================================
