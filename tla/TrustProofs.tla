----------------------------- MODULE TrustProofs -----------------------------
(***************************************************************************)
(* Proofs about Trust, for any finite set of UAVs and any parameters.      *)
(***************************************************************************)
EXTENDS Trust, FiniteSetTheorems, TLAPS

-----------------------------------------------------------------------------
(* Arithmetic of reputations.                                              *)

LEMMA Parameters ==
  /\ One \in Nat \ {0}
  /\ RInit \in Level /\ AlphaPos \in Level /\ AlphaNeg \in Level
  /\ TReject \in Level /\ TQuorum \in Level /\ Kept \in Level
  BY TrustAssumption DEF Level

\* A product of two fractions of One is no larger than either.
LEMMA ProductFacts ==
  ASSUME NEW r \in Level, NEW k \in Level
  PROVE  (r * k) \div One \in Level /\ (r * k) \div One <= r
  <1> DEFINE p == r * k
             q == p \div One
  <1>1. r \in Nat /\ k \in Nat /\ k <= One /\ One \in Nat \ {0} /\ r <= One
    BY Parameters DEF Level
  <1>2. p \in Nat /\ p <= r * One
    BY <1>1
  <1> HIDE DEF p
  <1>3. q \in Nat /\ One * q <= p
    BY <1>1, <1>2
  <1> HIDE DEF q
  <1>4. q <= r
    <2>1. CASE q >= r + 1
      <3>1. One * q >= One * (r + 1)
        BY <1>1, <1>3, <2>1
      <3>2. One * (r + 1) = r * One + One
        BY <1>1
      <3> QED
        BY <1>1, <1>2, <1>3, <3>1, <3>2
    <2> QED
      BY <1>1, <1>3, <2>1
  <1> QED
    BY <1>1, <1>3, <1>4 DEF p, q, Level

LEMMA DecayedFacts ==
  ASSUME NEW r \in Level
  PROVE  Decayed(r) \in Level /\ Decayed(r) <= r
  BY ProductFacts, Parameters DEF Decayed

\* An update stays in range, and goes the way of the verdict.
LEMMA UpdatedFacts ==
  ASSUME NEW r \in Level, NEW good \in BOOLEAN, NEW rk \in Level
  PROVE  /\ Updated(r, good, rk) \in Level
         /\ good => Updated(r, good, rk) >= r
         /\ ~good => Updated(r, good, rk) <= r
  <1>1. Weighted(AlphaPos, rk) \in Nat /\ Weighted(AlphaNeg, rk) \in Nat
    BY ProductFacts, Parameters DEF Weighted, Level
  <1> HIDE DEF Weighted
  <1> QED
    BY <1>1, Parameters DEF Updated, Clamp, Level

-----------------------------------------------------------------------------
(* Types.                                                                  *)

LEMMA EntryFacts ==
  ASSUME TypeOK, NEW n \in UAV, NEW p \in UAV
  PROVE  /\ Known(n, p) \in Level
         /\ Current(n, p) \in Level
         /\ n # p /\ rep[n][p] # Unknown => Current(n, p) = rep[n][p]
  BY Parameters DEF TypeOK, Known, Current

\* The one entry that a verdict changes.
NewLevel(n, v, t) == Updated(Current(n, t), Verified(v, t), Known(n, v))

LEMMA UpdateStep ==
  ASSUME TypeOK, NEW n \in UAV, NEW v \in UAV, NEW t \in UAV, OnUpdate(n, v, t)
  PROVE  /\ NewLevel(n, v, t) \in Level
         /\ Verified(v, t) => NewLevel(n, v, t) >= Current(n, t)
         /\ ~Verified(v, t) => NewLevel(n, v, t) <= Current(n, t)
         /\ rep' \in [UAV -> [UAV -> Level \cup {Unknown}]]
         /\ \A m, p \in UAV :
              rep'[m][p] = IF m = n /\ p = t THEN NewLevel(n, v, t) ELSE rep[m][p]
         /\ fading' \in [UAV -> Level]
         /\ \A m \in UAV :
              fading'[m] = IF m = n /\ n = t THEN NewLevel(n, v, t) ELSE fading[m]
  <1> DEFINE r == NewLevel(n, v, t)
  <1>1. /\ r \in Level
        /\ Verified(v, t) => r >= Current(n, t)
        /\ ~Verified(v, t) => r <= Current(n, t)
    <2>1. Verified(v, t) \in BOOLEAN
      BY DEF Verified
    <2> QED
      BY <2>1, EntryFacts, UpdatedFacts DEF NewLevel
  <1>2. /\ rep' = [rep EXCEPT ![n][t] = r]
        /\ fading' = IF t = n THEN [fading EXCEPT ![n] = r] ELSE fading
    BY DEF OnUpdate, NewLevel
  <1>3. rep \in [UAV -> [UAV -> Level \cup {Unknown}]] /\ fading \in [UAV -> Level]
    BY DEF TypeOK
  <1> HIDE DEF r
  <1>4. /\ rep' \in [UAV -> [UAV -> Level \cup {Unknown}]]
        /\ \A m, p \in UAV : rep'[m][p] = IF m = n /\ p = t THEN r ELSE rep[m][p]
    <2> DEFINE row == [rep[n] EXCEPT ![t] = r]
    <2>1. rep' = [rep EXCEPT ![n] = row]
      BY <1>2
    <2>2. /\ row \in [UAV -> Level \cup {Unknown}]
          /\ \A p \in UAV : row[p] = IF p = t THEN r ELSE rep[n][p]
      BY <1>1, <1>3
    <2> HIDE DEF row
    <2> QED
      BY <1>3, <2>1, <2>2
  <1>5. /\ fading' \in [UAV -> Level]
        /\ \A m \in UAV : fading'[m] = IF m = n /\ n = t THEN r ELSE fading[m]
    BY <1>1, <1>2, <1>3
  <1> QED
    BY <1>1, <1>4, <1>5 DEF r

LEMMA LapseStep ==
  ASSUME TypeOK, Lapse
  PROVE  /\ rep' \in [UAV -> [UAV -> Level \cup {Unknown}]]
         /\ \A m, p \in UAV :
              /\ m = p \/ rep[m][p] = Unknown => rep'[m][p] = rep[m][p]
              /\ m # p /\ rep[m][p] # Unknown =>
                   rep'[m][p] \in Level /\ rep'[m][p] <= rep[m][p]
         /\ fading' \in [UAV -> Level]
  <1>1. \A m, p \in UAV : rep[m][p] \in Level \cup {Unknown} /\ fading[m] \in Level
    BY DEF TypeOK
  <1>2. \A r \in Level : Decayed(r) \in Level /\ Decayed(r) <= r
    BY DecayedFacts
  <1> HIDE DEF Decayed
  <1> QED
    BY <1>1, <1>2 DEF Lapse

LEMMA ViewStep ==
  ASSUME TypeOK, NEW o \in Observer, NEW v \in Manager, NEW t \in UAV, OnView(o, v, t)
  PROVE  /\ rejecting' \in [Observer -> [UAV -> SUBSET UAV]]
         /\ \A q \in Observer, p \in UAV :
              rejecting'[q][p] =
                IF q = o /\ p = t
                THEN With(rejecting[o][t], v, Rejects(rep[v][t]))
                ELSE rejecting[q][p]
  <1> DEFINE S == With(rejecting[o][t], v, Rejects(rep[v][t]))
             row == [rejecting[o] EXCEPT ![t] = S]
  <1>1. rejecting \in [Observer -> [UAV -> SUBSET UAV]] /\ v \in UAV
    BY TrustAssumption DEF TypeOK
  <1>2. S \in SUBSET UAV
    BY <1>1 DEF With
  <1>3. rejecting' = [rejecting EXCEPT ![o] = row]
    BY DEF OnView
  <1> HIDE DEF S
  <1>4. /\ row \in [UAV -> SUBSET UAV]
        /\ \A p \in UAV : row[p] = IF p = t THEN S ELSE rejecting[o][p]
    BY <1>1, <1>2
  <1> HIDE DEF row
  <1> QED
    BY <1>1, <1>3, <1>4 DEF S

LEMMA TypeInit == Init => TypeOK
  BY Parameters, TrustAssumption DEF Init, TypeOK, Level

LEMMA TypeNext == TypeOK /\ [Next]_vars => TypeOK'
  <1> SUFFICES ASSUME TypeOK, [Next]_vars PROVE TypeOK'
    OBVIOUS
  <1>1. ASSUME NEW n \in Manager, NEW v \in UAV, NEW t \in UAV, OnUpdate(n, v, t)
        PROVE  TypeOK'
    <2>1. n \in UAV
      BY TrustAssumption
    <2>2. \A m \in UAV : rep'[m][m] # Unknown
      BY <1>1, <2>1, UpdateStep, TrustAssumption DEF TypeOK, Level
    <2> QED
      BY <1>1, <2>1, <2>2, UpdateStep DEF OnUpdate, TypeOK
  <1>2. CASE Lapse
    <2>1. lapses' \in 0 .. MaxLapses
      BY <1>2, TrustAssumption DEF Lapse, TypeOK
    <2>2. \A m \in UAV : rep'[m][m] # Unknown
      BY <1>2, LapseStep DEF TypeOK
    <2> QED
      BY <1>2, <2>1, <2>2, LapseStep DEF Lapse, TypeOK
  <1>3. ASSUME NEW o \in Observer, NEW v \in Manager, NEW t \in UAV, OnView(o, v, t)
        PROVE  TypeOK'
    BY <1>3, ViewStep DEF OnView, TypeOK
  <1>4. ASSUME NEW o \in Observer, NEW v \in Manager, OnState(o, v) PROVE TypeOK'
    BY <1>4, TrustAssumption DEF OnState, With, TypeOK
  <1>5. ASSUME NEW o \in Observer, Tick(o) PROVE TypeOK'
    BY <1>5 DEF Tick, TypeOK
  <1>6. CASE UNCHANGED vars
    BY <1>6 DEF vars, TypeOK
  <1> QED
    BY <1>1, <1>2, <1>3, <1>4, <1>5, <1>6 DEF Next

\* reputation_manager_node and quorum_exclusion_node keep the types of their
\* fields; in particular every reputation stays in [0, 1].
THEOREM TypeCorrect == Spec => []TypeOK
  BY TypeInit, TypeNext, PTL DEF Spec

-----------------------------------------------------------------------------
(* Byzantine UAVs stay rejected.                                           *)

\* What a quorum node has heard against a Byzantine UAV is still true.
RejectionHolds ==
  \A o \in Observer, t \in Byzantine :
    rejecting[o][t] \subseteq Rejecters(t) \ {o}

ByzantineExclusionStands ==
  \A o \in Observer : \A t \in excluded[o] \cap Byzantine :
    Cardinality(Rejecters(t) \ {o}) >= MQuorum

LEMMA RejectersKept ==
  ASSUME TypeOK, [Next]_vars, NEW t \in Byzantine
  PROVE  Rejecters(t) \subseteq Rejecters(t)'
  <1> SUFFICES ASSUME NEW m \in UAV \ {t}, Rejects(rep[m][t])
               PROVE  Rejects(rep'[m][t])
    BY DEF Rejecters
  <1>0. t \in UAV /\ rep[m][t] \in Level /\ rep[m][t] < TReject /\ TReject \in Level
    BY TrustAssumption, Parameters DEF Rejects, TypeOK
  <1>1. ASSUME rep'[m][t] \in Level, rep'[m][t] <= rep[m][t]
        PROVE  Rejects(rep'[m][t])
    BY <1>0, <1>1, TrustAssumption DEF Rejects, Level
  <1>2. CASE rep' = rep
    BY <1>2
  <1>3. ASSUME NEW n \in Manager, NEW v \in UAV, NEW p \in UAV, OnUpdate(n, v, p)
        PROVE  Rejects(rep'[m][t])
    <2>1. n \in UAV /\ ~Verified(v, t)
      BY TrustAssumption DEF Verified
    <2>2. CASE m = n /\ p = t
      <3>1. Current(n, t) = rep[m][t]
        BY <1>0, <2>1, <2>2, EntryFacts DEF Rejects
      <3>2. rep'[m][t] \in Level /\ rep'[m][t] <= rep[m][t]
        BY <1>0, <1>3, <2>1, <2>2, <3>1, UpdateStep
      <3> QED
        BY <1>1, <3>2
    <2>3. CASE ~(m = n /\ p = t)
      BY <1>0, <1>3, <2>1, <2>3, UpdateStep
    <2> QED
      BY <2>2, <2>3
  <1>4. CASE Lapse
    <2>1. rep'[m][t] \in Level /\ rep'[m][t] <= rep[m][t]
      BY <1>0, <1>4, LapseStep DEF Rejects
    <2> QED
      BY <1>1, <2>1
  <1> QED
    BY <1>2, <1>3, <1>4 DEF Next, OnView, OnState, Tick, vars

LEMMA RejectionStep ==
  ASSUME TypeOK, RejectionHolds, [Next]_vars
  PROVE  RejectionHolds'
  <1> SUFFICES ASSUME NEW o \in Observer, NEW t \in Byzantine
               PROVE  rejecting'[o][t] \subseteq Rejecters(t)' \ {o}
    BY DEF RejectionHolds
  <1>0. t \in UAV /\ rejecting[o][t] \subseteq Rejecters(t)' \ {o}
    BY RejectersKept, TrustAssumption DEF RejectionHolds
  <1>1. CASE rejecting' = rejecting
    BY <1>0, <1>1
  <1>2. ASSUME NEW q \in Observer, NEW v \in Manager, NEW p \in UAV, OnView(q, v, p)
        PROVE  rejecting'[o][t] \subseteq Rejecters(t)' \ {o}
    <2>1. CASE q = o /\ p = t
      <3>1. v \in UAV \ {o, t} /\ rep' = rep
        BY <1>2, <2>1, TrustAssumption DEF OnView
      <3>2. Rejects(rep[v][t]) => v \in Rejecters(t)'
        BY <3>1 DEF Rejecters
      <3>3. rejecting'[o][t] = With(rejecting[o][t], v, Rejects(rep[v][t]))
        BY <1>2, <2>1, ViewStep
      <3> QED
        BY <1>0, <3>1, <3>2, <3>3 DEF With
    <2>2. CASE ~(q = o /\ p = t)
      BY <1>0, <1>2, <2>2, ViewStep
    <2> QED
      BY <2>1, <2>2
  <1> QED
    BY <1>1, <1>2 DEF Next, OnUpdate, Lapse, OnState, Tick, vars

LEMMA RejectersFinite ==
  ASSUME NEW t, NEW o
  PROVE  /\ IsFiniteSet(Rejecters(t) \ {o})
         /\ Cardinality(Rejecters(t) \ {o}) \in Nat
         /\ \A S \in SUBSET (Rejecters(t) \ {o}) :
              Cardinality(S) \in Nat /\ Cardinality(S) <= Cardinality(Rejecters(t) \ {o})
  <1>1. Rejecters(t) \ {o} \in SUBSET UAV
    BY DEF Rejecters
  <1> QED
    BY <1>1, TrustAssumption, FS_Subset, FS_CardinalityType

RejectersAreFinite ==
  \A o \in Observer, t \in Byzantine :
    /\ Cardinality(Rejecters(t) \ {o}) \in Nat
    /\ \A S \in SUBSET (Rejecters(t) \ {o}) :
         Cardinality(S) \in Nat /\ Cardinality(S) <= Cardinality(Rejecters(t) \ {o})

LEMMA RejectersFiniteNext == RejectersAreFinite'
  <1>1. RejectersAreFinite
    BY RejectersFinite DEF RejectersAreFinite
  <1> QED
    BY <1>1, PTL

LEMMA ExclusionStep ==
  ASSUME TypeOK, RejectionHolds, ByzantineExclusionStands, [Next]_vars
  PROVE  ByzantineExclusionStands'
  <1> SUFFICES ASSUME NEW o \in Observer, NEW t \in Byzantine, t \in excluded'[o]
               PROVE  (Cardinality(Rejecters(t) \ {o}) >= MQuorum)'
    BY DEF ByzantineExclusionStands
  <1>1. ASSUME NEW S \in SUBSET (Rejecters(t) \ {o}), Cardinality(S) >= MQuorum
        PROVE  (Cardinality(Rejecters(t) \ {o}) >= MQuorum)'
    <2>1. S \in SUBSET (Rejecters(t)' \ {o})
      BY RejectersKept
    <2> QED
      BY <1>1, <2>1, RejectersFiniteNext, TrustAssumption DEF RejectersAreFinite
  <1>2. CASE t \in excluded[o]
    BY <1>1, <1>2 DEF ByzantineExclusionStands
  <1>3. CASE t \notin excluded[o]
    <2>1. PICK q \in Observer : Tick(q)
      BY <1>3 DEF Next, OnUpdate, Lapse, OnView, OnState, vars
    <2>2. Cardinality(Qualified(o, t)) >= MQuorum
      BY <1>3, <2>1 DEF Tick, TypeOK
    <2>3. Qualified(o, t) \in SUBSET (Rejecters(t) \ {o})
      BY DEF Qualified, RejectionHolds
    <2> QED
      BY <1>1, <2>2, <2>3
  <1> QED
    BY <1>2, <1>3

\* An exclusion of a Byzantine UAV stands: M UAVs other than it and than the
\* one whose quorum node excluded it reject it ever after, although
\* quorum_exclusion_node decides from cached values.
THEOREM ByzantineStayExcluded == Spec => []ByzantineExclusionStands
  <1> DEFINE Inv == TypeOK /\ RejectionHolds /\ ByzantineExclusionStands
  <1>1. Init => Inv
    BY TypeInit, TrustAssumption DEF Init, RejectionHolds, ByzantineExclusionStands
  <1>2. Inv /\ [Next]_vars => Inv'
    BY TypeNext, RejectionStep, ExclusionStep
  <1> QED
    BY <1>1, <1>2, PTL DEF Spec

-----------------------------------------------------------------------------
(* Honest UAVs keep their standing, if no verdict is wrong and what is     *)
(* missing of them does not decay it below T_reject.                       *)

Floor(floor) ==
  /\ floor \in [0 .. MaxLapses -> Level]
  /\ floor[0] <= RInit
  /\ \A n \in 0 .. MaxLapses - 1 : floor[n + 1] <= Decayed(floor[n])
  /\ \A n \in 0 .. MaxLapses : floor[n] >= TReject

AtLeast(least) ==
  /\ least <= RInit
  /\ \A m \in UAV \ Byzantine : fading[m] >= least
  /\ \A m \in UAV, t \in UAV \ Byzantine : rep[m][t] # Unknown => rep[m][t] >= least

NoneRejected == \A o \in Observer, t \in UAV \ Byzantine : rejecting[o][t] = {}

Standing(floor) == AtLeast(floor[lapses]) /\ NoneRejected /\ HonestNeverExcluded

\* A greater reputation decays to a greater one.
LEMMA DecayedGrows ==
  ASSUME NEW r \in Level, NEW q \in Level, q <= r
  PROVE  Decayed(q) <= Decayed(r)
  <1> DEFINE a == q * Kept
             b == r * Kept
             x == a \div One
             y == b \div One
  <1>1. q \in Nat /\ r \in Nat /\ Kept \in Nat /\ One \in Nat \ {0}
    BY Parameters DEF Level
  <1>2. a \in Nat /\ b \in Nat /\ a <= b
    BY <1>1
  <1> HIDE DEF a, b
  <1>3. x \in Nat /\ y \in Nat /\ One * x <= a /\ b < One * y + One
    BY <1>1, <1>2
  <1> HIDE DEF x, y
  <1>4. x <= y
    <2>1. SUFFICES ASSUME x >= y + 1 PROVE FALSE
      BY <1>3
    <2>2. One * x >= One * (y + 1)
      BY <1>1, <1>3, <2>1
    <2>3. One * (y + 1) = One * y + One
      BY <1>1, <1>3
    <2>4. One * x \in Nat /\ One * y \in Nat
      BY <1>1, <1>3
    <2> QED
      BY <1>1, <1>2, <1>3, <2>2, <2>3, <2>4
  <1> QED
    BY <1>4 DEF a, b, x, y, Decayed

\* A verdict on an honest UAV never lowers it.
LEMMA VerdictLeaves ==
  ASSUME Blind = {}, TypeOK, NEW least \in Level, AtLeast(least),
         NEW n \in Manager, NEW v \in UAV, NEW p \in UAV, OnUpdate(n, v, p)
  PROVE  AtLeast(least)'
  <1>1. n \in UAV
    BY TrustAssumption
  <1>2. ASSUME p \notin Byzantine PROVE NewLevel(n, v, p) >= least
    <2>1. Verified(v, p)
      BY <1>2 DEF Verified
    <2>2. Current(n, p) >= least /\ Current(n, p) \in Level
      BY <1>1, <1>2, EntryFacts, Parameters DEF AtLeast, Current, Known, Level
    <2>3. NewLevel(n, v, p) \in Level /\ NewLevel(n, v, p) >= Current(n, p)
      BY <1>1, <2>1, UpdateStep
    <2> HIDE DEF NewLevel
    <2> QED
      BY <2>2, <2>3, Parameters DEF Level
  <1> HIDE DEF NewLevel
  <1>3. \A m \in UAV \ Byzantine : fading'[m] >= least
    BY <1>1, <1>2, UpdateStep DEF AtLeast
  <1>4. \A m \in UAV, t \in UAV \ Byzantine : rep'[m][t] # Unknown => rep'[m][t] >= least
    BY <1>1, <1>2, UpdateStep DEF AtLeast
  <1> QED
    BY <1>3, <1>4 DEF AtLeast

\* A lapse takes every standing down by one decay at most.
LEMMA LapseLeaves ==
  ASSUME TypeOK, NEW least \in Level, AtLeast(least), Lapse,
         NEW next \in Level, next <= Decayed(least)
  PROVE  AtLeast(next)'
  <1>1. \A r \in Level : r >= least => Decayed(r) \in Level /\ Decayed(r) >= next
    <2>1. SUFFICES ASSUME NEW r \in Level, r >= least PROVE Decayed(r) \in Level /\ Decayed(r) >= next
      OBVIOUS
    <2>2. Decayed(r) \in Level /\ Decayed(least) \in Level /\ Decayed(least) <= Decayed(r)
      <3>1. least <= r
        BY <2>1, Parameters DEF Level
      <3> QED
        BY <3>1, DecayedFacts, DecayedGrows
    <2> HIDE DEF Decayed
    <2> QED
      BY <2>2, Parameters DEF Level
  <1>2. next <= least /\ Decayed(least) \in Level
    <2>1. Decayed(least) \in Level /\ Decayed(least) <= least
      BY DecayedFacts
    <2> HIDE DEF Decayed
    <2> QED
      BY <2>1, Parameters DEF Level
  <1>3. \A m, p \in UAV : rep[m][p] \in Level \cup {Unknown} /\ fading[m] \in Level
    BY DEF TypeOK
  <1>4. /\ \A m, p \in UAV : rep'[m][p] = IF m = p \/ rep[m][p] = Unknown
                                        THEN rep[m][p] ELSE Decayed(rep[m][p])
        /\ \A m \in UAV : fading'[m] = Decayed(fading[m])
    BY DEF Lapse
  <1> HIDE DEF Decayed
  <1>5. next <= RInit
    BY <1>2, Parameters DEF AtLeast, Level
  <1>6. ASSUME NEW m \in UAV \ Byzantine PROVE fading'[m] >= next
    BY <1>1, <1>3, <1>4 DEF AtLeast
  <1>7. ASSUME NEW m \in UAV, NEW t \in UAV \ Byzantine, rep'[m][t] # Unknown
        PROVE  rep'[m][t] >= next
    <2>1. CASE m = t \/ rep[m][t] = Unknown
      <3>1. rep'[m][t] = rep[m][t] /\ rep[m][t] \in Level /\ rep[m][t] >= least
        BY <1>3, <1>4, <1>7, <2>1 DEF AtLeast
      <3> QED
        BY <1>2, <3>1, Parameters DEF Level
    <2>2. CASE ~ (m = t \/ rep[m][t] = Unknown)
      <3>1. rep'[m][t] = Decayed(rep[m][t]) /\ rep[m][t] \in Level /\ rep[m][t] >= least
        BY <1>3, <1>4, <2>2 DEF AtLeast
      <3> QED
        BY <1>1, <3>1
    <2> QED
      BY <2>1, <2>2
  <1> QED
    BY <1>5, <1>6, <1>7 DEF AtLeast

LEMMA StandingStep ==
  ASSUME Blind = {}, NEW floor, Floor(floor), TypeOK, Standing(floor), [Next]_vars
  PROVE  Standing(floor)'
  <1>1. PICK least \in Level : least = floor[lapses] /\ least >= TReject
    BY TrustAssumption DEF Floor, TypeOK
  <1>2. AtLeast(least) /\ NoneRejected /\ HonestNeverExcluded
    BY <1>1 DEF Standing
  <1>3. ASSUME NEW n \in Manager, NEW v \in UAV, NEW p \in UAV, OnUpdate(n, v, p)
        PROVE  Standing(floor)'
    <2>1. AtLeast(least)'
      BY <1>2, <1>3, VerdictLeaves
    <2>2. NoneRejected' /\ HonestNeverExcluded' /\ lapses' = lapses
      BY <1>2, <1>3 DEF OnUpdate, NoneRejected, HonestNeverExcluded
    <2> QED
      BY <1>1, <2>1, <2>2 DEF Standing
  <1>4. CASE Lapse
    <2>1. lapses \in 0 .. MaxLapses - 1 /\ lapses' = lapses + 1 /\ lapses + 1 \in 0 .. MaxLapses
      BY <1>4, TrustAssumption DEF Lapse, TypeOK
    <2>2. PICK next \in Level : next = floor[lapses + 1] /\ next <= Decayed(least)
      BY <1>1, <2>1 DEF Floor
    <2>3. AtLeast(next)'
      BY <1>2, <1>4, <2>2, LapseLeaves
    <2>4. NoneRejected' /\ HonestNeverExcluded'
      BY <1>2, <1>4 DEF Lapse, NoneRejected, HonestNeverExcluded
    <2> QED
      BY <2>1, <2>2, <2>3, <2>4 DEF Standing
  <1>5. ASSUME NEW o \in Observer, NEW v \in Manager, NEW t \in UAV, OnView(o, v, t)
        PROVE  Standing(floor)'
    <2>1. t \notin Byzantine => ~Rejects(rep[v][t])
      BY <1>1, <1>2, TrustAssumption, Parameters DEF AtLeast, Rejects, TypeOK, Level
    <2>2. ASSUME NEW q \in Observer, NEW p \in UAV \ Byzantine
          PROVE  rejecting'[q][p] = {}
      <3>1. rejecting[q][p] = {}
        BY <1>2 DEF NoneRejected
      <3>2. rejecting'[q][p] = IF q = o /\ p = t
                               THEN With(rejecting[o][t], v, Rejects(rep[v][t]))
                               ELSE rejecting[q][p]
        BY <1>5, ViewStep
      <3> QED
        BY <2>1, <3>1, <3>2 DEF With
    <2>3. NoneRejected'
      BY <2>2 DEF NoneRejected
    <2> QED
      BY <1>1, <1>2, <1>5, <2>3 DEF OnView, Standing, AtLeast, HonestNeverExcluded
  <1>6. ASSUME NEW o \in Observer, Tick(o) PROVE Standing(floor)'
    <2>1. \A t \in UAV \ Byzantine : Cardinality(Qualified(o, t)) = 0
      BY <1>2, FS_EmptySet DEF Qualified, NoneRejected
    <2>2. HonestNeverExcluded'
      BY <1>2, <1>6, <2>1, TrustAssumption DEF Tick, HonestNeverExcluded, TypeOK
    <2> QED
      BY <1>1, <1>2, <1>6, <2>2 DEF Tick, Standing, AtLeast, NoneRejected
  <1>7. CASE (\E o \in Observer, v \in Manager : OnState(o, v)) \/ UNCHANGED vars
    BY <1>1, <1>2, <1>7
    DEF OnState, vars, Standing, AtLeast, NoneRejected, HonestNeverExcluded
  <1> QED
    BY <1>3, <1>4, <1>5, <1>6, <1>7 DEF Next

\* No honest UAV is excluded, whatever the Byzantine ones publish, if every
\* verifier judges rightly and reputations do not decay below T_reject: this
\* is what is left of Prop 1 in the code, with no bound on the Byzantine ones.
THEOREM HonestStayIn ==
  ASSUME Blind = {}, LapsesHarmless
  PROVE  Spec => []HonestNeverExcluded
  <1>1. PICK floor : Floor(floor)
    BY DEF LapsesHarmless, Floor
  <1> DEFINE Inv == TypeOK /\ Standing(floor)
  <1>2. Init => Inv
    <2> SUFFICES ASSUME Init PROVE Inv
      OBVIOUS
    <2>1. TypeOK
      BY TypeInit
    <2>2. floor[lapses] \in Level /\ floor[lapses] <= RInit
      BY <1>1, TrustAssumption DEF Init, Floor
    <2>3. AtLeast(floor[lapses])
      BY <2>2, Parameters DEF Init, AtLeast, Level
    <2>4. NoneRejected /\ HonestNeverExcluded
      BY DEF Init, NoneRejected, HonestNeverExcluded
    <2> QED
      BY <2>1, <2>3, <2>4 DEF Standing
  <1>3. Inv /\ [Next]_vars => Inv'
    BY <1>1, TypeNext, StandingStep
  <1>4. Inv => HonestNeverExcluded
    BY DEF Standing
  <1> HIDE DEF Inv
  <1> QED
    BY <1>2, <1>3, <1>4, PTL DEF Spec

\* Then every exclusion stands.
THEOREM ExclusionsStand ==
  ASSUME Blind = {}, LapsesHarmless
  PROVE  Spec => []ExclusionStands
  <1>1. HonestNeverExcluded /\ ByzantineExclusionStands => ExclusionStands
    BY DEF HonestNeverExcluded, ByzantineExclusionStands, ExclusionStands
  <1> QED
    BY <1>1, HonestStayIn, ByzantineStayExcluded, PTL

=============================================================================
