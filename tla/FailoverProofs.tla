--------------------------- MODULE FailoverProofs ---------------------------
(***************************************************************************)
(* Proofs about Failover, for any finite sets of anchors and followers,    *)
(* any assignment of followers to anchors, any set of victims and any      *)
(* combination of the fault options.                                       *)
(***************************************************************************)
EXTENDS Failover, FiniteSetTheorems, TLAPS

-----------------------------------------------------------------------------
(* The capacity rule.                                                      *)

\* Rounding up n / d: d shares of the result cover n, and fewer survivors
\* never get a smaller share.
LEMMA CeilDivFacts ==
  ASSUME NEW n \in Nat, NEW d \in Nat \ {0}
  PROVE  /\ CeilDiv(n, d) \in Nat
         /\ d * CeilDiv(n, d) >= n
         /\ d * CeilDiv(n, d) < n + d
  <1> DEFINE m == n + d - 1
  <1>1. m \in Nat
    OBVIOUS
  <1>2. m \div d \in Nat
    BY <1>1
  <1>3. d * (m \div d) <= m /\ m < d * (m \div d) + d
    BY <1>1
  <1> QED
    BY <1>2, <1>3 DEF CeilDiv

LEMMA CeilDivAntitone ==
  ASSUME NEW n \in Nat, NEW d \in Nat \ {0}, NEW e \in Nat \ {0}, d <= e
  PROVE  CeilDiv(n, e) <= CeilDiv(n, d)
  <1> DEFINE q == CeilDiv(n, d)
             r == CeilDiv(n, e)
  <1>1. q \in Nat /\ r \in Nat /\ d * q >= n /\ e * r < n + e
    BY CeilDivFacts
  <1> HIDE DEF q, r
  <1>2. ASSUME q <= r - 1
        PROVE  FALSE
    <2>1. d * q <= e * q
      BY <1>1
    <2>2. e * q <= e * (r - 1)
      BY <1>1, <1>2
    <2>3. e * (r - 1) = e * r - e
      BY <1>1
    <2> QED
      BY <1>1, <2>1, <2>2, <2>3
  <1>3. r <= q
    BY <1>1, <1>2
  <1> QED
    BY <1>3 DEF q, r

\* The capacity pushed to the survivors is a number, holds every initial
\* follower, and does not shrink when the survivors become fewer.
LEMMA RebalancedCapacityFacts ==
  ASSUME NEW S \in SUBSET Anchor
  PROVE  /\ RebalancedCapacity(S) \in Nat
         /\ S # {} => Cardinality(S) * RebalancedCapacity(S) >= Cardinality(Follower)
         /\ \A T \in SUBSET S : RebalancedCapacity(T) >= RebalancedCapacity(S)
  <1> DEFINE n == Cardinality(Follower)
             c(X) == AtLeastOne(Cardinality(X))
  <1>1. n \in Nat
    BY SetsAssumption, FS_CardinalityType
  <1>2. \A X \in SUBSET Anchor : IsFiniteSet(X) /\ Cardinality(X) \in Nat
    BY SetsAssumption, FS_Subset, FS_CardinalityType
  <1>3. \A X \in SUBSET Anchor : c(X) \in Nat \ {0}
    BY <1>2 DEF AtLeastOne
  <1>4. RebalancedCapacity(S) \in Nat
    BY <1>1, <1>3, CeilDivFacts DEF RebalancedCapacity, AtLeastOne
  <1>5. ASSUME S # {}
        PROVE  Cardinality(S) * RebalancedCapacity(S) >= n
    <2>1. Cardinality(S) \in Nat \ {0}
      BY <1>2, <1>5, FS_EmptySet
    <2>2. c(S) = Cardinality(S)
      BY <2>1 DEF AtLeastOne
    <2>3. CeilDiv(n, c(S)) \in Nat /\ c(S) * CeilDiv(n, c(S)) >= n
      BY <1>1, <1>3, CeilDivFacts
    <2>4. RebalancedCapacity(S) >= CeilDiv(n, c(S))
      BY <2>3 DEF RebalancedCapacity, AtLeastOne
    <2> DEFINE k == Cardinality(S)
               x == CeilDiv(n, c(S))
               y == RebalancedCapacity(S)
    <2>5. k \in Nat /\ x \in Nat /\ y \in Nat /\ y >= x /\ k * x >= n
      BY <1>4, <2>1, <2>2, <2>3, <2>4
    <2> HIDE DEF k, x, y, n
    <2>6. k * y >= k * x
      BY <2>5
    <2>7. k * y >= n
      BY <1>1, <2>5, <2>6
    <2> QED
      BY <2>7 DEF k, y
  <1>6. ASSUME NEW T \in SUBSET S
        PROVE  RebalancedCapacity(T) >= RebalancedCapacity(S)
    <2>1. T \in SUBSET Anchor /\ Cardinality(T) <= Cardinality(S)
      BY <1>2, FS_Subset
    <2>2. c(T) <= c(S)
      BY <1>2, <2>1 DEF AtLeastOne
    <2>3. CeilDiv(n, c(S)) <= CeilDiv(n, c(T))
      BY <1>1, <1>3, <2>1, <2>2, CeilDivAntitone
    <2>4. CeilDiv(n, c(S)) \in Nat /\ CeilDiv(n, c(T)) \in Nat
      BY <1>1, <1>3, <2>1, CeilDivFacts
    <2> QED
      BY <2>3, <2>4 DEF RebalancedCapacity, AtLeastOne
  <1> QED
    BY <1>4, <1>5, <1>6

-----------------------------------------------------------------------------
(* Types.                                                                  *)

LEMMA MessageType ==
  ASSUME NEW k \in {"request", "offer", "attach", "ack"},
         NEW a \in Anchor, NEW f \in Follower
  PROVE  Message(k, a, f) \in Messages
  BY DEF Message, Messages

LEMMA TypeInit == Init => TypeOK
  <1> SUFFICES ASSUME Init PROVE TypeOK
    OBVIOUS
  <1>1. NoOffers \in [Anchor -> 0 .. MaxCopies]
    BY ParametersAssumption DEF NoOffers
  <1>2. attached \in [Anchor -> SUBSET Follower]
    BY DEF Init, StartingLedger
  <1> QED
    BY <1>1, <1>2, ParametersAssumption DEF Init, TypeOK

LEMMA TypeFollower ==
  ASSUME TypeOK, NEW f \in Follower, FollowerNext(f)
  PROVE  TypeOK'
  <1>0. NoOffers \in [Anchor -> 0 .. MaxCopies]
    BY ParametersAssumption DEF NoOffers
  <1>1. CASE SendInitialAttach(f)
    <2>1. current[f] \in Anchor
      BY DEF TypeOK
    <2>2. Message("attach", current[f], f) \in Messages
      BY <2>1, MessageType
    <2>3. msgs' \subseteq Messages
      BY <1>1, <2>2 DEF SendInitialAttach, SendTo, TypeOK
    <2>4. target' \in [Follower -> Anchor \cup {NoAnchor}]
      BY <1>1, <2>1 DEF SendInitialAttach, TypeOK
    <2> QED
      BY <1>1, <2>3, <2>4 DEF SendInitialAttach, TypeOK, anchorVars
  <1>2. ASSUME StartDetecting(f) PROVE TypeOK'
    <2>1. {Message("request", a, f) : a \in up} \subseteq Messages
      BY MessageType DEF TypeOK
    <2>2. msgs' \subseteq Messages
      BY <1>2, <2>1 DEF StartDetecting, TypeOK
    <2> QED
      BY <1>0, <1>2, <2>2 DEF StartDetecting, TypeOK, anchorVars
  <1>3. ASSUME TryNextAttach(f) PROVE TypeOK'
    <2>1. CASE pool[f] = NoOffers /\ RestartCycle(f)
      BY <1>3, <2>1 DEF TryNextAttach, RestartCycle, TypeOK, anchorVars
    <2>2. ASSUME NEW a \in Anchor, TryAnchor(f, a) PROVE TypeOK'
      <3>1. Message("attach", a, f) \in Messages
        BY MessageType
      <3>2. msgs' \subseteq Messages
        BY <2>2, <3>1 DEF TryAnchor, SendTo, TypeOK
      <3>3. pool[f][a] \in 0 .. MaxCopies
        BY DEF TypeOK
      <3>4. pool[f][a] - 1 \in 0 .. MaxCopies
        BY <2>2, <3>3, ParametersAssumption DEF TryAnchor
      <3>5. pool' \in [Follower -> [Anchor -> 0 .. MaxCopies]]
        BY <2>2, <3>4 DEF TryAnchor, TypeOK
      <3> QED
        BY <1>3, <2>2, <3>2, <3>5 DEF TryNextAttach, TryAnchor, TypeOK, anchorVars
    <2> QED
      BY <1>3, <2>1, <2>2 DEF TryNextAttach
  <1>4. CASE OnDistilledHealthy(f)
    BY <1>4 DEF OnDistilledHealthy, TypeOK, anchorVars
  <1>5. CASE OnDistilledRejected(f)
    BY <1>2, <1>5 DEF OnDistilledRejected
  <1>6. CASE FallSilent(f)
    BY <1>6 DEF FallSilent, TypeOK, anchorVars
  <1>7. CASE WatchdogTick(f)
    BY <1>2, <1>7 DEF WatchdogTick
  <1>8. CASE CloseOfferWindow(f)
    BY <1>3, <1>8 DEF CloseOfferWindow
  <1>9. CASE AttachTimeoutTick(f)
    BY <1>3, <1>9 DEF AttachTimeoutTick
  <1>10. CASE KillFollower(f)
    BY <1>10 DEF KillFollower, TypeOK, anchorVars
  <1> QED
    BY <1>1, <1>4, <1>5, <1>6, <1>7, <1>8, <1>9, <1>10 DEF FollowerNext

LEMMA TypePair ==
  ASSUME TypeOK, NEW a \in Anchor, NEW f \in Follower, PairNext(a, f)
  PROVE  TypeOK'
  <1>0. NoOffers \in [Anchor -> 0 .. MaxCopies]
    BY ParametersAssumption DEF NoOffers
  <1>1. CASE OnOffer(f, a)
    <2>1. pool[f][a] \in 0 .. MaxCopies
      BY DEF TypeOK
    <2>2. pool' \in [Follower -> [Anchor -> 0 .. MaxCopies]]
      <3>1. CASE state[f] = "DETECTING" /\ pool[f][a] < MaxCopies
        <4>1. pool[f][a] + 1 \in 0 .. MaxCopies
          BY <2>1, <3>1, ParametersAssumption
        <4> QED
          BY <1>1, <3>1, <4>1 DEF OnOffer, TypeOK
      <3>2. CASE ~(state[f] = "DETECTING" /\ pool[f][a] < MaxCopies)
        BY <1>1, <3>2 DEF OnOffer, TypeOK
      <3> QED
        BY <3>1, <3>2
    <2> QED
      BY <1>1, <2>2 DEF OnOffer, TypeOK, anchorVars
  <1>2. CASE OnAckAwaited(f, a)
    BY <1>0, <1>2 DEF OnAckAwaited, CompleteFailover, TypeOK, anchorVars
  <1>3. CASE OnAckIgnored(f, a)
    BY <1>3 DEF OnAckIgnored, TypeOK, anchorVars, followerVars
  <1>4. CASE OnReassignRequest(a, f)
    <2>1. {Message("offer", a, g) : g \in flying} \subseteq Messages
      BY MessageType DEF TypeOK
    <2>2. msgs' \subseteq Messages
      BY <1>4, <2>1 DEF OnReassignRequest, TypeOK
    <2> QED
      BY <1>4, <2>2 DEF OnReassignRequest, TypeOK, anchorVars, followerVars
  <1>5. CASE OnAttachRequest(a, f)
    <2>1. Message("ack", a, f) \in Messages
      BY MessageType
    <2>2. msgs' \subseteq Messages
      BY <1>5, <2>1 DEF OnAttachRequest, TypeOK
    <2>3. attached' \in [Anchor -> SUBSET Follower]
      BY <1>5 DEF OnAttachRequest, TypeOK
    <2> QED
      BY <1>5, <2>2, <2>3 DEF OnAttachRequest, TypeOK, followerVars
  <1> QED
    BY <1>1, <1>2, <1>3, <1>4, <1>5 DEF PairNext

LEMMA TypeAnchor ==
  ASSUME TypeOK, NEW a \in Anchor, AnchorNext(a)
  PROVE  TypeOK'
  <1>1. CASE SilencePublisher(a)
    BY <1>1 DEF SilencePublisher, TypeOK, followerVars
  <1>2. CASE DropReputation(a)
    BY <1>2 DEF DropReputation, TypeOK, followerVars
  <1>3. CASE KillAnchor(a)
    <2>1. up' \in SUBSET Anchor
      BY <1>3 DEF KillAnchor, TypeOK
    <2>2. RebalancedCapacity(up') \in Nat
      BY <2>1, RebalancedCapacityFacts
    <2>3. capacity' \in [Anchor -> Nat]
      BY <1>3, <2>2 DEF KillAnchor, TypeOK
    <2> QED
      BY <1>3, <2>1, <2>3 DEF KillAnchor, TypeOK, followerVars
  <1> QED
    BY <1>1, <1>2, <1>3 DEF AnchorNext

LEMMA TypeNext == TypeOK /\ [Next]_vars => TypeOK'
  <1> SUFFICES ASSUME TypeOK, [Next]_vars PROVE TypeOK'
    OBVIOUS
  <1>1. CASE \E m \in msgs : LoseMessage(m)
    BY <1>1 DEF LoseMessage, TypeOK, anchorVars, followerVars
  <1>2. CASE UNCHANGED vars
    BY <1>2 DEF TypeOK, vars, anchorVars, followerVars
  <1> QED
    BY <1>1, <1>2, TypeFollower, TypePair, TypeAnchor DEF Next

\* Every variable keeps its type, whatever the instance.
THEOREM TypeCorrect == Spec => []TypeOK
  BY TypeInit, TypeNext, PTL DEF Spec

-----------------------------------------------------------------------------
(* The inductive invariant.                                                *)

\* What makes a kill an enlargement: wherever anchors may die, the living
\* ones have exactly the capacity computed for them.
CapacityTracksSurvivors ==
  Victims \cap Anchor # {} =>
    \A a \in up : capacity[a] = RebalancedCapacity(up)

\* AckBacked is what lets a late ack move a follower: without it nothing
\* ties the ack to the ledger of the anchor that sent it.
IInv ==
  /\ TypeOK
  /\ CapacityInvariant
  /\ AckBacked
  /\ HomeHoldsSlot
  /\ CapacityTracksSurvivors

LEMMA IInvInit == Init => IInv
  <1> SUFFICES ASSUME Init PROVE IInv
    OBVIOUS
  <1>1. CapacityInvariant
    BY WarmUpAssumption DEF Init, CapacityInvariant
  <1>2. CapacityTracksSurvivors
    BY CapacityAssumption DEF Init, CapacityTracksSurvivors
  <1>3. AckBacked /\ HomeHoldsSlot
    BY DEF Init, AckBacked, HomeHoldsSlot
  <1> QED
    BY <1>1, <1>2, <1>3, TypeInit DEF IInv

-----------------------------------------------------------------------------
(* Every step is a step of SlotLedger or leaves the ledgers alone.  The    *)
(* capacity bound and HomeHoldsSlot then follow from the abstract step.    *)

\* SlotLedger counts with its own instance of FiniteSets.
LEMMA SameCardinality == \A S : Ledger!Cardinality(S) = Cardinality(S)
  BY DEF Ledger!Cardinality, Cardinality

LEMMA FollowerLeavesLedger ==
  ASSUME NEW f \in Follower, FollowerNext(f)
  PROVE  UNCHANGED <<attached, capacity, current>>
  BY DEF FollowerNext, SendInitialAttach, OnDistilledHealthy,
         OnDistilledRejected, FallSilent, WatchdogTick, StartDetecting,
         CloseOfferWindow, AttachTimeoutTick, TryNextAttach, KillFollower,
         anchorVars

LEMMA PairSimulation ==
  ASSUME TypeOK, AckBacked, NEW a \in Anchor, NEW f \in Follower,
         PairNext(a, f)
  PROVE  [Ledger!Next]_(Ledger!ledgerVars)
  <1>1. CASE OnAckAwaited(f, a)
    <2>1. f \in attached[a]
      <3>1. Message("ack", a, f) \in msgs
        BY <1>1 DEF OnAckAwaited, CompleteFailover
      <3> QED
        BY <3>1 DEF AckBacked, Message
    <2>2. Ledger!Move(f, a)
      BY <1>1, <2>1 DEF OnAckAwaited, CompleteFailover, anchorVars, Ledger!Move
    <2> QED
      BY <2>2 DEF Ledger!Next
  <1>2. CASE OnAttachRequest(a, f)
    <2>1. CASE f \notin attached[a] /\ Full(a)
      BY <1>2, <2>1 DEF OnAttachRequest, followerVars, Ledger!ledgerVars
    <2>2. CASE ~(f \notin attached[a] /\ Full(a))
      <3>1. IsFiniteSet(attached[a])
        BY SetsAssumption, FS_Subset DEF TypeOK
      <3>2. Cardinality(attached[a]) \in Nat /\ capacity[a] \in Nat
        BY <3>1, FS_CardinalityType DEF TypeOK
      <3>3. f \in attached[a] \/ Cardinality(attached[a]) < capacity[a]
        BY <2>2, <3>2 DEF Full
      <3>4. Ledger!Admit(a, f)
        BY <1>2, <2>2, <3>3, SameCardinality
           DEF OnAttachRequest, followerVars, Ledger!Admit
      <3> QED
        BY <3>4 DEF Ledger!Next
    <2> QED
      BY <2>1, <2>2
  <1>3. CASE OnOffer(f, a) \/ OnAckIgnored(f, a) \/ OnReassignRequest(a, f)
    BY <1>3 DEF OnOffer, OnAckIgnored, OnReassignRequest, anchorVars,
                followerVars, Ledger!ledgerVars
  <1> QED
    BY <1>1, <1>2, <1>3 DEF PairNext

LEMMA AnchorSimulation ==
  ASSUME TypeOK, CapacityTracksSurvivors, NEW a \in Anchor, AnchorNext(a)
  PROVE  [Ledger!Next]_(Ledger!ledgerVars)
  <1>1. CASE SilencePublisher(a) \/ DropReputation(a)
    BY <1>1 DEF SilencePublisher, DropReputation, followerVars, Ledger!ledgerVars
  <1>2. CASE KillAnchor(a)
    <2>1. up \in SUBSET Anchor /\ up' \in SUBSET up /\ Victims \cap Anchor # {}
      BY <1>2 DEF KillAnchor, TypeOK
    <2>2. RebalancedCapacity(up') \in Nat
      BY <2>1, RebalancedCapacityFacts
    <2>3. RebalancedCapacity(up') >= RebalancedCapacity(up)
      BY <2>1, RebalancedCapacityFacts
    <2>4. capacity' \in [Anchor -> Nat]
      BY <1>2, <2>2 DEF KillAnchor, TypeOK
    <2>5. ASSUME NEW b \in Anchor PROVE capacity'[b] >= capacity[b]
      <3>1. CASE b \in up'
        BY <1>2, <2>1, <2>3, <3>1 DEF KillAnchor, CapacityTracksSurvivors
      <3>2. CASE b \notin up'
        BY <1>2, <3>2 DEF KillAnchor, TypeOK
      <3> QED
        BY <3>1, <3>2
    <2>6. Ledger!Enlarge
      BY <1>2, <2>4, <2>5 DEF KillAnchor, followerVars, Ledger!Enlarge
    <2> QED
      BY <2>6 DEF Ledger!Next
  <1> QED
    BY <1>1, <1>2 DEF AnchorNext

LEMMA StepSimulation ==
  ASSUME TypeOK, AckBacked, CapacityTracksSurvivors, [Next]_vars
  PROVE  [Ledger!Next]_(Ledger!ledgerVars)
  <1>1. CASE \E f \in Follower : FollowerNext(f)
    BY <1>1, FollowerLeavesLedger DEF Ledger!ledgerVars
  <1>2. CASE \E a \in Anchor, f \in Follower : PairNext(a, f)
    BY <1>2, PairSimulation
  <1>3. CASE \E a \in Anchor : AnchorNext(a)
    BY <1>3, AnchorSimulation
  <1>4. CASE \E m \in msgs : LoseMessage(m)
    BY <1>4 DEF LoseMessage, anchorVars, followerVars, Ledger!ledgerVars
  <1>5. CASE UNCHANGED vars
    BY <1>5 DEF vars, anchorVars, followerVars, Ledger!ledgerVars
  <1> QED
    BY <1>1, <1>2, <1>3, <1>4, <1>5 DEF Next

\* Ledgers only grow, whatever the step.
LEMMA LedgersGrow ==
  ASSUME TypeOK, [Ledger!Next]_(Ledger!ledgerVars), NEW a \in Anchor
  PROVE  attached[a] \subseteq attached'[a]
  BY DEF TypeOK, Ledger!Next, Ledger!Admit, Ledger!Move, Ledger!Enlarge,
         Ledger!ledgerVars

LEMMA CapacityStep ==
  ASSUME TypeOK, TypeOK', CapacityInvariant, [Ledger!Next]_(Ledger!ledgerVars)
  PROVE  CapacityInvariant'
  <1> SUFFICES ASSUME NEW b \in Anchor
               PROVE  Cardinality(attached'[b]) <= capacity'[b]
    BY DEF CapacityInvariant
  <1>1. /\ IsFiniteSet(attached[b]) /\ Cardinality(attached[b]) \in Nat
        /\ capacity[b] \in Nat /\ capacity'[b] \in Nat
        /\ Cardinality(attached[b]) <= capacity[b]
    BY SetsAssumption, FS_Subset, FS_CardinalityType DEF TypeOK, CapacityInvariant
  <1>2. ASSUME NEW a \in Anchor, NEW f \in Follower, Ledger!Admit(a, f)
        PROVE  Cardinality(attached'[b]) <= capacity'[b]
    <2>1. CASE a = b /\ f \notin attached[b]
      <3>1. attached'[b] = attached[b] \cup {f} /\ capacity'[b] = capacity[b]
        BY <1>2, <2>1 DEF Ledger!Admit, TypeOK
      <3>2. Cardinality(attached[b] \cup {f}) = Cardinality(attached[b]) + 1
        BY <1>1, <2>1, FS_AddElement
      <3>3. Cardinality(attached[b]) < capacity[b]
        BY <1>2, <2>1, SameCardinality DEF Ledger!Admit
      <3> QED
        BY <1>1, <3>1, <3>2, <3>3
    <2>2. CASE ~(a = b /\ f \notin attached[b])
      <3>1. attached'[b] = attached[b] /\ capacity'[b] = capacity[b]
        BY <1>2, <2>2 DEF Ledger!Admit, TypeOK
      <3> QED
        BY <1>1, <3>1
    <2> QED
      BY <2>1, <2>2
  <1>3. CASE Ledger!Enlarge
    <2>1. attached'[b] = attached[b] /\ capacity'[b] >= capacity[b]
      BY <1>3 DEF Ledger!Enlarge
    <2> QED
      BY <1>1, <2>1
  <1>4. ASSUME NEW a \in Anchor, NEW f \in Follower, Ledger!Move(f, a)
        PROVE  Cardinality(attached'[b]) <= capacity'[b]
    BY <1>1, <1>4 DEF Ledger!Move
  <1>5. CASE UNCHANGED Ledger!ledgerVars
    BY <1>1, <1>5 DEF Ledger!ledgerVars
  <1> QED
    BY <1>2, <1>3, <1>4, <1>5 DEF Ledger!Next

LEMMA HomeStep ==
  ASSUME TypeOK, HomeHoldsSlot, [Ledger!Next]_(Ledger!ledgerVars)
  PROVE  HomeHoldsSlot'
  <1> SUFFICES ASSUME NEW g \in Follower, current'[g] # Initial[g]
               PROVE  g \in attached'[current'[g]]
    BY DEF HomeHoldsSlot
  <1>1. CASE current'[g] = current[g]
    <2>1. g \in attached[current[g]] /\ current[g] \in Anchor
      BY <1>1 DEF HomeHoldsSlot, TypeOK
    <2> QED
      BY <1>1, <2>1, LedgersGrow
  <1>2. CASE current'[g] # current[g]
    <2>1. PICK a \in Anchor, f \in Follower : Ledger!Move(f, a)
      BY <1>2 DEF Ledger!Next, Ledger!Admit, Ledger!Enlarge, Ledger!ledgerVars
    <2>2. f = g /\ current'[g] = a
      BY <1>2, <2>1 DEF Ledger!Move, TypeOK
    <2> QED
      BY <2>1, <2>2 DEF Ledger!Move
  <1> QED
    BY <1>1, <1>2

\* An ack only enters msgs from OnAttachRequest, after the slot is taken.
LEMMA AckStep ==
  ASSUME TypeOK, AckBacked, [Next]_vars, [Ledger!Next]_(Ledger!ledgerVars)
  PROVE  AckBacked'
  <1> SUFFICES ASSUME NEW m \in msgs', m.kind = "ack"
               PROVE  m.follower \in attached'[m.anchor]
    BY DEF AckBacked
  <1>1. CASE m \in msgs
    <2>1. m.follower \in attached[m.anchor] /\ m.anchor \in Anchor
      BY <1>1 DEF AckBacked, TypeOK, Messages
    <2> QED
      BY <2>1, LedgersGrow
  <1>2. CASE m \notin msgs
    <2>1. PICK a \in Anchor, f \in Follower :
            OnAttachRequest(a, f) /\ m = Message("ack", a, f)
      <3>1. CASE \E f \in Follower : FollowerNext(f)
        BY <1>2, <3>1 DEF FollowerNext, SendInitialAttach, OnDistilledHealthy,
             OnDistilledRejected, FallSilent, WatchdogTick, StartDetecting,
             CloseOfferWindow, AttachTimeoutTick, TryNextAttach, TryAnchor,
             RestartCycle, KillFollower, SendTo, Message
      <3>2. CASE \E a \in Anchor, f \in Follower : PairNext(a, f)
        <4>1. PICK a \in Anchor, f \in Follower : PairNext(a, f)
          BY <3>2
        <4>2. ~OnOffer(f, a) /\ ~OnAckAwaited(f, a) /\ ~OnAckIgnored(f, a)
          BY <1>2 DEF OnOffer, OnAckAwaited, CompleteFailover, OnAckIgnored
        <4>3. ~OnReassignRequest(a, f)
          BY <1>2 DEF OnReassignRequest, Message
        <4>4. OnAttachRequest(a, f)
          BY <4>1, <4>2, <4>3 DEF PairNext
        <4>5. m = Message("ack", a, f)
          BY <1>2, <4>4 DEF OnAttachRequest
        <4> QED
          BY <4>4, <4>5
      <3>3. CASE \E a \in Anchor : AnchorNext(a)
        BY <1>2, <3>3 DEF AnchorNext, SilencePublisher, DropReputation, KillAnchor
      <3>4. CASE (\E n \in msgs : LoseMessage(n)) \/ UNCHANGED vars
        BY <1>2, <3>4 DEF LoseMessage, vars
      <3> QED
        BY <3>1, <3>2, <3>3, <3>4 DEF Next
    <2>2. f \in attached'[a]
      BY <1>2, <2>1 DEF OnAttachRequest, TypeOK
    <2> QED
      BY <2>1, <2>2 DEF Message
  <1> QED
    BY <1>1, <1>2

LEMMA TracksStep ==
  ASSUME TypeOK, CapacityTracksSurvivors, [Next]_vars
  PROVE  CapacityTracksSurvivors'
  <1>1. CASE \E a \in Anchor : KillAnchor(a)
    BY <1>1 DEF KillAnchor, CapacityTracksSurvivors, TypeOK
  <1>2. CASE UNCHANGED <<up, capacity>>
    BY <1>2 DEF CapacityTracksSurvivors, RebalancedCapacity
  <1>3. (\E a \in Anchor : KillAnchor(a)) \/ UNCHANGED <<up, capacity>>
    <2>1. CASE \E f \in Follower : FollowerNext(f)
      BY <2>1 DEF FollowerNext, SendInitialAttach, OnDistilledHealthy,
           OnDistilledRejected, FallSilent, WatchdogTick, StartDetecting,
           CloseOfferWindow, AttachTimeoutTick, TryNextAttach, KillFollower,
           anchorVars
    <2>2. CASE \E a \in Anchor, f \in Follower : PairNext(a, f)
      BY <2>2 DEF PairNext, OnOffer, OnAckAwaited, CompleteFailover,
           OnAckIgnored, OnReassignRequest, OnAttachRequest, anchorVars
    <2>3. CASE \E a \in Anchor : AnchorNext(a)
      BY <2>3 DEF AnchorNext, SilencePublisher, DropReputation
    <2>4. CASE (\E m \in msgs : LoseMessage(m)) \/ UNCHANGED vars
      BY <2>4 DEF LoseMessage, vars, anchorVars
    <2> QED
      BY <2>1, <2>2, <2>3, <2>4 DEF Next
  <1> QED
    BY <1>1, <1>2, <1>3

LEMMA IInvNext == IInv /\ [Next]_vars => IInv'
  <1> SUFFICES ASSUME IInv, [Next]_vars PROVE IInv'
    OBVIOUS
  <1>1. TypeOK /\ TypeOK'
    BY TypeNext DEF IInv
  <1>2. [Ledger!Next]_(Ledger!ledgerVars)
    BY StepSimulation DEF IInv
  <1> QED
    BY <1>1, <1>2, CapacityStep, HomeStep, AckStep, TracksStep DEF IInv

LEMMA IInvInvariant == Spec => []IInv
  BY IInvInit, IInvNext, PTL DEF Spec

-----------------------------------------------------------------------------
(* The results.                                                            *)

\* No anchor ever admits more followers than its capacity, through any burst
\* of displaced followers and any sequence of kills (_on_attach_request).
THEOREM CapacityHolds == Spec => []CapacityInvariant
  <1>1. IInv => CapacityInvariant
    BY DEF IInv
  <1> QED
    BY <1>1, IInvInvariant, PTL

\* An ack in flight is always backed by a slot (_on_attach_request).
THEOREM AckIsBacked == Spec => []AckBacked
  <1>1. IInv => AckBacked
    BY DEF IInv
  <1> QED
    BY <1>1, IInvInvariant, PTL

\* A follower that has moved is in the ledger of the anchor it moved to,
\* whichever ack completed the move (_on_ack).
THEOREM MovedFollowerHoldsSlot == Spec => []HomeHoldsSlot
  <1>1. IInv => HomeHoldsSlot
    BY DEF IInv
  <1> QED
    BY <1>1, IInvInvariant, PTL

\* Where anchors may die, the survivors' capacities together always hold
\* every initial follower (AttritionEnforcer._on_event).
THEOREM RoomForEveryone ==
  ASSUME Victims \cap Anchor # {}
  PROVE  Spec => []SurvivorsHaveRoom
  <1>1. IInv => SurvivorsHaveRoom
    <2> SUFFICES ASSUME IInv, NEW a \in up
                 PROVE  Cardinality(up) * capacity[a] >= Cardinality(Follower)
      BY DEF SurvivorsHaveRoom
    <2>1. up \in SUBSET Anchor /\ up # {}
      BY DEF IInv, TypeOK
    <2>2. capacity[a] = RebalancedCapacity(up)
      BY DEF IInv, CapacityTracksSurvivors
    <2> QED
      BY <2>1, <2>2, RebalancedCapacityFacts
  <1> QED
    BY <1>1, IInvInvariant, PTL

\* The protocol of anchor_node, follower_node and the attrition enforcer
\* implements SlotLedger: a follower moves only where it has been admitted.
THEOREM FailoverImplementsLedger == Spec => ImplementsLedger
  <1>1. Init => Ledger!Init
    <2> SUFFICES ASSUME Init PROVE Ledger!Init
      OBVIOUS
    <2>1. TypeOK /\ CapacityInvariant
      BY IInvInit DEF IInv
    <2>2. current \in [Follower -> Anchor]
      BY <2>1 DEF TypeOK
    <2> QED
      BY <2>1, <2>2, SameCardinality
         DEF TypeOK, CapacityInvariant, Ledger!Init
  <1>2. IInv /\ [Next]_vars => [Ledger!Next]_(Ledger!ledgerVars)
    BY StepSimulation DEF IInv
  <1> QED
    BY <1>1, <1>2, IInvInvariant, PTL DEF Spec, ImplementsLedger, Ledger!Spec

-----------------------------------------------------------------------------
(* No false failover.                                                      *)

\* A follower has reason to leave: its anchor is dead, silenced or rejected.
Justified(f) == ~Heard(f) \/ current[f] \in rejected

\* A follower whose watchdog has expired, or that is on its way to another
\* anchor, has reason to leave the anchor it still calls its own.
LeavesWithReason ==
  \A f \in Follower : silent[f] \/ state[f] # "ATTACHED" => Justified(f)

\* What a step does to one follower: nothing that matters here, the start of
\* a failover, another round of it, or its end.
Stays(f) ==
  /\ silent'[f] => silent[f]
  /\ state'[f] = state[f]
  /\ current'[f] = current[f]

Fails(f) == Justified(f) /\ current'[f] = current[f]

Retries(f) == (silent[f] \/ state[f] # "ATTACHED") /\ current'[f] = current[f]

Arrives(f) == state[f] = "ATTACHING" /\ state'[f] = "ATTACHED" /\ ~silent'[f]

LEMMA FollowerMoves ==
  ASSUME TypeOK, ~Lagging, [Next]_vars, NEW f \in Follower
  PROVE  Stays(f) \/ Fails(f) \/ Retries(f) \/ Arrives(f)
  <1>1. ASSUME NEW g \in Follower, FollowerNext(g)
        PROVE  Stays(f) \/ Fails(f) \/ Retries(f)
    <2>1. CASE SendInitialAttach(g) \/ KillFollower(g) \/ OnDistilledHealthy(g)
      BY <2>1 DEF SendInitialAttach, KillFollower, OnDistilledHealthy, Stays, TypeOK
    <2>2. CASE OnDistilledRejected(g)
      BY <2>2 DEF OnDistilledRejected, StartDetecting, Stays, Fails, Justified, TypeOK
    <2>3. CASE FallSilent(g)
      BY <2>3 DEF FallSilent, Stays, Fails, Justified, TypeOK
    <2>4. CASE WatchdogTick(g)
      BY <2>4 DEF WatchdogTick, StartDetecting, Stays, Retries, TypeOK
    <2>5. CASE CloseOfferWindow(g) \/ AttachTimeoutTick(g)
      <3>1. state[g] # "ATTACHED" /\ current' = current
        BY <2>5 DEF CloseOfferWindow, AttachTimeoutTick, TryNextAttach
      <3>2. CASE f # g
        <4>1. silent'[f] = silent[f] /\ state'[f] = state[f]
          BY <2>5, <3>2 DEF CloseOfferWindow, AttachTimeoutTick, TryNextAttach,
               RestartCycle, TryAnchor, TypeOK
        <4> QED
          BY <3>1, <4>1 DEF Stays
      <3> QED
        BY <3>1, <3>2 DEF Retries
    <2> QED
      BY <1>1, <2>1, <2>2, <2>3, <2>4, <2>5 DEF FollowerNext
  <1>2. ASSUME NEW a \in Anchor, NEW g \in Follower, PairNext(a, g)
        PROVE  Stays(f) \/ Arrives(f)
    <2>1. CASE OnAckAwaited(g, a)
      BY <2>1 DEF OnAckAwaited, CompleteFailover, Stays, Arrives, TypeOK
    <2>2. CASE ~OnAckAwaited(g, a)
      BY <1>2, <2>2 DEF PairNext, OnOffer, OnAckIgnored, OnReassignRequest,
           OnAttachRequest, followerVars, Stays
    <2> QED
      BY <2>1, <2>2
  <1>3. ASSUME NEW a \in Anchor, AnchorNext(a) PROVE Stays(f)
    BY <1>3 DEF AnchorNext, SilencePublisher, DropReputation, KillAnchor,
         followerVars, Stays
  <1>4. CASE (\E m \in msgs : LoseMessage(m)) \/ UNCHANGED vars
    BY <1>4 DEF LoseMessage, vars, followerVars, Stays
  <1> QED
    BY <1>1, <1>2, <1>3, <1>4 DEF Next

LEMMA AnchorsDoNotHeal ==
  ASSUME TypeOK, [Next]_vars
  PROVE  up' \subseteq up /\ silenced \subseteq silenced' /\ rejected \subseteq rejected'
  <1>1. CASE \E f \in Follower : FollowerNext(f)
    BY <1>1 DEF FollowerNext, SendInitialAttach, OnDistilledHealthy,
         OnDistilledRejected, FallSilent, WatchdogTick, StartDetecting,
         CloseOfferWindow, AttachTimeoutTick, TryNextAttach, KillFollower,
         anchorVars
  <1>2. CASE \E a \in Anchor, f \in Follower : PairNext(a, f)
    BY <1>2 DEF PairNext, OnOffer, OnAckAwaited, CompleteFailover,
         OnAckIgnored, OnReassignRequest, OnAttachRequest, anchorVars
  <1>3. CASE \E a \in Anchor : AnchorNext(a)
    BY <1>3 DEF AnchorNext, SilencePublisher, DropReputation, KillAnchor
  <1>4. CASE (\E m \in msgs : LoseMessage(m)) \/ UNCHANGED vars
    BY <1>4 DEF LoseMessage, vars, anchorVars
  <1> QED
    BY <1>1, <1>2, <1>3, <1>4 DEF Next

LEMMA ReasonStep ==
  ASSUME TypeOK, ~Lagging, LeavesWithReason, [Next]_vars
  PROVE  /\ LeavesWithReason'
         /\ \A f \in Follower : current'[f] # current[f] => Justified(f)
  <1> SUFFICES ASSUME NEW f \in Follower
               PROVE  /\ silent'[f] \/ state'[f] # "ATTACHED" => Justified(f)'
                      /\ current'[f] # current[f] => Justified(f)
    BY DEF LeavesWithReason
  <1>1. Justified(f) /\ current'[f] = current[f] => Justified(f)'
    BY AnchorsDoNotHeal DEF Justified, Heard
  <1>2. silent[f] \/ state[f] # "ATTACHED" => Justified(f)
    BY DEF LeavesWithReason
  <1> QED
    BY <1>1, <1>2, FollowerMoves DEF Stays, Fails, Retries, Arrives

\* Where no healthy stream is late, follower_node leaves an anchor only if it
\* is dead, silenced or rejected, whatever was lost, reordered or left over.
THEOREM NoFailoverIsFalse ==
  ASSUME ~Lagging
  PROVE  Spec => NoFalseFailover
  <1>1. Init => LeavesWithReason
    BY DEF Init, LeavesWithReason
  <1>2. TypeOK /\ LeavesWithReason /\ [Next]_vars =>
          /\ LeavesWithReason'
          /\ [\A f \in Follower :
                current'[f] # current[f] => ~Heard(f) \/ current[f] \in rejected]_vars
    BY ReasonStep DEF Justified
  <1> QED
    BY <1>1, <1>2, TypeCorrect, PTL DEF Spec, NoFalseFailover

=============================================================================
