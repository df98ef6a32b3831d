---------------------------- MODULE Phase3Proofs -----------------------------
(***************************************************************************)
(* Proofs about Phase 3: the search that certifies a topology is a         *)
(* shortest-path search on any graph whatever, and a node's bookkeeping of *)
(* its factor graph is sound for any set of UAVs, links and anchors and    *)
(* any number of numerical failures.                                       *)
(***************************************************************************)
EXTENDS Phase3, FiniteSetTheorems, SequenceTheorems, WellFoundedInduction, TLAPS

(***************************************************************************)
(* Balls around the test follower.                                         *)
(***************************************************************************)

\* Induction from zero upward, by the least element left out.
LEMMA Upward ==
  ASSUME NEW S, 0 \in S, \A n \in Nat : n \in S => n + 1 \in S
  PROVE  Nat \subseteq S
  <1> DEFINE T == Nat \ S
             R == OpToRel(<, Nat)
  <1>1. SUFFICES ASSUME T # {} PROVE FALSE
    OBVIOUS
  <1>2. T \subseteq Nat
    OBVIOUS
  <1>3. PICK x \in T : \A y \in T : ~ (<<y, x>> \in R)
    <2> HIDE DEF T, R
    <2>1. IsWellFoundedOn(R, Nat)
      BY NatLessThanWellFounded DEF R
    <2> QED
      BY <1>1, <1>2, <2>1, WFMin
  <1>4. x # 0 /\ x - 1 \in Nat /\ x - 1 \notin S
    OBVIOUS
  <1>5. x - 1 \in T /\ <<x - 1, x>> \in R
    BY <1>4 DEF OpToRel
  <1> QED
    BY <1>3, <1>5

Near(s, E, u) == {v \in UAVs(s) : <<u, v>> \in E \/ <<v, u>> \in E}

\* What is one hop further.
Grown(s, E, B) == B \union UNION {Near(s, E, u) : u \in B}

\* g[n] follows from g[n - 1] as a ball does.
BallAt(g, s, E, n) == g[n] = IF n = 0 THEN {TestId(s)} ELSE Grown(s, E, g[n - 1])

Balls(g, s, E) == g = [n \in Nat |-> IF n = 0 THEN {TestId(s)} ELSE Grown(s, E, g[n - 1])]

BallsUpto(g, s, E, n) == \A i \in 0 .. n : BallAt(g, s, E, i)

LEMMA BallsAgree ==
  ASSUME NEW s, NEW E, NEW n \in Nat, NEW g, NEW h, BallsUpto(g, s, E, n), BallsUpto(h, s, E, n)
  PROVE  g[n] = h[n]
  <1> DEFINE N == {i \in Nat : i <= n => g[i] = h[i]}
  <1>1. 0 \in N
    BY DEF BallsUpto, BallAt
  <1>2. ASSUME NEW i \in Nat, i \in N PROVE i + 1 \in N
    <2>1. SUFFICES ASSUME i + 1 <= n PROVE g[i + 1] = h[i + 1]
      OBVIOUS
    <2>2. g[i] = h[i]
      BY <1>2, <2>1
    <2>3. BallAt(g, s, E, i + 1) /\ BallAt(h, s, E, i + 1)
      BY <2>1 DEF BallsUpto
    <2> QED
      BY <2>2, <2>3 DEF BallAt
  <1> HIDE DEF N
  <1>3. Nat \subseteq N
    BY <1>1, <1>2, Upward
  <1> QED
    BY <1>3 DEF N

LEMMA SomeBallsUpto ==
  ASSUME NEW s, NEW E, NEW n \in Nat
  PROVE  \E g : BallsUpto(g, s, E, n)
  <1> DEFINE N == {i \in Nat : \E g : BallsUpto(g, s, E, i)}
  <1>1. 0 \in N
    <2>1. BallsUpto([i \in Nat |-> {TestId(s)}], s, E, 0)
      BY DEF BallsUpto, BallAt
    <2> QED
      BY <2>1
  <1>2. ASSUME NEW i \in Nat, i \in N PROVE i + 1 \in N
    <2>1. PICK g : BallsUpto(g, s, E, i)
      BY <1>2
    <2> DEFINE h == [j \in Nat |-> IF j = 0 THEN {TestId(s)} ELSE Grown(s, E, g[j - 1])]
    <2>2. \A j \in 0 .. i : h[j] = g[j]
      BY <2>1 DEF BallsUpto, BallAt
    <2>3. BallsUpto(h, s, E, i + 1)
      <3>1. SUFFICES ASSUME NEW j \in 0 .. i + 1 PROVE BallAt(h, s, E, j)
        BY DEF BallsUpto
      <3>2. CASE j = 0
        BY <3>2 DEF BallAt
      <3>3. CASE j # 0
        <4>1. j - 1 \in 0 .. i /\ j \in Nat
          BY <3>3
        <4>2. h[j - 1] = g[j - 1]
          BY <2>2, <4>1
        <4>3. h[j] = Grown(s, E, g[j - 1])
          BY <3>3, <4>1
        <4> QED
          BY <3>3, <4>2, <4>3 DEF BallAt
      <3> QED
        BY <3>2, <3>3
    <2> HIDE DEF h
    <2> QED
      BY <2>3
  <1> HIDE DEF N
  <1>3. Nat \subseteq N
    BY <1>1, <1>2, Upward
  <1> QED
    BY <1>3 DEF N

LEMMA BallsExist ==
  ASSUME NEW s, NEW E
  PROVE  \E g : Balls(g, s, E)
  <1> DEFINE Upto(n) == CHOOSE g : BallsUpto(g, s, E, n)
             w == [n \in Nat |-> Upto(n)[n]]
  <1>1. ASSUME NEW n \in Nat PROVE BallsUpto(Upto(n), s, E, n)
    BY SomeBallsUpto
  <1>2. ASSUME NEW n \in Nat PROVE w[n] = Upto(n)[n]
    OBVIOUS
  <1> HIDE DEF Upto
  <1>3. ASSUME NEW n \in Nat PROVE BallAt(w, s, E, n)
    <2>1. BallAt(Upto(n), s, E, n)
      BY <1>1 DEF BallsUpto
    <2>2. CASE n = 0
      BY <1>2, <2>1, <2>2 DEF BallAt
    <2>3. CASE n # 0
      <3>1. n - 1 \in Nat
        BY <2>3
      <3>2. BallsUpto(Upto(n), s, E, n - 1) /\ BallsUpto(Upto(n - 1), s, E, n - 1)
        BY <1>1, <3>1 DEF BallsUpto
      <3>3. Upto(n)[n - 1] = w[n - 1]
        BY <1>2, <3>1, <3>2, BallsAgree
      <3>4. w[n] = Upto(n)[n]
        BY <1>2
      <3> QED
        BY <2>1, <2>3, <3>3, <3>4 DEF BallAt
    <2> QED
      BY <2>2, <2>3
  <1>4. w = [n \in Nat |-> w[n]]
    OBVIOUS
  <1> HIDE DEF w
  <1>5. Balls(w, s, E)
    BY <1>3, <1>4 DEF Balls, BallAt
  <1> QED
    BY <1>5

LEMMA WithinIsBalls == Balls(Within, shape, edges)
  <1> DEFINE Is(g) == g = [n \in Nat |->
               IF n = 0 THEN {TestId(shape)} ELSE g[n - 1] \union UNION {Adjacent(u) : u \in g[n - 1]}]
  <1>1. Within = CHOOSE g : Is(g)
    BY DEF Within
  <1>2. \E g : Is(g)
    <2>1. PICK g : Balls(g, shape, edges)
      BY BallsExist
    <2>2. Is(g)
      BY <2>1 DEF Balls, Grown, Near, Adjacent
    <2> QED
      BY <2>2
  <1>3. Is(Within)
    BY <1>1, <1>2
  <1> QED
    BY <1>3 DEF Balls, Grown, Near, Adjacent

LEMMA WithinUnfolds ==
  /\ Within[0] = {TestId(shape)}
  /\ \A n \in Nat : Within[n + 1] = Within[n] \union UNION {Adjacent(u) : u \in Within[n]}
  <1>1. Balls(Within, shape, edges)
    BY WithinIsBalls
  <1>2. \A n \in Nat : BallAt(Within, shape, edges, n)
    BY <1>1 DEF Balls, BallAt
  <1>3. BallAt(Within, shape, edges, 0)
    BY <1>2
  <1>4. ASSUME NEW n \in Nat PROVE Within[n + 1] = Grown(shape, edges, Within[n])
    <2>1. n + 1 \in Nat /\ n + 1 # 0 /\ (n + 1) - 1 = n
      OBVIOUS
    <2>2. BallAt(Within, shape, edges, n + 1)
      BY <1>2, <2>1
    <2> QED
      BY <2>1, <2>2 DEF BallAt
  <1> QED
    BY <1>3, <1>4 DEF BallAt, Grown, Near, Adjacent

(***************************************************************************)
(* The queue.                                                              *)
(***************************************************************************)

Below(S, v) == Cardinality({w \in S : w < v})

\* An ascending sequence holds exactly the elements of the set.
LEMMA AscendingFacts ==
  ASSUME NEW S \in SUBSET Nat, IsFiniteSet(S)
  PROVE  /\ Ascending(S) \in Seq(S)
         /\ \A v \in S : \E i \in 1 .. Len(Ascending(S)) : Ascending(S)[i] = v
  <1> DEFINE n == Cardinality(S)
             rank == [v \in S |-> Below(S, v)]
  <1>1. n \in Nat
    BY FS_CardinalityType
  <1>2. ASSUME NEW v \in S PROVE Below(S, v) \in 0 .. n - 1
    <2>1. {w \in S : w < v} \in SUBSET (S \ {v})
      OBVIOUS
    <2>2. IsFiniteSet(S \ {v}) /\ Cardinality(S \ {v}) = n - 1
      BY FS_RemoveElement
    <2>3. IsFiniteSet({w \in S : w < v}) /\ Below(S, v) <= n - 1
      BY <2>1, <2>2, FS_Subset DEF Below
    <2>4. Below(S, v) \in Nat
      BY <2>3, FS_CardinalityType DEF Below
    <2> QED
      BY <1>1, <2>3, <2>4
  <1>3. ASSUME NEW v \in S, NEW w \in S, v < w PROVE Below(S, v) < Below(S, w)
    <2> DEFINE A == {x \in S : x < v}
               B == {x \in S : x < w}
    <2>1. IsFiniteSet(B)
      BY FS_Subset DEF B
    <2>2. v \in B /\ v \notin A /\ A \in SUBSET B
      <3>1. v \in Nat /\ w \in Nat /\ v < w
        BY <1>3
      <3>2. \A x \in S : x < v => x < w
        BY <3>1
      <3>3. ~ (v < v)
        BY <3>1
      <3>4. v \in B
        BY <3>1
      <3>5. v \notin A
        BY <3>3, Zenon
      <3>6. A \in SUBSET B
        BY <3>2, Zenon
      <3> QED
        BY <3>4, <3>5, <3>6
    <2> HIDE DEF A, B
    <2>3. Cardinality(A) <= Cardinality(B) /\ Cardinality(A) # Cardinality(B)
      BY <2>1, <2>2, FS_Subset
    <2>4. Cardinality(A) \in Nat /\ Cardinality(B) \in Nat
      BY <2>1, <2>2, FS_Subset, FS_CardinalityType
    <2>5. Cardinality(A) < Cardinality(B)
      BY <2>3, <2>4
    <2> QED
      BY <2>5 DEF Below, A, B
  <1>4. ASSUME NEW v \in S, NEW w \in S, Below(S, v) = Below(S, w) PROVE v = w
    <2>1. v \in Nat /\ w \in Nat /\ Below(S, v) \in Int
      BY <1>1, <1>2
    <2>2. ~ (v < w) /\ ~ (w < v)
      BY <1>3, <1>4, <2>1
    <2> QED
      BY <2>1, <2>2
  <1>5. ASSUME NEW i \in 1 .. n PROVE \E v \in S : Below(S, v) = i - 1
    <2>1. rank \in Injection(S, 0 .. n - 1)
      BY <1>2, <1>4 DEF Injection, IsInjective
    <2>2. IsFiniteSet(0 .. n - 1) /\ Cardinality(0 .. n - 1) = n
      <3> HIDE DEF n
      <3>1. 0 \in Int /\ n - 1 \in Int
        BY <1>1
      <3>2. IsFiniteSet(0 .. n - 1)
            /\ Cardinality(0 .. n - 1) = IF 0 > n - 1 THEN 0 ELSE (n - 1) - 0 + 1
        BY <3>1, FS_Interval
      <3> QED
        BY <1>1, <3>2
    <2>3. rank \in Surjection(S, 0 .. n - 1)
      <3> HIDE DEF rank
      <3> QED
        BY <2>1, <2>2, FS_Injection
    <2>4. i - 1 \in 0 .. n - 1
      BY <1>1
    <2>5. \E v \in S : rank[v] = i - 1
      BY <2>3, <2>4 DEF Surjection
    <2> QED
      BY <2>5
  <1> DEFINE At(i) == CHOOSE v \in S : Below(S, v) = i - 1
  <1>6. Ascending(S) = [i \in 1 .. n |-> At(i)]
    BY DEF Ascending, Below
  <1>7. ASSUME NEW i \in 1 .. n PROVE At(i) \in S /\ Below(S, At(i)) = i - 1
    BY <1>5
  <1> HIDE DEF n, At
  <1>8. Ascending(S) \in Seq(S) /\ Len(Ascending(S)) = n
    BY <1>1, <1>6, <1>7
  <1>9. ASSUME NEW v \in S PROVE \E i \in 1 .. n : Ascending(S)[i] = v
    <2> DEFINE i == Below(S, v) + 1
    <2>1. i \in 1 .. n /\ i - 1 = Below(S, v)
      BY <1>1, <1>2
    <2>2. At(i) \in S /\ Below(S, At(i)) = Below(S, v)
      BY <1>7, <2>1
    <2>3. At(i) = v
      BY <1>4, <2>2
    <2> QED
      BY <1>6, <2>1, <2>3
  <1> QED
    BY <1>8, <1>9

\* Every element of the tail of q with r appended is one of the tail or of r,
\* in that order, and of q only the head is left out.
Appended(A, q, B, r, joined) ==
  /\ joined \in Seq(A \union B)
  /\ \A i \in 1 .. Len(joined) :
       \/ i + 1 \in 1 .. Len(q) /\ joined[i] = q[i + 1]
       \/ i > Len(q) - 1 /\ joined[i] \in B
  /\ \A i \in 2 .. Len(q) : i - 1 \in 1 .. Len(joined) /\ joined[i - 1] = q[i]
  /\ \A i \in 1 .. Len(r) :
       Len(q) - 1 + i \in 1 .. Len(joined) /\ joined[Len(q) - 1 + i] = r[i]

LEMMA AppendedFacts ==
  ASSUME NEW A, NEW q \in Seq(A), q # <<>>, NEW B, NEW r \in Seq(B), NEW joined, joined = Tail(q) \o r
  PROVE  Appended(A, q, B, r, joined)
  <1>1. Len(q) \in Nat \ {0} /\ Len(r) \in Nat /\ Head(q) = q[1] /\ q[1] \in A
    OBVIOUS
  <1>2. Tail(q) \in Seq(A) /\ Len(Tail(q)) = Len(q) - 1
        /\ \A i \in 1 .. Len(Tail(q)) : Tail(q)[i] = q[i + 1]
    BY HeadTailProperties
  <1> DEFINE t == Tail(q)
  <1>3. t \in Seq(A) /\ Len(t) = Len(q) - 1 /\ \A i \in 1 .. Len(q) - 1 : t[i] = q[i + 1]
    BY <1>2
  <1> HIDE DEF t
  <1>4. joined = t \o r
    BY DEF t
  <1>5. /\ joined \in Seq(A \union B) /\ Len(joined) = Len(t) + Len(r)
        /\ \A i \in 1 .. Len(t) : joined[i] = t[i]
        /\ \A i \in 1 .. Len(joined) : i > Len(t) => joined[i] = r[i - Len(t)]
    BY <1>3, <1>4
  <1>6. \A i \in 1 .. Len(r) : r[i] \in B
    OBVIOUS
  <1>7. ASSUME NEW i \in 1 .. Len(joined)
        PROVE  \/ i + 1 \in 1 .. Len(q) /\ joined[i] = q[i + 1]
               \/ i > Len(q) - 1 /\ joined[i] \in B
    <2>1. CASE i <= Len(q) - 1
      BY <1>1, <1>3, <1>5, <2>1
    <2>2. CASE i > Len(q) - 1
      <3>1. i - Len(t) \in 1 .. Len(r)
        BY <1>1, <1>3, <1>5, <2>2
      <3> QED
        BY <1>3, <1>5, <1>6, <2>2, <3>1
    <2> QED
      BY <1>1, <2>1, <2>2
  <1>8. ASSUME NEW i \in 2 .. Len(q) PROVE i - 1 \in 1 .. Len(joined) /\ joined[i - 1] = q[i]
    <2>1. i - 1 \in 1 .. Len(t) /\ (i - 1) + 1 = i
      BY <1>1, <1>3
    <2> QED
      BY <1>1, <1>3, <1>5, <2>1
  <1>9. ASSUME NEW i \in 1 .. Len(r)
        PROVE  Len(q) - 1 + i \in 1 .. Len(joined) /\ joined[Len(q) - 1 + i] = r[i]
    BY <1>1, <1>3, <1>5
  <1> QED
    BY <1>5, <1>7, <1>8, <1>9 DEF Appended

LEMMA UAVsAreNaturals ==
  ASSUME NEW s \in Shapes
  PROVE  /\ UAVs(s) \in SUBSET Nat /\ IsFiniteSet(UAVs(s))
         /\ Anchors(s) \subseteq UAVs(s) /\ TestId(s) \in UAVs(s)
  <1>1. s.m \in Nat \ {0} /\ s.k \in Nat /\ s.relay \in Nat \ {0}
    BY TopologyAssumption
  <1> DEFINE m == s.m
             k == s.k
             relay == s.relay
             followers == k * relay
  <1>2. m \in Nat \ {0} /\ k \in Nat /\ relay \in Nat \ {0}
    BY <1>1
  <1> HIDE DEF m, k, relay
  <1>3. k * relay \in Nat
    BY <1>2
  <1>4. k # 0 => (k - 1) * relay \in Nat /\ (k - 1) * relay + relay = k * relay
    BY <1>2
  <1>5. UAVs(s) = 0 .. m + followers - 1 /\ Anchors(s) = 0 .. m - 1
        /\ TestId(s) = IF k = 0 THEN 0 ELSE m + (k - 1) * relay
    BY DEF UAVs, Anchors, TestId, m, k, relay
  <1> DEFINE before == (k - 1) * relay
  <1>6. followers \in Nat /\ (k # 0 => before \in Nat /\ before + relay = followers)
    BY <1>3, <1>4
  <1>7. TestId(s) = IF k = 0 THEN 0 ELSE m + before
    BY <1>5
  <1> HIDE DEF followers, before
  <1>8. IsFiniteSet(0 .. m + followers - 1)
    BY <1>2, <1>6, FS_Interval
  <1>9. Anchors(s) \subseteq UAVs(s)
    BY <1>2, <1>5, <1>6
  <1>10. TestId(s) \in UAVs(s)
    BY <1>2, <1>5, <1>6, <1>7
  <1> QED
    BY <1>2, <1>5, <1>6, <1>8, <1>9, <1>10

(***************************************************************************)
(* The search.                                                             *)
(***************************************************************************)

Seen == DOMAIN dist
Queued == {queue[i] : i \in 1 .. Len(queue)}
Done == Seen \ Queued

SearchTypeOK ==
  /\ shape \in Shapes /\ direction \in Directions /\ edges = Edges(shape, direction)
  /\ Seen \in SUBSET UAVs(shape) /\ dist \in [Seen -> Nat]
  /\ TestId(shape) \in Seen /\ dist[TestId(shape)] = 0
  /\ queue \in Seq(Seen)

\* A distance is never an underestimate.
Reached == \A v \in Seen : v \in Within[dist[v]]

\* The queue holds at most two successive distances, the lesser first, and
\* nothing nearer than what is done.
OneWave ==
  /\ \A i, j \in 1 .. Len(queue) :
       i <= j => dist[queue[i]] <= dist[queue[j]] /\ dist[queue[j]] <= dist[queue[i]] + 1
  /\ \A v \in Done, i \in 1 .. Len(queue) : dist[v] <= dist[queue[i]]

\* What is done has all its neighbours seen, at most one hop further.
Explored == \A v \in Done : \A w \in Adjacent(v) : w \in Seen /\ dist[w] <= dist[v] + 1

AnchorFree == Seen \intersect Anchors(shape) = {}

SearchInv ==
  /\ SearchTypeOK /\ Reached /\ HopIsShortest
  /\ hop \in {Unset, -1} => OneWave /\ Explored /\ AnchorFree
  /\ hop \in Nat \union {Unset, -1}
  /\ hop = -1 => queue = <<>>

\* As far as nothing is left in the queue, all that is there has been seen.
LEMMA SeenWithin ==
  ASSUME SearchTypeOK, Explored, NEW d \in Nat, \A i \in 1 .. Len(queue) : d <= dist[queue[i]]
  PROVE  \A v \in Within[d] : v \in Seen /\ dist[v] <= d
  <1> DEFINE Good(n) == \A v \in Within[n] : v \in Seen /\ dist[v] <= n
             N == {n \in Nat : n <= d => Good(n)}
  <1>1. Good(0)
    BY WithinUnfolds DEF SearchTypeOK
  <1>2. ASSUME NEW n \in Nat, n \in N, n + 1 <= d PROVE Good(n + 1)
    <2>1. Good(n)
      BY <1>2
    <2>2. SUFFICES ASSUME NEW v \in Within[n + 1] PROVE v \in Seen /\ dist[v] <= n + 1
      OBVIOUS
    <2>3. v \in Within[n] \/ \E u \in Within[n] : v \in Adjacent(u)
      BY <2>2, WithinUnfolds
    <2>4. CASE v \in Within[n]
      BY <2>1, <2>4 DEF SearchTypeOK
    <2>5. ASSUME NEW u \in Within[n], v \in Adjacent(u) PROVE v \in Seen /\ dist[v] <= n + 1
      <3>1. u \in Seen /\ dist[u] \in Nat /\ dist[u] <= n
        BY <2>1 DEF SearchTypeOK
      <3>2. dist[u] < d
        BY <1>2, <3>1
      <3>3. u \notin Queued
        BY <3>1, <3>2 DEF Queued
      <3>4. v \in Seen /\ dist[v] <= dist[u] + 1
        BY <2>5, <3>1, <3>3 DEF Explored, Done
      <3>5. dist[v] \in Nat
        BY <3>4 DEF SearchTypeOK
      <3> QED
        BY <3>1, <3>4, <3>5
    <2> QED
      BY <2>3, <2>4, <2>5
  <1> HIDE DEF Good
  <1>3. 0 \in N /\ \A n \in Nat : n \in N => n + 1 \in N
    BY <1>1, <1>2
  <1> HIDE DEF N
  <1>4. Nat \subseteq N
    BY <1>3, Upward
  <1> QED
    BY <1>4 DEF N, Good

LEMMA InitSearch == TopoInit => SearchInv
  <1> SUFFICES ASSUME TopoInit PROVE SearchInv
    OBVIOUS
  <1> DEFINE t == TestId(shape)
  <1>1. shape \in Shapes /\ dist = [u \in {t} |-> 0] /\ queue = <<t>>
        /\ hop = IF t \in Anchors(shape) THEN 0 ELSE Unset
    BY DEF TopoInit
  <1>2. t \in UAVs(shape)
    BY <1>1, UAVsAreNaturals
  <1>3. Within[0] = {t}
    BY WithinUnfolds
  <1> HIDE DEF t
  <1>4. Seen = {t} /\ dist[t] = 0 /\ Len(queue) = 1 /\ queue[1] = t /\ queue \in Seq({t})
    BY <1>1 DEF Seen
  <1>5. Done = {}
    BY <1>4 DEF Done, Queued
  <1>6. SearchTypeOK
    BY <1>1, <1>2, <1>4 DEF TopoInit, SearchTypeOK, t
  <1>7. Reached
    BY <1>3, <1>4 DEF Reached
  <1>8. OneWave /\ Explored
    BY <1>4, <1>5 DEF OneWave, Explored
  <1>9. hop \in {0, Unset} /\ hop # -1 /\ (hop = Unset => AnchorFree)
    BY <1>1, <1>4 DEF AnchorFree, Unset
  <1>10. HopIsShortest
    BY <1>1, <1>3 DEF HopIsShortest, Unset
  <1> QED
    BY <1>6, <1>7, <1>8, <1>9, <1>10 DEF SearchInv

LEMMA SameGraph ==
  ASSUME UNCHANGED <<shape, edges>>
  PROVE  /\ Within' = Within
         /\ \A v : Adjacent(v)' = Adjacent(v)
  <1>1. \A v : Adjacent(v)' = Adjacent(v)
    BY DEF Adjacent
  <1>2. Within' = Within
    BY DEF Within, Adjacent
  <1> QED
    BY <1>1, <1>2

\* What a visit does to the distances and the queue.
LEMMA VisitFacts ==
  ASSUME SearchTypeOK, Visit
  PROVE  LET u == Head(queue)
             Unmet == Adjacent(u) \ Seen
         IN  /\ hop = Unset /\ queue # <<>> /\ UNCHANGED <<shape, direction, edges>>
             /\ u \in Seen /\ u = queue[1] /\ 1 \in 1 .. Len(queue) /\ Len(queue) \in Nat
             /\ Unmet \in SUBSET UAVs(shape) /\ Adjacent(u) \subseteq Seen \union Unmet
             /\ Seen' = Seen \union Unmet
             /\ \A v \in Seen : dist'[v] = dist[v] /\ dist[v] \in Nat
             /\ \A v \in Unmet : dist'[v] = dist[u] + 1
             /\ dist' \in [Seen' -> Nat] /\ queue' \in Seq(Seen')
             /\ Queued \subseteq Queued' \union {u} /\ Unmet \subseteq Queued'
             /\ \A i \in 1 .. Len(queue') :
                  \/ i + 1 \in 1 .. Len(queue) /\ queue'[i] = queue[i + 1]
                  \/ i > Len(queue) - 1 /\ queue'[i] \in Unmet
             /\ hop' = IF Adjacent(u) \intersect Anchors(shape) # {} THEN dist[u] + 1
                       ELSE IF queue' = <<>> THEN -1 ELSE Unset
  <1> DEFINE u == Head(queue)
             Unmet == Adjacent(u) \ Seen
             new == Ascending(Unmet)
  <1>1. /\ hop = Unset /\ queue # <<>> /\ UNCHANGED <<shape, direction, edges>>
        /\ queue' = Tail(queue) \o new
        /\ dist' = [v \in Seen \union Adjacent(u) |-> IF v \in Seen THEN dist[v] ELSE dist[u] + 1]
        /\ hop' = IF Adjacent(u) \intersect Anchors(shape) # {} THEN dist[u] + 1
                  ELSE IF queue' = <<>> THEN -1 ELSE Unset
    BY DEF Visit, Unseen, Seen
  <1>2. queue \in Seq(Seen) /\ u \in Seen /\ u = queue[1] /\ Len(queue) \in Nat \ {0}
    BY <1>1 DEF SearchTypeOK
  <1>3. Unmet \in SUBSET UAVs(shape) /\ Adjacent(u) \subseteq Seen \union Unmet
    BY DEF Adjacent
  <1>4. Unmet \in SUBSET Nat /\ IsFiniteSet(Unmet)
    BY <1>3, UAVsAreNaturals, FS_Subset DEF SearchTypeOK
  <1>5. new \in Seq(Unmet) /\ \A v \in Unmet : \E i \in 1 .. Len(new) : new[i] = v
    <2> HIDE DEF Unmet
    <2> QED
      BY <1>4, AscendingFacts
  <1> HIDE DEF u, new
  <1>6. /\ Seen' = Seen \union Unmet
        /\ \A v \in Seen : dist'[v] = dist[v] /\ dist[v] \in Nat
        /\ \A v \in Unmet : dist'[v] = dist[u] + 1
        /\ dist' \in [Seen' -> Nat]
    <2>1. \A v \in Seen : dist[v] \in Nat
      BY DEF SearchTypeOK
    <2>2. DOMAIN dist' = Seen \union Adjacent(u)
      BY <1>1
    <2>3. Seen' = Seen \union Adjacent(u)
      BY <2>2 DEF Seen
    <2>4. dist[u] + 1 \in Nat
      BY <1>2, <2>1
    <2>5. Seen' = Seen \union Unmet
      BY <2>3
    <2>6. \A v \in Seen : dist'[v] = dist[v]
      BY <1>1
    <2>7. \A v \in Unmet : dist'[v] = dist[u] + 1
      BY <1>1
    <2>8. dist' \in [Seen' -> Nat]
      BY <1>1, <2>1, <2>3, <2>4
    <2> QED
      BY <2>1, <2>5, <2>6, <2>7, <2>8
  <1> HIDE DEF Unmet
  <1>7. /\ queue' \in Seq(Seen \union Unmet)
        /\ \A i \in 1 .. Len(queue') :
             \/ i + 1 \in 1 .. Len(queue) /\ queue'[i] = queue[i + 1]
             \/ i > Len(queue) - 1 /\ queue'[i] \in Unmet
        /\ \A i \in 2 .. Len(queue) : i - 1 \in 1 .. Len(queue') /\ queue'[i - 1] = queue[i]
        /\ \A i \in 1 .. Len(new) : Len(queue) - 1 + i \in 1 .. Len(queue')
                                    /\ queue'[Len(queue) - 1 + i] = new[i]
    <2>1. queue' = Tail(queue) \o new /\ queue # <<>>
      BY <1>1
    <2>2. Appended(Seen, queue, Unmet, new, queue')
      BY <1>2, <1>5, <2>1, AppendedFacts
    <2> QED
      BY <2>2 DEF Appended
  <1>8. Queued \subseteq Queued' \union {u}
    <2>1. SUFFICES ASSUME NEW i \in 1 .. Len(queue), i # 1 PROVE queue[i] \in Queued'
      BY <1>2 DEF Queued
    <2>2. i \in 2 .. Len(queue)
      BY <1>2, <2>1
    <2>3. i - 1 \in 1 .. Len(queue') /\ queue'[i - 1] = queue[i]
      BY <1>7, <2>2
    <2> QED
      BY <2>3 DEF Queued
  <1>9. Unmet \subseteq Queued'
    <2>1. SUFFICES ASSUME NEW v \in Unmet PROVE v \in Queued'
      OBVIOUS
    <2>2. PICK i \in 1 .. Len(new) : new[i] = v
      BY <1>5
    <2>3. Len(queue) - 1 + i \in 1 .. Len(queue') /\ queue'[Len(queue) - 1 + i] = v
      BY <1>7, <2>2
    <2> QED
      BY <2>3 DEF Queued
  <1>10. 1 \in 1 .. Len(queue) /\ Len(queue) \in Nat
    BY <1>2
  <1> QED
    BY <1>1, <1>2, <1>3, <1>6, <1>7, <1>8, <1>9, <1>10 DEF u, Unmet

LEMMA VisitSearch == SearchInv /\ Visit => SearchInv'
  <1> SUFFICES ASSUME SearchInv, Visit PROVE SearchInv'
    OBVIOUS
  <1> DEFINE u == Head(queue)
             Unmet == Adjacent(u) \ Seen
  <1>0. SearchTypeOK
    BY DEF SearchInv
  <1>1. /\ hop = Unset /\ queue # <<>> /\ UNCHANGED <<shape, direction, edges>>
        /\ u \in Seen /\ u = queue[1] /\ 1 \in 1 .. Len(queue) /\ Len(queue) \in Nat
        /\ Unmet \in SUBSET UAVs(shape) /\ Adjacent(u) \subseteq Seen \union Unmet
        /\ Seen' = Seen \union Unmet
        /\ \A v \in Seen : dist'[v] = dist[v] /\ dist[v] \in Nat
        /\ \A v \in Unmet : dist'[v] = dist[u] + 1
        /\ dist' \in [Seen' -> Nat] /\ queue' \in Seq(Seen')
        /\ Queued \subseteq Queued' \union {u} /\ Unmet \subseteq Queued'
        /\ \A i \in 1 .. Len(queue') :
             \/ i + 1 \in 1 .. Len(queue) /\ queue'[i] = queue[i + 1]
             \/ i > Len(queue) - 1 /\ queue'[i] \in Unmet
        /\ hop' = IF Adjacent(u) \intersect Anchors(shape) # {} THEN dist[u] + 1
                  ELSE IF queue' = <<>> THEN -1 ELSE Unset
    BY <1>0, VisitFacts
  <1>2. /\ SearchTypeOK /\ Reached /\ OneWave /\ Explored /\ AnchorFree
    BY <1>1 DEF SearchInv
  <1>3. Within' = Within /\ \A v : Adjacent(v)' = Adjacent(v)
    BY <1>1, SameGraph
  <1>4. \A v \in Unmet : v \in Adjacent(u) /\ v \notin Seen
    OBVIOUS
  <1>5. PICK d \in Nat : d = dist[u]
    BY <1>1
  <1>6. PICK E : E = Unmet
    OBVIOUS
  <1>7. \A v \in E : v \in Adjacent(u) /\ v \notin Seen /\ v \in UAVs(shape) /\ dist'[v] = d + 1 /\ v \in Queued'
    BY <1>1, <1>4, <1>5, <1>6
  <1>8. Seen' = Seen \union E
    BY <1>1, <1>6
  <1>9. PICK w \in Seen : w = u
    BY <1>1
  <1> HIDE DEF u, Unmet
  \* Whatever is queued next is one of the wave and of the distances d and d + 1.
  <1>10. ASSUME NEW i \in 1 .. Len(queue)
         PROVE  queue[i] \in Seen /\ dist[queue[i]] \in Nat /\ d <= dist[queue[i]] /\ dist[queue[i]] <= d + 1
    <2>1. queue[i] \in Seen /\ 1 <= i
      BY <1>2 DEF SearchTypeOK
    <2> QED
      BY <1>1, <1>2, <1>5, <2>1 DEF OneWave
  <1>11. ASSUME NEW i \in 1 .. Len(queue')
         PROVE  \/ /\ i + 1 \in 1 .. Len(queue) /\ queue'[i] = queue[i + 1]
                   /\ dist'[queue'[i]] = dist[queue[i + 1]]
                \/ i > Len(queue) - 1 /\ dist'[queue'[i]] = d + 1
    <2>1. CASE i + 1 \in 1 .. Len(queue) /\ queue'[i] = queue[i + 1]
      BY <1>1, <1>10, <2>1
    <2>2. CASE i > Len(queue) - 1 /\ queue'[i] \in Unmet
      BY <1>6, <1>7, <2>2
    <2> QED
      BY <1>1, <2>1, <2>2
  <1>12. ASSUME NEW i \in 1 .. Len(queue')
         PROVE  dist'[queue'[i]] \in Nat /\ d <= dist'[queue'[i]] /\ dist'[queue'[i]] <= d + 1
    BY <1>10, <1>11
  <1>13. ASSUME NEW v \in Done' PROVE v \in Seen /\ (v = w \/ v \in Done)
    <2>1. v \in Seen' /\ v \notin Queued'
      BY DEF Done
    <2>2. v \in Seen
      BY <1>7, <1>8, <2>1
    <2> QED
      BY <1>1, <1>9, <2>1, <2>2 DEF Done
  <1>14. SearchTypeOK'
    <2>0. /\ direction' = direction /\ direction \in Directions
          /\ edges' = edges /\ edges = Edges(shape, direction)
      BY <1>1, <1>2 DEF SearchTypeOK
    <2>1. shape' = shape /\ shape \in Shapes /\ Seen \in SUBSET UAVs(shape)
          /\ TestId(shape) \in Seen /\ dist[TestId(shape)] = 0
      BY <1>1, <1>2 DEF SearchTypeOK
    <2>2. Seen' \in SUBSET UAVs(shape)
      BY <1>7, <1>8, <2>1
    <2>3. dist'[TestId(shape)] = 0
      BY <1>1, <2>1
    <2> QED
      BY <1>1, <1>8, <2>0, <2>1, <2>2, <2>3 DEF SearchTypeOK
  <1>15. Within[d + 1] = Within[d] \union UNION {Adjacent(v) : v \in Within[d]} /\ w \in Within[d]
    BY <1>2, <1>5, <1>9, WithinUnfolds DEF Reached
  <1>16. Adjacent(u) \subseteq Within[d + 1]
    BY <1>9, <1>15
  <1>17. Reached'
    <2>1. SUFFICES ASSUME NEW v \in Seen' PROVE v \in Within[dist'[v]]
      BY <1>3 DEF Reached
    <2>2. CASE v \in Seen
      BY <1>1, <1>2, <2>2 DEF Reached
    <2>3. CASE v \in E
      BY <1>7, <1>16, <2>3
    <2> QED
      BY <1>8, <2>2, <2>3
  <1>18. OneWave'
    <2>1. ASSUME NEW i \in 1 .. Len(queue'), NEW j \in 1 .. Len(queue'), i <= j
          PROVE  dist'[queue'[i]] <= dist'[queue'[j]] /\ dist'[queue'[j]] <= dist'[queue'[i]] + 1
      <3>1. dist'[queue'[j]] <= dist'[queue'[i]] + 1
        BY <1>12
      <3>2. CASE i > Len(queue) - 1
        <4>1. j > Len(queue) - 1
          BY <1>1, <2>1, <3>2
        <4>2. dist'[queue'[j]] = d + 1
          BY <1>1, <1>11, <4>1
        <4> QED
          BY <1>12, <3>1, <4>2
      <3>3. CASE j > Len(queue) - 1
        <4>1. dist'[queue'[j]] = d + 1
          BY <1>1, <1>11, <3>3
        <4> QED
          BY <1>12, <3>1, <4>1
      <3>4. CASE ~ (i > Len(queue) - 1) /\ ~ (j > Len(queue) - 1)
        <4>1. /\ i + 1 \in 1 .. Len(queue) /\ dist'[queue'[i]] = dist[queue[i + 1]]
              /\ j + 1 \in 1 .. Len(queue) /\ dist'[queue'[j]] = dist[queue[j + 1]]
          BY <1>11, <3>4
        <4>2. dist[queue[i + 1]] <= dist[queue[j + 1]]
          BY <1>2, <2>1, <4>1 DEF OneWave
        <4> QED
          BY <3>1, <4>1, <4>2
      <3> QED
        BY <3>2, <3>3, <3>4
    <2>2. ASSUME NEW v \in Done', NEW i \in 1 .. Len(queue') PROVE dist'[v] <= dist'[queue'[i]]
      <3>1. v \in Seen /\ dist'[v] = dist[v] /\ dist[v] \in Nat
        BY <1>1, <1>13
      <3>2. dist[v] <= d
        <4>1. CASE v = w
          BY <1>5, <1>9, <4>1
        <4>2. CASE v \in Done
          BY <1>1, <1>2, <1>5, <4>2 DEF OneWave
        <4> QED
          BY <1>13, <4>1, <4>2
      <3> QED
        BY <1>12, <3>1, <3>2
    <2> QED
      BY <2>1, <2>2 DEF OneWave
  <1>19. Explored'
    <2>1. SUFFICES ASSUME NEW v \in Done', NEW x \in Adjacent(v)
                   PROVE  x \in Seen' /\ dist'[x] <= dist'[v] + 1
      BY <1>3 DEF Explored
    <2>2. v \in Seen /\ dist'[v] = dist[v] /\ dist[v] \in Nat
      BY <1>1, <1>13
    <2>3. CASE v \in Done
      <3>1. x \in Seen /\ dist[x] <= dist[v] + 1
        BY <1>2, <2>3 DEF Explored
      <3> QED
        BY <1>1, <1>8, <2>2, <3>1
    <2>4. CASE v = w
      <3>1. x \in Seen \union E /\ dist[v] = d
        BY <1>1, <1>5, <1>6, <1>9, <2>4
      <3>2. CASE x \in E
        BY <1>7, <1>8, <2>2, <3>1, <3>2
      <3>3. CASE x \in Seen
        <4>1. dist'[x] = dist[x] /\ dist[x] \in Nat
          BY <1>1, <3>3
        <4>2. dist[x] <= d + 1
          <5>1. CASE x \in Done
            BY <1>1, <1>2, <1>5, <4>1, <5>1 DEF OneWave
          <5>2. CASE x \in Queued
            BY <1>10, <5>2 DEF Queued
          <5> QED
            BY <3>3, <5>1, <5>2 DEF Done
        <4> QED
          BY <1>8, <2>2, <3>1, <3>3, <4>1, <4>2
      <3> QED
        BY <3>1, <3>2, <3>3
    <2> QED
      BY <1>13, <2>3, <2>4
  <1>20. CASE Adjacent(u) \intersect Anchors(shape) # {}
    <2>1. hop' = d + 1 /\ hop' \in Nat /\ hop' # Unset /\ hop' # -1 /\ hop' - 1 = d
      BY <1>1, <1>5, <1>20 DEF Unset
    <2>2. Within[d + 1] \intersect Anchors(shape) # {}
      BY <1>16, <1>20
    <2>3. \A v \in Within[d] : v \in Seen
      BY <1>2, <1>10, SeenWithin
    <2>4. Within[d] \intersect Anchors(shape) = {}
      BY <1>2, <2>3 DEF AnchorFree
    <2>5. HopIsShortest'
      BY <1>1, <1>3, <2>1, <2>2, <2>4 DEF HopIsShortest
    <2> QED
      BY <1>14, <1>17, <2>1, <2>5 DEF SearchInv
  <1>21. CASE Adjacent(u) \intersect Anchors(shape) = {}
    <2>1. hop' = IF queue' = <<>> THEN -1 ELSE Unset
      BY <1>1, <1>21
    <2>2. AnchorFree'
      BY <1>1, <1>2, <1>7, <1>8, <1>21 DEF AnchorFree
    <2>3. HopIsShortest'
      BY <2>1 DEF HopIsShortest, Unset
    <2> QED
      BY <1>14, <1>17, <1>18, <1>19, <2>1, <2>2, <2>3 DEF SearchInv, Unset
  <1> QED
    BY <1>20, <1>21

LEMMA AlwaysSearch == Spec => []SearchInv
  <1>1. Init => SearchInv
    BY InitSearch DEF Init
  <1>2. SearchInv /\ [Next]_vars => SearchInv'
    <2> SUFFICES ASSUME SearchInv, [Next]_vars PROVE SearchInv'
      OBVIOUS
    <2>1. CASE Visit
      BY <2>1, VisitSearch
    <2>2. CASE UNCHANGED topoVars
      <3>1. UNCHANGED <<shape, direction, edges, dist, queue, hop>>
        BY <2>2 DEF topoVars
      <3>2. Within' = Within /\ \A v : Adjacent(v)' = Adjacent(v)
        BY <3>1, SameGraph
      <3>3. UNCHANGED <<Seen, Queued, Done>>
        BY <3>1 DEF Seen, Queued, Done
      <3>4. SearchTypeOK' /\ Reached' /\ HopIsShortest'
        BY <3>1, <3>2, <3>3 DEF SearchInv, SearchTypeOK, Reached, HopIsShortest
      <3>5. hop \in {Unset, -1} => OneWave' /\ Explored' /\ AnchorFree'
        BY <3>1, <3>2, <3>3 DEF SearchInv, OneWave, Explored, AnchorFree
      <3> QED
        BY <3>1, <3>4, <3>5 DEF SearchInv
    <2> QED
      BY <2>1, <2>2 DEF Next, Fly, vars
  <1> QED
    BY <1>1, <1>2, PTL DEF Spec

\* On any graph, the hop that certifies a topology is the length of a
\* shortest path from the test follower to an anchor.
THEOREM TheHopIsShortest == Spec => []HopIsShortest
  <1>1. SearchInv => HopIsShortest
    BY DEF SearchInv
  <1> QED
    BY <1>1, AlwaysSearch, PTL

\* No path leads to an anchor when the search says so.
NoWay == hop = -1 => \A n \in Nat : Within[n] \intersect Anchors(shape) = {}

LEMMA GaveUp == SearchInv => NoWay
  <1> SUFFICES ASSUME SearchInv, hop = -1, NEW n \in Nat
               PROVE  Within[n] \intersect Anchors(shape) = {}
    BY DEF NoWay
  <1>1. SearchTypeOK /\ Explored /\ AnchorFree /\ queue = <<>>
    BY DEF SearchInv
  <1>2. \A v \in Within[n] : v \in Seen
    BY <1>1, SeenWithin
  <1> QED
    BY <1>1, <1>2 DEF AnchorFree

\* The search gives up on a test follower only if no path of any length leads
\* from it to an anchor.
THEOREM GivesUpRightly == Spec => []NoWay
  <1>1. SearchInv => NoWay
    BY GaveUp
  <1> QED
    BY <1>1, AlwaysSearch, PTL

LEMMA QuotientOfProduct ==
  ASSUME NEW a \in Nat, NEW r \in Nat \ {0}
  PROVE  (a * r) \div r = a
  OBVIOUS

LEMMA LevelFacts ==
  ASSUME NEW s \in Shapes
  PROVE  /\ s.k \in Nat /\ LevelOf(s, TestId(s)) = s.k
         /\ \A u \in UAVs(s) : LevelOf(s, u) \in Nat /\ (u \in Anchors(s) <=> LevelOf(s, u) = 0)
  <1>1. s.m \in Nat \ {0} /\ s.k \in Nat /\ s.relay \in Nat \ {0}
    BY TopologyAssumption
  <1>2. ASSUME NEW u \in UAVs(s)
        PROVE  LevelOf(s, u) \in Nat /\ (u \in Anchors(s) <=> LevelOf(s, u) = 0)
    <2>1. u \in Nat
      BY UAVsAreNaturals
    <2>2. CASE u < s.m
      BY <1>1, <2>1, <2>2 DEF LevelOf, Anchors
    <2>3. CASE ~ (u < s.m)
      <3>1. u - s.m \in Nat
        BY <1>1, <2>1, <2>3
      <3>2. (u - s.m) \div s.relay \in Nat
        BY <1>1, <3>1
      <3>3. LevelOf(s, u) = 1 + (u - s.m) \div s.relay
        BY <2>3 DEF LevelOf
      <3>4. u \notin Anchors(s)
        BY <1>1, <2>1, <2>3 DEF Anchors
      <3> QED
        BY <3>2, <3>3, <3>4
    <2> QED
      BY <2>2, <2>3
  <1>3. LevelOf(s, TestId(s)) = s.k
    <2>1. CASE s.k = 0
      BY <1>1, <2>1 DEF TestId, LevelOf
    <2>2. CASE s.k # 0
      <3> DEFINE before == (s.k - 1) * s.relay
      <3>1. s.k - 1 \in Nat /\ before \in Nat
        BY <1>1, <2>2
      <3>2. before \div s.relay = s.k - 1
        BY <1>1, <3>1, QuotientOfProduct
      <3>3. TestId(s) = s.m + before
        BY <2>2 DEF TestId
      <3> HIDE DEF before
      <3>4. ~ (TestId(s) < s.m) /\ TestId(s) - s.m = before
        BY <1>1, <3>1, <3>3
      <3>5. LevelOf(s, TestId(s)) = 1 + (s.k - 1)
        BY <3>2, <3>4 DEF LevelOf
      <3> QED
        BY <1>1, <3>5
    <2> QED
      BY <2>1, <2>2
  <1> QED
    BY <1>1, <1>2, <1>3

\* On a ladder, the UAVs n hops away are of level k - n or higher, and some
\* is of that level until the anchors are reached.
LEMMA Descent ==
  ASSUME SearchTypeOK, Laddered(shape, direction), NEW h \in Nat
  PROVE  /\ Within[h] \subseteq UAVs(shape)
         /\ \A v \in Within[h] : LevelOf(shape, v) >= shape.k - h
         /\ \E v \in Within[h] : LevelOf(shape, v) = IF h <= shape.k THEN shape.k - h ELSE 0
  <1> DEFINE L(v) == LevelOf(shape, v)
             k == shape.k
             Low(n) == IF n <= k THEN k - n ELSE 0
             Good(n) == /\ Within[n] \subseteq UAVs(shape)
                        /\ \A v \in Within[n] : L(v) >= k - n
                        /\ \E v \in Within[n] : L(v) = Low(n)
             N == {n \in Nat : Good(n)}
  <1>1. shape \in Shapes /\ edges = Edges(shape, direction)
    BY DEF SearchTypeOK
  <1>2. k \in Nat /\ L(TestId(shape)) = k /\ \A v \in UAVs(shape) : L(v) \in Nat
    BY <1>1, LevelFacts
  <1>3. TestId(shape) \in UAVs(shape)
    BY <1>1, UAVsAreNaturals
  <1> HIDE DEF k
  <1> DEFINE Linked(u, v) == <<u, v>> \in edges \/ <<v, u>> \in edges
  <1>a. \A u \in UAVs(shape) :
          /\ \A v \in UAVs(shape) : Linked(u, v) => L(u) - L(v) \in -1 .. 1
          /\ L(u) > 0 => \E v \in UAVs(shape) : Linked(u, v) /\ L(v) = L(u) - 1
    BY <1>1, Zenon DEF Laddered
  <1>b. \A u, v : v \in Adjacent(u) <=> v \in UAVs(shape) /\ Linked(u, v)
    BY DEF Adjacent
  <1> HIDE DEF L, Linked
  <1>4. ASSUME NEW u \in UAVs(shape)
        PROVE  /\ \A v \in Adjacent(u) : v \in UAVs(shape) /\ L(u) - L(v) \in -1 .. 1
               /\ L(u) > 0 => \E v \in Adjacent(u) : L(v) = L(u) - 1
    <2>1. ASSUME NEW v \in Adjacent(u) PROVE v \in UAVs(shape) /\ L(u) - L(v) \in -1 .. 1
      BY <1>a, <1>b, <2>1
    <2>2. ASSUME L(u) > 0 PROVE \E v \in Adjacent(u) : L(v) = L(u) - 1
      BY <1>a, <1>b, <2>2
    <2> QED
      BY <2>1, <2>2
  <1>5. Good(0)
    BY <1>2, <1>3, WithinUnfolds
  <1>6. ASSUME NEW n \in Nat, Good(n) PROVE Good(n + 1)
    <2>1. Within[n + 1] = Within[n] \union UNION {Adjacent(u) : u \in Within[n]}
      BY WithinUnfolds
    <2>2. Within[n + 1] \subseteq UAVs(shape)
      BY <1>4, <1>6, <2>1
    <2>3. ASSUME NEW v \in Within[n + 1] PROVE L(v) >= k - (n + 1)
      <3>1. CASE v \in Within[n]
        BY <1>2, <1>6, <2>2, <3>1
      <3>2. ASSUME NEW u \in Within[n], v \in Adjacent(u) PROVE L(v) >= k - (n + 1)
        <4>1. u \in UAVs(shape) /\ L(u) >= k - n
          BY <1>6
        <4>2. v \in UAVs(shape) /\ L(u) - L(v) \in -1 .. 1
          BY <1>4, <3>2, <4>1
        <4>3. L(u) \in Nat /\ L(v) \in Nat
          BY <1>2, <4>1, <4>2
        <4> QED
          BY <1>2, <4>1, <4>2, <4>3
      <3> QED
        BY <2>1, <3>1, <3>2
    <2>4. \E v \in Within[n + 1] : L(v) = Low(n + 1)
      <3>1. PICK u \in Within[n] : L(u) = Low(n)
        BY <1>6
      <3>2. u \in Within[n + 1] /\ u \in UAVs(shape) /\ L(u) \in Nat
        BY <1>2, <1>6, <2>1
      <3>3. CASE L(u) = 0
        <4>1. Low(n + 1) = 0
          BY <1>2, <3>1, <3>3
        <4> QED
          BY <3>2, <3>3, <4>1
      <3>4. CASE L(u) # 0
        <4>1. PICK v \in Adjacent(u) : L(v) = L(u) - 1
          BY <1>4, <3>2, <3>4
        <4>2. v \in Within[n + 1]
          BY <2>1, <4>1
        <4>3. L(u) - 1 = Low(n + 1)
          BY <1>2, <3>1, <3>4
        <4> QED
          BY <4>1, <4>2, <4>3
      <3> QED
        BY <3>3, <3>4
    <2> QED
      BY <2>2, <2>3, <2>4
  <1> HIDE DEF Good
  <1>7. 0 \in N /\ \A n \in Nat : n \in N => n + 1 \in N
    BY <1>5, <1>6
  <1> HIDE DEF N
  <1>8. Nat \subseteq N
    BY <1>7, Upward
  <1>9. Good(h)
    BY <1>8 DEF N
  <1> QED
    BY <1>9 DEF Good, L, k

\* Wherever the positions make a ladder of the levels, the generator keeps
\* its promise for any number of levels, anchors and relays.
THEOREM TheHopIsExact ==
  ASSUME \A s \in Shapes, dir \in Directions : Laddered(s, dir)
  PROVE  Spec => []HopIsExact
  <1>1. SearchInv => HopIsExact
    <2> SUFFICES ASSUME SearchInv, hop # Unset PROVE hop = shape.k
      BY DEF HopIsExact
    <2> DEFINE k == shape.k
    <2>1. SearchTypeOK /\ shape \in Shapes /\ Laddered(shape, direction)
      BY DEF SearchInv, SearchTypeOK
    <2>2. /\ k \in Nat
          /\ \A u \in UAVs(shape) : LevelOf(shape, u) \in Nat
                                    /\ (u \in Anchors(shape) <=> LevelOf(shape, u) = 0)
      BY <2>1, LevelFacts
    <2>3. ASSUME NEW n \in Nat, n >= k PROVE Within[n] \intersect Anchors(shape) # {}
      <3>1. PICK v \in Within[n] : LevelOf(shape, v) = IF n <= k THEN k - n ELSE 0
        BY <2>1, Descent
      <3>2. v \in UAVs(shape)
        BY <2>1, <3>1, Descent
      <3>3. LevelOf(shape, v) = 0
        BY <2>2, <2>3, <3>1
      <3> QED
        BY <2>2, <3>1, <3>2, <3>3
    <2>4. ASSUME NEW n \in Nat, Within[n] \intersect Anchors(shape) # {} PROVE n >= k
      <3>1. PICK v \in Within[n] : v \in Anchors(shape)
        BY <2>4
      <3>2. v \in UAVs(shape) /\ LevelOf(shape, v) >= k - n
        BY <2>1, <3>1, Descent
      <3>3. LevelOf(shape, v) = 0
        BY <2>2, <3>1, <3>2
      <3> QED
        BY <2>2, <3>2, <3>3
    <2> HIDE DEF k
    <2>5. CASE hop = -1
      <3>1. NoWay
        BY GaveUp
      <3>2. Within[k] \intersect Anchors(shape) = {}
        BY <2>2, <2>5, <3>1 DEF NoWay
      <3> QED
        BY <2>2, <2>3, <3>2
    <2>6. CASE hop \in Nat
      <3>1. Within[hop] \intersect Anchors(shape) # {}
            /\ (hop > 0 => Within[hop - 1] \intersect Anchors(shape) = {})
        BY <2>6 DEF SearchInv, HopIsShortest
      <3>2. hop >= k
        BY <2>4, <2>6, <3>1
      <3>3. hop <= k
        <4>1. SUFFICES ASSUME hop > k PROVE FALSE
          BY <2>2, <2>6
        <4>2. hop - 1 \in Nat /\ hop - 1 >= k /\ hop > 0
          BY <2>2, <2>6, <4>1
        <4> QED
          BY <2>3, <3>1, <4>2
      <3> QED
        BY <2>2, <2>6, <3>2, <3>3 DEF k
    <2> QED
      BY <2>5, <2>6 DEF SearchInv
  <1> QED
    BY <1>1, AlwaysSearch, PTL

(***************************************************************************)
(* The factor graph.                                                       *)
(***************************************************************************)

\* A node whose updates have never failed numerically has for each key it
\* knows either a value or one pending, and no factor about another key.
KeysBacked ==
  \A f \in Node \ flaked :
    /\ known[f] = values[f] \union inits[f]
    /\ values[f] \intersect inits[f] = {}

GraphInv == GraphTypeOK /\ KeysBacked /\ UpdatesSucceed

LEMMA InitGraph == GraphInit => GraphInv
  BY GraphAssumption
  DEF GraphInit, GraphInv, GraphTypeOK, KeysBacked, UpdatesSucceed

\* What a callback adds keeps the invariant if it mentions no key that is
\* neither known nor added.
LEMMA AddInductive ==
  ASSUME GraphInv, NEW f \in Node, NEW keys \in SUBSET UAV, NEW mentioned \in SUBSET UAV,
         keys \intersect known[f] = {},
         mentioned \subseteq known[f] \union Seed(f) \union keys,
         Add(f, keys, mentioned)
  PROVE  GraphInv'
  <1> f \in UAV
    BY GraphAssumption
  <1>1. Seed(f) \in SUBSET UAV /\ Seed(f) \intersect known[f] = {}
    BY DEF Seed
  <1> DEFINE added == Seed(f) \union keys
  <1>2. /\ known' = [known EXCEPT ![f] = @ \union added]
        /\ inits' = [inits EXCEPT ![f] = @ \union added]
        /\ factors' = [factors EXCEPT ![f] = @ \union Seed(f) \union mentioned]
        /\ UNCHANGED <<values, flaked, failed, flakes>>
    BY DEF Add, GraphTypeOK, GraphInv
  <1>3. added \in SUBSET UAV /\ added \intersect known[f] = {}
    BY <1>1
  <1>4. Seed(f) \union mentioned \subseteq known[f] \union added
    OBVIOUS
  <1> HIDE DEF added
  <1>5. /\ known' \in [Node -> SUBSET UAV] /\ inits' \in [Node -> SUBSET UAV]
        /\ factors' \in [Node -> SUBSET UAV] /\ values' \in [Node -> SUBSET UAV]
    BY <1>1, <1>2, <1>3 DEF GraphInv, GraphTypeOK
  <1>6. ASSUME NEW g \in Node
        PROVE  inits'[g] \union factors'[g] \union values'[g] \subseteq known'[g]
    BY <1>2, <1>4, <1>6 DEF GraphInv, GraphTypeOK
  <1>7. GraphTypeOK'
    BY <1>2, <1>5, <1>6 DEF GraphInv, GraphTypeOK
  <1>8. ASSUME NEW g \in Node \ flaked
        PROVE  /\ known'[g] = values'[g] \union inits'[g]
               /\ values'[g] \intersect inits'[g] = {}
    <2>1. CASE g = f
      <3>1. values[f] \subseteq known[f] /\ values[f] \intersect inits[f] = {}
        BY <1>8, <2>1 DEF GraphInv, GraphTypeOK, KeysBacked
      <3> QED
        BY <1>2, <1>3, <1>8, <2>1, <3>1 DEF GraphInv, GraphTypeOK, KeysBacked
    <2> QED
      BY <1>2, <1>8, <2>1 DEF GraphInv, GraphTypeOK, KeysBacked
  <1>9. KeysBacked' /\ UpdatesSucceed'
    BY <1>2, <1>8 DEF GraphInv, KeysBacked, UpdatesSucceed
  <1> QED
    BY <1>7, <1>9 DEF GraphInv

\* Every callback mentions known keys only.
LEMMA HearInductive ==
  ASSUME GraphInv, NEW f \in Node, Hear(f)
  PROVE  GraphInv'
  <1> f \in UAV
    BY GraphAssumption
  <1>1. ASSUME NEW p \in UAV, OnState(f, p) PROVE GraphInv'
    <2> DEFINE keys == IF p = f THEN {} ELSE New(f, p)
    <2>1. keys \in SUBSET UAV /\ keys \intersect known[f] = {}
      BY DEF New
    <2>2. {p} \ {f} \in SUBSET UAV /\ {p} \ {f} \subseteq known[f] \union Seed(f) \union keys
      BY DEF New
    <2> QED
      BY <1>1, <2>1, <2>2, AddInductive DEF OnState
  <1>2. ASSUME NEW p \in UAV, OnPeer(f, p) \/ OnTrn(f, p) PROVE GraphInv'
    <2>1. New(f, p) \in SUBSET UAV /\ New(f, p) \intersect known[f] = {}
      BY DEF New
    <2>2. {p} \in SUBSET UAV /\ {p} \subseteq known[f] \union Seed(f) \union New(f, p)
      BY DEF New
    <2> QED
      BY <1>2, <2>1, <2>2, AddInductive DEF OnPeer, OnTrn
  <1>3. ASSUME NEW link \in Link, OnRange(f, link) PROVE GraphInv'
    <2> DEFINE mentioned == IF link \subseteq known[f] \union Seed(f) THEN link ELSE {}
    <2>1. mentioned \in SUBSET UAV /\ mentioned \subseteq known[f] \union Seed(f) \union {}
      BY GraphAssumption
    <2> QED
      BY <1>3, <2>1, AddInductive DEF OnRange
  <1> QED
    BY <1>1, <1>2, <1>3 DEF Hear

\* A node with sound bookkeeping hands an acceptable update to the smoother.
LEMMA SoundAccepted ==
  ASSUME GraphInv, NEW f \in Node \ flaked
  PROVE  Acceptable(f)
  <1>1. CASE known[f] = {}
    BY <1>1 DEF GraphInv, GraphTypeOK, Acceptable, GivenFactors, GivenInits, Seed
  <1>2. CASE known[f] # {}
    BY <1>2 DEF GraphInv, GraphTypeOK, KeysBacked, Acceptable, GivenFactors, GivenInits, Seed
  <1> QED
    BY <1>1, <1>2

LEMMA TickInductive ==
  ASSUME GraphInv, NEW f \in Node, Tick(f)
  PROVE  GraphInv'
  <1> f \in UAV
    BY GraphAssumption
  <1>1. PICK taken \in {{}, GivenInits(f)} :
          /\ values' = [values EXCEPT ![f] = @ \union taken]
          /\ f \notin flaked' => taken = GivenInits(f)
    <2>1. CASE f \in flaked
      BY <2>1 DEF Tick
    <2>2. CASE f \notin flaked
      <3>1. Acceptable(f)
        BY <2>2, SoundAccepted
      <3> QED
        BY <2>2, <3>1 DEF Tick
    <2> QED
      BY <2>1, <2>2
  <1>2. /\ known' = [known EXCEPT ![f] = @ \union Seed(f)]
        /\ inits' = [inits EXCEPT ![f] = {}]
        /\ factors' = [factors EXCEPT ![f] = {}]
    BY DEF Tick
  <1>3. /\ flaked \subseteq flaked' /\ flaked' \subseteq flaked \union {f}
        /\ failed' \subseteq failed \union {f}
        /\ f \in failed' => f \in failed \/ f \in flaked'
        /\ flakes' \in 0 .. MaxFlakes
    BY SoundAccepted, GraphAssumption DEF Tick, GraphInv, GraphTypeOK
  <1>4. Seed(f) \in SUBSET UAV /\ GivenInits(f) \in SUBSET UAV
    BY DEF Seed, GivenInits, GraphInv, GraphTypeOK
  <1>5. values[f] \union inits[f] \subseteq known[f]
    BY DEF GraphInv, GraphTypeOK
  <1>6. values'[f] \subseteq known'[f] /\ inits'[f] = {} /\ factors'[f] = {}
    BY <1>1, <1>2, <1>4, <1>5 DEF GraphInv, GraphTypeOK, GivenInits
  <1>7. /\ known' \in [Node -> SUBSET UAV] /\ inits' \in [Node -> SUBSET UAV]
        /\ factors' \in [Node -> SUBSET UAV] /\ values' \in [Node -> SUBSET UAV]
    BY <1>1, <1>2, <1>4 DEF GraphInv, GraphTypeOK
  <1>8. GraphTypeOK'
    BY <1>1, <1>2, <1>3, <1>6, <1>7 DEF GraphInv, GraphTypeOK
  <1>9. ASSUME NEW g \in Node \ flaked'
        PROVE  /\ known'[g] = values'[g] \union inits'[g]
               /\ values'[g] \intersect inits'[g] = {}
    <2>0. g \in Node \ flaked
      BY <1>3, <1>9
    <2>1. CASE g = f
      <3>1. values'[f] = values[f] \union inits[f] \union Seed(f)
        BY <1>1, <1>9, <2>1 DEF GraphInv, GraphTypeOK, GivenInits
      <3>2. known'[f] = known[f] \union Seed(f) /\ known[f] = values[f] \union inits[f]
        BY <1>2, <2>0, <2>1 DEF GraphInv, GraphTypeOK, KeysBacked
      <3> QED
        BY <1>6, <2>1, <3>1, <3>2
    <2> QED
      BY <1>1, <1>2, <2>0, <2>1 DEF GraphInv, GraphTypeOK, KeysBacked
  <1>10. KeysBacked'
    BY <1>9 DEF KeysBacked
  <1>11. UpdatesSucceed'
    BY <1>3 DEF GraphInv, UpdatesSucceed
  <1> QED
    BY <1>8, <1>10, <1>11 DEF GraphInv

LEMMA StepGraph == GraphInv /\ [GraphNext]_graphVars => GraphInv'
  <1> SUFFICES ASSUME GraphInv, [GraphNext]_graphVars PROVE GraphInv'
    OBVIOUS
  <1>1. CASE GraphNext
    BY <1>1, HearInductive, TickInductive DEF GraphNext
  <1>2. CASE UNCHANGED graphVars
    BY <1>2 DEF graphVars, GraphInv, GraphTypeOK, KeysBacked, UpdatesSucceed
  <1> QED
    BY <1>1, <1>2

LEMMA AlwaysGraph == GraphSpec => []GraphInv
  BY InitGraph, StepGraph, PTL DEF GraphSpec

\* Type correctness of the bookkeeping.
THEOREM GraphTypesAreRight == GraphSpec => []GraphTypeOK
  <1>1. GraphInv => GraphTypeOK
    BY DEF GraphInv
  <1> QED
    BY <1>1, AlwaysGraph, PTL

\* No order of callbacks and ticks makes an update fail, other than at a
\* node where one has failed numerically before.
THEOREM UpdatesNeverFail == GraphSpec => []UpdatesSucceed
  <1>1. GraphInv => UpdatesSucceed
    BY DEF GraphInv
  <1> QED
    BY <1>1, AlwaysGraph, PTL

\* A node whose updates have never failed has every key it knows in its
\* smoother after its next tick: none is lost.
THEOREM KeysAreNeverLost == GraphSpec => []KeysBacked
  <1>1. GraphInv => KeysBacked
    BY DEF GraphInv
  <1> QED
    BY <1>1, AlwaysGraph, PTL

\* Nothing that Phase 3 adds disturbs a node: what holds of the factor graphs
\* by themselves holds in every flight.
THEOREM FlightsAreFactorGraphs == Spec => GraphSpec
  <1>1. Init => GraphInit
    BY DEF Init
  <1>2. [Next]_vars => [GraphNext]_graphVars
    BY DEF Next, Fly, vars
  <1> QED
    BY <1>1, <1>2, PTL DEF Spec, GraphSpec

\* Of any positive number of errors, compute_cep reports two that exist, and
\* cep_95 is none of the smaller half.
THEOREM CepRanksExist ==
  ASSUME NEW n \in Nat \ {0}
  PROVE  MedianRank(n) \in 0 .. n - 1 /\ Rank95(n) \in MedianRank(n) .. n - 1
  <1> DEFINE q == n \div 2
             r == (95 * n) \div 100
  <1>1. q \in Nat /\ 2 * q <= n /\ n < 2 * q + 2
    OBVIOUS
  <1>2. r \in Nat /\ 100 * r <= 95 * n /\ 95 * n < 100 * r + 100
    OBVIOUS
  <1> HIDE DEF q, r
  <1>3. q <= n - 1
    BY <1>1
  <1>4. r >= q \/ r >= n - 1
    BY <1>1, <1>2
  <1> QED
    BY <1>1, <1>2, <1>3, <1>4 DEF MedianRank, Rank95, q, r

=============================================================================
