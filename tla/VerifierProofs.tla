---------------------------- MODULE VerifierProofs ----------------------------
(***************************************************************************)
(* Proofs about Verifier, for any UAVs, places, tiles, queues and bounds.  *)
(***************************************************************************)
EXTENDS Verifier, FiniteSetTheorems, SequenceTheorems, WellFoundedInduction, TLAPS

-----------------------------------------------------------------------------
(* Folds. The library's induction theorems have an operator as parameter;  *)
(* that every non-empty set of numbers has a least element does as well.   *)

LEMMA Upward ==
  ASSUME NEW S, 0 \in S, \A n \in Nat : n \in S => n + 1 \in S
  PROVE  Nat \subseteq S
  <1> DEFINE T == Nat \ S
             R == OpToRel(<, Nat)
  <1>1. SUFFICES ASSUME T # {} PROVE FALSE
    OBVIOUS
  <1>2. T \subseteq Nat
    OBVIOUS
  <1>3. PICK x \in T : \A y \in T : ~ (<<y, x>> \in R)
    <2> HIDE DEF T, R
    <2>1. IsWellFoundedOn(R, Nat)
      BY NatLessThanWellFounded DEF R
    <2> QED
      BY <1>1, <1>2, <2>1, WFMin
  <1>4. x # 0 /\ x - 1 \in Nat /\ x - 1 \notin S
    OBVIOUS
  <1>5. x - 1 \in T /\ <<x - 1, x>> \in R
    BY <1>4 DEF OpToRel
  <1> QED
    BY <1>3, <1>5

LEMMA MaxFacts ==
  ASSUME NEW k \in Nat, NEW s \in SUBSET (1 .. k), s # {}
  PROVE  Max(s) \in s /\ \A x \in s : x <= Max(s)
  <1> DEFINE HasMax(t) == \E x \in t : \A y \in t : y <= x
             S == {j \in Nat : \A t \in SUBSET (1 .. j) : t # {} => HasMax(t)}
  <1>1. 0 \in S
    <2>1. 1 .. 0 = {}
      OBVIOUS
    <2>2. \A t \in SUBSET (1 .. 0) : t = {}
      BY <2>1
    <2> QED
      BY <2>2
  <1>2. ASSUME NEW j \in Nat, j \in S PROVE j + 1 \in S
    <2> SUFFICES ASSUME NEW t \in SUBSET (1 .. j + 1), t # {} PROVE HasMax(t)
      OBVIOUS
    <2>1. CASE j + 1 \in t
      BY <2>1
    <2>2. CASE j + 1 \notin t
      <3>1. t \in SUBSET (1 .. j)
        BY <2>2
      <3> QED
        BY <1>2, <3>1
    <2> QED
      BY <2>1, <2>2
  <1> HIDE DEF S
  <1>3. k \in S
    BY <1>1, <1>2, Upward
  <1>4. \E x \in s : \A y \in s : y <= x
    BY <1>3 DEF S
  <1>5. \E x \in s : \A y \in s : x >= y
    BY <1>4
  <1>6. Max(s) = CHOOSE x \in s : \A y \in s : x >= y
    BY DEF Max
  <1>7. Max(s) \in s /\ \A y \in s : Max(s) >= y
    BY <1>5, <1>6
  <1> QED
    BY <1>7

LEMMA RestFacts ==
  ASSUME NEW k \in Nat, NEW s \in SUBSET (1 .. k + 1), s # {}
  PROVE  s \ {Max(s)} \in SUBSET (1 .. k)
  <1>1. k + 1 \in Nat
    OBVIOUS
  <1>2. Max(s) \in s /\ \A x \in s : x <= Max(s)
    BY <1>1, MaxFacts
  <1>3. ASSUME NEW x \in s \ {Max(s)} PROVE x \in 1 .. k
    <2>1. x \in 1 .. k + 1 /\ Max(s) \in 1 .. k + 1 /\ x <= Max(s) /\ x # Max(s)
      BY <1>2
    <2> DEFINE m == Max(s)
    <2>2. x \in 1 .. k + 1 /\ m \in 1 .. k + 1 /\ x <= m /\ x # m
      BY <2>1
    <2> HIDE DEF m
    <2> QED
      BY <2>2
  <1> QED
    BY <1>3

LEMMA MaxOfInterval ==
  ASSUME NEW k \in Nat \ {0}
  PROVE  Max(1 .. k) = k /\ (1 .. k) \ {k} = 1 .. k - 1 /\ 1 .. k # {}
  <1>1. 1 .. k # {} /\ 1 .. k \in SUBSET (1 .. k) /\ k \in 1 .. k /\ k \in Nat
    OBVIOUS
  <1>2. Max(1 .. k) \in 1 .. k /\ k <= Max(1 .. k)
    BY <1>1, MaxFacts
  <1>3. (1 .. k) \ {k} = 1 .. k - 1
    OBVIOUS
  <1> QED
    BY <1>1, <1>2, <1>3

-----------------------------------------------------------------------------
(* The deletion.                                                           *)

Order(queue) == Reverse(Upwards(queue))

LEMMA OrderFacts ==
  ASSUME NEW T, NEW queue \in Seq(T)
  PROVE  /\ DOMAIN Order(queue) = 1 .. Len(queue)
         /\ \A i \in 1 .. Len(queue) : Order(queue)[i] = Len(queue) - i + 1
  <1>1. Len(queue) \in Nat
    BY LenProperties
  <1>2. Upwards(queue) = [i \in 1 .. Len(queue) |-> i]
    BY DEF Upwards
  <1>3. Upwards(queue) \in Seq(Nat) /\ Len(Upwards(queue)) = Len(queue)
    BY <1>1, <1>2
  <1>4. Order(queue) = [i \in 1 .. Len(queue) |-> Upwards(queue)[(Len(queue) - i) + 1]]
    BY <1>3 DEF Order, Reverse
  <1>5. \A i \in 1 .. Len(queue) : (Len(queue) - i) + 1 \in 1 .. Len(queue)
    BY <1>1
  <1> QED
    BY <1>2, <1>4, <1>5

\* What the fold makes of the first elements of the order.
StepOf(g, s, queue, indices) ==
  IF s = {} THEN queue
  ELSE Dropping(g[s \ {Max(s)}], Order(queue)[Max(s)], indices)

Folding(g, k, queue, indices) ==
  g = [s \in SUBSET (1 .. k) |-> StepOf(g, s, queue, indices)]

LEMMA FoldingExists ==
  ASSUME NEW queue, NEW indices, NEW k \in Nat
  PROVE  \E g : Folding(g, k, queue, indices)
  <1> DEFINE S == {j \in Nat : \E g : Folding(g, j, queue, indices)}
  <1>1. 0 \in S
    <2> DEFINE g == [s \in SUBSET (1 .. 0) |-> queue]
    <2>1. \A s \in SUBSET (1 .. 0) : s = {}
      OBVIOUS
    <2>2. Folding(g, 0, queue, indices)
      BY <2>1 DEF Folding, StepOf
    <2> QED
      BY <2>2
  <1>2. ASSUME NEW j \in Nat, j \in S PROVE j + 1 \in S
    <2>1. PICK g : Folding(g, j, queue, indices)
      BY <1>2
    <2> DEFINE h == [s \in SUBSET (1 .. j + 1) |-> StepOf(g, s, queue, indices)]
    <2>2. ASSUME NEW s \in SUBSET (1 .. j + 1)
          PROVE  StepOf(h, s, queue, indices) = StepOf(g, s, queue, indices)
      <3>1. CASE s = {}
        BY <3>1 DEF StepOf
      <3>2. CASE s # {}
        <4>1. s \ {Max(s)} \in SUBSET (1 .. j)
          BY <3>2, RestFacts
        <4>2. s \ {Max(s)} \in SUBSET (1 .. j + 1)
          BY <4>1
        <4>3. g[s \ {Max(s)}] = StepOf(g, s \ {Max(s)}, queue, indices)
          BY <2>1, <4>1 DEF Folding
        <4>4. h[s \ {Max(s)}] = g[s \ {Max(s)}]
          BY <4>2, <4>3
        <4> QED
          BY <4>4 DEF StepOf
      <3> QED
        BY <3>1, <3>2
    <2>3. Folding(h, j + 1, queue, indices)
      BY <2>2 DEF Folding
    <2> QED
      BY <2>3
  <1> HIDE DEF S
  <1>3. k \in S
    BY <1>1, <1>2, Upward
  <1> QED
    BY <1>3 DEF S

\* One deletion after the other, the highest index first.
LEMMA DeleteUnfolds ==
  ASSUME NEW T, NEW queue \in Seq(T), NEW indices
  PROVE  \E f : /\ f[0] = queue
                /\ \A k \in 1 .. Len(queue) :
                     f[k] = Dropping(f[k - 1], Len(queue) - k + 1, indices)
                /\ Delete(queue, indices) = f[Len(queue)]
  <1> DEFINE n == Len(queue)
             Is(g) == g = [s \in SUBSET (1 .. n) |-> StepOf(g, s, queue, indices)]
             g == CHOOSE h : Is(h)
             f == [k \in 0 .. n |-> g[1 .. k]]
  <1>1. n \in Nat
    BY LenProperties
  <1>2. DOMAIN Order(queue) = 1 .. n /\ \A i \in 1 .. n : Order(queue)[i] = n - i + 1
    BY OrderFacts
  <1>3. Delete(queue, indices) =
          (CHOOSE h : h = [s \in SUBSET (DOMAIN Order(queue)) |->
                             IF s = {} THEN queue
                             ELSE Dropping(h[s \ {Max(s)}], Order(queue)[Max(s)], indices)])
            [DOMAIN Order(queue)]
    BY DEF Delete, FoldLeft, MapThenFoldSet, Order
  <1>4. Delete(queue, indices) = g[1 .. n]
    BY <1>2, <1>3 DEF StepOf
  <1>5. \E h : Is(h)
    <2>1. \E h : Folding(h, n, queue, indices)
      BY <1>1, FoldingExists
    <2> QED
      BY <2>1 DEF Folding
  <1>6. Is(g)
    BY <1>5
  <1> HIDE DEF g
  <1>7. f[0] = queue
    <2>1. 1 .. 0 = {} /\ {} \in SUBSET (1 .. n) /\ 0 \in 0 .. n
      BY <1>1
    <2> QED
      BY <1>6, <2>1 DEF StepOf
  <1>8. ASSUME NEW k \in 1 .. n
        PROVE  f[k] = Dropping(f[k - 1], n - k + 1, indices)
    <2>1. k \in Nat \ {0} /\ k \in 0 .. n /\ k - 1 \in 0 .. n /\ 1 .. k \in SUBSET (1 .. n)
      BY <1>1
    <2>2. Max(1 .. k) = k /\ (1 .. k) \ {k} = 1 .. k - 1 /\ 1 .. k # {}
      BY <2>1, MaxOfInterval
    <2>3. g[1 .. k] = Dropping(g[1 .. k - 1], Order(queue)[k], indices)
      BY <1>6, <2>1, <2>2 DEF StepOf
    <2> QED
      BY <1>2, <2>1, <2>3
  <1>9. Delete(queue, indices) = f[n]
    BY <1>1, <1>4
  <1> QED
    BY <1>7, <1>8, <1>9

LEMMA RemoveAtFacts ==
  ASSUME NEW T, NEW q \in Seq(T), NEW i \in 1 .. Len(q)
  PROVE  RemoveAt(q, i) = [j \in 1 .. Len(q) - 1 |-> IF j < i THEN q[j] ELSE q[j + 1]]
  <1> DEFINE a == SubSeq(q, 1, i - 1)
             b == SubSeq(q, i + 1, Len(q))
             c == [j \in 1 .. Len(q) - 1 |-> IF j < i THEN q[j] ELSE q[j + 1]]
  <1>1. Len(q) \in Nat
    BY LenProperties
  <1>2. a \in Seq(T) /\ Len(a) = i - 1 /\ \A j \in 1 .. i - 1 : a[j] = q[j]
    <2>1. 1 \in 1 .. Len(q) + 1 /\ i - 1 \in 0 .. Len(q)
      BY <1>1
    <2>2. \A j \in 1 .. i - 1 : j \in 1 .. Len(q)
      BY <1>1
    <2> QED
      BY <1>1, <2>1, <2>2, SubSeqProperties
  <1>3. b \in Seq(T) /\ Len(b) = Len(q) - i /\ \A j \in 1 .. Len(q) - i : b[j] = q[j + i]
    <2>1. i + 1 \in 1 .. Len(q) + 1 /\ Len(q) \in 0 .. Len(q)
      BY <1>1
    <2> QED
      BY <1>1, <2>1, SubSeqProperties
  <1>4. RemoveAt(q, i) = a \o b
    BY DEF RemoveAt
  <1> HIDE DEF a, b
  <1>5. /\ a \o b \in Seq(T) /\ Len(a \o b) = Len(a) + Len(b)
        /\ \A j \in 1 .. Len(a) + Len(b) :
             (a \o b)[j] = IF j <= Len(a) THEN a[j] ELSE b[j - Len(a)]
    BY <1>2, <1>3, ConcatProperties
  <1>6. ASSUME NEW j \in 1 .. Len(q) - 1
        PROVE  (a \o b)[j] = IF j < i THEN q[j] ELSE q[j + 1]
    <2>1. j \in 1 .. Len(a) + Len(b)
      BY <1>1, <1>2, <1>3
    <2>2. CASE j < i
      <3>1. j <= Len(a) /\ j \in 1 .. i - 1
        BY <1>1, <1>2, <2>2
      <3> QED
        BY <1>2, <1>5, <2>1, <2>2, <3>1
    <2>3. CASE ~ (j < i)
      <3>1. j - (i - 1) \in 1 .. Len(q) - i /\ (j - (i - 1)) + i = j + 1
        BY <1>1, <2>3
      <3>2. (a \o b)[j] = b[j - (i - 1)]
        BY <1>1, <1>2, <1>5, <2>1, <2>3
      <3>3. b[j - (i - 1)] = q[(j - (i - 1)) + i]
        BY <1>3, <3>1
      <3> QED
        BY <2>3, <3>1, <3>2, <3>3
    <2> QED
      BY <2>2, <2>3
  <1>7. a \o b = [j \in 1 .. Len(q) - 1 |-> (a \o b)[j]]
    <2>1. Len(a) + Len(b) = Len(q) - 1
      BY <1>1, <1>2, <1>3
    <2> QED
      BY <1>5, <2>1, LenProperties
  <1> QED
    BY <1>4, <1>6, <1>7

\* q is what is left of queue when the indices of I are deleted.
LeftOf(q, queue, I, m, e) ==
  /\ e \in [1 .. m -> 1 .. Len(queue)]
  /\ \A i, j \in 1 .. m : i < j => e[i] < e[j]
  /\ {e[i] : i \in 1 .. m} = (1 .. Len(queue)) \ I
  /\ q = [i \in 1 .. m |-> queue[e[i]]]

\* Nothing up to index n has been deleted.
Untouched(e, n) == \A i \in 1 .. n : e[i] = i

\* Deleting one more, below all that have been deleted.
LEMMA DropOne ==
  ASSUME NEW T, NEW queue \in Seq(T), NEW q, NEW I, NEW m \in Nat, NEW e, LeftOf(q, queue, I, m, e),
         NEW n \in 1 .. Len(queue), n <= m, Untouched(e, n)
  PROVE  \E d : /\ LeftOf(RemoveAt(q, n), queue, I \union {n}, m - 1, d)
                /\ Untouched(d, n - 1)
  <1> DEFINE d == [i \in 1 .. m - 1 |-> IF i < n THEN e[i] ELSE e[i + 1]]
  <1>1. Len(queue) \in Nat /\ \A i \in 1 .. Len(queue) : queue[i] \in T
    BY LenProperties, ElementOfSeq
  <1>2. /\ e \in [1 .. m -> 1 .. Len(queue)] /\ q = [i \in 1 .. m |-> queue[e[i]]]
        /\ \A i, j \in 1 .. m : i < j => e[i] < e[j]
        /\ {e[i] : i \in 1 .. m} = (1 .. Len(queue)) \ I
    BY DEF LeftOf
  <1>3. q \in Seq(T) /\ Len(q) = m
    <2>1. \A i \in 1 .. m : queue[e[i]] \in T
      BY <1>1, <1>2
    <2>2. q \in Seq(T)
      BY <1>2, <2>1, IsASeq
    <2> QED
      BY <1>2, <2>2, LenProperties
  <1>4. n \in 1 .. m /\ m - 1 \in Nat
    BY <1>1
  <1>5. RemoveAt(q, n) = [j \in 1 .. m - 1 |-> IF j < n THEN q[j] ELSE q[j + 1]]
    BY <1>3, <1>4, RemoveAtFacts
  <1>6. \A i \in 1 .. m - 1 : i \in 1 .. m /\ i + 1 \in 1 .. m
    OBVIOUS
  <1>7. d \in [1 .. m - 1 -> 1 .. Len(queue)]
    BY <1>2, <1>6
  <1>8. ASSUME NEW i \in 1 .. m - 1, NEW j \in 1 .. m - 1, i < j
        PROVE  d[i] < d[j]
    <2>1. e[i] < e[j] /\ e[i + 1] < e[j + 1] /\ e[i] < e[j + 1]
      BY <1>2, <1>6, <1>8
    <2> QED
      BY <1>4, <1>8, <2>1
  <1>9. {d[i] : i \in 1 .. m - 1} = (1 .. Len(queue)) \ (I \union {n})
    <2>1. ASSUME NEW i \in 1 .. m - 1 PROVE d[i] \in (1 .. Len(queue)) \ (I \union {n})
      <3>1. \A j \in 1 .. m : e[j] \in (1 .. Len(queue)) \ I
        BY <1>2
      <3>2. e[n] = n
        BY <1>4 DEF Untouched
      <3>3. CASE i < n
        <4>1. d[i] = e[i] /\ e[i] < e[n]
          BY <1>2, <1>4, <1>6, <3>3
        <4> QED
          BY <1>6, <3>1, <3>2, <4>1
      <3>4. CASE ~ (i < n)
        <4>1. d[i] = e[i + 1] /\ e[n] < e[i + 1]
          BY <1>2, <1>4, <1>6, <3>4
        <4> QED
          BY <1>6, <3>1, <3>2, <4>1
      <3> QED
        BY <3>3, <3>4
    <2>2. ASSUME NEW x \in (1 .. Len(queue)) \ (I \union {n})
          PROVE  \E i \in 1 .. m - 1 : d[i] = x
      <3>1. PICK j \in 1 .. m : e[j] = x
        BY <1>2
      <3>2. j # n
        BY <1>4, <3>1 DEF Untouched
      <3>3. CASE j < n
        BY <1>4, <3>1, <3>3
      <3>4. CASE j > n
        <4>1. j - 1 \in 1 .. m - 1 /\ ~ (j - 1 < n) /\ (j - 1) + 1 = j
          BY <1>4, <3>4
        <4> QED
          BY <3>1, <4>1
      <3> QED
        BY <1>4, <3>2, <3>3, <3>4
    <2> QED
      BY <2>1, <2>2
  <1>10. RemoveAt(q, n) = [i \in 1 .. m - 1 |-> queue[d[i]]]
    <2>1. ASSUME NEW i \in 1 .. m - 1
          PROVE  (IF i < n THEN q[i] ELSE q[i + 1]) = queue[d[i]]
      BY <1>2, <1>6
    <2> QED
      BY <1>5, <2>1
  <1>11. Untouched(d, n - 1)
    BY <1>4 DEF Untouched
  <1> HIDE DEF d
  <1>12. LeftOf(RemoveAt(q, n), queue, I \union {n}, m - 1, d)
    BY <1>7, <1>8, <1>9, <1>10 DEF LeftOf
  <1> QED
    BY <1>11, <1>12

\* Delete leaves the elements of the other indices, in their order.
LEMMA DeleteFacts ==
  ASSUME NEW T, NEW queue \in Seq(T), NEW I
  PROVE  \E m \in Nat : \E e : LeftOf(Delete(queue, I), queue, I, m, e)
  <1> DEFINE n == Len(queue)
             J(k) == {i \in I : i \in 1 .. n /\ i > n - k}
             Good(q, k) == \E m \in Nat : \E e : /\ LeftOf(q, queue, J(k), m, e)
                                                   /\ n - k <= m /\ \A i \in 1 .. n - k : e[i] = i
  <1>1. n \in Nat
    BY LenProperties
  <1>2. PICK f : /\ f[0] = queue
                 /\ \A k \in 1 .. n : f[k] = Dropping(f[k - 1], n - k + 1, I)
                 /\ Delete(queue, I) = f[n]
    BY DeleteUnfolds
  <1> DEFINE S == {k \in Nat : k <= n => Good(f[k], k)}
  <1>3. 0 \in S
    <2> DEFINE e == [i \in 1 .. n |-> i]
    <2>1. J(0) = {}
      BY <1>1
    <2>2. queue = [i \in 1 .. n |-> queue[e[i]]]
      BY LenProperties
    <2>3. LeftOf(queue, queue, {}, n, e)
      BY <1>1, <2>2 DEF LeftOf
    <2>4. n - 0 <= n /\ \A i \in 1 .. n - 0 : e[i] = i
      BY <1>1
    <2> HIDE DEF e
    <2> QED
      BY <1>1, <1>2, <2>1, <2>3, <2>4
  <1>4. ASSUME NEW k \in Nat, k \in S PROVE k + 1 \in S
    <2> SUFFICES ASSUME k + 1 <= n PROVE Good(f[k + 1], k + 1)
      <3>1. k + 1 \in Nat
        OBVIOUS
      <3> HIDE DEF Good
      <3> QED
        BY <3>1
    <2>0. PICK m \in Nat : \E e : /\ LeftOf(f[k], queue, J(k), m, e)
                                  /\ n - k <= m /\ \A i \in 1 .. n - k : e[i] = i
      BY <1>1, <1>4
    <2>1. PICK e : /\ LeftOf(f[k], queue, J(k), m, e)
                   /\ n - k <= m /\ \A i \in 1 .. n - k : e[i] = i
      BY <2>0
    <2>2. /\ k + 1 \in 1 .. n /\ (k + 1) - 1 = k /\ n - (k + 1) + 1 = n - k
          /\ n - k \in 1 .. n /\ n - (k + 1) = (n - k) - 1
      BY <1>1
    <2>3. f[k + 1] = Dropping(f[k], n - k, I)
      BY <1>2, <2>2
    <2>4. CASE n - k \in I
      <3>1. J(k + 1) = J(k) \union {n - k}
        BY <1>1, <2>2, <2>4
      <3>2. PICK d : /\ LeftOf(RemoveAt(f[k], n - k), queue, J(k) \union {n - k}, m - 1, d)
                     /\ \A i \in 1 .. (n - k) - 1 : d[i] = i
        <4> DEFINE K == J(k)
                   l == n - k
                   q == f[k]
        <4>1. /\ LeftOf(q, queue, K, m, e) /\ l <= m /\ l \in 1 .. Len(queue)
              /\ Untouched(e, l)
          BY <2>1, <2>2 DEF Untouched
        <4> HIDE DEF K, l, q
        <4>2. \E d : /\ LeftOf(RemoveAt(q, l), queue, K \union {l}, m - 1, d)
                      /\ Untouched(d, l - 1)
          BY <4>1, DropOne
        <4> QED
          BY <4>2 DEF K, l, q, Untouched
      <3>3. f[k + 1] = RemoveAt(f[k], n - k)
        BY <2>3, <2>4 DEF Dropping
      <3>4. m - 1 \in Nat /\ n - (k + 1) <= m - 1
        BY <1>1, <2>1, <2>2
      <3>5. \A i \in 1 .. n - (k + 1) : d[i] = i
        BY <2>2, <3>2
      <3>6. LeftOf(f[k + 1], queue, J(k + 1), m - 1, d)
        BY <3>1, <3>2, <3>3
      <3> HIDE DEF J
      <3> QED
        BY <3>4, <3>5, <3>6
    <2>5. CASE n - k \notin I
      <3>1. J(k + 1) = J(k)
        BY <1>1, <2>2, <2>5
      <3>2. f[k + 1] = f[k]
        BY <2>3, <2>5 DEF Dropping
      <3>3. n - (k + 1) <= m /\ \A i \in 1 .. n - (k + 1) : e[i] = i
        BY <1>1, <2>1, <2>2
      <3>4. LeftOf(f[k + 1], queue, J(k + 1), m, e)
        BY <2>1, <3>1, <3>2
      <3> HIDE DEF J
      <3> QED
        BY <3>3, <3>4
    <2> QED
      BY <2>4, <2>5
  <1> HIDE DEF S
  <1>5. n \in S
    BY <1>1, <1>3, <1>4, Upward
  <1>6. Good(f[n], n)
    <2>1. n <= n
      BY <1>1
    <2> HIDE DEF Good
    <2> QED
      BY <1>5, <2>1 DEF S
  <1>7. PICK m \in Nat : \E e : LeftOf(f[n], queue, J(n), m, e)
    BY <1>6
  <1>8. PICK e : LeftOf(f[n], queue, J(n), m, e)
    BY <1>7
  <1>9. (1 .. n) \ J(n) = (1 .. n) \ I
    BY <1>1
  <1>10. LeftOf(f[n], queue, I, m, e)
    BY <1>8, <1>9 DEF LeftOf
  <1> QED
    BY <1>2, <1>10

-----------------------------------------------------------------------------
(* The invariant.                                                          *)

Elements(q) == {q[i] : i \in 1 .. Len(q)}

Distinct(q) == \A i, j \in 1 .. Len(q) : q[i] = q[j] => i = j

\* Every observation that has arrived.
Known == stored \union Elements(inbox)

\* A UAV makes one observation in a period, when its timer fires.
OnePerPeriod ==
  /\ \A o, p \in Known : o.target = p.target /\ o.timestamp = p.timestamp => o = p
  /\ \A o \in Known : o.target \in Publishing /\ o.timestamp <= clock
  /\ \A o \in Known : o.target \in due => o.timestamp # clock

\* What the subscription still has to handle is new.
Arriving ==
  /\ Distinct(inbox)
  /\ \A o \in Elements(inbox) : o \notin stored /\ o.timestamp = clock

\* What waits in the deque is there once, is foreign, and is not too old for
\* the time since the last walk.
Waiting ==
  /\ Distinct(pending) /\ Elements(pending) \subseteq stored
  /\ \A o \in Elements(pending) :
       o.target # Self /\ clock - o.timestamp <= (IF ticked THEN MaxAge ELSE MaxAge + 1)

\* Nothing is judged while it waits, nor lost without a reason.
Accounted ==
  \A o \in stored :
    IF o \in Elements(pending) THEN VotesOn(o) = <<>>
    ELSE \/ Len(VotesOn(o)) = 1
         \/ VotesOn(o) = <<>> /\ (Stale(o) \/ o \in excused)

\* Every vote is the verdict that the claim itself decides.
Truthful == \A o \in DOMAIN votes : \A i \in DOMAIN votes[o] : votes[o][i] = Verdict(o)

IInv == TypeOK /\ OnePerPeriod /\ Arriving /\ Waiting /\ Accounted /\ Truthful

-----------------------------------------------------------------------------
(* Queues.                                                                 *)

LEMMA ElementFacts ==
  ASSUME NEW T, NEW q \in Seq(T)
  PROVE  /\ Len(q) \in Nat /\ DOMAIN q = 1 .. Len(q) /\ Elements(q) \subseteq T
         /\ \A i \in 1 .. Len(q) : q[i] \in T /\ q[i] \in Elements(q)
         /\ Len(q) = 0 <=> q = <<>>
  <1>1. Len(q) \in Nat /\ DOMAIN q = 1 .. Len(q)
    BY LenProperties
  <1>2. \A i \in 1 .. Len(q) : q[i] \in T
    BY ElementOfSeq
  <1>3. Len(q) = 0 <=> q = <<>>
    BY EmptySeq
  <1> QED
    BY <1>1, <1>2, <1>3 DEF Elements

LEMMA TailFacts ==
  ASSUME NEW T, NEW q \in Seq(T), q # <<>>, Distinct(q)
  PROVE  /\ Tail(q) \in Seq(T) /\ Len(Tail(q)) = Len(q) - 1 /\ Distinct(Tail(q))
         /\ Head(q) \in Elements(q) /\ Elements(Tail(q)) = Elements(q) \ {Head(q)}
  <1>1. Len(q) \in Nat \ {0} /\ Head(q) = q[1] /\ \A i \in 1 .. Len(q) : q[i] \in T
    BY ElementFacts
  <1>2. /\ Tail(q) \in Seq(T) /\ Len(Tail(q)) = Len(q) - 1
        /\ \A i \in 1 .. Len(q) - 1 : Tail(q)[i] = q[i + 1]
    BY HeadTailProperties
  <1>3. Distinct(Tail(q))
    <2> SUFFICES ASSUME NEW i \in 1 .. Len(q) - 1, NEW j \in 1 .. Len(q) - 1, q[i + 1] = q[j + 1]
                 PROVE  i = j
      BY <1>2 DEF Distinct
    <2>1. i + 1 \in 1 .. Len(q) /\ j + 1 \in 1 .. Len(q)
      BY <1>1
    <2>2. i + 1 = j + 1
      BY <2>1 DEF Distinct
    <2> QED
      BY <2>2
  <1>4. 1 \in 1 .. Len(q)
    BY <1>1
  <1>5. ASSUME NEW x \in Elements(Tail(q)) PROVE x \in Elements(q) \ {Head(q)}
    <2>1. PICK i \in 1 .. Len(q) - 1 : x = q[i + 1]
      BY <1>2 DEF Elements
    <2>2. i + 1 \in 1 .. Len(q) /\ i + 1 # 1
      BY <1>1
    <2>3. q[i + 1] # q[1]
      BY <1>4, <2>2 DEF Distinct
    <2> QED
      BY <1>1, <2>1, <2>2, <2>3 DEF Elements
  <1>6. ASSUME NEW x \in Elements(q) \ {Head(q)} PROVE x \in Elements(Tail(q))
    <2>1. PICK i \in 1 .. Len(q) : x = q[i]
      BY DEF Elements
    <2>2. i # 1 /\ i - 1 \in 1 .. Len(q) - 1 /\ (i - 1) + 1 = i
      BY <1>1, <2>1
    <2>3. x = Tail(q)[i - 1]
      BY <1>2, <2>1, <2>2
    <2> QED
      BY <1>2, <2>2, <2>3 DEF Elements
  <1> QED
    BY <1>1, <1>2, <1>3, <1>4, <1>5, <1>6 DEF Elements

LEMMA AppendFacts ==
  ASSUME NEW T, NEW q \in Seq(T), NEW x \in T
  PROVE  /\ Append(q, x) \in Seq(T) /\ Len(Append(q, x)) = Len(q) + 1
         /\ Elements(Append(q, x)) = Elements(q) \union {x}
         /\ Distinct(q) /\ x \notin Elements(q) => Distinct(Append(q, x))
  <1>1. Len(q) \in Nat
    BY ElementFacts
  <1>2. /\ Append(q, x) \in Seq(T) /\ Len(Append(q, x)) = Len(q) + 1
        /\ \A i \in 1 .. Len(q) : Append(q, x)[i] = q[i]
        /\ Append(q, x)[Len(q) + 1] = x
    BY AppendProperties
  <1> DEFINE r == Append(q, x)
  <1> HIDE DEF r
  <1>3. /\ Len(r) = Len(q) + 1 /\ \A i \in 1 .. Len(q) : r[i] = q[i]
        /\ r[Len(q) + 1] = x
    BY <1>2 DEF r
  <1>4. \A i \in 1 .. Len(r) : i \in 1 .. Len(q) \/ i = Len(q) + 1
    BY <1>1, <1>3
  <1>5. \A i \in 1 .. Len(q) : i \in 1 .. Len(r)
    BY <1>1, <1>3
  <1>6. Len(q) + 1 \in 1 .. Len(r)
    BY <1>1, <1>3
  <1>7. Elements(r) = Elements(q) \union {x}
    <2>1. ASSUME NEW y \in Elements(r) PROVE y \in Elements(q) \union {x}
      BY <1>3, <1>4 DEF Elements
    <2>2. ASSUME NEW y \in Elements(q) PROVE y \in Elements(r)
      BY <1>3, <1>5 DEF Elements
    <2>3. x \in Elements(r)
      BY <1>3, <1>6 DEF Elements
    <2> QED
      BY <2>1, <2>2, <2>3
  <1>9. ASSUME Distinct(q), x \notin Elements(q) PROVE Distinct(r)
    <2> SUFFICES ASSUME NEW i \in 1 .. Len(r), NEW j \in 1 .. Len(r), r[i] = r[j]
                 PROVE  i = j
      BY DEF Distinct
    <2>1. CASE i \in 1 .. Len(q) /\ j \in 1 .. Len(q)
      BY <1>3, <1>9, <2>1 DEF Distinct
    <2>2. CASE i = Len(q) + 1 /\ j \in 1 .. Len(q)
      BY <1>3, <1>9, <2>2 DEF Elements
    <2>3. CASE i \in 1 .. Len(q) /\ j = Len(q) + 1
      BY <1>3, <1>9, <2>3 DEF Elements
    <2> QED
      BY <1>4, <2>1, <2>2, <2>3
  <1> QED
    BY <1>2, <1>7, <1>9 DEF r

\* A push keeps the new element, and loses the oldest when it must.
LEMMA PushFacts ==
  ASSUME NEW T, NEW q \in Seq(T), NEW x \in T, NEW limit \in Nat \ {0}, Len(q) <= limit,
         Distinct(q), x \notin Elements(q)
  PROVE  LET r == Push(q, x, limit)
         IN  /\ r \in Seq(T) /\ Len(r) <= limit /\ Distinct(r)
             /\ Elements(r) = (IF Len(q) = limit THEN Elements(q) \ {Head(q)} ELSE Elements(q))
                                \union {x}
  <1>1. Len(q) \in Nat
    BY ElementFacts
  <1>2. CASE Len(q) = limit
    <2>1. q # <<>>
      BY <1>2, ElementFacts
    <2>2. /\ Tail(q) \in Seq(T) /\ Len(Tail(q)) = Len(q) - 1 /\ Distinct(Tail(q))
          /\ Elements(Tail(q)) = Elements(q) \ {Head(q)}
      BY <2>1, TailFacts
    <2>3. x \notin Elements(Tail(q))
      BY <2>2
    <2>4. /\ Append(Tail(q), x) \in Seq(T) /\ Len(Append(Tail(q), x)) = Len(Tail(q)) + 1
          /\ Elements(Append(Tail(q), x)) = Elements(Tail(q)) \union {x}
          /\ Distinct(Append(Tail(q), x))
      <3> DEFINE s == Tail(q)
      <3> HIDE DEF s
      <3>1. s \in Seq(T) /\ Distinct(s) /\ x \notin Elements(s)
        BY <2>2, <2>3 DEF s
      <3>2. /\ Append(s, x) \in Seq(T) /\ Len(Append(s, x)) = Len(s) + 1
            /\ Elements(Append(s, x)) = Elements(s) \union {x}
            /\ Distinct(s) /\ x \notin Elements(s) => Distinct(Append(s, x))
        BY <3>1, AppendFacts
      <3> QED
        BY <3>1, <3>2 DEF s
    <2>5. Push(q, x, limit) = Append(Tail(q), x)
      BY <1>1, <1>2 DEF Push
    <2> QED
      BY <1>1, <1>2, <2>2, <2>4, <2>5
  <1>3. CASE Len(q) # limit
    <2>1. Push(q, x, limit) = Append(q, x) /\ Len(q) + 1 <= limit
      BY <1>1, <1>3 DEF Push
    <2>2. /\ Append(q, x) \in Seq(T) /\ Len(Append(q, x)) = Len(q) + 1
          /\ Elements(Append(q, x)) = Elements(q) \union {x} /\ Distinct(Append(q, x))
      BY AppendFacts
    <2> QED
      BY <1>3, <2>1, <2>2
  <1> QED
    BY <1>2, <1>3

\* The deletion, where no element occurs twice.
LEMMA DeleteElements ==
  ASSUME NEW T, NEW q \in Seq(T), Distinct(q), NEW I
  PROVE  /\ Delete(q, I) \in Seq(T) /\ Len(Delete(q, I)) <= Len(q) /\ Distinct(Delete(q, I))
         /\ Elements(Delete(q, I)) = {q[i] : i \in (1 .. Len(q)) \ I}
  <1>0. PICK m \in Nat : \E e : LeftOf(Delete(q, I), q, I, m, e)
    BY DeleteFacts
  <1>1. PICK e : LeftOf(Delete(q, I), q, I, m, e)
    BY <1>0
  <1> DEFINE r == Delete(q, I)
  <1>2. /\ e \in [1 .. m -> 1 .. Len(q)] /\ r = [i \in 1 .. m |-> q[e[i]]]
        /\ \A i, j \in 1 .. m : i < j => e[i] < e[j]
        /\ {e[i] : i \in 1 .. m} = (1 .. Len(q)) \ I
    BY <1>1 DEF LeftOf
  <1> HIDE DEF r
  <1>3. Len(q) \in Nat /\ \A i \in 1 .. Len(q) : q[i] \in T
    BY ElementFacts
  <1>4. r \in Seq(T) /\ Len(r) = m
    <2>1. \A i \in 1 .. m : q[e[i]] \in T
      BY <1>2, <1>3
    <2>2. r \in Seq(T)
      BY <1>2, <2>1, IsASeq
    <2> QED
      BY <1>2, <2>2, LenProperties
  <1>5. \A i, j \in 1 .. m : e[i] = e[j] => i = j
    <2> SUFFICES ASSUME NEW i \in 1 .. m, NEW j \in 1 .. m, e[i] = e[j] PROVE i = j
      OBVIOUS
    <2>1. e[i] \in Int
      BY <1>2, <1>3
    <2>2. CASE i < j
      <3>1. e[i] < e[j]
        BY <1>2, <2>2
      <3> QED
        BY <2>1, <3>1
    <2>3. CASE j < i
      <3>1. e[j] < e[i]
        BY <1>2, <2>3
      <3> QED
        BY <2>1, <3>1
    <2>4. i \in Int /\ j \in Int
      OBVIOUS
    <2> QED
      BY <2>2, <2>3, <2>4
  <1>6. Distinct(r)
    <2> SUFFICES ASSUME NEW i \in 1 .. m, NEW j \in 1 .. m, r[i] = r[j] PROVE i = j
      BY <1>4 DEF Distinct
    <2>1. q[e[i]] = q[e[j]] /\ e[i] \in 1 .. Len(q) /\ e[j] \in 1 .. Len(q)
      BY <1>2
    <2>2. e[i] = e[j]
      BY <2>1 DEF Distinct
    <2> QED
      BY <1>5, <2>2
  <1>7. m <= Len(q)
    <2>1. e \in Injection(1 .. m, 1 .. Len(q))
      BY <1>2, <1>5 DEF Injection, IsInjective
    <2>2. 1 \in Int /\ m \in Int /\ Len(q) \in Int
      BY <1>3
    <2>3. /\ IsFiniteSet(1 .. Len(q))
          /\ Cardinality(1 .. m) = IF 1 > m THEN 0 ELSE m - 1 + 1
          /\ Cardinality(1 .. Len(q)) = IF 1 > Len(q) THEN 0 ELSE Len(q) - 1 + 1
      BY <2>2, FS_Interval
    <2>4. Cardinality(1 .. m) <= Cardinality(1 .. Len(q))
      BY <2>1, <2>3, FS_Injection
    <2> QED
      BY <1>3, <2>3, <2>4
  <1>8. Elements(r) = {q[i] : i \in (1 .. Len(q)) \ I}
    <2>1. Elements(r) = {q[e[i]] : i \in 1 .. m}
      BY <1>2, <1>4 DEF Elements
    <2> QED
      BY <1>2, <2>1
  <1> QED
    BY <1>4, <1>6, <1>7, <1>8 DEF r

-----------------------------------------------------------------------------
(* The invariant holds.                                                    *)

LEMMA ObservationFacts ==
  /\ \A o \in Observation : o.target \in UAV /\ o.timestamp \in 0 .. Horizon
  /\ \A u, t, x : /\ ExtractDescriptors(u, t, x).target = u
                  /\ ExtractDescriptors(u, t, x).timestamp = t
  <1>1. \A u, t, x : /\ ExtractDescriptors(u, t, x).target = u
                     /\ ExtractDescriptors(u, t, x).timestamp = t
    BY DEF ExtractDescriptors, Claim
  <1> QED
    BY <1>1 DEF Observation

LEMMA InitIInv == Init => IInv
  <1> SUFFICES ASSUME Init PROVE IInv
    OBVIOUS
  <1> USE VerifierAssumption DEF Init
  <1>1. /\ Elements(inbox) = {} /\ Elements(pending) = {} /\ DOMAIN votes = {}
        /\ Len(inbox) = 0 /\ Len(pending) = 0
        /\ inbox \in Seq(Observation) /\ pending \in Seq(Observation)
    BY DEF Elements
  <1>2. TypeOK
    <2>1. 0 \in 0 .. Horizon /\ 0 \in 0 .. MaxMoves /\ 0 <= Depth /\ 0 <= MaxLen
      OBVIOUS
    <2> QED
      BY <1>1, <2>1 DEF TypeOK
  <1>3. OnePerPeriod
    BY <1>1 DEF OnePerPeriod, Known
  <1>4. Arriving /\ Waiting
    BY <1>1 DEF Arriving, Waiting, Distinct
  <1>5. Accounted /\ Truthful
    BY <1>1 DEF Accounted, Truthful
  <1> QED
    BY <1>2, <1>3, <1>4, <1>5 DEF IInv

LEMMA MaxAgeType == MaxAge \in Nat
  BY VerifierAssumption

LEMMA YoungEnough ==
  \A c, t \in Nat : ~ (c - t > MaxAge) => c - t <= MaxAge
  BY MaxAgeType

\* Nothing that Waiting speaks of has changed.
LEMMA WaitingStill ==
  ASSUME Waiting, UNCHANGED <<clock, ticked, stored>>,
         Elements(pending)' = Elements(pending), Distinct(pending)' <=> Distinct(pending)
  PROVE  Waiting'
  BY DEF Waiting

LEMMA OnPoseIInv ==
  ASSUME IInv, NEW u \in UAV, OnPose(u)
  PROVE  IInv'
  <1> USE VerifierAssumption DEF IInv, OnPose
  <1>1. TypeOK'
    BY DEF TypeOK
  <1>2. OnePerPeriod' /\ Arriving' /\ Waiting'
    <2>1. UNCHANGED <<clock, ticked, due, inbox, pending, stored>>
      OBVIOUS
    <2>2. OnePerPeriod'
      BY <2>1 DEF OnePerPeriod, Known, Elements
    <2>3. Arriving'
      BY <2>1 DEF Arriving, Distinct, Elements
    <2>4. Waiting'
      <3>1. Elements(pending)' = Elements(pending) /\ (Distinct(pending)' <=> Distinct(pending))
        BY <2>1 DEF Elements, Distinct
      <3> QED
        BY <2>1, <3>1, WaitingStill
    <2> QED
      BY <2>2, <2>3, <2>4
  <1>3. Accounted'
    BY DEF Accounted, VotesOn, Stale, Elements
  <1>4. Truthful'
    BY DEF Truthful, Verdict, Verified, Confirms
  <1> QED
    BY <1>1, <1>2, <1>3, <1>4

LEMMA PublishIInv ==
  ASSUME IInv, NEW u \in UAV, PublishObservation(u)
  PROVE  IInv'
  <1> DEFINE o == ExtractDescriptors(u, clock, at[u])
  <1> USE VerifierAssumption DEF IInv
  <1>1. /\ u \in due /\ due' = due \ {u}
        /\ UNCHANGED <<clock, ticked, at, moves, pending, votes, stored, excused>>
    BY DEF PublishObservation
  <1>2. /\ o \in Observation /\ o.target = u /\ o.timestamp = clock /\ u \in Publishing
        /\ clock \in Nat
    <2>1. clock \in 0 .. Horizon /\ at[u] \in Place /\ u \in Publishing
      BY <1>1 DEF TypeOK
    <2>2. o \in Observation
      BY <2>1 DEF Observation
    <2> QED
      BY <2>1, <2>2, ObservationFacts
  <1>3. o \notin Known
    BY <1>1, <1>2 DEF OnePerPeriod
  <1> HIDE DEF o
  <1>4. CASE inbox' = inbox
    <2>1. TypeOK'
      BY <1>1, <1>4 DEF TypeOK
    <2>2. OnePerPeriod'
      <3>1. Known' = Known /\ due' \subseteq due
        BY <1>1, <1>4 DEF Known, Elements
      <3> QED
        BY <1>1, <3>1 DEF OnePerPeriod
    <2>5. Arriving' /\ Waiting'
      BY <1>1, <1>4 DEF Arriving, Waiting, Distinct, Elements
    <2>3. Accounted'
      BY <1>1, <1>4 DEF Accounted, VotesOn, Stale, Elements
    <2>4. Truthful'
      BY <1>1, <1>4 DEF Truthful, Verdict, Verified, Confirms
    <2> QED
      BY <2>1, <2>2, <2>3, <2>4, <2>5
  <1>5. CASE inbox' = Push(inbox, o, Depth)
    <2>1. /\ inbox' \in Seq(Observation) /\ Len(inbox') <= Depth /\ Distinct(inbox')
          /\ Elements(inbox') \subseteq Elements(inbox) \union {o}
      <3>1. /\ inbox \in Seq(Observation) /\ Len(inbox) <= Depth /\ Distinct(inbox)
            /\ o \notin Elements(inbox) /\ Depth \in Nat \ {0}
        BY <1>3 DEF TypeOK, Arriving, Known
      <3>2. LET r == Push(inbox, o, Depth)
            IN  /\ r \in Seq(Observation) /\ Len(r) <= Depth /\ Distinct(r)
                /\ Elements(r) = (IF Len(inbox) = Depth THEN Elements(inbox) \ {Head(inbox)}
                                  ELSE Elements(inbox)) \union {o}
        BY <1>2, <3>1, PushFacts
      <3> QED
        BY <1>5, <3>2
    <2>2. Known' \subseteq Known \union {o}
      <3>1. Known' = stored' \union Elements(inbox')
        BY DEF Known, Elements
      <3> QED
        BY <1>1, <2>1, <3>1 DEF Known
    <2>3. TypeOK'
      BY <1>1, <2>1 DEF TypeOK
    <2>4. OnePerPeriod'
      <3>1. \A p, r \in Known' : p.target = r.target /\ p.timestamp = r.timestamp => p = r
        BY <1>1, <1>2, <2>2 DEF OnePerPeriod
      <3>2. \A p \in Known' : p.target \in Publishing /\ p.timestamp <= clock
        BY <1>2, <2>2 DEF OnePerPeriod
      <3>3. \A p \in Known' : p.target \in due' => p.timestamp # clock
        BY <1>1, <1>2, <2>2 DEF OnePerPeriod
      <3> QED
        BY <1>1, <3>1, <3>2, <3>3 DEF OnePerPeriod
    <2>5. Arriving'
      <3>1. \A p \in Elements(inbox') : p \notin stored /\ p.timestamp = clock
        BY <1>2, <1>3, <2>1 DEF Arriving, Known
      <3> QED
        BY <1>1, <2>1, <3>1 DEF Arriving, Distinct, Elements
    <2>6. Waiting'
      BY <1>1 DEF Waiting, Distinct, Elements
    <2>7. Accounted'
      BY <1>1 DEF Accounted, VotesOn, Stale, Elements
    <2>8. Truthful'
      BY <1>1 DEF Truthful, Verdict, Verified, Confirms
    <2> QED
      BY <2>3, <2>4, <2>5, <2>6, <2>7, <2>8
  <1> QED
    BY <1>4, <1>5 DEF PublishObservation, o

LEMMA OnObservationIInv ==
  ASSUME IInv, OnObservation
  PROVE  IInv'
  <1> DEFINE h == Head(inbox)
  <1> USE VerifierAssumption DEF IInv
  <1>1. /\ inbox # <<>> /\ inbox' = Tail(inbox)
        /\ UNCHANGED <<clock, ticked, at, moves, due, votes>>
    BY DEF OnObservation
  <1>2. /\ Tail(inbox) \in Seq(Observation) /\ Len(Tail(inbox)) = Len(inbox) - 1
        /\ Distinct(Tail(inbox)) /\ h \in Elements(inbox)
        /\ Elements(Tail(inbox)) = Elements(inbox) \ {h}
    BY <1>1, TailFacts DEF TypeOK, Arriving
  <1>3. /\ h \in Observation /\ h \notin stored /\ h.timestamp = clock
        /\ Len(inbox) \in Nat /\ clock \in Nat
    BY <1>2, ElementFacts DEF TypeOK, Arriving
  <1>4. /\ inbox' \in Seq(Observation) /\ Len(inbox') <= Depth /\ Distinct(inbox)'
        /\ Elements(inbox)' = Elements(inbox) \ {h}
    <2>1. Elements(inbox)' = Elements(inbox')
      BY DEF Elements
    <2>2. Distinct(inbox)' <=> Distinct(inbox')
      BY DEF Distinct
    <2>3. Len(inbox') <= Depth
      BY <1>1, <1>2, <1>3 DEF TypeOK
    <2> QED
      BY <1>1, <1>2, <2>1, <2>2, <2>3
  <1> HIDE DEF h
  <1>5. CASE Ignored(h)
    <2>1. UNCHANGED <<pending, stored, excused>>
      BY <1>5 DEF OnObservation, h
    <2>2. TypeOK'
      BY <1>1, <1>4, <2>1 DEF TypeOK
    <2>3. OnePerPeriod'
      <3>1. Known' \subseteq Known
        BY <1>4, <2>1 DEF Known
      <3> QED
        BY <1>1, <3>1 DEF OnePerPeriod
    <2>4. Arriving'
      BY <1>1, <1>4, <2>1 DEF Arriving
    <2>5. Waiting'
      BY <1>1, <2>1 DEF Waiting, Distinct, Elements
    <2>6. Accounted' /\ Truthful'
      BY <1>1, <2>1 DEF Accounted, VotesOn, Stale, Elements, Truthful, Verdict, Verified, Confirms
    <2> QED
      BY <2>2, <2>3, <2>4, <2>5, <2>6
  <1>6. CASE ~ Ignored(h)
    <2>1. /\ pending' = Push(pending, h, MaxLen) /\ stored' = stored \union {h}
          /\ excused' = IF Len(pending) = MaxLen THEN excused \union {Head(pending)} ELSE excused
      BY <1>6 DEF OnObservation, h
    <2>2. /\ pending \in Seq(Observation) /\ Len(pending) <= MaxLen /\ Distinct(pending)
          /\ h \notin Elements(pending) /\ MaxLen \in Nat \ {0}
      BY <1>3 DEF TypeOK, Waiting
    <2>3. /\ pending' \in Seq(Observation) /\ Len(pending') <= MaxLen /\ Distinct(pending)'
          /\ Elements(pending)' = (IF Len(pending) = MaxLen THEN Elements(pending) \ {Head(pending)}
                                   ELSE Elements(pending)) \union {h}
      <3>1. LET r == Push(pending, h, MaxLen)
            IN  /\ r \in Seq(Observation) /\ Len(r) <= MaxLen /\ Distinct(r)
                /\ Elements(r) = (IF Len(pending) = MaxLen THEN Elements(pending) \ {Head(pending)}
                                  ELSE Elements(pending)) \union {h}
        BY <1>3, <2>2, PushFacts
      <3>2. Elements(pending)' = Elements(pending')
        BY DEF Elements
      <3>3. Distinct(pending)' <=> Distinct(pending')
        BY DEF Distinct
      <3> QED
        BY <2>1, <3>1, <3>2, <3>3
    <2>4. Len(pending) = MaxLen => Head(pending) \in Elements(pending)
      <3>1. ASSUME Len(pending) = MaxLen PROVE pending # <<>>
        BY <2>2, <3>1, ElementFacts
      <3> QED
        BY <2>2, <3>1, TailFacts
    <2>5. Elements(pending) \subseteq stored
      BY DEF Waiting
    <2>6. TypeOK'
      <3>1. stored' \subseteq Observation /\ excused' \subseteq stored'
        BY <1>3, <2>1, <2>4, <2>5 DEF TypeOK
      <3> QED
        BY <1>1, <1>4, <2>1, <2>3, <3>1 DEF TypeOK
    <2>7. OnePerPeriod'
      <3>1. Known' = Known
        BY <1>2, <1>4, <2>1 DEF Known
      <3> QED
        BY <1>1, <3>1 DEF OnePerPeriod
    <2>8. Arriving'
      BY <1>1, <1>4, <2>1 DEF Arriving
    <2>9. Waiting'
      <3>1. Elements(pending)' \subseteq stored'
        BY <2>1, <2>3, <2>5
      <3>2. h.target # Self /\ clock - h.timestamp = 0
        BY <1>3, <1>6 DEF Ignored
      <3>3. 0 <= MaxAge /\ 0 <= MaxAge + 1
        OBVIOUS
      <3>4. \A o \in Elements(pending)' :
              o.target # Self /\ clock - o.timestamp <= (IF ticked THEN MaxAge ELSE MaxAge + 1)
        BY <2>3, <3>2, <3>3 DEF Waiting
      <3> QED
        BY <1>1, <2>3, <3>1, <3>4 DEF Waiting
    <2>10. Accounted'
      <3>1. \A o : VotesOn(o)' = VotesOn(o) /\ (Stale(o)' <=> Stale(o))
        BY <1>1 DEF VotesOn, Stale
      <3>2. VotesOn(h) = <<>>
        BY <1>3 DEF VotesOn, TypeOK
      <3> SUFFICES ASSUME NEW o \in stored'
                   PROVE  IF o \in Elements(pending)' THEN VotesOn(o) = <<>>
                          ELSE \/ Len(VotesOn(o)) = 1
                               \/ VotesOn(o) = <<>> /\ (Stale(o) \/ o \in excused')
        BY <3>1 DEF Accounted
      <3>3. CASE o = h
        BY <2>3, <3>2, <3>3
      <3>4. CASE o \in stored /\ o # h
        BY <2>1, <2>3, <2>4, <3>4 DEF Accounted
      <3> QED
        BY <2>1, <3>3, <3>4
    <2>11. Truthful'
      BY <1>1 DEF Truthful, Verdict, Verified, Confirms
    <2> QED
      BY <2>6, <2>7, <2>8, <2>9, <2>10, <2>11
  <1> QED
    BY <1>5, <1>6

\* What a deletion leaves of the deque.
LEMMA PendingWithout ==
  ASSUME pending \in Seq(Observation), Distinct(pending), NEW K
  PROVE  LET r == Delete(pending, K)
         IN  /\ r \in Seq(Observation) /\ Len(r) <= Len(pending) /\ Distinct(r)
             /\ Elements(r) = {pending[i] : i \in (1 .. Len(pending)) \ K}
  BY DeleteElements

LEMMA TickIInv ==
  ASSUME IInv, Tick
  PROVE  IInv'
  <1> USE VerifierAssumption DEF IInv
  <1>1. PICK failed \in SUBSET NearOnes :
          LET judged == {pending[i] : i \in NearOnes \ failed}
          IN  /\ votes' = [o \in DOMAIN votes \cup judged |->
                             VotesOn(o) \o (IF o \in judged THEN <<Verdict(o)>> ELSE <<>>)]
              /\ excused' = excused \cup {pending[i] : i \in failed}
    BY DEF Tick
  <1> DEFINE judged == {pending[i] : i \in NearOnes \ failed}
             spared == {pending[i] : i \in failed}
             I == StaleOnes \cup NearOnes
  <1>2. /\ votes' = [o \in DOMAIN votes \cup judged |->
                       VotesOn(o) \o (IF o \in judged THEN <<Verdict(o)>> ELSE <<>>)]
        /\ excused' = excused \cup spared
    BY <1>1
  <1>3. /\ ticked' = TRUE /\ pending' = Delete(pending, I)
        /\ UNCHANGED <<clock, at, moves, due, inbox, stored>>
    BY DEF Tick
  <1>4. /\ pending \in Seq(Observation) /\ Len(pending) \in Nat /\ Len(pending) <= MaxLen
        /\ Distinct(pending) /\ DOMAIN pending = 1 .. Len(pending)
        /\ Elements(pending) \subseteq stored
        /\ \A i \in 1 .. Len(pending) : pending[i] \in Elements(pending)
    BY ElementFacts DEF TypeOK, Waiting
  <1>5. NearOnes \subseteq 1 .. Len(pending) /\ StaleOnes \subseteq 1 .. Len(pending)
    BY <1>4 DEF NearOnes, StaleOnes
  <1>6. judged \subseteq Elements(pending) /\ spared \subseteq Elements(pending)
    BY <1>4, <1>5
  <1>7. /\ pending' \in Seq(Observation) /\ Len(pending') <= MaxLen /\ Distinct(pending)'
        /\ Elements(pending)' = {pending[i] : i \in (1 .. Len(pending)) \ I}
    <2> DEFINE K == I
               D == Delete(pending, K)
    <2> HIDE DEF K
    <2>1. /\ D \in Seq(Observation) /\ Len(D) <= Len(pending)
          /\ Distinct(D) /\ Elements(D) = {pending[i] : i \in (1 .. Len(pending)) \ K}
      BY <1>4, PendingWithout
    <2>2. pending' = D
      BY <1>3 DEF K
    <2> HIDE DEF D
    <2>3. Elements(pending)' = Elements(pending')
      BY DEF Elements
    <2>4. Distinct(pending)' <=> Distinct(pending')
      BY DEF Distinct
    <2>5. Len(D) \in Nat
      BY <2>1, ElementFacts
    <2> QED
      BY <1>4, <2>1, <2>2, <2>3, <2>4, <2>5 DEF K
  <1> HIDE DEF judged, spared, I
  <1>8. \A o \in Elements(pending) : o \in stored /\ VotesOn(o) = <<>>
    BY <1>4 DEF Accounted
  <1>9. ASSUME NEW o
        PROVE  VotesOn(o)' = IF o \in judged THEN <<Verdict(o)>> ELSE VotesOn(o)
    <2>1. CASE o \in judged
      <3>1. VotesOn(o)' = VotesOn(o) \o <<Verdict(o)>>
        BY <1>2, <2>1 DEF VotesOn
      <3>2. VotesOn(o) = <<>>
        BY <1>6, <1>8, <2>1
      <3> QED
        BY <2>1, <3>1, <3>2
    <2>2. CASE o \notin judged /\ o \in DOMAIN votes
      <3>1. VotesOn(o)' = votes[o] \o <<>>
        BY <1>2, <2>2 DEF VotesOn
      <3>2. votes[o] \in Seq({"VERIFIED", "UNVERIFIED"})
        BY <2>2 DEF TypeOK
      <3> QED
        BY <2>2, <3>1, <3>2 DEF VotesOn
    <2>3. CASE o \notin judged /\ o \notin DOMAIN votes
      BY <1>2, <2>3 DEF VotesOn
    <2> QED
      BY <2>1, <2>2, <2>3
  <1>10. DOMAIN votes' = DOMAIN votes \union judged
    BY <1>2
  <1>11. ASSUME NEW o \in DOMAIN votes'
         PROVE  votes'[o] = IF o \in judged THEN <<Verdict(o)>> ELSE votes[o]
    <2>1. votes'[o] = VotesOn(o)'
      BY <1>11 DEF VotesOn
    <2>2. o \notin judged => VotesOn(o) = votes[o]
      BY <1>10 DEF VotesOn
    <2> QED
      BY <1>9, <2>1, <2>2
  <1>12. \A o : Verdict(o) \in {"VERIFIED", "UNVERIFIED"}
    BY DEF Verdict
  <1>13. TypeOK'
    <2>1. \A o \in DOMAIN votes' : votes'[o] \in Seq({"VERIFIED", "UNVERIFIED"})
      <3> SUFFICES ASSUME NEW o \in DOMAIN votes'
                   PROVE  votes'[o] \in Seq({"VERIFIED", "UNVERIFIED"})
        OBVIOUS
      <3>1. CASE o \in judged
        <4> DEFINE v == Verdict(o)
        <4>1. votes'[o] = <<v>> /\ v \in {"VERIFIED", "UNVERIFIED"}
          BY <1>11, <1>12, <3>1
        <4> HIDE DEF v
        <4> QED
          BY <4>1
      <3>2. CASE o \notin judged
        BY <1>10, <1>11, <3>2 DEF TypeOK
      <3> QED
        BY <3>1, <3>2
    <2>2. DOMAIN votes' \subseteq stored' /\ excused' \subseteq stored'
      BY <1>2, <1>3, <1>4, <1>6, <1>10 DEF TypeOK
    <2> QED
      BY <1>3, <1>7, <2>1, <2>2 DEF TypeOK
  <1>14. OnePerPeriod' /\ Arriving'
    BY <1>3 DEF OnePerPeriod, Known, Arriving, Distinct, Elements
  <1>15. Waiting'
    <2>1. ASSUME NEW o \in Elements(pending)'
          PROVE  /\ o \in stored /\ o.target # Self /\ clock - o.timestamp <= MaxAge
      <3>1. PICK i \in (1 .. Len(pending)) \ I : o = pending[i]
        BY <1>7
      <3>2. ~ Stale(o) /\ o \in Elements(pending)
        BY <1>4, <3>1 DEF StaleOnes, I
      <3>3. clock \in Nat /\ o.timestamp \in Nat
        BY <1>4, <3>2, ObservationFacts DEF TypeOK
      <3>4. o \in stored /\ o.target # Self
        BY <1>4, <3>2 DEF Waiting
      <3>5. ~ (clock - o.timestamp > MaxAge)
        BY <3>2 DEF Stale
      <3>6. clock - o.timestamp <= MaxAge
        BY <3>3, <3>5, YoungEnough
      <3> QED
        BY <3>4, <3>6
    <2> QED
      BY <1>3, <1>7, <2>1 DEF Waiting
  <1>16. Accounted'
    <2>1. \A o : Stale(o)' <=> Stale(o)
      BY <1>3 DEF Stale
    <2> SUFFICES ASSUME NEW o \in stored
                 PROVE  IF o \in Elements(pending)' THEN VotesOn(o)' = <<>>
                        ELSE \/ Len(VotesOn(o)') = 1
                             \/ VotesOn(o)' = <<>> /\ (Stale(o) \/ o \in excused')
      BY <1>3, <2>1 DEF Accounted
    <2>2. CASE o \notin Elements(pending)
      <3>1. o \notin Elements(pending)' /\ o \notin judged
        BY <1>4, <1>6, <1>7, <2>2
      <3> QED
        BY <1>2, <1>9, <2>2, <3>1 DEF Accounted
    <2>3. CASE o \in Elements(pending)
      <3>1. PICK i \in 1 .. Len(pending) : o = pending[i]
        BY <2>3 DEF Elements
      <3>2. \A j \in 1 .. Len(pending) : pending[j] = o => j = i
        BY <3>1 DEF Distinct, Waiting
      <3>3. o \in judged <=> i \in NearOnes \ failed
        BY <1>5, <3>1, <3>2 DEF judged
      <3>4. o \in Elements(pending)' <=> i \notin I
        BY <1>7, <3>1, <3>2
      <3>5. VotesOn(o) = <<>>
        BY <1>8, <2>3
      <3>6. CASE i \notin I
        BY <1>9, <3>3, <3>4, <3>5, <3>6 DEF I
      <3>7. CASE i \in NearOnes \ failed
        BY <1>9, <3>3, <3>4, <3>7 DEF I
      <3>8. CASE i \in failed
        BY <1>2, <1>9, <3>1, <3>3, <3>4, <3>5, <3>8 DEF I, spared
      <3>9. CASE i \in StaleOnes
        <4>1. Stale(o) /\ i \notin NearOnes
          BY <1>4, <3>1, <3>9 DEF StaleOnes, NearOnes
        <4> QED
          BY <1>9, <3>3, <3>4, <3>5, <3>9, <4>1 DEF I
      <3> QED
        BY <3>6, <3>7, <3>8, <3>9 DEF I
    <2> QED
      BY <2>2, <2>3
  <1>17. Truthful'
    <2> SUFFICES ASSUME NEW o \in DOMAIN votes', NEW i \in DOMAIN votes'[o]
                 PROVE  votes'[o][i] = Verdict(o)
      BY <1>3 DEF Truthful, Verdict, Verified, Confirms, Accepted
    <2>1. CASE o \in judged
      BY <1>11, <2>1
    <2>2. CASE o \notin judged
      BY <1>10, <1>11, <2>2 DEF Truthful
    <2> QED
      BY <2>1, <2>2
  <1> QED
    BY <1>13, <1>14, <1>15, <1>16, <1>17

LEMMA AdvanceIInv ==
  ASSUME IInv, Advance
  PROVE  IInv'
  <1> USE DEF IInv
  <1>1. /\ clock < Horizon /\ ticked = TRUE /\ inbox = <<>>
        /\ clock' = clock + 1 /\ ticked' = FALSE /\ due' = Publishing
        /\ UNCHANGED <<at, moves, inbox, pending, votes, stored, excused>>
    BY DEF Advance, TypeOK
  <1>2. clock \in Nat /\ clock + 1 \in 0 .. Horizon
    BY <1>1, VerifierAssumption DEF TypeOK
  <1>3. \A o \in Observation : o.timestamp \in Nat
    BY ObservationFacts
  <1>4. Elements(pending)' = Elements(pending) /\ Elements(inbox)' = Elements(inbox)
    BY <1>1 DEF Elements
  <1>5. TypeOK'
    BY <1>1, <1>2 DEF TypeOK
  <1>6. Known \subseteq Observation
    BY ElementFacts DEF TypeOK, Known
  <1>7. OnePerPeriod'
    <2>1. Known' = Known
      BY <1>1, <1>4 DEF Known
    <2>2. \A o \in Known : o.timestamp <= clock + 1 /\ o.timestamp # clock + 1
      BY <1>2, <1>3, <1>6 DEF OnePerPeriod
    <2> QED
      BY <1>1, <2>1, <2>2 DEF OnePerPeriod
  <1>8. Arriving'
    <2>1. Elements(inbox) = {}
      BY <1>1 DEF Elements
    <2> QED
      BY <1>1, <1>4, <2>1 DEF Arriving, Distinct
  <1>9. Waiting'
    <2>1. \A o \in Elements(pending) : (clock + 1) - o.timestamp <= MaxAge + 1
      <3> SUFFICES ASSUME NEW o \in Elements(pending)
                   PROVE  (clock + 1) - o.timestamp <= MaxAge + 1
        OBVIOUS
      <3>1. clock - o.timestamp <= MaxAge
        BY <1>1 DEF Waiting
      <3>2. o.timestamp \in Nat
        BY <1>3, <1>6 DEF Waiting, Known
      <3> QED
        BY <1>2, <3>1, <3>2, MaxAgeType
    <2> QED
      BY <1>1, <1>4, <2>1 DEF Waiting, Distinct
  <1>10. Accounted'
    <2>1. \A o \in stored : Stale(o) => Stale(o)'
      <3> SUFFICES ASSUME NEW o \in stored, Stale(o) PROVE Stale(o)'
        OBVIOUS
      <3>1. o.timestamp \in Nat
        BY <1>3 DEF TypeOK
      <3>2. clock - o.timestamp > MaxAge
        BY DEF Stale
      <3>3. (clock + 1) - o.timestamp > MaxAge
        BY <1>2, <3>1, <3>2, MaxAgeType
      <3> QED
        BY <1>1, <3>3 DEF Stale
    <2>2. \A o : VotesOn(o)' = VotesOn(o)
      BY <1>1 DEF VotesOn
    <2> QED
      BY <1>1, <1>4, <2>1, <2>2 DEF Accounted
  <1>11. Truthful'
    BY <1>1 DEF Truthful, Verdict, Verified, Confirms
  <1> QED
    BY <1>5, <1>7, <1>8, <1>9, <1>10, <1>11

LEMMA NextIInv == IInv /\ [Next]_vars => IInv'
  <1> SUFFICES ASSUME IInv, [Next]_vars PROVE IInv'
    OBVIOUS
  <1>1. ASSUME NEW u \in UAV, OnPose(u) PROVE IInv'
    BY <1>1, OnPoseIInv
  <1>2. ASSUME NEW u \in UAV, PublishObservation(u) PROVE IInv'
    BY <1>2, PublishIInv
  <1>3. CASE UNCHANGED vars
    BY <1>3 DEF vars, IInv, TypeOK, OnePerPeriod, Known, Arriving, Waiting, Accounted, Truthful,
                VotesOn, Stale, Distinct, Elements, Verdict, Verified, Confirms
  <1> QED
    BY <1>1, <1>2, <1>3, OnObservationIInv, TickIInv, AdvanceIInv DEF Next

LEMMA InvariantHolds == Spec => []IInv
  BY InitIInv, NextIInv, PTL DEF Spec

-----------------------------------------------------------------------------
(* What the invariant implies.                                             *)

LEMMA HeldFacts ==
  ASSUME IInv, NEW o
  PROVE  Held(o) = IF o \in Elements(pending) THEN 1 ELSE 0
  <1> DEFINE S == {i \in DOMAIN pending : pending[i] = o}
  <1>1. Len(pending) \in Nat /\ DOMAIN pending = 1 .. Len(pending)
    BY ElementFacts DEF IInv, TypeOK
  <1>2. CASE o \in Elements(pending)
    <2>1. PICK i \in 1 .. Len(pending) : o = pending[i]
      BY <1>2 DEF Elements
    <2>2. S = {i}
      BY <1>1, <2>1 DEF IInv, Waiting, Distinct
    <2> QED
      BY <1>2, <2>2, FS_Singleton DEF Held
  <1>3. CASE o \notin Elements(pending)
    <2>1. S = {}
      BY <1>1, <1>3 DEF Elements
    <2> QED
      BY <1>3, <2>1, FS_EmptySet DEF Held
  <1> QED
    BY <1>2, <1>3

LEMMA InvariantMeansJudgedOnce == IInv => JudgedOnce
  <1> SUFFICES ASSUME IInv, NEW o \in stored
               PROVE  \/ Held(o) + Len(VotesOn(o)) = 1
                      \/ Held(o) + Len(VotesOn(o)) = 0 /\ (Stale(o) \/ o \in excused)
    BY DEF JudgedOnce
  <1>1. Held(o) = IF o \in Elements(pending) THEN 1 ELSE 0
    BY HeldFacts
  <1>2. Len(<<>>) = 0
    OBVIOUS
  <1>3. IF o \in Elements(pending) THEN VotesOn(o) = <<>>
        ELSE \/ Len(VotesOn(o)) = 1
             \/ VotesOn(o) = <<>> /\ (Stale(o) \/ o \in excused)
    BY DEF IInv, Accounted
  <1> QED
    BY <1>1, <1>2, <1>3

LEMMA InvariantMeansSound ==
  ASSUME OneIsNotEnough, IInv
  PROVE  VerdictsAreSound
  <1> SUFFICES ASSUME NEW o \in DOMAIN votes, NEW v \in Range(votes[o])
               PROVE  LET tile == TileAt(o.position)
                      IN  /\ v = "VERIFIED" =>
                                /\ tile \in Readable
                                /\ o.target \in Forger => TileAt(o.position + OffsetX) = tile
                          /\ v = "UNVERIFIED" =>
                                o.target \in Forger \/ ~ Rich(tile) \/ tile \notin Readable
    BY DEF VerdictsAreSound
  <1> DEFINE tile == TileAt(o.position)
             cost == TVerify * KModeA
  <1>1. v = Verdict(o)
    BY DEF IInv, Truthful, Range
  <1>2. o \in Observation
    BY DEF IInv, TypeOK
  <1>3. PICK u \in UAV, t \in 0 .. Horizon, x \in Place : o = ExtractDescriptors(u, t, x)
    BY <1>2 DEF Observation
  <1>4. /\ o.target = u /\ o.position = x
        /\ o.tile = TileAt(IF u \in Forger THEN x + OffsetX ELSE x)
        /\ o.count = Lesser(KModeA, Keypoints[o.tile])
    BY <1>3 DEF ExtractDescriptors, Claim
  <1>5. cost \in Nat /\ 100 <= cost
    <2>1. TVerify \in Nat /\ KModeA \in Nat
      BY VerifierAssumption
    <2>2. cost \in Nat
      BY <2>1
    <2> QED
      BY <2>2 DEF OneIsNotEnough
  <1>6. Verified(o) <=> tile \in Readable /\ 100 * Accepted(o, tile) > cost
    BY DEF Verified, Confirms
  <1>7. v = "VERIFIED" <=> Verified(o)
    BY <1>1 DEF Verdict
  <1>8. v = "UNVERIFIED" <=> ~ Verified(o)
    BY <1>1 DEF Verdict
  <1>9. x \in Int /\ tile \in 0 .. NTiles - 1 /\ Keypoints[tile] \in Nat
    <2>1. x \in Int /\ Abs(x) \in Nat /\ NTiles \in Nat \ {0}
      BY VerifierAssumption DEF Abs
    <2>2. tile \in 0 .. NTiles - 1
      BY <1>4, <2>1 DEF TileAt
    <2> QED
      BY <2>1, <2>2, VerifierAssumption
  <1> HIDE DEF tile, cost
  <1>10. CASE o.target \in Forger
    <2>1. o.tile = TileAt(o.position + OffsetX)
      BY <1>4, <1>10
    <2>2. o.tile # tile => Accepted(o, tile) = 0
      BY DEF Accepted
    <2>3. Verified(o) => o.tile = tile
      BY <1>5, <1>6, <2>2
    <2> QED
      BY <1>6, <1>7, <1>8, <1>10, <2>1, <2>3 DEF tile
  <1>11. CASE o.target \notin Forger
    <2>1. o.tile = tile /\ o.count = Lesser(KModeA, Keypoints[tile])
      BY <1>4, <1>11 DEF tile
    <2>2. Rich(tile) => 100 * o.count > cost
      BY <2>1 DEF Rich, cost
    <2>3. Rich(tile) => Keypoints[tile] >= 2
      <3>1. o.count <= Keypoints[tile]
        BY <1>9, <2>1, VerifierAssumption DEF Lesser
      <3>2. o.count \in Nat
        BY <1>9, <2>1, VerifierAssumption DEF Lesser
      <3> QED
        BY <1>5, <1>9, <2>2, <3>1, <3>2
    <2>4. Rich(tile) => Accepted(o, tile) = o.count
      BY <2>1, <2>3 DEF Accepted
    <2> QED
      BY <1>6, <1>7, <1>8, <1>11, <2>2, <2>4 DEF tile
  <1> QED
    BY <1>10, <1>11

LEMMA InvariantMeansRoom ==
  ASSUME IInv
  PROVE  /\ DemandIsMet
         /\ Demand <= MaxLen => QueueHasRoom
  <1> DEFINE h == Head(inbox)
             n == Len(pending)
             Others == Publishing \ {Self}
             Times == clock - MaxAge - 1 .. clock
             item == [i \in 1 .. n + 1 |-> IF i <= n THEN pending[i] ELSE h]
             f == [i \in 1 .. n + 1 |-> <<item[i].target, item[i].timestamp>>]
  <1>0. MaxAge \in Nat /\ MaxLen \in Nat
    BY VerifierAssumption
  <1>1. SUFFICES ASSUME inbox # <<>>, ~ Ignored(h)
                 PROVE  n < Demand /\ (Demand <= MaxLen => n < MaxLen)
    BY DEF DemandIsMet, QueueHasRoom
  <1>2. /\ n \in Nat /\ clock \in Nat /\ pending \in Seq(Observation)
        /\ \A i \in 1 .. n : pending[i] \in Elements(pending)
    BY ElementFacts DEF IInv, TypeOK
  <1>3. h \in Elements(inbox)
    BY <1>1, TailFacts DEF IInv, TypeOK, Arriving
  <1>4. h \notin stored /\ h.timestamp = clock /\ h.target # Self
    BY <1>1, <1>3 DEF IInv, Arriving, Ignored
  <1>5. \A i \in 1 .. n : /\ pending[i] \in stored /\ pending[i].target # Self
                          /\ pending[i].timestamp \in Nat
                          /\ clock - pending[i].timestamp <= MaxAge + 1
    <2> SUFFICES ASSUME NEW i \in 1 .. n
                 PROVE  /\ pending[i] \in stored /\ pending[i].target # Self
                        /\ pending[i].timestamp \in Nat
                        /\ clock - pending[i].timestamp <= MaxAge + 1
      OBVIOUS
    <2> DEFINE o == pending[i]
    <2>1. /\ o \in Elements(pending) /\ o \in stored /\ o.target # Self
          /\ clock - o.timestamp <= (IF ticked THEN MaxAge ELSE MaxAge + 1)
      BY <1>2 DEF IInv, Waiting
    <2>2. o.timestamp \in Nat
      BY <2>1, ObservationFacts DEF IInv, TypeOK
    <2> HIDE DEF o
    <2>3. clock - o.timestamp <= MaxAge + 1
      BY <1>0, <1>2, <2>1, <2>2
    <2> QED
      BY <2>1, <2>2, <2>3 DEF o
  <1>6. \A i \in 1 .. n + 1 : item[i] \in Known /\ item[i].target # Self
    BY <1>2, <1>3, <1>4, <1>5 DEF Known
  <1>7. \A i \in 1 .. n + 1 : item[i].timestamp \in Times
    <2> SUFFICES ASSUME NEW i \in 1 .. n + 1 PROVE item[i].timestamp \in Times
      OBVIOUS
    <2>1. CASE i <= n
      <3>1. i \in 1 .. n /\ item[i] = pending[i]
        BY <1>2, <2>1
      <3>2. pending[i] \in stored /\ stored \subseteq Known
        BY <1>5, <3>1 DEF Known
      <3>3. /\ pending[i].timestamp \in Nat /\ pending[i].timestamp <= clock
            /\ clock - pending[i].timestamp <= MaxAge + 1
        BY <1>5, <3>1, <3>2 DEF IInv, OnePerPeriod
      <3> DEFINE t == pending[i].timestamp
      <3>4. t \in Nat /\ t <= clock /\ clock - t <= MaxAge + 1
        BY <3>3
      <3> HIDE DEF t
      <3>5. t \in Times
        BY <1>0, <1>2, <3>4
      <3> QED
        BY <3>1, <3>5 DEF t
    <2>2. CASE ~ (i <= n)
      <3>1. item[i].timestamp = clock
        BY <1>4, <2>2
      <3>2. clock \in Times
        BY <1>0, <1>2
      <3> QED
        BY <3>1, <3>2
    <2> QED
      BY <2>1, <2>2
  <1>8. \A i \in 1 .. n + 1 : item[i].target \in Others
    BY <1>6 DEF IInv, OnePerPeriod
  <1>9. \A i, j \in 1 .. n + 1 : item[i] = item[j] => i = j
    <2> SUFFICES ASSUME NEW i \in 1 .. n + 1, NEW j \in 1 .. n + 1, item[i] = item[j]
                 PROVE  i = j
      OBVIOUS
    <2>1. CASE i <= n /\ j <= n
      BY <1>2, <2>1 DEF IInv, Waiting, Distinct
    <2>2. CASE ~ (i <= n) /\ j <= n
      BY <1>2, <1>4, <1>5, <2>2
    <2>3. CASE i <= n /\ ~ (j <= n)
      BY <1>2, <1>4, <1>5, <2>3
    <2>4. CASE ~ (i <= n) /\ ~ (j <= n)
      BY <1>2, <2>4
    <2> QED
      BY <2>1, <2>2, <2>3, <2>4
  <1> HIDE DEF item
  <1>10. f \in [1 .. n + 1 -> Others \X Times]
    <2> HIDE DEF Others, Times
    <2> QED
      BY <1>7, <1>8
  <1>11. \A i, j \in 1 .. n + 1 : f[i] = f[j] => i = j
    BY <1>6, <1>9 DEF IInv, OnePerPeriod
  <1>12. IsFiniteSet(Others) /\ Cardinality(Others) \in Nat
    BY FS_Subset, FS_CardinalityType, VerifierAssumption
  <1>13. IsFiniteSet(Times) /\ Cardinality(Times) = MaxAge + 2
    <2>1. clock - MaxAge - 1 \in Int /\ clock \in Int /\ ~ (clock - MaxAge - 1 > clock)
          /\ clock - (clock - MaxAge - 1) + 1 = MaxAge + 2
      BY <1>0, <1>2
    <2> QED
      BY <2>1, FS_Interval
  <1>14. Cardinality(1 .. n + 1) = n + 1
    <2>1. 1 \in Int /\ n + 1 \in Int /\ ~ (1 > n + 1) /\ (n + 1) - 1 + 1 = n + 1
      BY <1>2
    <2> QED
      BY <2>1, FS_Interval
  <1> HIDE DEF Others, Times, f
  <1>15. IsFiniteSet(Others \X Times) /\ Cardinality(Others \X Times) = Cardinality(Others) * (MaxAge + 2)
    BY <1>12, <1>13, FS_Product
  <1>16. f \in Injection(1 .. n + 1, Others \X Times)
    BY <1>10, <1>11 DEF Injection, IsInjective
  <1>17. Cardinality(1 .. n + 1) <= Cardinality(Others \X Times)
    BY <1>15, <1>16, FS_Injection
  <1>18. Demand \in Nat /\ n + 1 <= Demand
    <2>1. Demand = Cardinality(Others) * (MaxAge + 2)
      BY DEF Demand, Others
    <2> QED
      BY <1>0, <1>12, <1>14, <1>15, <1>17, <2>1
  <1> QED
    BY <1>0, <1>2, <1>18

-----------------------------------------------------------------------------
(* The theorems.                                                           *)

\* The deque, the subscription's queue, the clock and the votes keep their types:
\* no walk of _tick leaves a hole in the queue, and no queue outgrows its limit.
THEOREM TypesAreRight == Spec => []TypeOK
  BY InvariantHolds, PTL DEF IInv

\* An observation that has entered the deque waits there or has one verdict,
\* unless it has become stale, was evicted, or its pipeline has failed: _tick's
\* deletion by collected indices loses no claim and judges none twice.
THEOREM EveryClaimIsJudgedOnce == Spec => []JudgedOnce
  BY InvariantHolds, InvariantMeansJudgedOnce, PTL

\* A verdict depends on the claim and the verifier's images, never on where the
\* verifier is when it looks: a claim is confirmed only by an image of its place, a
\* forged one only where its displacement comes back to the tile of its place; an
\* honest one is refuted only over a poor tile, or by a verifier without an image.
THEOREM VerdictsTellTheTruth ==
  ASSUME OneIsNotEnough
  PROVE  Spec => []VerdictsAreSound
  <1>1. IInv => VerdictsAreSound
    BY InvariantMeansSound
  <1> QED
    BY <1>1, InvariantHolds, PTL

\* However long the deque is, a new observation of a foreign publisher finds fewer
\* than MaxAge + 2 observations per foreign publisher in it, whatever the order of
\* deliveries and walks; only a deque that is shorter than that evicts any.
THEOREM TheDemandIsBounded ==
  Spec => [](DemandIsMet /\ (Demand <= MaxLen => QueueHasRoom))
  <1>1. IInv => DemandIsMet /\ (Demand <= MaxLen => QueueHasRoom)
    BY InvariantMeansRoom
  <1> QED
    BY <1>1, InvariantHolds, PTL

=============================================================================
