------------------------- MODULE FollowerTimersProofs -------------------------
(***************************************************************************)
(* Proofs about FollowerTimers, for any timeouts in ticks and any bounds   *)
(* on offers, timers and time.                                             *)
(***************************************************************************)
EXTENDS FollowerTimers, Integers, TLAPS

-----------------------------------------------------------------------------
(* Remainders.                                                             *)

LEMMA Division ==
  ASSUME NEW x \in Nat, NEW a \in Nat \ {0}
  PROVE  /\ x \div a \in Nat /\ x % a \in Nat /\ x % a < a
         /\ x = a * (x \div a) + (x % a)
  <1>1. x % a \in Nat /\ x % a < a
    OBVIOUS
  <1>2. x \div a \in Nat
    OBVIOUS
  <1>3. x = a * (x \div a) + (x % a)
    OBVIOUS
  <1> QED
    BY <1>1, <1>2, <1>3

\* There is only one way to divide.
LEMMA Remainder ==
  ASSUME NEW x \in Nat, NEW a \in Nat \ {0}, NEW k \in Int, NEW r \in Nat,
         r < a, x = a * k + r
  PROVE  x % a = r
  <1> DEFINE q == x \div a
             s == x % a
  <1>1. q \in Nat /\ s \in Nat /\ s < a /\ x = a * q + s
    BY Division
  <1> HIDE DEF q, s
  <1>2. CASE k >= q + 1
    <2>1. a * k >= a * (q + 1)
      BY <1>1, <1>2
    <2>2. a * (q + 1) = a * q + a
      BY <1>1
    <2>3. a * k \in Int /\ a * q \in Int
      BY <1>1
    <2> QED
      BY <1>1, <2>1, <2>2, <2>3
  <1>3. CASE q >= k + 1
    <2>1. a * q >= a * (k + 1)
      BY <1>1, <1>3
    <2>2. a * (k + 1) = a * k + a
      OBVIOUS
    <2>3. a * k \in Int /\ a * q \in Int
      BY <1>1
    <2> QED
      BY <1>1, <2>1, <2>2, <2>3
  <1>4. CASE k = q
    BY <1>1, <1>4 DEF s
  <1> QED
    BY <1>1, <1>2, <1>3, <1>4

\* The clock wraps around at a multiple of the period.
LEMMA Wrap ==
  ASSUME NEW x \in Nat, NEW a \in Nat \ {0}, NEW w \in Nat \ {0}
  PROVE  (x % (a * w)) % a = x % a
  <1> DEFINE m == a * w
             q == x \div m
             r == x % m
             p == r \div a
             s == r % a
  <1>1. m \in Nat \ {0}
    <2>1. a * w >= a * 1
      OBVIOUS
    <2> QED
      BY <2>1
  <1> HIDE DEF m
  <1>2. q \in Nat /\ r \in Nat /\ x = m * q + r
    BY <1>1, Division
  <1> HIDE DEF q, r
  <1>3. p \in Nat /\ s \in Nat /\ s < a /\ r = a * p + s
    BY <1>2, Division
  <1> HIDE DEF p, s
  <1>4. m * q = a * (w * q)
    BY <1>2 DEF m
  <1>5. w * q \in Nat
    BY <1>2
  <1>6. a * (w * q + p) = a * (w * q) + a * p
    BY <1>3, <1>5
  <1>7. x = a * (w * q + p) + s
    <2>1. a * (w * q) \in Nat /\ a * p \in Nat
      BY <1>3, <1>5
    <2> QED
      BY <1>2, <1>3, <1>4, <1>6, <2>1
  <1>8. w * q + p \in Int
    BY <1>3, <1>5
  <1>9. x % a = s
    BY <1>3, <1>7, <1>8, Remainder
  <1> QED
    BY <1>9 DEF s, r, m

\* Two clocks that agree modulo a go on agreeing.
LEMMA NextRemainder ==
  ASSUME NEW x \in Nat, NEW y \in Nat, NEW a \in Nat \ {0}, x % a = y % a
  PROVE  (x + 1) % a = (y + 1) % a
  <1> DEFINE r == x % a
             k == x \div a
             l == y \div a
  <1>1. r \in Nat /\ r < a /\ k \in Nat /\ l \in Nat /\ x = a * k + r /\ y = a * l + r
    BY Division
  <1> HIDE DEF r, k, l
  <1>2. a * k \in Nat /\ a * l \in Nat /\ a * (k + 1) = a * k + a /\ a * (l + 1) = a * l + a
    BY <1>1
  <1>3. CASE r + 1 < a
    <2>1. x + 1 = a * k + (r + 1) /\ y + 1 = a * l + (r + 1)
      BY <1>1, <1>2
    <2> QED
      BY <1>1, <1>3, <2>1, Remainder
  <1>4. CASE r + 1 = a
    <2>1. x + 1 = a * (k + 1) + 0 /\ y + 1 = a * (l + 1) + 0
      BY <1>1, <1>2, <1>4
    <2>2. k + 1 \in Int /\ l + 1 \in Int /\ 0 < a
      BY <1>1
    <2>3. x + 1 \in Nat /\ y + 1 \in Nat
      OBVIOUS
    <2>4. (x + 1) % a = 0
      BY <2>1, <2>2, <2>3, Remainder
    <2>5. (y + 1) % a = 0
      BY <2>1, <2>2, <2>3, Remainder
    <2> QED
      BY <2>4, <2>5
  <1> QED
    BY <1>1, <1>3, <1>4

LEMMA SamePhase ==
  ASSUME NEW a \in Nat \ {0}, NEW p \in 0 .. a - 1
  PROVE  (p + 0) % a = p /\ (p + a) % a = p
  <1>1. p = a * 0 + p /\ p + a = a * 1 + p /\ p \in Nat /\ p + a \in Nat /\ p < a
    OBVIOUS
  <1>2. p % a = p
    BY <1>1, Remainder
  <1>3. (p + a) % a = p
    BY <1>1, Remainder
  <1> QED
    BY <1>1, <1>2, <1>3

-----------------------------------------------------------------------------
(* The invariant.                                                          *)

\* The timer that ends this wait: it was made when the wait began, fires again
\* after exactly one period, and has not been spent before.
WindowEnds ==
  state = "DETECTING" =>
    /\ waited <= TWindow
    /\ waited = TWindow => due.window > 0
    /\ \E p \in 0 .. TWindow - 1 :
         windowTimers[p] > 0 /\ (p + waited) % TWindow = clock % TWindow

AttemptEnds ==
  state = "ATTACHING" =>
    /\ waited <= TAttach
    /\ waited = TAttach => due.attach > 0
    /\ \E p \in 0 .. TAttach - 1 :
         attachTimers[p] > 0 /\ (p + waited) % TAttach = clock % TAttach

StreamWatched ==
  /\ due.watchdog <= 1
  /\ state = "ATTACHED" => quiet <= TTimeout + 1 + due.watchdog

\* Of a round, the death is known, the window is over, and every offer but those
\* left has had its attempt.
DeadBounded ==
  /\ state = "DETECTING" => dead <= TTimeout + 2 + waited
  /\ state = "ATTACHING" =>
       /\ ranked + 1 <= MaxOffers
       /\ dead <= TTimeout + 2 + TWindow + (MaxOffers - 1 - ranked) * TAttach + waited

IInv == TypeOK /\ WindowEnds /\ AttemptEnds /\ StreamWatched /\ DeadBounded

LEMMA Parameters ==
  /\ TTimeout \in Nat \ {0} /\ TWindow \in Nat \ {0} /\ TAttach \in Nat \ {0}
  /\ MaxOffers \in Nat /\ MaxTimers \in Nat \ {0} /\ MaxOrphan \in Nat
  /\ TWindow * TAttach \in Nat \ {0} /\ TWindow * TAttach = TAttach * TWindow
  <1>1. TWindow \in Nat \ {0} /\ TAttach \in Nat \ {0}
    BY TimesAssumption
  <1>2. TWindow * TAttach >= TWindow * 1
    BY <1>1
  <1>3. TWindow * TAttach \in Nat
    BY <1>1
  <1>4. TWindow * TAttach = TAttach * TWindow
    BY <1>1
  <1> QED
    BY <1>1, <1>2, <1>3, <1>4, TimesAssumption

LEMMA Phases ==
  ASSUME NEW x \in Nat
  PROVE  x % TWindow \in 0 .. TWindow - 1 /\ x % TAttach \in 0 .. TAttach - 1
  <1>1. x % TWindow \in Nat /\ x % TWindow < TWindow /\ x % TAttach \in Nat /\ x % TAttach < TAttach
    BY Division, Parameters
  <1> QED
    BY <1>1, Parameters

LEMMA InitInductive == Init => IInv
  <1> SUFFICES ASSUME Init PROVE IInv
    OBVIOUS
  <1>1. TypeOK
    BY Parameters DEF Init, TypeOK, NothingDue
  <1>2. WindowEnds /\ AttemptEnds /\ StreamWatched /\ DeadBounded
    BY Parameters DEF Init, WindowEnds, AttemptEnds, StreamWatched, DeadBounded, NothingDue
  <1> QED
    BY <1>1, <1>2 DEF IInv

-----------------------------------------------------------------------------
(* What handlers do.                                                       *)

\* What they leave of the callbacks due.
DueTypeOK(d) ==
  /\ d \in [{"watchdog", "window", "attach"} -> 0 .. MaxTimers]
  /\ d.watchdog <= 1

LEMMA RunsFacts ==
  ASSUME IInv, NEW c \in {"watchdog", "window", "attach"}, Runs(c)
  PROVE  /\ DueTypeOK(due') /\ due[c] > 0 /\ due'[c] = due[c] - 1
         /\ \A d \in {"watchdog", "window", "attach"} : d # c => due'[d] = due[d]
  <1>1. due \in [{"watchdog", "window", "attach"} -> 0 .. MaxTimers] /\ due.watchdog <= 1
    BY DEF IInv, TypeOK, StreamWatched
  <1>2. due' = [due EXCEPT ![c] = @ - 1] /\ due[c] > 0
    BY DEF Runs
  <1>3. due[c] \in Nat /\ due[c] <= MaxTimers
    BY <1>1, Parameters
  <1>4. due[c] - 1 \in 0 .. MaxTimers
    BY <1>2, <1>3, Parameters
  <1>5. due' \in [{"watchdog", "window", "attach"} -> 0 .. MaxTimers]
    BY <1>1, <1>2, <1>4
  <1>6. due'[c] = due[c] - 1 /\ \A d \in {"watchdog", "window", "attach"} : d # c => due'[d] = due[d]
    BY <1>1, <1>2
  <1>7. due'["watchdog"] <= 1
    BY <1>1, <1>3, <1>6
  <1> QED
    BY <1>2, <1>5, <1>6, <1>7 DEF DueTypeOK

LEMMA DetectingStarts ==
  ASSUME IInv, NEW silence \in Nat, silence <= TTimeout + 2, StartDetecting(silence),
         DueTypeOK(due'), orphan' \in 0 .. MaxOrphan
  PROVE  IInv'
  <1> DEFINE p == clock % TWindow
  <1>1. /\ state' = "DETECTING" /\ dead' = silence /\ quiet' = 0 /\ waited' = 0
        /\ windowTimers' = [windowTimers EXCEPT ![p] = @ + 1] /\ windowTimers[p] < MaxTimers
        /\ clock' = clock /\ offers' = offers /\ ranked' = ranked /\ attachTimers' = attachTimers
    BY DEF StartDetecting
  <1>2. clock \in Nat /\ windowTimers \in [0 .. TWindow - 1 -> 0 .. MaxTimers]
    BY Parameters DEF IInv, TypeOK
  <1>3. p \in 0 .. TWindow - 1
    BY <1>2, Phases
  <1> HIDE DEF p
  <1>4. windowTimers[p] + 1 \in 0 .. MaxTimers /\ windowTimers[p] + 1 > 0
    BY <1>1, <1>2, <1>3, Parameters
  <1>5. windowTimers' \in [0 .. TWindow - 1 -> 0 .. MaxTimers] /\ windowTimers'[p] > 0
    BY <1>1, <1>2, <1>3, <1>4
  <1>6. TypeOK'
    BY <1>1, <1>5 DEF IInv, TypeOK, DueTypeOK
  <1>7. WindowEnds'
    <2>1. (p + 0) % TWindow = p
      BY <1>3, SamePhase, Parameters
    <2>2. (p + waited') % TWindow = clock' % TWindow
      BY <1>1, <2>1 DEF p
    <2>3. 0 <= TWindow /\ 0 # TWindow
      BY Parameters
    <2> QED
      BY <1>1, <1>3, <1>5, <2>2, <2>3 DEF WindowEnds
  <1>8. AttemptEnds' /\ StreamWatched' /\ DeadBounded'
    BY <1>1, Parameters DEF AttemptEnds, StreamWatched, DeadBounded, DueTypeOK
  <1> QED
    BY <1>6, <1>7, <1>8 DEF IInv

LEMMA Restarts ==
  ASSUME IInv, NEW silence \in Nat, silence <= TTimeout + 1, Restart(silence),
         DueTypeOK(due'), orphan' \in 0 .. MaxOrphan
  PROVE  IInv'
  <1>1. /\ state' = "ATTACHED" /\ quiet' = silence /\ dead' = 0 /\ offers' = 0 /\ ranked' = 0
        /\ waited' = 0 /\ clock' = clock /\ windowTimers' = windowTimers /\ attachTimers' = attachTimers
    BY DEF Restart, timers
  <1>2. due'["watchdog"] \in Nat
    BY Parameters DEF DueTypeOK
  <1>3. TypeOK'
    BY <1>1, Parameters DEF IInv, TypeOK, DueTypeOK
  <1>4. WindowEnds' /\ AttemptEnds' /\ DeadBounded'
    BY <1>1 DEF WindowEnds, AttemptEnds, DeadBounded
  <1>5. StreamWatched'
    BY <1>1, <1>2, Parameters DEF StreamWatched, DueTypeOK
  <1> QED
    BY <1>3, <1>4, <1>5 DEF IInv

LEMMA AttemptStarts ==
  ASSUME IInv, NEW n \in 1 .. MaxOffers, TryOffer(n, 1), DueTypeOK(due'),
         orphan' \in 0 .. MaxOrphan,
         dead <= TTimeout + 2 + TWindow + (MaxOffers - n) * TAttach
  PROVE  IInv'
  <1> DEFINE p == clock % TAttach
  <1>1. /\ state' = "ATTACHING" /\ offers' = 0 /\ ranked' = n - 1 /\ waited' = 0
        /\ attachTimers' = [attachTimers EXCEPT ![p] = @ + 1] /\ attachTimers[p] < MaxTimers
        /\ clock' = clock /\ quiet' = quiet /\ dead' = dead /\ windowTimers' = windowTimers
    BY DEF TryOffer
  <1>2. clock \in Nat /\ attachTimers \in [0 .. TAttach - 1 -> 0 .. MaxTimers]
    BY Parameters DEF IInv, TypeOK
  <1>3. p \in 0 .. TAttach - 1
    BY <1>2, Phases
  <1> HIDE DEF p
  <1>4. attachTimers[p] + 1 \in 0 .. MaxTimers /\ attachTimers[p] + 1 > 0
    BY <1>1, <1>2, <1>3, Parameters
  <1>5. attachTimers' \in [0 .. TAttach - 1 -> 0 .. MaxTimers] /\ attachTimers'[p] > 0
    BY <1>1, <1>2, <1>3, <1>4
  <1>6. n - 1 \in 0 .. MaxOffers /\ 0 \in 0 .. MaxOffers
    BY Parameters
  <1>7. TypeOK'
    BY <1>1, <1>5, <1>6 DEF IInv, TypeOK, DueTypeOK
  <1>8. AttemptEnds'
    <2>1. (p + 0) % TAttach = p
      BY <1>3, SamePhase, Parameters
    <2>2. (p + waited') % TAttach = clock' % TAttach
      BY <1>1, <2>1 DEF p
    <2>3. 0 <= TAttach /\ 0 # TAttach
      BY Parameters
    <2> QED
      BY <1>1, <1>3, <1>5, <2>2, <2>3 DEF AttemptEnds
  <1>9. WindowEnds' /\ StreamWatched'
    BY <1>1 DEF WindowEnds, StreamWatched, DueTypeOK
  <1>10. DeadBounded'
    <2>1. MaxOffers - 1 - (n - 1) = MaxOffers - n /\ (n - 1) + 1 <= MaxOffers
      BY Parameters
    <2>2. (MaxOffers - n) * TAttach \in Int
      BY Parameters
    <2>3. dead <= TTimeout + 2 + TWindow + (MaxOffers - n) * TAttach + 0
      BY <2>2, Parameters
    <2> QED
      BY <1>1, <2>1, <2>3 DEF DeadBounded
  <1> QED
    BY <1>7, <1>8, <1>9, <1>10 DEF IInv

-----------------------------------------------------------------------------
(* Time.                                                                   *)

\* The new instant has the next phase of either kind.
LEMMA NextInstant ==
  ASSUME NEW x \in Nat
  PROVE  LET y == (x + 1) % (TWindow * TAttach)
         IN  /\ y \in 0 .. TWindow * TAttach - 1
             /\ y % TWindow = (x + 1) % TWindow
             /\ y % TAttach = (x + 1) % TAttach
  <1> DEFINE y == (x + 1) % (TWindow * TAttach)
  <1>1. y \in Nat /\ y < TWindow * TAttach
    BY Division, Parameters
  <1>2. y \in 0 .. TWindow * TAttach - 1
    BY <1>1, Parameters
  <1> DEFINE z == x + 1
  <1>a. z \in Nat
    OBVIOUS
  <1>b. TWindow \in Nat \ {0} /\ TAttach \in Nat \ {0}
    BY Parameters
  <1>3. y % TWindow = (x + 1) % TWindow
    <2> HIDE DEF z
    <2>1. (z % (TWindow * TAttach)) % TWindow = z % TWindow
      BY <1>a, <1>b, Wrap
    <2> QED
      BY <2>1 DEF z
  <1>4. ((x + 1) % (TAttach * TWindow)) % TAttach = (x + 1) % TAttach
    <2> HIDE DEF z
    <2>1. (z % (TAttach * TWindow)) % TAttach = z % TAttach
      BY <1>a, <1>b, Wrap
    <2> QED
      BY <2>1 DEF z
  <1>5. y % TAttach = (x + 1) % TAttach
    BY <1>4, Parameters
  <1> QED
    BY <1>2, <1>3, <1>5

LEMMA TimePasses ==
  ASSUME IInv, Tick
  PROVE  IInv'
  <1>1. /\ due["watchdog"] = 0 /\ due["window"] = 0 /\ due["attach"] = 0
        /\ state' = state /\ offers' = offers /\ ranked' = ranked
        /\ windowTimers' = windowTimers /\ attachTimers' = attachTimers
        /\ due' = [watchdog |-> 1, window |-> windowTimers[clock' % TWindow],
                   attach |-> attachTimers[clock' % TAttach]]
        /\ quiet' = IF state = "ATTACHED" THEN quiet + 1 ELSE quiet
        /\ dead' = IF state = "ATTACHED" THEN dead ELSE dead + 1
        /\ waited' = IF state = "ATTACHED" THEN waited ELSE waited + 1
        /\ orphan < MaxOrphan /\ orphan' = orphan + 1
    BY DEF Tick, NothingDue, timers
  <1>2. /\ clock \in Nat /\ quiet \in Nat /\ dead \in Nat /\ waited \in Nat
        /\ ranked \in 0 .. MaxOffers /\ orphan \in 0 .. MaxOrphan
        /\ windowTimers \in [0 .. TWindow - 1 -> 0 .. MaxTimers]
        /\ attachTimers \in [0 .. TAttach - 1 -> 0 .. MaxTimers]
    BY Parameters DEF IInv, TypeOK
  <1>3. /\ clock' \in 0 .. TWindow * TAttach - 1
        /\ clock' % TWindow = (clock + 1) % TWindow
        /\ clock' % TAttach = (clock + 1) % TAttach
    BY <1>2, NextInstant DEF Tick
  <1>4. clock' % TWindow \in 0 .. TWindow - 1 /\ clock' % TAttach \in 0 .. TAttach - 1
    <2>1. clock + 1 \in Nat
      BY <1>2
    <2>2. (clock + 1) % TWindow \in 0 .. TWindow - 1 /\ (clock + 1) % TAttach \in 0 .. TAttach - 1
      BY <2>1, Phases
    <2> QED
      BY <1>3, <2>2
  <1>5. /\ windowTimers[clock' % TWindow] \in 0 .. MaxTimers
        /\ attachTimers[clock' % TAttach] \in 0 .. MaxTimers
    BY <1>2, <1>4
  <1>6. due' \in [{"watchdog", "window", "attach"} -> 0 .. MaxTimers]
    BY <1>1, <1>5, Parameters
  <1>7. TypeOK'
    <2>1. orphan' \in 0 .. MaxOrphan
      BY <1>1, <1>2, Parameters
    <2>2. quiet' \in Nat /\ dead' \in Nat /\ waited' \in Nat
      BY <1>1, <1>2
    <2> QED
      BY <1>1, <1>3, <1>6, <2>1, <2>2 DEF IInv, TypeOK
  <1>8. WindowEnds'
    <2> SUFFICES ASSUME state' = "DETECTING" PROVE WindowEnds'
      BY DEF WindowEnds
    <2>1. waited <= TWindow /\ waited # TWindow
      BY <1>1 DEF IInv, WindowEnds
    <2>2. waited' = waited + 1 /\ waited + 1 <= TWindow
      BY <1>1, <1>2, <2>1, Parameters
    <2>3. PICK p \in 0 .. TWindow - 1 :
            windowTimers[p] > 0 /\ (p + waited) % TWindow = clock % TWindow
      BY <1>1 DEF IInv, WindowEnds
    <2>4. ((p + waited) + 1) % TWindow = (clock + 1) % TWindow
      <3>1. p + waited \in Nat
        BY <1>2, <2>3
      <3> QED
        BY <1>2, <2>3, <3>1, NextRemainder, Parameters
    <2>5. (p + waited') % TWindow = clock' % TWindow
      <3>1. p + waited' = (p + waited) + 1
        BY <1>2, <2>2, <2>3
      <3> QED
        BY <1>3, <2>4, <3>1
    <2>6. ASSUME waited' = TWindow PROVE due'["window"] > 0
      <3>1. (p + TWindow) % TWindow = p
        BY SamePhase, Parameters
      <3>2. clock' % TWindow = p
        BY <2>5, <2>6, <3>1
      <3> QED
        BY <1>1, <2>3, <3>2
    <2> QED
      BY <1>1, <2>2, <2>3, <2>5, <2>6 DEF WindowEnds
  <1>9. AttemptEnds'
    <2> SUFFICES ASSUME state' = "ATTACHING" PROVE AttemptEnds'
      BY DEF AttemptEnds
    <2>1. waited <= TAttach /\ waited # TAttach
      BY <1>1 DEF IInv, AttemptEnds
    <2>2. waited' = waited + 1 /\ waited + 1 <= TAttach
      BY <1>1, <1>2, <2>1, Parameters
    <2>3. PICK p \in 0 .. TAttach - 1 :
            attachTimers[p] > 0 /\ (p + waited) % TAttach = clock % TAttach
      BY <1>1 DEF IInv, AttemptEnds
    <2>4. ((p + waited) + 1) % TAttach = (clock + 1) % TAttach
      <3>1. p + waited \in Nat
        BY <1>2, <2>3
      <3> QED
        BY <1>2, <2>3, <3>1, NextRemainder, Parameters
    <2>5. (p + waited') % TAttach = clock' % TAttach
      <3>1. p + waited' = (p + waited) + 1
        BY <1>2, <2>2, <2>3
      <3> QED
        BY <1>3, <2>4, <3>1
    <2>6. ASSUME waited' = TAttach PROVE due'["attach"] > 0
      <3>1. (p + TAttach) % TAttach = p
        BY SamePhase, Parameters
      <3>2. clock' % TAttach = p
        BY <2>5, <2>6, <3>1
      <3> QED
        BY <1>1, <2>3, <3>2
    <2> QED
      BY <1>1, <2>2, <2>3, <2>5, <2>6 DEF AttemptEnds
  <1>10. StreamWatched'
    BY <1>1, <1>2, Parameters DEF IInv, StreamWatched
  <1>11. DeadBounded'
    <2>1. CASE state = "DETECTING"
      BY <1>1, <1>2, <2>1, Parameters DEF IInv, DeadBounded
    <2>2. CASE state = "ATTACHING"
      <3>1. (MaxOffers - 1 - ranked) * TAttach \in Int
        BY <1>2, Parameters
      <3>2. dead <= TTimeout + 2 + TWindow + (MaxOffers - 1 - ranked) * TAttach + waited
        BY <2>2 DEF IInv, DeadBounded
      <3>3. dead + 1 <= TTimeout + 2 + TWindow + (MaxOffers - 1 - ranked) * TAttach + (waited + 1)
        BY <1>2, <3>1, <3>2, Parameters
      <3> QED
        BY <1>1, <2>2, <3>3 DEF IInv, DeadBounded
    <2>3. CASE state = "ATTACHED"
      BY <1>1, <2>3 DEF DeadBounded
    <2> QED
      BY <2>1, <2>2, <2>3 DEF IInv, TypeOK
  <1> QED
    BY <1>7, <1>8, <1>9, <1>10, <1>11 DEF IInv

-----------------------------------------------------------------------------
(* Every step.                                                             *)

\* A callback that has nothing to do, in a state that does not wait for it.
LEMMA Ignored ==
  ASSUME IInv, NEW c \in {"watchdog", "window", "attach"}, Runs(c), Ignore,
         UNCHANGED orphan,
         c = "watchdog" => state # "ATTACHED" \/ quiet < TTimeout,
         c = "window" => state # "DETECTING",
         c = "attach" => state # "ATTACHING"
  PROVE  IInv'
  <1>1. /\ clock' = clock /\ state' = state /\ quiet' = quiet /\ dead' = dead /\ offers' = offers
        /\ ranked' = ranked /\ windowTimers' = windowTimers /\ attachTimers' = attachTimers
        /\ waited' = waited /\ orphan' = orphan
    BY DEF Ignore, timers
  <1>2. /\ DueTypeOK(due') /\ due[c] > 0 /\ due'[c] = due[c] - 1
        /\ \A d \in {"watchdog", "window", "attach"} : d # c => due'[d] = due[d]
    BY RunsFacts
  <1>3. TypeOK'
    BY <1>1, <1>2 DEF IInv, TypeOK, DueTypeOK
  <1>4. WindowEnds'
    BY <1>1, <1>2 DEF IInv, WindowEnds
  <1>5. AttemptEnds'
    BY <1>1, <1>2 DEF IInv, AttemptEnds
  <1>6. StreamWatched'
    <2>1. due'["watchdog"] \in Nat /\ due'["watchdog"] <= 1 /\ quiet \in Nat
      BY <1>2, Parameters DEF IInv, TypeOK, DueTypeOK
    <2>2. CASE c = "watchdog"
      BY <1>1, <2>1, <2>2, Parameters DEF StreamWatched
    <2>3. CASE c # "watchdog"
      <3>1. due'["watchdog"] = due["watchdog"]
        BY <1>2, <2>3
      <3> QED
        BY <1>1, <3>1 DEF IInv, StreamWatched
    <2> QED
      BY <2>2, <2>3
  <1>7. DeadBounded'
    BY <1>1 DEF IInv, DeadBounded
  <1> QED
    BY <1>3, <1>4, <1>5, <1>6, <1>7 DEF IInv

LEMMA WatchdogKeeps ==
  ASSUME IInv, WatchdogTick
  PROVE  IInv'
  <1>1. Runs("watchdog") /\ UNCHANGED orphan /\ orphan \in 0 .. MaxOrphan
    BY DEF WatchdogTick, IInv, TypeOK
  <1>2. quiet \in Nat
    BY DEF IInv, TypeOK
  <1>3. DueTypeOK(due')
    BY <1>1, RunsFacts
  <1>4. CASE state = "ATTACHED" /\ quiet >= TTimeout
    <2>1. StartDetecting(quiet)
      BY <1>4 DEF WatchdogTick
    <2>2. due["watchdog"] \in Nat
      BY Parameters DEF IInv, TypeOK
    <2>3. quiet <= TTimeout + 2
      BY <1>2, <1>4, <2>2, Parameters DEF IInv, StreamWatched
    <2> QED
      BY <1>1, <1>2, <1>3, <2>1, <2>3, DetectingStarts
  <1>5. CASE ~ (state = "ATTACHED" /\ quiet >= TTimeout)
    <2>1. Ignore
      BY <1>5 DEF WatchdogTick
    <2>2. state # "ATTACHED" \/ quiet < TTimeout
      BY <1>2, <1>5, Parameters
    <2> QED
      BY <1>1, <2>1, <2>2, Ignored
  <1> QED
    BY <1>4, <1>5

LEMMA DistilledKeeps ==
  ASSUME IInv, OnDistilledHealthy \/ OnDistilledRejected
  PROVE  IInv'
  <1>1. DueTypeOK(due) /\ due' = due /\ orphan' = 0 /\ 0 \in 0 .. MaxOrphan
    BY Parameters
       DEF IInv, TypeOK, StreamWatched, DueTypeOK, OnDistilledHealthy, OnDistilledRejected
  <1>2. CASE OnDistilledRejected
    <2>1. StartDetecting(0) /\ 0 <= TTimeout + 2
      BY <1>2, Parameters DEF OnDistilledRejected
    <2> QED
      BY <1>1, <2>1, DetectingStarts
  <1>3. CASE OnDistilledHealthy
    <2>1. /\ state' = "ATTACHED" /\ quiet' = 0 /\ clock' = clock /\ dead' = dead
          /\ offers' = offers /\ ranked' = ranked /\ windowTimers' = windowTimers
          /\ attachTimers' = attachTimers /\ waited' = waited
      BY <1>3 DEF OnDistilledHealthy, timers
    <2>2. due["watchdog"] \in Nat
      BY Parameters DEF IInv, TypeOK
    <2>3. TypeOK'
      BY <1>1, <2>1 DEF IInv, TypeOK
    <2>4. WindowEnds' /\ AttemptEnds' /\ DeadBounded'
      BY <2>1 DEF WindowEnds, AttemptEnds, DeadBounded
    <2>5. StreamWatched'
      BY <1>1, <2>1, <2>2, Parameters DEF StreamWatched, DueTypeOK
    <2> QED
      BY <2>3, <2>4, <2>5 DEF IInv
  <1> QED
    BY <1>2, <1>3

LEMMA OfferKeeps ==
  ASSUME IInv, OnOffer
  PROVE  IInv'
  <1>1. /\ clock' = clock /\ state' = state /\ quiet' = quiet /\ dead' = dead /\ ranked' = ranked
        /\ windowTimers' = windowTimers /\ attachTimers' = attachTimers /\ due' = due
        /\ orphan' = orphan /\ waited' = waited /\ offers' = offers + 1 /\ offers < MaxOffers
    BY DEF OnOffer, timers
  <1>2. offers \in 0 .. MaxOffers
    BY DEF IInv, TypeOK
  <1>3. offers' \in 0 .. MaxOffers
    BY <1>1, <1>2, Parameters
  <1>4. TypeOK'
    BY <1>1, <1>3 DEF IInv, TypeOK
  <1>5. WindowEnds' /\ AttemptEnds' /\ StreamWatched' /\ DeadBounded'
    BY <1>1 DEF IInv, WindowEnds, AttemptEnds, StreamWatched, DeadBounded
  <1> QED
    BY <1>4, <1>5 DEF IInv

\* Whether the window or an attempt is over: the next offer, or another round.
LEMMA NextAttachKeeps ==
  ASSUME IInv, NEW n \in 0 .. MaxOffers, TryNextAttach(n), DueTypeOK(due'), UNCHANGED orphan,
         n > 0 => dead <= TTimeout + 2 + TWindow + (MaxOffers - n) * TAttach
  PROVE  IInv'
  <1>1. orphan' \in 0 .. MaxOrphan
    BY DEF IInv, TypeOK
  <1>2. CASE n = 0
    <2>1. TTimeout + 1 \in Nat /\ TTimeout + 1 <= TTimeout + 1
      BY Parameters
    <2>2. Restart(TTimeout + 1)
      BY <1>2 DEF TryNextAttach, RestartCycle
    <2> QED
      BY <1>1, <2>1, <2>2, Restarts
  <1>3. CASE n > 0
    <2>1. TryOffer(n, 1)
      BY <1>3 DEF TryNextAttach
    <2>2. n \in 1 .. MaxOffers
      BY <1>3, Parameters
    <2> QED
      BY <1>1, <1>3, <2>1, <2>2, AttemptStarts
  <1> QED
    BY <1>2, <1>3 DEF TryNextAttach

LEMMA WindowKeeps ==
  ASSUME IInv, CloseOfferWindow
  PROVE  IInv'
  <1>1. Runs("window") /\ UNCHANGED orphan
    BY DEF CloseOfferWindow
  <1>2. CASE state # "DETECTING"
    BY <1>1, <1>2, Ignored DEF CloseOfferWindow
  <1>3. CASE state = "DETECTING"
    <2>1. TryNextAttach(offers) /\ DueTypeOK(due') /\ offers \in 0 .. MaxOffers
      BY <1>1, <1>3, RunsFacts DEF CloseOfferWindow, IInv, TypeOK
    <2>2. dead <= TTimeout + 2 + waited /\ waited <= TWindow /\ dead \in Nat /\ waited \in Nat
      BY <1>3 DEF IInv, TypeOK, DeadBounded, WindowEnds
    <2>3. (MaxOffers - offers) * TAttach \in Nat
      <3>1. MaxOffers - offers \in Nat
        BY <2>1, Parameters
      <3> QED
        BY <3>1, Parameters
    <2>4. dead <= TTimeout + 2 + TWindow + (MaxOffers - offers) * TAttach
      BY <2>2, <2>3, Parameters
    <2> QED
      BY <1>1, <2>1, <2>4, NextAttachKeeps
  <1> QED
    BY <1>2, <1>3

LEMMA TimeoutKeeps ==
  ASSUME IInv, AttachTimeoutTick
  PROVE  IInv'
  <1>1. Runs("attach") /\ UNCHANGED orphan
    BY DEF AttachTimeoutTick
  <1>2. CASE state # "ATTACHING"
    BY <1>1, <1>2, Ignored DEF AttachTimeoutTick
  <1>3. CASE state = "ATTACHING"
    <2>1. TryNextAttach(ranked) /\ DueTypeOK(due') /\ ranked \in 0 .. MaxOffers
      BY <1>1, <1>3, RunsFacts DEF AttachTimeoutTick, IInv, TypeOK
    <2>2. /\ dead <= TTimeout + 2 + TWindow + (MaxOffers - 1 - ranked) * TAttach + waited
          /\ waited <= TAttach /\ dead \in Nat /\ waited \in Nat
      BY <1>3 DEF IInv, TypeOK, DeadBounded, AttemptEnds
    <2>3. /\ (MaxOffers - 1 - ranked) * TAttach \in Int
          /\ (MaxOffers - ranked) * TAttach = (MaxOffers - 1 - ranked) * TAttach + TAttach
      <3>1. MaxOffers - 1 - ranked \in Int /\ MaxOffers - ranked = (MaxOffers - 1 - ranked) + 1
        BY <2>1, Parameters
      <3> DEFINE k == MaxOffers - 1 - ranked
      <3>2. k * TAttach \in Int /\ (k + 1) * TAttach = k * TAttach + TAttach
        BY <3>1, Parameters
      <3> QED
        BY <3>1, <3>2
    <2>4. dead <= TTimeout + 2 + TWindow + (MaxOffers - ranked) * TAttach
      BY <2>2, <2>3, Parameters
    <2> QED
      BY <1>1, <2>1, <2>4, NextAttachKeeps
  <1> QED
    BY <1>2, <1>3

LEMMA AckKeeps ==
  ASSUME IInv, OnAck
  PROVE  IInv'
  <1>1. Restart(0) /\ due' = due /\ orphan' = 0 /\ 0 \in 0 .. MaxOrphan
    BY Parameters DEF OnAck
  <1>2. DueTypeOK(due')
    BY <1>1 DEF IInv, TypeOK, StreamWatched, DueTypeOK
  <1>3. 0 <= TTimeout + 1
    BY Parameters
  <1> QED
    BY <1>1, <1>2, <1>3, Restarts

LEMMA StepKeeps == IInv /\ [Next]_vars => IInv'
  <1> SUFFICES ASSUME IInv, [Next]_vars PROVE IInv'
    OBVIOUS
  <1>1. CASE Tick
    BY <1>1, TimePasses
  <1>2. CASE WatchdogTick
    BY <1>2, WatchdogKeeps
  <1>3. CASE OnDistilledHealthy \/ OnDistilledRejected
    BY <1>3, DistilledKeeps
  <1>4. CASE OnOffer
    BY <1>4, OfferKeeps
  <1>5. CASE CloseOfferWindow
    BY <1>5, WindowKeeps
  <1>6. CASE AttachTimeoutTick
    BY <1>6, TimeoutKeeps
  <1>7. CASE OnAck
    BY <1>7, AckKeeps
  <1>8. CASE UNCHANGED vars
    BY <1>8 DEF vars, timers, IInv, TypeOK, WindowEnds, AttemptEnds, StreamWatched, DeadBounded
  <1> QED
    BY <1>1, <1>2, <1>3, <1>4, <1>5, <1>6, <1>7, <1>8 DEF Next

LEMMA AlwaysInductive == Spec => []IInv
  BY InitInductive, StepKeeps, PTL DEF Spec

-----------------------------------------------------------------------------
(* Theorems.                                                               *)

\* Every variable keeps its type.
THEOREM TypesAreRight == Spec => []TypeOK
  <1>1. IInv => TypeOK
    BY DEF IInv
  <1> QED
    BY <1>1, AlwaysInductive, PTL

\* Whatever timers earlier rounds of follower_node.py have left behind, no wait
\* is longer than the code means it to be: each state has a timer that ends it.
THEOREM NoWaitIsOverlong == Spec => []NoOverlongWait
  <1>1. IInv => NoOverlongWait
    BY DEF IInv, StreamWatched, WindowEnds, AttemptEnds, NoOverlongWait
  <1> QED
    BY <1>1, AlwaysInductive, PTL

\* The switching time a follower would publish is bounded by one round, however
\* many rounds it has been without an anchor.
THEOREM ReportedTimesAreBounded == Spec => []ReportedTimeBounded
  <1>1. ASSUME IInv, state = "ATTACHING"
        PROVE  dead <= TTimeout + 2 + TWindow + MaxOffers * TAttach
    <2>1. /\ dead <= TTimeout + 2 + TWindow + (MaxOffers - 1 - ranked) * TAttach + waited
          /\ waited <= TAttach /\ dead \in Nat /\ waited \in Nat /\ ranked \in 0 .. MaxOffers
      BY <1>1 DEF IInv, TypeOK, DeadBounded, AttemptEnds
    <2> DEFINE k == MaxOffers - 1 - ranked
    <2>2. k \in Int /\ k + 1 <= MaxOffers
      BY <2>1, Parameters
    <2>3. k * TAttach \in Int /\ (k + 1) * TAttach = k * TAttach + TAttach
      BY <2>2, Parameters
    <2>4. (k + 1) * TAttach <= MaxOffers * TAttach
      BY <2>2, Parameters
    <2>5. MaxOffers * TAttach \in Int
      BY Parameters
    <2> HIDE DEF k
    <2>6. dead <= TTimeout + 2 + TWindow + k * TAttach + waited
      BY <2>1 DEF k
    <2> QED
      BY <2>1, <2>3, <2>4, <2>5, <2>6, Parameters
  <1>2. IInv => ReportedTimeBounded
    BY <1>1 DEF ReportedTimeBounded
  <1> QED
    BY <1>2, AlwaysInductive, PTL

=============================================================================
