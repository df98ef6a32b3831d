---------------------------- MODULE CampaignProofs ----------------------------
(***************************************************************************)
(* Proofs about Campaign: about its sweeps, for any number of trials,      *)
(* workers and jobs, any files left by earlier sweeps and any crashes of   *)
(* runners, and about the Phase 6 trial that it follows, for any number of *)
(* anchors, followers and kills and any schedule that leaves the warm-up   *)
(* alone.                                                                  *)
(***************************************************************************)
EXTENDS Campaign, FiniteSetTheorems, SequenceTheorems, WellFoundedInduction, TLAPS

Waiting == {todo[i] : i \in DOMAIN todo}
Taken == {r.trial : r \in futures}
Listed == {table[i].trial : i \in DOMAIN table}

Kind == {"passed", "failed", "raised", "stale", "partial", "error", "unreadable"}
RowType == [trial : Trial, kind : Kind]

SweepTypeOK ==
  /\ script \in Script /\ jobs \in Nat \ {0}
  /\ main \in {"running", "aborting", "done", "aborted"}
  /\ todo \in Seq(Trial)
  /\ busy \in [Worker -> Trial \union {Idle}]
  /\ futures \subseteq RowType
  /\ table \in Seq(RowType)
  /\ done = Len(table)
  /\ completed \in Nat

\* A trial is at one place at most, and there only once.
OnePlace ==
  /\ \A i, j \in DOMAIN todo : todo[i] = todo[j] => i = j
  /\ \A v, w \in Worker : OnTrial(v) /\ busy[v] = busy[w] => v = w
  /\ \A r, s \in futures : r.trial = s.trial => r = s
  /\ \A i, j \in DOMAIN table : table[i].trial = table[j].trial => i = j
  /\ Waiting \intersect RunningTrials = {}
  /\ Waiting \intersect Taken = {}
  /\ Waiting \intersect Listed = {}
  /\ RunningTrials \intersect Taken = {}
  /\ RunningTrials \intersect Listed = {}
  /\ Taken \intersect Listed = {}

\* Before a trial raises, none is lost; when the sweep is done, all are listed.
NoneLost ==
  /\ main = "running" => Trial = Waiting \union RunningTrials \union Taken \union Listed
  /\ main = "done" => Listed = Trial
  /\ completed # 0 => main = "done" /\ completed = Len(table)

IInv == SweepTypeOK /\ OnePlace /\ NoneLost

LEMMA Parameters ==
  /\ IsFiniteSet(Trial) /\ Cardinality(Trial) \in Nat
  /\ Trial = 0 .. (Cardinality(Trial) - 1)
  /\ Idle \notin Trial
  /\ Jobs \in [Script -> SUBSET (1 .. Cardinality(Worker))] /\ Cardinality(Worker) \in Nat
  <1>1. IsFiniteSet(Trial) /\ Trial = 0 .. (Cardinality(Trial) - 1)
    BY SweepAssumption
  <1>2. Cardinality(Trial) \in Nat
    BY <1>1, FS_CardinalityType
  <1>3. Cardinality(Worker) \in Nat
    BY SweepAssumption, FS_CardinalityType
  <1> QED
    BY <1>1, <1>2, <1>3, SweepAssumption DEF Idle

LEMMA InitInductive == Init => IInv
  <1> SUFFICES ASSUME Init PROVE IInv
    OBVIOUS
  <1> USE Parameters
  <1> DEFINE n == Cardinality(Trial)
  <1>1. todo = [i \in 1 .. n |-> i - 1] /\ \A i \in 1 .. n : i - 1 \in Trial
    BY DEF Init, SweepInit
  <1>2. todo \in Seq(Trial) /\ DOMAIN todo = 1 .. n
    BY <1>1
  <1>3. SweepTypeOK
    <2>1. script \in Script /\ jobs \in Nat \ {0}
      BY DEF Init, SweepInit
    <2> QED
      BY <1>2, <2>1 DEF Init, SweepInit, SweepTypeOK
  <1>4. Waiting = Trial
    <2>1. ASSUME NEW t \in Trial PROVE t + 1 \in 1 .. n /\ todo[t + 1] = t
      BY <1>1
    <2>2. \A i \in DOMAIN todo : todo[i] \in Trial
      BY <1>2
    <2>3. \A t \in Trial : \E i \in DOMAIN todo : todo[i] = t
      BY <1>2, <2>1
    <2> QED
      BY <2>2, <2>3 DEF Waiting
  <1>5. RunningTrials = {} /\ Taken = {} /\ Listed = {}
    BY DEF Init, SweepInit, RunningTrials, OnTrial, Taken, Listed
  <1>6. OnePlace
    BY <1>1, <1>2, <1>5 DEF Init, SweepInit, OnePlace, OnTrial
  <1>7. NoneLost
    BY <1>4, <1>5 DEF Init, SweepInit, NoneLost
  <1> QED
    BY <1>3, <1>6, <1>7 DEF IInv

-----------------------------------------------------------------------------
(* Steps.                                                                  *)

How == {"passed", "failed", "crashed"}

\* What a step of the campaign is for the sweep.
LEMMA SweepMoves ==
  ASSUME [Next]_vars
  PROVE  \/ \E w \in Worker : StartTrial(w)
         \/ \E w \in Worker, how \in How : EndTrial(w, how)
         \/ \E row \in futures : AppendRow(row) \/ Raise(row)
         \/ GiveUp \/ Finish
         \/ UNCHANGED sweepVars
  BY DEF Next, SweepStep, TrialStep, MainNext, vars, How

LEMMA RowFacts ==
  ASSUME script \in Script, NEW t \in Trial, NEW how \in How, NEW file \in FilesAfter(t, how)
  PROVE  RowOf(t, how, file) \in RowType /\ RowOf(t, how, file).trial = t
  <1> USE DEF Row, RowType, Kind, How
  <1>0. /\ file \in {"own", "left", "none"}
        /\ file = "own" /\ script # "phase6" => how # "crashed"
    BY DEF FilesAfter
  <1>1. CASE script = "phase3"
    BY <1>0, <1>1 DEF RowOf, Phase3Row
  <1>2. CASE script = "phase4"
    <2>1. RowOf(t, how, file) = Phase4Row(t, how, file)
      BY <1>2 DEF RowOf
    <2>2. CASE file = "own"
      BY <1>0, <1>2, <2>1, <2>2 DEF Phase4Row
    <2>3. CASE file = "left"
      BY <2>1, <2>3 DEF Phase4Row
    <2>4. CASE file = "none"
      BY <2>1, <2>4 DEF Phase4Row
    <2> QED
      BY <1>0, <2>2, <2>3, <2>4
  <1>3. CASE script = "phase5"
    <2>1. RowOf(t, how, file) = Phase5Row(t, how, file)
      BY <1>3 DEF RowOf
    <2>2. CASE file = "own"
      BY <1>0, <1>3, <2>1, <2>2 DEF Phase5Row
    <2>3. CASE file = "left"
      BY <2>1, <2>3 DEF Phase5Row
    <2>4. CASE file = "none"
      BY <2>1, <2>4 DEF Phase5Row
    <2> QED
      BY <1>0, <2>2, <2>3, <2>4
  <1>4. CASE script = "phase6"
    BY <1>0, <1>4 DEF RowOf, Phase6Row
  <1> QED
    BY <1>1, <1>2, <1>3, <1>4 DEF Script

LEMMA HeadAndTail ==
  ASSUME NEW S, NEW q \in Seq(S), q # <<>>
  PROVE  /\ Head(q) = q[1] /\ Head(q) \in S /\ 1 \in DOMAIN q
         /\ Tail(q) \in Seq(S)
         /\ \A i \in DOMAIN Tail(q) : i + 1 \in DOMAIN q /\ Tail(q)[i] = q[i + 1] /\ i \in Nat \ {0}
         /\ \A j \in DOMAIN q : j # 1 => j - 1 \in DOMAIN Tail(q) /\ Tail(q)[j - 1] = q[j]
  <1>1. Len(q) \in Nat \ {0} /\ DOMAIN q = 1 .. Len(q)
    OBVIOUS
  <1>2. Tail(q) \in Seq(S) /\ Len(Tail(q)) = Len(q) - 1
        /\ \A i \in 1 .. Len(Tail(q)) : Tail(q)[i] = q[i + 1]
    BY HeadTailProperties
  <1>3. DOMAIN Tail(q) = 1 .. Len(q) - 1
    BY <1>2
  <1>4. Head(q) = q[1] /\ \A i \in 1 .. Len(q) : q[i] \in S
    OBVIOUS
  <1> QED
    BY <1>1, <1>2, <1>3, <1>4

LEMMA StepStart ==
  ASSUME IInv, NEW w \in Worker, StartTrial(w)
  PROVE  IInv'
  <1> DEFINE t == Head(todo)
  <1>1. todo # <<>> /\ todo \in Seq(Trial) /\ ~OnTrial(w)
    BY DEF StartTrial, MayStart, IInv, SweepTypeOK
  <1>2. t = todo[1] /\ t \in Trial /\ 1 \in DOMAIN todo /\ t # Idle
    BY <1>1, HeadAndTail, Parameters
  <1>3. /\ todo' \in Seq(Trial)
        /\ \A i \in DOMAIN todo' : i + 1 \in DOMAIN todo /\ todo'[i] = todo[i + 1] /\ i \in Nat \ {0}
        /\ \A j \in DOMAIN todo : j # 1 => j - 1 \in DOMAIN todo' /\ todo'[j - 1] = todo[j]
    BY <1>1, HeadAndTail DEF StartTrial
  <1>4. busy' = [busy EXCEPT ![w] = t] /\ busy \in [Worker -> Trial \union {Idle}]
    BY DEF StartTrial, IInv, SweepTypeOK
  <1>5. UNCHANGED <<script, jobs, main, futures, table, done, completed>>
    BY DEF StartTrial
  <1> HIDE DEF t
  <1>6. SweepTypeOK'
    BY <1>2, <1>3, <1>4, <1>5 DEF IInv, SweepTypeOK
  <1>7. Waiting' = Waiting \ {t} /\ t \in Waiting
    <2>1. \A i, j \in DOMAIN todo : todo[i] = todo[j] => i = j
      BY DEF IInv, OnePlace
    <2>2. t \in Waiting
      BY <1>2 DEF Waiting
    <2>3. ASSUME NEW x \in Waiting' PROVE x \in Waiting \ {t}
      <3>1. PICK i \in DOMAIN todo' : x = todo'[i]
        BY DEF Waiting
      <3>2. i + 1 \in DOMAIN todo /\ x = todo[i + 1] /\ i + 1 # 1
        BY <1>3, <3>1
      <3> QED
        BY <1>2, <2>1, <3>2 DEF Waiting
    <2>4. ASSUME NEW x \in Waiting \ {t} PROVE x \in Waiting'
      <3>1. PICK j \in DOMAIN todo : x = todo[j]
        BY DEF Waiting
      <3>2. j # 1
        BY <1>2, <3>1
      <3> QED
        BY <1>3, <3>1, <3>2 DEF Waiting
    <2> QED
      BY <2>2, <2>3, <2>4
  <1>8. RunningTrials' = RunningTrials \union {t}
    BY <1>1, <1>2, <1>4 DEF RunningTrials, OnTrial
  <1>9. Taken' = Taken /\ Listed' = Listed
    BY <1>5 DEF Taken, Listed
  <1>10. OnePlace'
    <2>1. \A i, j \in DOMAIN todo' : todo'[i] = todo'[j] => i = j
      BY <1>3 DEF IInv, OnePlace
    <2>2. \A u, v \in Worker : OnTrial(u)' /\ busy'[u] = busy'[v] => u = v
      <3>1. \A v \in Worker : busy[v] # t
        BY <1>2, <1>7 DEF IInv, OnePlace, RunningTrials, OnTrial
      <3> QED
        BY <1>4, <3>1 DEF IInv, OnePlace, OnTrial
    <2>3. /\ \A r, s \in futures' : r.trial = s.trial => r = s
          /\ \A i, j \in DOMAIN table' : table'[i].trial = table'[j].trial => i = j
      BY <1>5 DEF IInv, OnePlace
    <2>4. /\ Waiting' \intersect RunningTrials' = {}
          /\ Waiting' \intersect Taken' = {}
          /\ Waiting' \intersect Listed' = {}
          /\ RunningTrials' \intersect Taken' = {}
          /\ RunningTrials' \intersect Listed' = {}
          /\ Taken' \intersect Listed' = {}
      BY <1>7, <1>8, <1>9 DEF IInv, OnePlace
    <2> QED
      BY <2>1, <2>2, <2>3, <2>4 DEF OnePlace
  <1>11. NoneLost'
    BY <1>5, <1>7, <1>8, <1>9 DEF IInv, NoneLost
  <1> QED
    BY <1>6, <1>10, <1>11 DEF IInv

LEMMA StepEnd ==
  ASSUME IInv, NEW w \in Worker, NEW how \in How, EndTrial(w, how)
  PROVE  IInv'
  <1> DEFINE t == busy[w]
  <1>1. t \in Trial /\ t \in RunningTrials /\ OnTrial(w)
    BY DEF EndTrial, OnTrial, RunningTrials, IInv, SweepTypeOK
  <1>2. PICK file \in FilesAfter(t, how) : futures' = futures \union {RowOf(t, how, file)}
    BY DEF EndTrial
  <1> DEFINE r == RowOf(t, how, file)
  <1>3. r \in RowType /\ r.trial = t
    BY <1>1, RowFacts DEF IInv, SweepTypeOK
  <1>4. futures' = futures \union {r}
    BY <1>2
  <1>5. busy' = [busy EXCEPT ![w] = Idle] /\ busy \in [Worker -> Trial \union {Idle}]
    BY DEF EndTrial, IInv, SweepTypeOK
  <1>6. UNCHANGED <<script, jobs, main, todo, table, done, completed>>
    BY DEF EndTrial
  <1> HIDE DEF r
  <1>7. SweepTypeOK'
    BY <1>3, <1>4, <1>5, <1>6 DEF IInv, SweepTypeOK
  <1>8. RunningTrials' = RunningTrials \ {t}
    <2>1. \A v \in Worker : v # w => busy'[v] = busy[v] /\ (OnTrial(v) => busy[v] # t)
      BY <1>5 DEF IInv, OnePlace, OnTrial
    <2>2. busy'[w] = Idle
      BY <1>5
    <2> HIDE DEF t
    <2>3. ASSUME NEW x \in RunningTrials' PROVE x \in RunningTrials \ {t}
      BY <2>1, <2>2 DEF RunningTrials, OnTrial
    <2>4. ASSUME NEW x \in RunningTrials \ {t} PROVE x \in RunningTrials'
      <3>1. PICK v \in Worker : OnTrial(v) /\ x = busy[v]
        BY DEF RunningTrials
      <3>2. v # w
        BY <3>1, <2>4 DEF t
      <3>3. busy'[v] = x /\ x # Idle
        BY <2>1, <3>1, <3>2 DEF OnTrial
      <3> QED
        BY <3>3 DEF RunningTrials, OnTrial
    <2> QED
      BY <2>3, <2>4
  <1>9. Waiting' = Waiting /\ Listed' = Listed
    BY <1>6 DEF Waiting, Listed
  <1>10. Taken' = Taken \union {t}
    BY <1>3, <1>4 DEF Taken
  <1>11. OnePlace'
    <2>1. \A i, j \in DOMAIN todo' : todo'[i] = todo'[j] => i = j
      BY <1>6 DEF IInv, OnePlace
    <2>2. \A u, v \in Worker : OnTrial(u)' /\ busy'[u] = busy'[v] => u = v
      BY <1>5 DEF IInv, OnePlace, OnTrial
    <2>3. \A q, s \in futures' : q.trial = s.trial => q = s
      <3>1. \A q \in futures : q.trial # t
        BY <1>1 DEF IInv, OnePlace, Taken
      <3> QED
        BY <1>3, <1>4, <3>1 DEF IInv, OnePlace
    <2>4. \A i, j \in DOMAIN table' : table'[i].trial = table'[j].trial => i = j
      BY <1>6 DEF IInv, OnePlace
    <2> HIDE DEF t
    <2>5. /\ Waiting' \intersect RunningTrials' = {}
          /\ Waiting' \intersect Taken' = {}
          /\ Waiting' \intersect Listed' = {}
          /\ RunningTrials' \intersect Taken' = {}
          /\ RunningTrials' \intersect Listed' = {}
          /\ Taken' \intersect Listed' = {}
      BY <1>1, <1>8, <1>9, <1>10 DEF IInv, OnePlace
    <2> QED
      BY <2>1, <2>2, <2>3, <2>4, <2>5 DEF OnePlace
  <1>12. NoneLost'
    <2> HIDE DEF t
    <2> QED
      BY <1>1, <1>6, <1>8, <1>9, <1>10 DEF IInv, NoneLost
  <1> QED
    BY <1>7, <1>11, <1>12 DEF IInv

LEMMA StepAppend ==
  ASSUME IInv, NEW row \in futures, AppendRow(row)
  PROVE  IInv'
  <1> DEFINE t == row.trial
             n == Len(table)
  <1>1. row \in RowType /\ t \in Trial /\ t \in Taken /\ main = "running"
    BY DEF AppendRow, IInv, SweepTypeOK, RowType, Taken
  <1>2. futures' = futures \ {row} /\ table' = Append(table, row) /\ done' = done + 1
    BY DEF AppendRow
  <1>3. UNCHANGED <<script, jobs, main, todo, busy, completed>>
    BY DEF AppendRow
  <1>4. table \in Seq(RowType) /\ n \in Nat /\ DOMAIN table = 1 .. n
    BY DEF IInv, SweepTypeOK
  <1>5. /\ table' \in Seq(RowType) /\ Len(table') = n + 1 /\ DOMAIN table' = 1 .. n + 1
        /\ table'[n + 1] = row /\ \A i \in 1 .. n : table'[i] = table[i]
    BY <1>1, <1>2, <1>4
  <1> HIDE DEF n
  <1>6. SweepTypeOK'
    BY <1>2, <1>3, <1>5 DEF IInv, SweepTypeOK, n
  <1>7. Listed' = Listed \union {t}
    <2>1. ASSUME NEW x \in Listed' PROVE x \in Listed \union {t}
      <3>1. PICK i \in 1 .. n + 1 : x = table'[i].trial
        BY <1>5 DEF Listed
      <3>2. i \in 1 .. n \/ i = n + 1
        BY <1>4
      <3> QED
        BY <1>4, <1>5, <3>1, <3>2 DEF Listed
    <2>2. ASSUME NEW x \in Listed PROVE x \in Listed'
      <3>1. PICK i \in 1 .. n : x = table[i].trial
        BY <1>4 DEF Listed
      <3>2. i \in 1 .. n + 1
        BY <1>4
      <3> QED
        BY <1>5, <3>1, <3>2 DEF Listed
    <2>3. t \in Listed'
      <3>1. n + 1 \in 1 .. n + 1
        BY <1>4
      <3> QED
        BY <1>5, <3>1 DEF Listed
    <2> QED
      BY <2>1, <2>2, <2>3
  <1>8. Taken' = Taken \ {t}
    BY <1>2 DEF IInv, OnePlace, Taken
  <1>9. Waiting' = Waiting /\ RunningTrials' = RunningTrials
    BY <1>3 DEF Waiting, RunningTrials, OnTrial
  <1>10. OnePlace'
    <2>1. /\ \A i, j \in DOMAIN todo' : todo'[i] = todo'[j] => i = j
          /\ \A u, v \in Worker : OnTrial(u)' /\ busy'[u] = busy'[v] => u = v
          /\ \A q, s \in futures' : q.trial = s.trial => q = s
      BY <1>2, <1>3 DEF IInv, OnePlace, OnTrial
    <2>2. \A i, j \in DOMAIN table' : table'[i].trial = table'[j].trial => i = j
      <3>1. \A i \in 1 .. n : table[i].trial # t
        BY <1>1, <1>4 DEF IInv, OnePlace, Listed
      <3>2. \A i, j \in 1 .. n : table[i].trial = table[j].trial => i = j
        BY <1>4 DEF IInv, OnePlace
      <3>3. \A i \in 1 .. n + 1 : i \in 1 .. n \/ i = n + 1
        BY <1>4
      <3> QED
        BY <1>5, <3>1, <3>2, <3>3
    <2> HIDE DEF t
    <2>3. /\ Waiting' \intersect RunningTrials' = {}
          /\ Waiting' \intersect Taken' = {}
          /\ Waiting' \intersect Listed' = {}
          /\ RunningTrials' \intersect Taken' = {}
          /\ RunningTrials' \intersect Listed' = {}
          /\ Taken' \intersect Listed' = {}
      BY <1>1, <1>7, <1>8, <1>9 DEF IInv, OnePlace
    <2> QED
      BY <2>1, <2>2, <2>3 DEF OnePlace
  <1>11. NoneLost'
    <2> HIDE DEF t
    <2> QED
      BY <1>1, <1>3, <1>7, <1>8, <1>9 DEF IInv, NoneLost
  <1> QED
    BY <1>6, <1>10, <1>11 DEF IInv

\* Nothing but what has been taken may go.
LEMMA StepStill ==
  ASSUME IInv, UNCHANGED <<script, jobs, todo, busy, table, done>>, futures' \subseteq futures
  PROVE  /\ main' \in {"running", "aborting", "done", "aborted"} /\ completed' \in Nat => SweepTypeOK'
         /\ OnePlace'
         /\ Waiting' = Waiting /\ RunningTrials' = RunningTrials /\ Listed' = Listed
         /\ Taken' \subseteq Taken
         /\ futures' = futures => Taken' = Taken
  <1>1. Waiting' = Waiting /\ RunningTrials' = RunningTrials /\ Listed' = Listed
    BY DEF Waiting, RunningTrials, OnTrial, Listed
  <1>2. Taken' \subseteq Taken /\ (futures' = futures => Taken' = Taken)
    BY DEF Taken
  <1>3. /\ \A i, j \in DOMAIN todo' : todo'[i] = todo'[j] => i = j
        /\ \A i, j \in DOMAIN table' : table'[i].trial = table'[j].trial => i = j
    BY DEF IInv, OnePlace
  <1>4. /\ \A v, w \in Worker : OnTrial(v)' /\ busy'[v] = busy'[w] => v = w
        /\ \A r, s \in futures' : r.trial = s.trial => r = s
    BY DEF IInv, OnePlace, OnTrial
  <1>5. OnePlace'
    BY <1>1, <1>2, <1>3, <1>4 DEF IInv, OnePlace
  <1> QED
    BY <1>1, <1>2, <1>5 DEF IInv, SweepTypeOK

LEMMA StepOther ==
  ASSUME IInv, (\E row \in futures : Raise(row)) \/ GiveUp \/ Finish \/ UNCHANGED sweepVars
  PROVE  IInv'
  <1>1. UNCHANGED <<script, jobs, todo, busy, table, done>> /\ futures' \subseteq futures
    BY DEF Raise, GiveUp, Finish, sweepVars
  <1>2. main' \in {"running", "aborting", "done", "aborted"} /\ completed' \in Nat
    BY DEF Raise, GiveUp, Finish, sweepVars, IInv, SweepTypeOK
  <1>3. SweepTypeOK' /\ OnePlace'
    BY <1>1, <1>2, StepStill
  <1>4. /\ Waiting' = Waiting /\ RunningTrials' = RunningTrials /\ Listed' = Listed
        /\ futures' = futures => Taken' = Taken
    BY <1>1, StepStill
  <1>5. CASE (\E row \in futures : Raise(row)) \/ GiveUp
    <2>1. main # "done" /\ main' \notin {"running", "done"} /\ completed' = completed
      BY <1>5 DEF Raise, GiveUp
    <2> QED
      BY <1>3, <2>1 DEF IInv, NoneLost
  <1>6. CASE Finish
    <2>1. main = "running" /\ main' = "done" /\ completed' = done /\ table' = table
      BY <1>6 DEF Finish
    <2>2. Waiting = {} /\ RunningTrials = {} /\ Taken = {}
      BY <1>6 DEF Finish, AllEnded, Waiting, Taken
    <2>3. Listed = Trial /\ done = Len(table)
      BY <2>1, <2>2 DEF IInv, NoneLost, SweepTypeOK
    <2> QED
      BY <1>3, <1>4, <2>1, <2>3 DEF IInv, NoneLost
  <1>7. CASE UNCHANGED sweepVars
    BY <1>3, <1>4, <1>7 DEF sweepVars, IInv, NoneLost
  <1> QED
    BY <1>5, <1>6, <1>7

LEMMA AlwaysInductive == Spec => []IInv
  <1>1. IInv /\ [Next]_vars => IInv'
    BY SweepMoves, StepStart, StepEnd, StepAppend, StepOther
  <1> QED
    BY <1>1, InitInductive, PTL DEF Spec

\* A table without repetitions that lists all trials has as many rows as there are.
LEMMA ListedOnce ==
  ASSUME IInv, Listed = Trial
  PROVE  Len(table) = Cardinality(Trial)
  <1> DEFINE n == Len(table)
             f == [i \in 1 .. n |-> table[i].trial]
  <1>0. table \in Seq(RowType)
    BY DEF IInv, SweepTypeOK
  <1>1. n \in Nat /\ DOMAIN table = 1 .. n /\ \A i \in 1 .. n : table[i].trial \in Trial
    <2>1. n \in Nat /\ DOMAIN table = 1 .. n /\ \A i \in 1 .. n : table[i] \in RowType
      BY <1>0
    <2> QED
      BY <2>1 DEF RowType
  <1>2. f \in [1 .. n -> Trial]
    BY <1>1
  <1>3. \A i, j \in 1 .. n : f[i] = f[j] => i = j
    BY <1>1 DEF IInv, OnePlace
  <1>4. \A t \in Trial : \E i \in 1 .. n : f[i] = t
    BY <1>1 DEF Listed
  <1> HIDE DEF f
  <1>5. f \in Bijection(1 .. n, Trial)
    BY <1>2, <1>3, <1>4 DEF Bijection, Injection, Surjection, IsInjective
  <1>6. ExistsBijection(1 .. n, Trial)
    BY <1>5 DEF ExistsBijection
  <1>7. IsFiniteSet(1 .. n) /\ Cardinality(1 .. n) = n
    BY <1>1, FS_Interval
  <1> QED
    BY <1>6, <1>7, FS_Bijection

\* No sweep lists a trial twice, and one that reports to have completed has a row
\* of every trial, however runners and workers are interleaved.
THEOREM RowsAreAccounted == Spec => []RowsAccounted
  <1>1. IInv => RowsAccounted
    <2> SUFFICES ASSUME IInv PROVE RowsAccounted
      OBVIOUS
    <2>1. ASSUME completed # 0
          PROVE  completed = Cardinality(Trial) /\ Listed = Trial
      BY <2>1, ListedOnce DEF IInv, NoneLost
    <2> QED
      BY <2>1 DEF RowsAccounted, IInv, OnePlace, Listed
  <1> QED
    BY <1>1, AlwaysInductive, PTL

-----------------------------------------------------------------------------
(* Trials beside each other.                                               *)

\* The work list is in order; a trial has ended only after it has run; and only
\* the workers of the pool run trials.
InOrder == \A i, j \in DOMAIN todo : j = i + 1 => todo[j] = todo[i] + 1

NotYet ==
  /\ ended \in [Trial -> How \union {"no"}]
  /\ disturbed \subseteq Trial
  /\ \A w \in Worker : OnTrial(w) => ended[busy[w]] = "no"
  /\ \A i \in DOMAIN todo : ended[todo[i]] = "no"

InPool == \A w \in Worker : OnTrial(w) => w \in Pool

\* With one job of Phase 4, nodes that await the next trial were left by the one
\* before it, or by an earlier sweep.
Succession ==
  script = "phase4" /\ jobs = 1 /\ todo # <<>> =>
    /\ \A w \in Worker : OnTrial(w) => todo[1] = busy[w] + 1
    /\ (\A w \in Worker : ~OnTrial(w)) /\ stray # {} =>
         todo[1] = 0 \/ ended[todo[1] - 1] = "crashed"

CauseInv == InOrder /\ NotYet /\ InPool /\ Succession /\ DisturbedForCause

\* The same, of one trial.
Cause(t) ==
  \/ \E v, w \in Pool : v # w /\ RosDomain(v) = RosDomain(w)
  \/ /\ script = "phase4"
     /\ jobs > 1 \/ t = 0 \/ ended[t - 1] = "crashed"
  \/ /\ script # "phase4"
     /\ \E w \in Pool : RosDomain(w) \in stray

LEMMA PoolFacts ==
  /\ \A w \in Pool : w \in Worker /\ w \in Nat /\ w < jobs
  /\ jobs = 1 => \A v, w \in Pool : v = w
  <1>1. \A w \in Pool : w \in Worker /\ w \in Nat /\ w < jobs
    BY SweepAssumption, Parameters DEF Pool
  <1>2. ASSUME jobs = 1, NEW w \in Pool PROVE w = 0
    BY <1>1, <1>2
  <1> QED
    BY <1>1, <1>2

LEMMA StartCause ==
  ASSUME IInv, CauseInv, NEW w \in Worker, StartTrial(w)
  PROVE  CauseInv'
  <1> DEFINE t == todo[1]
  <1>1. /\ todo # <<>> /\ w \in Pool /\ ~OnTrial(w)
        /\ todo \in Seq(Trial) /\ busy \in [Worker -> Trial \union {Idle}]
        /\ UNCHANGED <<script, jobs, stray, ended>>
    BY DEF StartTrial, MayStart, IInv, SweepTypeOK
  <1>2. Head(todo) = t /\ t \in Trial /\ t # Idle /\ 1 \in DOMAIN todo
    BY <1>1, HeadAndTail, Parameters
  <1>3. /\ busy' = [busy EXCEPT ![w] = t] /\ todo' = Tail(todo)
        /\ disturbed' = disturbed \union Overlapping(busy')
                        \union (IF RosDomain(w) \in stray THEN {t} ELSE {})
    BY <1>2 DEF StartTrial
  <1>4. \A i \in DOMAIN todo' : i + 1 \in DOMAIN todo /\ todo'[i] = todo[i + 1] /\ i \in Nat \ {0}
    BY <1>1, <1>3, HeadAndTail
  <1>5. busy'[w] = t /\ \A v \in Worker \ {w} : busy'[v] = busy[v]
    BY <1>1, <1>3
  <1> HIDE DEF t
  <1>6. Pool' = Pool
    BY <1>1 DEF Pool
  <1>7. InOrder'
    <2> SUFFICES ASSUME NEW i \in DOMAIN todo', NEW j \in DOMAIN todo', j = i + 1
                 PROVE  todo'[j] = todo'[i] + 1
      BY DEF InOrder
    <2>1. /\ i + 1 \in DOMAIN todo /\ j + 1 \in DOMAIN todo /\ j + 1 = (i + 1) + 1
          /\ todo'[i] = todo[i + 1] /\ todo'[j] = todo[j + 1]
      BY <1>4
    <2> QED
      BY <2>1 DEF CauseInv, InOrder
  <1>8. NotYet'
    <2>1. ended[t] = "no" /\ \A i \in DOMAIN todo' : ended[todo'[i]] = "no"
      BY <1>2, <1>4 DEF CauseInv, NotYet, t
    <2>2. \A v \in Worker : OnTrial(v)' => ended[busy'[v]] = "no"
      BY <1>5, <2>1 DEF CauseInv, NotYet, OnTrial
    <2>3. Overlapping(busy') \subseteq Trial
      BY <1>1, <1>2, <1>5 DEF Overlapping
    <2> QED
      BY <1>1, <1>2, <1>3, <2>1, <2>2, <2>3 DEF CauseInv, NotYet
  <1>9. InPool'
    BY <1>1, <1>5, <1>6 DEF CauseInv, InPool, OnTrial
  <1>10. Succession'
    <2> SUFFICES ASSUME script = "phase4", jobs = 1, todo' # <<>>
                 PROVE  /\ OnTrial(w)'
                        /\ \A v \in Worker : OnTrial(v)' => todo'[1] = busy'[v] + 1
      BY <1>1 DEF Succession
    <2>1. OnTrial(w)'
      BY <1>2, <1>5 DEF OnTrial
    <2>2. \A v \in Worker : OnTrial(v)' => v = w
      BY <1>1, <1>6, <1>9, PoolFacts DEF InPool
    <2>3. 1 \in DOMAIN todo'
      BY <1>1, <1>3, HeadAndTail
    <2>4. todo'[1] = todo[2] /\ 2 \in DOMAIN todo
      BY <1>4, <2>3
    <2>5. todo'[1] = t + 1
      BY <1>2, <2>4 DEF CauseInv, InOrder, t
    <2> QED
      BY <1>5, <2>1, <2>2, <2>5
  <1>11. \A u : Cause(u)' <=> Cause(u)
    BY <1>1, <1>6 DEF Cause
  <1>12. ASSUME NEW u \in Overlapping(busy') PROVE Cause(u)
    <2>1. PICK v \in Worker, x \in Worker :
             busy'[v] # Idle /\ busy'[x] # Idle /\ v # x /\ RosDomain(v) = RosDomain(x)
      BY DEF Overlapping
    <2>2. v \in Pool /\ x \in Pool
      BY <1>6, <1>9, <2>1 DEF InPool, OnTrial
    <2> QED
      BY <2>1, <2>2 DEF Cause
  <1>13. ASSUME RosDomain(w) \in stray PROVE Cause(t)
    <2>1. CASE script # "phase4"
      BY <1>1, <1>13, <2>1 DEF Cause
    <2>2. CASE script = "phase4" /\ jobs = 1
      <3>1. \A v \in Worker : ~OnTrial(v)
        BY <1>1, <2>2, PoolFacts DEF CauseInv, InPool
      <3>2. t = 0 \/ ended[t - 1] = "crashed"
        BY <1>1, <1>13, <2>2, <3>1 DEF CauseInv, Succession, t
      <3> QED
        BY <2>2, <3>2 DEF Cause
    <2>3. CASE script = "phase4" /\ jobs # 1
      <3>1. jobs > 1
        BY <2>3 DEF IInv, SweepTypeOK
      <3> QED
        BY <2>3, <3>1 DEF Cause
    <2> QED
      BY <2>1, <2>2, <2>3
  <1>14. \A u \in disturbed : Cause(u)
    BY DEF CauseInv, DisturbedForCause, Cause
  <1>15. \A u \in disturbed' : Cause(u)'
    BY <1>3, <1>11, <1>12, <1>13, <1>14
  <1>16. DisturbedForCause'
    BY <1>15 DEF DisturbedForCause, Cause
  <1> QED
    BY <1>7, <1>8, <1>9, <1>10, <1>16 DEF CauseInv

LEMMA EndCause ==
  ASSUME IInv, CauseInv, NEW w \in Worker, NEW how \in How, EndTrial(w, how)
  PROVE  CauseInv'
  <1> DEFINE t == busy[w]
  <1>1. /\ OnTrial(w) /\ todo' = todo /\ UNCHANGED <<script, jobs>> /\ CleanUp(w, how)
        /\ busy' = [busy EXCEPT ![w] = Idle] /\ ended' = [ended EXCEPT ![t] = how]
        /\ busy \in [Worker -> Trial \union {Idle}]
    BY DEF EndTrial, IInv, SweepTypeOK
  <1>2. t \in Trial /\ t \in RunningTrials /\ w \in Pool /\ ended[t] = "no"
    BY <1>1 DEF OnTrial, RunningTrials, CauseInv, InPool, NotYet
  <1>3. busy'[w] = Idle /\ \A v \in Worker \ {w} : busy'[v] = busy[v] /\ (OnTrial(v) => busy[v] # t)
    BY <1>1 DEF IInv, OnePlace, OnTrial
  <1>4. ended'[t] = how /\ \A u \in Trial \ {t} : ended'[u] = ended[u]
    BY <1>1, <1>2 DEF CauseInv, NotYet
  <1>5. Pool' = Pool
    BY <1>1 DEF Pool
  <1> HIDE DEF t
  <1>6. InOrder'
    BY <1>1 DEF CauseInv, InOrder
  <1>7. InPool'
    BY <1>1, <1>3, <1>5 DEF CauseInv, InPool, OnTrial
  <1>8. jobs = 1 => \A v \in Worker : OnTrial(v) => v = w
    BY <1>2, PoolFacts DEF CauseInv, InPool
  <1>9. disturbed' \subseteq disturbed \union RunningTrials
    BY <1>1 DEF CleanUp, KillPackage, LeaveBehind
  <1>10. RunningTrials \subseteq Trial
    BY <1>1 DEF RunningTrials, OnTrial
  <1>11. NotYet'
    <2>1. ended' \in [Trial -> How \union {"no"}]
      BY <1>1, <1>2 DEF CauseInv, NotYet
    <2>2. ASSUME NEW v \in Worker, OnTrial(v)' PROVE ended'[busy'[v]] = "no"
      <3>1. v # w /\ busy'[v] = busy[v] /\ OnTrial(v) /\ busy[v] # t /\ busy[v] \in Trial
        BY <1>1, <1>3, <2>2 DEF OnTrial
      <3>2. ended[busy[v]] = "no"
        BY <3>1 DEF CauseInv, NotYet
      <3> QED
        BY <1>4, <3>1, <3>2
    <2>3. ASSUME NEW i \in DOMAIN todo PROVE ended'[todo[i]] = "no"
      <3>1. todo[i] \in Trial /\ todo[i] # t
        BY <1>2 DEF IInv, SweepTypeOK, OnePlace, Waiting
      <3>2. ended[todo[i]] = "no"
        BY DEF CauseInv, NotYet
      <3> QED
        BY <1>4, <3>1, <3>2
    <2>4. disturbed' \subseteq Trial
      BY <1>9, <1>10 DEF CauseInv, NotYet
    <2> QED
      BY <1>1, <2>1, <2>2, <2>3, <2>4 DEF NotYet
  <1>12. Succession'
    <2> SUFFICES ASSUME script = "phase4", jobs = 1, todo # <<>>
                 PROVE  /\ \A v \in Worker : ~OnTrial(v)'
                        /\ stray' # {} => ended'[todo[1] - 1] = "crashed"
      BY <1>1 DEF Succession
    <2>1. \A v \in Worker : ~OnTrial(v)'
      BY <1>3, <1>8 DEF OnTrial
    <2>2. todo[1] = t + 1
      BY <1>1 DEF CauseInv, Succession, t
    <2>3. todo[1] - 1 = t
      BY <1>2, <2>2, Parameters
    <2>4. stray' # {} => how = "crashed"
      BY <1>1 DEF CleanUp, KillPackage
    <2> QED
      BY <1>4, <2>1, <2>3, <2>4
  <1>13. ASSUME NEW u \in disturbed PROVE Cause(u)'
    <2>1. Cause(u) /\ u \in Trial
      BY DEF CauseInv, NotYet, DisturbedForCause, Cause
    <2>2. CASE \E v, x \in Pool : v # x /\ RosDomain(v) = RosDomain(x)
      BY <1>5, <2>2 DEF Cause
    <2>3. CASE script = "phase4" /\ (jobs > 1 \/ u = 0)
      BY <1>1, <2>3 DEF Cause
    <2>4. CASE script = "phase4" /\ u # 0 /\ ended[u - 1] = "crashed"
      <3>1. u - 1 \in Trial
        BY <2>1, <2>4, Parameters
      <3>2. u - 1 # t
        BY <1>2, <2>4
      <3>3. ended'[u - 1] = "crashed"
        BY <1>4, <2>4, <3>1, <3>2
      <3> QED
        BY <1>1, <2>4, <3>3 DEF Cause
    <2>5. CASE script # "phase4" /\ \E v \in Pool : RosDomain(v) \in stray
      <3>1. stray' = stray
        BY <1>1, <2>5 DEF CleanUp
      <3> QED
        BY <1>1, <1>5, <2>5, <3>1 DEF Cause
    <2> QED
      BY <2>1, <2>2, <2>3, <2>4, <2>5 DEF Cause
  <1>14. ASSUME NEW u \in disturbed', u \notin disturbed PROVE Cause(u)'
    <2>1. script = "phase4" /\ u \in RunningTrials \ {t}
      BY <1>1, <1>14 DEF CleanUp, KillPackage, LeaveBehind, t
    <2>2. PICK v \in Worker : OnTrial(v) /\ u = busy[v]
      BY <2>1 DEF RunningTrials
    <2>3. v # w
      BY <2>1, <2>2 DEF t
    <2>4. jobs > 1
      BY <1>8, <2>2, <2>3 DEF IInv, SweepTypeOK
    <2> QED
      BY <1>1, <2>1, <2>4 DEF Cause
  <1>15. \A u \in disturbed' : Cause(u)'
    BY <1>13, <1>14
  <1>16. DisturbedForCause'
    BY <1>15 DEF DisturbedForCause, Cause
  <1> QED
    BY <1>6, <1>7, <1>11, <1>12, <1>16 DEF CauseInv

LEMMA InitCause == Init => CauseInv
  <1> SUFFICES ASSUME Init PROVE CauseInv
    OBVIOUS
  <1>1. /\ todo = [i \in 1 .. Cardinality(Trial) |-> i - 1] /\ busy = [w \in Worker |-> Idle]
        /\ ended = [t \in Trial |-> "no"] /\ disturbed = {}
    BY DEF Init, SweepInit
  <1>2. \A w \in Worker : ~OnTrial(w)
    BY <1>1 DEF OnTrial
  <1>3. Cardinality(Trial) \in Nat /\ \A i \in DOMAIN todo : todo[i] = i - 1 /\ todo[i] \in Trial
    BY <1>1, Parameters
  <1>4. InOrder
    BY <1>1, <1>3 DEF InOrder
  <1>5. NotYet
    BY <1>1, <1>2, <1>3 DEF NotYet
  <1>6. todo # <<>> => todo[1] = 0
    BY <1>1, <1>3
  <1> QED
    BY <1>1, <1>2, <1>4, <1>5, <1>6 DEF CauseInv, InPool, Succession, DisturbedForCause

\* Where a trial is disturbed, by nodes it hears or by a kill that was meant for
\* others, there is a cause for it: equal ROS domains in the pool, several jobs of
\* Phase 4, or nodes left by a runner of Phase 4 that was killed; and of the last,
\* the next trial of a sweep with one job clears the host.
THEOREM DisturbancesHaveACause == Spec => []DisturbedForCause
  <1>1. IInv /\ CauseInv /\ [Next]_vars => CauseInv'
    <2> SUFFICES ASSUME IInv, CauseInv, [Next]_vars PROVE CauseInv'
      OBVIOUS
    <2>1. CASE UNCHANGED <<script, jobs, todo, busy, stray, ended, disturbed>>
      <3>1. Pool' = Pool
        BY <2>1 DEF Pool
      <3>2. InOrder' /\ NotYet' /\ InPool' /\ Succession'
        BY <2>1, <3>1 DEF CauseInv, InOrder, NotYet, InPool, Succession, OnTrial
      <3>3. DisturbedForCause'
        BY <2>1, <3>1 DEF CauseInv, DisturbedForCause
      <3> QED
        BY <3>2, <3>3 DEF CauseInv
    <2>2. \/ \E w \in Worker : StartTrial(w)
          \/ \E w \in Worker, how \in How : EndTrial(w, how)
          \/ UNCHANGED <<script, jobs, todo, busy, stray, ended, disturbed>>
      BY SweepMoves DEF AppendRow, Raise, GiveUp, Finish, sweepVars
    <2> QED
      BY <2>1, <2>2, StartCause, EndCause
  <1>2. CauseInv => DisturbedForCause
    BY DEF CauseInv
  <1> QED
    BY <1>1, <1>2, InitCause, AlwaysInductive, PTL DEF Spec

-----------------------------------------------------------------------------
(* The trial that is followed.                                             *)

\* The schedule has Kills events; so many of them have been announced, carried
\* out, and written into the timeline.
Kills == IF Victims < M THEN Victims ELSE M - 1
Announced == Kills - Len(profile)
CarriedOut == Announced - Len(orders)

Due(i) == First + (i - 1) * Step

EventType == [at : Nat, victim : Nat]
NoticeType == [victim : Nat, left : Nat]
EventRowType == [t : Nat, victim : Nat, left : Nat]

TrialTypeOK ==
  /\ stage \in {"warmup", "mission", "stopped"}
  /\ clock \in Nat /\ t0 \in Nat /\ ticked \in BOOLEAN
  /\ profile \in Seq(EventType) /\ Len(profile) <= Kills
  /\ orders \in Seq(NoticeType) /\ Len(orders) <= Announced
  /\ notices \in Seq(NoticeType)
  /\ events \in Seq(EventRowType)

\* One list of kills, of which everybody has dealt with a beginning.
OneList ==
  /\ \A i \in 1 .. Len(profile) :
       profile[i] = [at |-> Due(Announced + i), victim |-> Announced + i - 1]
  /\ surviving = M - Announced
  /\ \A i \in 1 .. Len(orders) : orders[i].victim = CarriedOut + i - 1
  /\ alive = CarriedOut .. M - 1
  /\ Len(events) + Len(notices) = Announced
  /\ \A i \in 1 .. Len(notices) :
       notices[i] = [victim |-> Len(events) + i - 1, left |-> M - (Len(events) + i)]
  /\ \A i \in 1 .. Len(events) : events[i].victim = i - 1 /\ events[i].left = M - i

BooksInv == TrialTypeOK /\ OneList

LEMMA TrialParameters ==
  /\ M \in Nat \ {0} /\ Step \in Nat \ {0} /\ Warmup \in Nat \ {0}
  /\ First \in Nat /\ Mission \in Nat /\ Warmup < First
  /\ Kills \in Nat /\ Kills <= M - 1
  BY AttritionAssumption, ScheduleAssumption DEF Kills

\* The schedule is in the order of time.
LEMMA DueFacts ==
  ASSUME NEW i \in Nat \ {0}, NEW j \in Nat \ {0}, i <= j
  PROVE  Due(i) \in Nat /\ Due(i) <= Due(j) /\ First <= Due(i)
  <1> DEFINE p == (i - 1) * Step
             q == (j - 1) * Step
             d == (j - i) * Step
  <1>1. p \in Nat /\ q \in Nat /\ d \in Nat
    BY TrialParameters
  <1>2. q = p + d
    BY TrialParameters
  <1> HIDE DEF p, q, d
  <1> QED
    BY <1>1, <1>2, TrialParameters DEF Due, p, q

\* How many events are due, and that these are the first ones.
Ripe(now) == Cardinality({i \in DOMAIN profile : profile[i].at <= now})

LEMMA RipeFacts ==
  ASSUME BooksInv, NEW now \in Int
  PROVE  /\ Ripe(now) \in 0 .. Len(profile)
         /\ \A i \in 1 .. Len(profile) : i <= Ripe(now) <=> profile[i].at <= now
  <1> DEFINE n == Len(profile)
             S == {i \in DOMAIN profile : profile[i].at <= now}
  <1>1. n \in Nat /\ DOMAIN profile = 1 .. n /\ n <= Kills /\ Announced \in Nat
    BY TrialParameters DEF BooksInv, TrialTypeOK, Announced
  <1>2. S \in SUBSET (1 .. n)
    BY <1>1
  <1>3. ASSUME NEW i \in 1 .. n PROVE profile[i].at = Due(Announced + i)
    <2>1. profile[i] = [at |-> Due(Announced + i), victim |-> Announced + i - 1]
      BY DEF BooksInv, OneList
    <2> QED
      BY <2>1
  <1>4. \A i, j \in 1 .. n : i <= j => profile[i].at \in Nat /\ profile[i].at <= profile[j].at
    <2> SUFFICES ASSUME NEW i \in 1 .. n, NEW j \in 1 .. n, i <= j
                 PROVE  profile[i].at \in Nat /\ profile[i].at <= profile[j].at
      OBVIOUS
    <2>1. Announced + i \in Nat \ {0} /\ Announced + j \in Nat \ {0} /\ Announced + i <= Announced + j
      BY <1>1
    <2>2. Due(Announced + i) \in Nat /\ Due(Announced + i) <= Due(Announced + j)
      BY <2>1, DueFacts
    <2> QED
      BY <1>3, <2>2
  <1>5. \A k \in Nat : IsFiniteSet(1 .. k) /\ Cardinality(1 .. k) = k
    BY FS_Interval
  <1>6. IsFiniteSet(S) /\ Ripe(now) \in Nat /\ Ripe(now) = Cardinality(S)
    BY <1>1, <1>2, <1>5, FS_Subset, FS_CardinalityType DEF Ripe
  <1>7. Ripe(now) <= n
    BY <1>1, <1>2, <1>5, <1>6, FS_Subset
  <1>8. ASSUME NEW i \in 1 .. n, profile[i].at <= now PROVE i <= Ripe(now)
    <2>1. (1 .. i) \in SUBSET S
      BY <1>1, <1>4, <1>8
    <2>2. Cardinality(1 .. i) <= Cardinality(S)
      BY <2>1, <1>6, FS_Subset
    <2> QED
      BY <1>1, <1>5, <1>6, <2>2
  <1>9. ASSUME NEW i \in 1 .. n, ~(profile[i].at <= now) PROVE i > Ripe(now)
    <2>1. S \in SUBSET (1 .. i - 1)
      <3>1. ASSUME NEW j \in S PROVE j \in 1 .. i - 1
        <4>1. j \in 1 .. n /\ profile[j].at <= now
          BY <1>1
        <4>2. j < i
          BY <1>1, <1>4, <1>9, <4>1
        <4> QED
          BY <1>1, <4>1, <4>2
      <3> QED
        BY <3>1
    <2>2. i - 1 \in Nat
      BY <1>1
    <2>3. Cardinality(S) <= Cardinality(1 .. i - 1) /\ Cardinality(1 .. i - 1) = i - 1
      BY <2>1, <2>2, <1>5, FS_Subset
    <2> QED
      BY <1>1, <1>6, <2>3
  <1>10. ASSUME NEW i \in 1 .. n PROVE i <= Ripe(now) <=> profile[i].at <= now
    <2>1. ~(i <= Ripe(now)) <=> i > Ripe(now)
      BY <1>6
    <2> QED
      BY <1>8, <1>9, <2>1
  <1> QED
    BY <1>1, <1>6, <1>7, <1>10

LEMMA InitBooks == Init => BooksInv
  <1> SUFFICES ASSUME Init PROVE BooksInv
    OBVIOUS
  <1> USE TrialParameters
  <1>1. /\ stage = "warmup" /\ clock = 0 /\ t0 = 0 /\ ticked = FALSE
        /\ profile = [i \in 1 .. Kills |-> [at |-> Due(i), victim |-> i - 1]]
        /\ surviving = M /\ orders = <<>> /\ notices = <<>> /\ events = <<>> /\ alive = 0 .. M - 1
    BY DEF Init, TrialInit, ProfileFor, Kills, Due, Anchors
  <1>2. \A i \in 1 .. Kills : [at |-> Due(i), victim |-> i - 1] \in EventType
    BY DueFacts DEF EventType
  <1>3. profile \in Seq(EventType) /\ Len(profile) = Kills
    BY <1>1, <1>2
  <1>4. Announced = 0 /\ Len(orders) = 0 /\ Len(notices) = 0 /\ Len(events) = 0 /\ CarriedOut = 0
    BY <1>1, <1>3 DEF Announced, CarriedOut
  <1>5. TrialTypeOK
    <2>1. orders \in Seq(NoticeType) /\ notices \in Seq(NoticeType) /\ events \in Seq(EventRowType)
      BY <1>1
    <2>2. Len(profile) <= Kills /\ Len(orders) <= Announced
      BY <1>3, <1>4
    <2>3. stage \in {"warmup", "mission", "stopped"} /\ clock \in Nat /\ t0 \in Nat /\ ticked \in BOOLEAN
      BY <1>1
    <2> QED
      BY <1>3, <2>1, <2>2, <2>3 DEF TrialTypeOK
  <1>6. OneList
    BY <1>1, <1>3, <1>4 DEF OneList
  <1> QED
    BY <1>5, <1>6 DEF BooksInv

\* What a step of the campaign is for the trial.
LEMMA TrialMoves ==
  ASSUME [Next]_vars
  PROVE  \/ OrchestratorTick \/ Enforce \/ OnAttrition
         \/ \E a \in Anchors, f \in Followers : Admit(a, f)
         \/ \E a \in Anchors : OnLoad(a)
         \/ AdvanceClock \/ EndWarmup \/ StopTrial
         \/ UNCHANGED trialVars
  BY DEF Next, SweepStep, TrialStep, TrialNext, vars

-----------------------------------------------------------------------------
(* Steps.                                                                  *)

LEMMA TickBooks ==
  ASSUME BooksInv, OrchestratorTick
  PROVE  /\ BooksInv' /\ UNCHANGED <<CarriedOut, events>>
         /\ Announced' = Announced + Ripe(clock - t0)
  <1> DEFINE now == clock - t0
             n == Ripe(now)
             said == [i \in 1 .. n |-> [victim |-> profile[i].victim, left |-> LeftAfter(i)]]
  <1>1. /\ ticked' = TRUE /\ profile' = SubSeq(profile, n + 1, Len(profile))
        /\ surviving' = AtLeast(surviving - n, 0)
        /\ orders' = orders \o said /\ notices' = notices \o said
        /\ UNCHANGED <<stage, clock, t0, alive, events>> /\ stage # "stopped"
    BY DEF OrchestratorTick, UnderWay, Ripe
  <1>2. /\ Len(profile) \in Nat /\ Len(orders) \in Nat /\ Len(notices) \in Nat /\ Len(events) \in Nat
        /\ Announced \in Nat /\ CarriedOut \in Nat /\ Len(profile) <= Kills
        /\ profile \in Seq(EventType) /\ orders \in Seq(NoticeType) /\ notices \in Seq(NoticeType)
    BY TrialParameters DEF BooksInv, TrialTypeOK, Announced, CarriedOut
  <1>3. now \in Int
    BY DEF BooksInv, TrialTypeOK
  <1>4. n \in 0 .. Len(profile)
    BY <1>3, RipeFacts
  <1> HIDE DEF n, now
  <1>5. \A i \in 1 .. Len(profile) : profile[i] = [at |-> Due(Announced + i), victim |-> Announced + i - 1]
    BY DEF BooksInv, OneList
  <1>6. \A i \in 1 .. n : said[i] = [victim |-> Announced + i - 1, left |-> M - (Announced + i)]
                          /\ said[i] \in NoticeType
    <2> SUFFICES ASSUME NEW i \in 1 .. n
                 PROVE  said[i] = [victim |-> Announced + i - 1, left |-> M - (Announced + i)]
                        /\ said[i] \in NoticeType
      OBVIOUS
    <2>1. profile[i].victim = Announced + i - 1
      <3>1. i \in 1 .. Len(profile)
        BY <1>2, <1>4
      <3>2. profile[i] = [at |-> Due(Announced + i), victim |-> Announced + i - 1]
        BY <1>5, <3>1
      <3> QED
        BY <3>2
    <2>2. LeftAfter(i) = M - (Announced + i)
      BY <1>2, <1>4, TrialParameters DEF LeftAfter, AtLeast, BooksInv, OneList, Announced
    <2>3. Announced + i - 1 \in Nat /\ M - (Announced + i) \in Nat
      BY <1>2, <1>4, TrialParameters DEF Announced
    <2> QED
      BY <2>1, <2>2, <2>3 DEF NoticeType
  <1>7. said \in Seq(NoticeType) /\ Len(said) = n
    <2>0. n \in Nat
      BY <1>2, <1>4
    <2>1. n \in Nat /\ \A i \in 1 .. n : said[i] \in NoticeType
      <3> HIDE DEF said
      <3> QED
        BY <2>0, <1>6
    <2>2. said \in [1 .. n -> NoticeType]
      BY <2>1
    <2> HIDE DEF said
    <2> QED
      BY <2>1, <2>2
  <1> HIDE DEF said
  <1>8. /\ profile' \in Seq(EventType) /\ Len(profile') = Len(profile) - n
        /\ \A i \in 1 .. Len(profile') : profile'[i] = profile[n + i]
    <2>1. \A i \in n + 1 .. Len(profile) : profile[i] \in EventType
      BY <1>2, <1>4
    <2>2. /\ profile' \in Seq(EventType)
          /\ Len(profile') = IF n + 1 <= Len(profile) THEN Len(profile) - (n + 1) + 1 ELSE 0
          /\ \A i \in 1 .. Len(profile) - (n + 1) + 1 : profile'[i] = profile[(n + 1) + i - 1]
      BY <1>1, <1>2, <1>4, <2>1, SubSeqProperties
    <2>3. Len(profile') = Len(profile) - n
      BY <1>2, <1>4, <2>2
    <2> QED
      BY <1>2, <1>4, <2>2, <2>3
  <1>9. Announced' = Announced + n /\ Kills' = Kills /\ CarriedOut' = CarriedOut
    <2>1. Kills' = Kills
      BY DEF Kills
    <2>2. Len(profile') = Len(profile) - n /\ Kills \in Nat
      BY <1>8, TrialParameters
    <2>3. Announced' = Announced + n
      BY <1>2, <1>4, <2>1, <2>2 DEF Announced
    <2>4. Len(orders') = Len(orders) + n
      BY <1>1, <1>2, <1>4, <1>7, ConcatProperties
    <2> QED
      BY <1>2, <1>4, <2>1, <2>3, <2>4 DEF CarriedOut
  <1>10. /\ orders' \in Seq(NoticeType) /\ Len(orders') = Len(orders) + n
         /\ \A i \in 1 .. Len(orders') :
              orders'[i] = IF i <= Len(orders) THEN orders[i] ELSE said[i - Len(orders)]
    <2>1. orders' = orders \o said /\ orders \in Seq(NoticeType) /\ said \in Seq(NoticeType) /\ Len(said) = n
      BY <1>1, <1>2, <1>7
    <2>2. /\ orders \o said \in Seq(NoticeType) /\ Len(orders \o said) = Len(orders) + Len(said)
          /\ \A i \in 1 .. Len(orders) + Len(said) :
               (orders \o said)[i] = IF i <= Len(orders) THEN orders[i] ELSE said[i - Len(orders)]
      BY <2>1, ConcatProperties
    <2> QED
      BY <2>1, <2>2, Zenon
  <1>11. /\ notices' \in Seq(NoticeType) /\ Len(notices') = Len(notices) + n
         /\ \A i \in 1 .. Len(notices') :
              notices'[i] = IF i <= Len(notices) THEN notices[i] ELSE said[i - Len(notices)]
    <2>1. notices' = notices \o said /\ notices \in Seq(NoticeType) /\ said \in Seq(NoticeType) /\ Len(said) = n
      BY <1>1, <1>2, <1>7
    <2>2. /\ notices \o said \in Seq(NoticeType) /\ Len(notices \o said) = Len(notices) + Len(said)
          /\ \A i \in 1 .. Len(notices) + Len(said) :
               (notices \o said)[i] = IF i <= Len(notices) THEN notices[i] ELSE said[i - Len(notices)]
      BY <2>1, ConcatProperties
    <2> QED
      BY <2>1, <2>2, Zenon
  <1>12. TrialTypeOK'
    <2>1. Len(orders) <= Announced
      BY DEF BooksInv, TrialTypeOK
    <2>2. Len(profile') <= Kills' /\ Len(orders') <= Announced'
      BY <1>2, <1>4, <1>8, <1>9, <1>10, <2>1, TrialParameters
    <2> QED
      BY <1>1, <1>8, <1>10, <1>11, <2>2 DEF BooksInv, TrialTypeOK
  <1>13. OneList'
    <2>1. ASSUME NEW i \in 1 .. Len(profile')
          PROVE  profile'[i] = [at |-> Due((Announced + n) + i), victim |-> (Announced + n) + i - 1]
      <3>1. n + i \in 1 .. Len(profile) /\ profile'[i] = profile[n + i]
        BY <1>2, <1>4, <1>8
      <3>2. Announced + (n + i) = (Announced + n) + i
        BY <1>2, <1>4
      <3>3. profile[n + i] = [at |-> Due(Announced + (n + i)), victim |-> Announced + (n + i) - 1]
        BY <1>5, <3>1
      <3> QED
        BY <1>2, <1>4, <3>1, <3>2, <3>3
    <2>2. surviving' = M - Announced'
      <3>1. surviving = M - Announced /\ Announced + n <= Kills
        BY <1>2, <1>4, TrialParameters DEF BooksInv, OneList, Announced
      <3> QED
        BY <1>1, <1>2, <1>4, <1>9, <3>1, TrialParameters DEF AtLeast
    <2>3. ASSUME NEW i \in 1 .. Len(orders') PROVE orders'[i].victim = CarriedOut + i - 1
      <3>1. CASE i <= Len(orders)
        <4>1. i \in 1 .. Len(orders) /\ orders'[i] = orders[i]
          BY <1>2, <1>10, <2>3, <3>1
        <4>2. orders[i].victim = CarriedOut + i - 1
          BY <4>1 DEF BooksInv, OneList
        <4> QED
          BY <4>1, <4>2
      <3>2. CASE i > Len(orders)
        <4>1. i - Len(orders) \in 1 .. n /\ orders'[i] = said[i - Len(orders)]
          BY <1>2, <1>4, <1>10, <2>3, <3>2
        <4> DEFINE j == i - Len(orders)
        <4>3. said[j] = [victim |-> Announced + j - 1, left |-> M - (Announced + j)]
          BY <1>6, <4>1
        <4>2. orders'[i].victim = Announced + (i - Len(orders)) - 1
          BY <4>1, <4>3
        <4> QED
          BY <1>2, <4>2 DEF CarriedOut
      <3> QED
        BY <1>2, <3>1, <3>2
    <2>4. ASSUME NEW i \in 1 .. Len(notices')
          PROVE  notices'[i] = [victim |-> Len(events) + i - 1, left |-> M - (Len(events) + i)]
      <3>1. CASE i <= Len(notices)
        <4>1. i \in 1 .. Len(notices) /\ notices'[i] = notices[i]
          BY <1>2, <1>11, <2>4, <3>1
        <4>2. notices[i] = [victim |-> Len(events) + i - 1, left |-> M - (Len(events) + i)]
          BY <4>1 DEF BooksInv, OneList
        <4> QED
          BY <4>1, <4>2
      <3>2. CASE i > Len(notices)
        <4> DEFINE j == i - Len(notices)
        <4>1. j \in 1 .. n /\ notices'[i] = said[j]
          BY <1>2, <1>4, <1>11, <2>4, <3>2
        <4>2. Len(events) + Len(notices) = Announced
          BY DEF BooksInv, OneList
        <4>3. Announced + j - 1 = Len(events) + i - 1 /\ Announced + j = Len(events) + i
          BY <1>2, <4>2
        <4> HIDE DEF j
        <4> QED
          BY <1>6, <4>1, <4>3
      <3> QED
        BY <1>2, <3>1, <3>2
    <2>5. Len(events) + Len(notices') = Announced'
      <3>1. Len(events) + Len(notices) = Announced
        BY DEF BooksInv, OneList
      <3> QED
        <4>1. Announced' = Announced + n /\ Len(notices') = Len(notices) + n
          BY <1>9, <1>11
        <4>2. n \in Nat /\ Announced \in Nat /\ Len(events) \in Nat /\ Len(notices) \in Nat
          BY <1>2, <1>4
        <4> QED
          BY <3>1, <4>1, <4>2
    <2>6. /\ alive' = CarriedOut .. M - 1
          /\ \A i \in 1 .. Len(events) : events[i].victim = i - 1 /\ events[i].left = M - i
      BY <1>1 DEF BooksInv, OneList
    <2> QED
      BY <1>1, <1>9, <2>1, <2>2, <2>3, <2>4, <2>5, <2>6 DEF OneList
  <1>14. Announced' = Announced + Ripe(clock - t0)
    BY <1>9 DEF n, now
  <1> QED
    BY <1>1, <1>9, <1>12, <1>13, <1>14 DEF BooksInv

LEMMA EnforceBooks ==
  ASSUME BooksInv, Enforce
  PROVE  BooksInv' /\ UNCHANGED <<Announced, events>> /\ CarriedOut' = CarriedOut + 1
  <1>1. /\ orders # <<>> /\ orders' = Tail(orders) /\ alive' = alive \ {Head(orders).victim}
        /\ UNCHANGED <<stage, clock, t0, ticked, profile, surviving, notices, events>>
        /\ stage # "stopped"
    BY DEF Enforce, UnderWay
  <1>2. /\ Len(profile) \in Nat /\ Announced \in Nat /\ CarriedOut \in Nat
        /\ orders \in Seq(NoticeType)
    BY TrialParameters DEF BooksInv, TrialTypeOK, Announced, CarriedOut
  <1>3. /\ Len(orders) \in Nat \ {0} /\ Head(orders) = orders[1]
        /\ orders' \in Seq(NoticeType) /\ Len(orders') = Len(orders) - 1
        /\ \A i \in 1 .. Len(orders') : orders'[i] = orders[i + 1]
    BY <1>1, <1>2, HeadTailProperties
  <1>4. Announced' = Announced /\ Kills' = Kills /\ CarriedOut' = CarriedOut + 1
    BY <1>1, <1>2, <1>3 DEF Announced, CarriedOut, Kills
  <1>5. TrialTypeOK'
    BY <1>1, <1>2, <1>3, <1>4 DEF BooksInv, TrialTypeOK
  <1>6. alive' = CarriedOut + 1 .. M - 1
    <2>1. Head(orders).victim = CarriedOut /\ alive = CarriedOut .. M - 1
      <3>1. 1 \in 1 .. Len(orders)
        BY <1>3
      <3>2. orders[1].victim = CarriedOut + 1 - 1
        BY <3>1 DEF BooksInv, OneList
      <3> QED
        BY <1>2, <1>3, <3>2 DEF BooksInv, OneList
    <2> QED
      BY <1>1, <1>2, <2>1, TrialParameters
  <1>7. ASSUME NEW i \in 1 .. Len(orders') PROVE orders'[i].victim = (CarriedOut + 1) + i - 1
    <2>1. i + 1 \in 1 .. Len(orders)
      BY <1>3
    <2>2. orders[i + 1].victim = CarriedOut + (i + 1) - 1
      BY <2>1 DEF BooksInv, OneList
    <2>3. orders'[i] = orders[i + 1]
      BY <1>3
    <2>4. CarriedOut + (i + 1) - 1 = (CarriedOut + 1) + i - 1
      BY <1>2
    <2> QED
      BY <2>2, <2>3, <2>4
  <1>8. OneList'
    BY <1>1, <1>4, <1>6, <1>7 DEF BooksInv, OneList
  <1> QED
    BY <1>1, <1>4, <1>5, <1>8 DEF BooksInv

LEMMA RecordBooks ==
  ASSUME BooksInv, OnAttrition
  PROVE  BooksInv' /\ UNCHANGED <<Announced, CarriedOut>> /\ Len(events') = Len(events) + 1
  <1> DEFINE row == [t |-> clock, victim |-> Head(notices).victim, left |-> Head(notices).left]
             m == Len(events)
  <1>1. /\ notices # <<>> /\ notices' = Tail(notices) /\ events' = Append(events, row)
        /\ UNCHANGED <<stage, clock, t0, ticked, profile, surviving, orders, alive>>
        /\ stage # "stopped"
    BY DEF OnAttrition, UnderWay
  <1>2. /\ m \in Nat /\ Announced \in Nat /\ clock \in Nat
        /\ notices \in Seq(NoticeType) /\ events \in Seq(EventRowType)
    BY TrialParameters DEF BooksInv, TrialTypeOK, Announced
  <1>3. /\ Len(notices) \in Nat \ {0} /\ Head(notices) = notices[1] /\ notices[1] \in NoticeType
        /\ notices' \in Seq(NoticeType) /\ Len(notices') = Len(notices) - 1
        /\ \A i \in 1 .. Len(notices') : notices'[i] = notices[i + 1]
    BY <1>1, <1>2, HeadTailProperties
  <1>4. notices[1] = [victim |-> m + 1 - 1, left |-> M - (m + 1)]
    <2>1. 1 \in 1 .. Len(notices)
      BY <1>3
    <2> QED
      BY <2>1 DEF BooksInv, OneList
  <1>5. row \in EventRowType /\ row.victim = m + 1 - 1 /\ row.left = M - (m + 1)
    BY <1>2, <1>3, <1>4 DEF NoticeType, EventRowType
  <1> HIDE DEF row
  <1>6. /\ events' \in Seq(EventRowType) /\ Len(events') = m + 1 /\ events'[m + 1] = row
        /\ \A i \in 1 .. m : events'[i] = events[i]
    BY <1>1, <1>2, <1>5
  <1>7. Announced' = Announced /\ Kills' = Kills /\ CarriedOut' = CarriedOut
    BY <1>1 DEF Announced, CarriedOut, Kills
  <1>8. TrialTypeOK'
    BY <1>1, <1>3, <1>6, <1>7 DEF BooksInv, TrialTypeOK
  <1>9. ASSUME NEW i \in 1 .. Len(notices')
        PROVE  notices'[i] = [victim |-> (m + 1) + i - 1, left |-> M - ((m + 1) + i)]
    <2>1. i + 1 \in 1 .. Len(notices)
      BY <1>3
    <2>2. notices[i + 1] = [victim |-> m + (i + 1) - 1, left |-> M - (m + (i + 1))]
      BY <2>1 DEF BooksInv, OneList
    <2>3. m + (i + 1) = (m + 1) + i
      BY <1>2
    <2> QED
      BY <1>3, <2>2, <2>3
  <1>10. ASSUME NEW i \in 1 .. Len(events')
         PROVE  events'[i].victim = i - 1 /\ events'[i].left = M - i
    <2>1. CASE i <= m
      <3>1. i \in 1 .. m /\ events'[i] = events[i]
        BY <1>2, <1>6, <1>10, <2>1
      <3> QED
        BY <3>1 DEF BooksInv, OneList
    <2>2. CASE i = m + 1
      BY <1>5, <1>6, <2>2
    <2> QED
      BY <1>2, <1>6, <1>10, <2>1, <2>2
  <1>11. Len(events') + Len(notices') = Announced
    <2>1. m + Len(notices) = Announced
      BY DEF BooksInv, OneList
    <2>2. Len(events') = m + 1 /\ Len(notices') = Len(notices) - 1
      BY <1>3, <1>6
    <2>3. Len(notices) \in Nat
      BY <1>3
    <2> HIDE DEF m
    <2> QED
      BY <1>2, <2>1, <2>2, <2>3
  <1> HIDE DEF m
  <1>12. OneList'
    BY <1>1, <1>6, <1>7, <1>9, <1>10, <1>11 DEF BooksInv, OneList
  <1> QED
    BY <1>6, <1>7, <1>8, <1>12 DEF BooksInv, m

LEMMA OtherBooks ==
  ASSUME BooksInv,
         \/ \E a \in Anchors, f \in Followers : Admit(a, f)
         \/ \E a \in Anchors : OnLoad(a)
         \/ AdvanceClock \/ EndWarmup \/ StopTrial
         \/ UNCHANGED trialVars
  PROVE  BooksInv' /\ UNCHANGED <<Announced, CarriedOut, events>>
  <1>1. UNCHANGED <<profile, surviving, orders, notices, alive, events>>
    BY DEF Admit, OnLoad, AdvanceClock, EndWarmup, StopTrial, trialVars
  <1>2. Announced' = Announced /\ Kills' = Kills /\ CarriedOut' = CarriedOut
    BY <1>1 DEF Announced, CarriedOut, Kills
  <1>3. stage' \in {"warmup", "mission", "stopped"} /\ clock' \in Nat /\ t0' \in Nat /\ ticked' \in BOOLEAN
    <2>1. stage \in {"warmup", "mission", "stopped"} /\ clock \in Nat /\ t0 \in Nat /\ ticked \in BOOLEAN
      BY DEF BooksInv, TrialTypeOK
    <2>2. CASE AdvanceClock \/ EndWarmup \/ StopTrial
      <3>1. CASE AdvanceClock
        <4>1. stage' = stage /\ t0' = t0 /\ clock' = clock + 1 /\ ticked' = FALSE
          BY <3>1 DEF AdvanceClock
        <4>2. clock' \in Nat
          BY <2>1, <4>1
        <4> QED
          BY <2>1, <4>1, <4>2, Zenon
      <3>2. CASE EndWarmup
        BY <2>1, <3>2 DEF EndWarmup
      <3>3. CASE StopTrial
        BY <2>1, <3>3 DEF StopTrial
      <3> QED
        BY <2>2, <3>1, <3>2, <3>3
    <2>3. CASE UNCHANGED <<stage, clock, t0, ticked>>
      BY <2>1, <2>3
    <2> QED
      BY <2>2, <2>3 DEF Admit, OnLoad, trialVars
  <1>4. TrialTypeOK'
    BY <1>1, <1>2, <1>3 DEF BooksInv, TrialTypeOK
  <1>5. OneList'
    BY <1>1, <1>2 DEF BooksInv, OneList
  <1> QED
    BY <1>1, <1>2, <1>4, <1>5 DEF BooksInv

LEMMA AlwaysBooks == Spec => []BooksInv
  <1>1. BooksInv /\ [Next]_vars => BooksInv'
    BY TrialMoves, TickBooks, EnforceBooks, RecordBooks, OtherBooks
  <1> QED
    BY <1>1, InitBooks, PTL DEF Spec

-----------------------------------------------------------------------------
(* Time.                                                                   *)

\* What is left of the schedule is not due yet, and never overdue.
LeftIsAhead ==
  /\ stage = "warmup" => t0 = 0 /\ clock <= Warmup
  /\ stage # "warmup" => t0 = Warmup /\ Warmup <= clock
  /\ stage = "mission" =>
       \A i \in 1 .. Len(profile) :
         /\ profile[i].at >= clock - Warmup
         /\ ticked => profile[i].at > clock - Warmup
  /\ stage = "stopped" =>
       clock = Warmup + Mission /\ \A i \in 1 .. Len(profile) : profile[i].at >= Mission

\* What is not carried out or recorded yet was announced at this very moment.
PendingIsNew ==
  \A i \in 1 .. Announced :
    i > CarriedOut \/ i > Len(events) => stage # "warmup" /\ Due(i) = clock - Warmup

FiredOnTime == \A e \in fired : e.stage = "mission" /\ e.after = e.due

TimeInv == LeftIsAhead /\ PendingIsNew /\ FiredOnTime

\* No event is scheduled before First.
LEMMA NotTooEarly ==
  ASSUME BooksInv, NEW i \in 1 .. Len(profile)
  PROVE  profile[i].at \in Nat /\ profile[i].at > Warmup /\ profile[i].at > 0
  <1>1. Len(profile) \in Nat /\ Announced \in Nat
    BY TrialParameters DEF BooksInv, TrialTypeOK, Announced
  <1>2. Announced + i \in Nat \ {0}
    BY <1>1
  <1>3. Due(Announced + i) \in Nat /\ First <= Due(Announced + i)
    BY <1>2, DueFacts
  <1>4. profile[i] = [at |-> Due(Announced + i), victim |-> Announced + i - 1]
    BY DEF BooksInv, OneList
  <1>5. profile[i].at = Due(Announced + i)
    BY <1>4
  <1> QED
    BY <1>3, <1>5, TrialParameters

LEMMA CountFacts ==
  ASSUME BooksInv
  PROVE  /\ Announced \in Nat /\ CarriedOut \in Nat /\ Len(events) \in Nat
         /\ orders = <<>> => CarriedOut = Announced
         /\ notices = <<>> => Len(events) = Announced
  <1>1. /\ Len(profile) \in Nat /\ Len(orders) \in Nat /\ Len(notices) \in Nat /\ Len(events) \in Nat
        /\ Len(profile) <= Kills /\ Len(orders) <= Announced /\ Len(events) + Len(notices) = Announced
    BY DEF BooksInv, TrialTypeOK, OneList
  <1>2. Announced \in Nat /\ CarriedOut \in Nat
    BY <1>1, TrialParameters DEF Announced, CarriedOut
  <1>3. orders = <<>> => Len(orders) = 0
    OBVIOUS
  <1>4. notices = <<>> => Len(notices) = 0
    OBVIOUS
  <1> QED
    BY <1>1, <1>2, <1>3, <1>4 DEF CarriedOut

LEMMA TickOnTime ==
  ASSUME BooksInv, TimeInv, OrchestratorTick
  PROVE  TimeInv'
  <1> DEFINE now == clock - t0
             n == Ripe(now)
  <1>1. /\ ticked' = TRUE /\ profile' = SubSeq(profile, n + 1, Len(profile))
        /\ fired' = fired \union {[due |-> profile[i].at, stage |-> stage,
                                   after |-> clock - Warmup] : i \in 1 .. n}
        /\ stage' = stage /\ clock' = clock /\ t0' = t0
        /\ stage \in {"warmup", "mission"} /\ ~ticked
    BY DEF OrchestratorTick, UnderWay, Ripe, BooksInv, TrialTypeOK
  <1>2. clock \in Nat /\ t0 \in Nat /\ Len(profile) \in Nat /\ profile \in Seq(EventType)
    BY DEF BooksInv, TrialTypeOK
  <1>3. now \in Int
    BY <1>2
  <1>4. n \in 0 .. Len(profile) /\ \A i \in 1 .. Len(profile) : i <= n <=> profile[i].at <= now
    BY <1>3, RipeFacts
  <1>5. \A i \in 1 .. Len(profile) : profile[i].at \in Nat /\ profile[i].at > Warmup
    BY NotTooEarly
  <1> HIDE DEF n
  <1>6. Len(profile') = Len(profile) - n /\ \A i \in 1 .. Len(profile') : profile'[i] = profile[n + i]
    <2>1. \A i \in n + 1 .. Len(profile) : profile[i] \in EventType
      BY <1>2, <1>4
    <2>2. /\ Len(profile') = IF n + 1 <= Len(profile) THEN Len(profile) - (n + 1) + 1 ELSE 0
          /\ \A i \in 1 .. Len(profile) - (n + 1) + 1 : profile'[i] = profile[(n + 1) + i - 1]
      BY <1>1, <1>2, <1>4, <2>1, SubSeqProperties
    <2>3. Len(profile') = Len(profile) - n
      BY <1>2, <1>4, <2>2
    <2> QED
      BY <1>2, <1>4, <2>2, <2>3
  <1>7. ASSUME NEW i \in 1 .. Len(profile') PROVE profile'[i].at > now
    <2>1. n + i \in 1 .. Len(profile) /\ ~(n + i <= n) /\ profile'[i] = profile[n + i]
      BY <1>2, <1>4, <1>6
    <2> QED
      BY <1>3, <1>4, <1>5, <2>1
  <1>8. LeftIsAhead'
    <2>1. CASE stage = "warmup"
      BY <1>1, <2>1 DEF TimeInv, LeftIsAhead
    <2>2. CASE stage = "mission"
      <3>1. t0 = Warmup /\ Warmup <= clock /\ now = clock - Warmup
        BY <2>2 DEF TimeInv, LeftIsAhead
      <3>2. \A i \in 1 .. Len(profile') : profile'[i].at > clock - Warmup
        BY <1>7, <3>1
      <3>3. \A i \in 1 .. Len(profile') : profile'[i].at \in Nat
        <4> SUFFICES ASSUME NEW i \in 1 .. Len(profile') PROVE profile'[i].at \in Nat
          OBVIOUS
        <4>1. n + i \in 1 .. Len(profile) /\ profile'[i] = profile[n + i]
          BY <1>2, <1>4, <1>6
        <4> QED
          BY <1>5, <4>1
      <3>4. \A i \in 1 .. Len(profile') : profile'[i].at >= clock - Warmup
        BY <1>2, <3>2, <3>3, TrialParameters
      <3> QED
        BY <1>1, <2>2, <3>1, <3>2, <3>4 DEF LeftIsAhead
    <2> QED
      BY <1>1, <2>1, <2>2
  <1>9. ASSUME NEW i \in 1 .. n
        PROVE  stage = "mission" /\ clock - Warmup = profile[i].at
    <2>1. i \in 1 .. Len(profile) /\ profile[i].at <= now /\ profile[i].at \in Nat /\ profile[i].at > Warmup
      BY <1>2, <1>4, <1>5
    <2>2. stage # "warmup"
      BY <1>2, <2>1, TrialParameters DEF TimeInv, LeftIsAhead
    <2>3. stage = "mission" /\ now = clock - Warmup /\ profile[i].at >= clock - Warmup
      BY <1>1, <2>1, <2>2 DEF TimeInv, LeftIsAhead
    <2> QED
      BY <1>2, <2>1, <2>3, TrialParameters
  <1>10. Announced' = Announced + n /\ CarriedOut' = CarriedOut /\ events' = events
    BY TickBooks DEF n, now
  <1>11. Announced \in Nat /\ CarriedOut \in Nat /\ Len(events) \in Nat
    BY CountFacts
  <1>12. PendingIsNew'
    <2> SUFFICES ASSUME NEW i \in 1 .. Announced + n, i > CarriedOut \/ i > Len(events)
                 PROVE  stage # "warmup" /\ Due(i) = clock - Warmup
      BY <1>1, <1>10 DEF PendingIsNew
    <2>1. CASE i <= Announced
      <3>1. i \in 1 .. Announced
        BY <1>4, <1>11, <2>1
      <3> QED
        BY <3>1 DEF TimeInv, PendingIsNew
    <2>2. CASE i > Announced
      <3> DEFINE j == i - Announced
      <3>1. j \in 1 .. n /\ j \in 1 .. Len(profile) /\ Announced + j = i
        BY <1>2, <1>4, <1>11, <2>2
      <3> HIDE DEF j
      <3>2. stage = "mission" /\ clock - Warmup = profile[j].at
        BY <1>9, <3>1
      <3>3. profile[j] = [at |-> Due(Announced + j), victim |-> Announced + j - 1]
        BY <3>1 DEF BooksInv, OneList
      <3> QED
        BY <3>1, <3>2, <3>3
    <2> QED
      BY <1>4, <1>11, <2>1, <2>2
  <1>13. FiredOnTime'
    BY <1>1, <1>9 DEF TimeInv, FiredOnTime
  <1> QED
    BY <1>8, <1>12, <1>13 DEF TimeInv

\* Fewer pending kills than before are no newer ones.
LEMMA PendingShrinks ==
  ASSUME BooksInv, PendingIsNew, UNCHANGED <<stage, clock, Announced>>,
         CarriedOut' \in Nat, CarriedOut' >= CarriedOut,
         Len(events') \in Nat, Len(events') >= Len(events)
  PROVE  PendingIsNew'
  <1>1. Announced \in Nat /\ CarriedOut \in Nat /\ Len(events) \in Nat
    BY CountFacts
  <1> SUFFICES ASSUME NEW i \in 1 .. Announced, i > CarriedOut' \/ i > Len(events')
               PROVE  stage # "warmup" /\ Due(i) = clock - Warmup
    BY DEF PendingIsNew
  <1>2. i > CarriedOut \/ i > Len(events)
    BY <1>1
  <1> QED
    BY <1>2 DEF PendingIsNew

LEMMA ClockOnTime ==
  ASSUME BooksInv, TimeInv, AdvanceClock \/ EndWarmup \/ StopTrial
  PROVE  TimeInv'
  <1>1. /\ profile' = profile /\ fired' = fired
        /\ clock \in Nat /\ t0 \in Nat
    BY DEF AdvanceClock, EndWarmup, StopTrial, BooksInv, TrialTypeOK
  <1>2. FiredOnTime'
    BY <1>1 DEF TimeInv, FiredOnTime
  <1>0. UNCHANGED <<Announced, CarriedOut, events>>
    BY OtherBooks
  <1>3. \A i \in 1 .. Len(profile) : profile[i].at \in Nat /\ profile[i].at > 0
    BY NotTooEarly
  <1>4. CASE AdvanceClock
    <2>1. stage' = stage /\ t0' = t0 /\ clock' = clock + 1 /\ ticked /\ ticked' = FALSE /\ stage # "stopped"
      BY <1>4 DEF AdvanceClock, Settled, UnderWay
    <2>2. stage = "warmup" => clock < Warmup
      BY <1>4 DEF AdvanceClock
    <2>3. stage = "mission" => \A i \in 1 .. Len(profile) : profile[i].at >= (clock + 1) - Warmup
      BY <1>1, <1>3, <2>1, TrialParameters DEF TimeInv, LeftIsAhead
    <2>4. stage = "warmup" => t0 = 0 /\ clock + 1 <= Warmup
      BY <1>1, <2>2, TrialParameters DEF TimeInv, LeftIsAhead
    <2>5. stage # "warmup" => t0 = Warmup /\ Warmup <= clock + 1
      BY <1>1, TrialParameters DEF TimeInv, LeftIsAhead
    <2>6. LeftIsAhead'
      BY <1>1, <2>1, <2>3, <2>4, <2>5 DEF LeftIsAhead
    <2>7. CarriedOut = Announced /\ Len(events) = Announced /\ Announced \in Nat
      BY <1>4, CountFacts DEF AdvanceClock, Settled
    <2>8. PendingIsNew'
      BY <1>0, <2>7 DEF PendingIsNew
    <2> QED
      BY <1>2, <2>6, <2>8 DEF TimeInv
  <1>5. CASE EndWarmup
    <2>1. stage' = "mission" /\ t0' = clock /\ clock' = clock /\ ticked' = ticked /\ clock = Warmup
      BY <1>5 DEF EndWarmup
    <2>2. \A i \in 1 .. Len(profile) : profile[i].at >= clock - Warmup /\ profile[i].at > clock - Warmup
      BY <1>1, <1>3, <2>1, TrialParameters
    <2>3. LeftIsAhead'
      BY <1>1, <2>1, <2>2, TrialParameters DEF TimeInv, LeftIsAhead
    <2>4. stage = "warmup"
      BY <1>5 DEF EndWarmup
    <2>5. PendingIsNew'
      BY <1>0, <2>4 DEF TimeInv, PendingIsNew
    <2> QED
      BY <1>2, <2>3, <2>5 DEF TimeInv
  <1>6. CASE StopTrial
    <2>1. stage' = "stopped" /\ t0' = t0 /\ clock' = clock
          /\ stage = "mission" /\ clock = Warmup + Mission
      BY <1>6 DEF StopTrial
    <2>2. ASSUME NEW i \in 1 .. Len(profile) PROVE profile[i].at >= Mission
      <3>1. profile[i].at >= clock - Warmup
        BY <2>1 DEF TimeInv, LeftIsAhead
      <3> QED
        BY <1>1, <1>3, <2>1, <3>1, TrialParameters
    <2>3. t0 = Warmup /\ Warmup <= clock
      BY <2>1 DEF TimeInv, LeftIsAhead
    <2>4. LeftIsAhead'
      BY <1>1, <2>1, <2>2, <2>3 DEF LeftIsAhead
    <2>5. PendingIsNew'
      BY <1>0, <2>1 DEF TimeInv, PendingIsNew
    <2> QED
      BY <1>2, <2>4, <2>5 DEF TimeInv
  <1> QED
    BY <1>4, <1>5, <1>6

LEMMA AlwaysOnTime == Spec => []TimeInv
  <1>1. Init => TimeInv
    <2> SUFFICES ASSUME Init PROVE TimeInv
      OBVIOUS
    <2>1. LeftIsAhead /\ FiredOnTime
      BY TrialParameters DEF Init, TrialInit, LeftIsAhead, FiredOnTime
    <2>2. BooksInv /\ orders = <<>> /\ notices = <<>>
      BY InitBooks DEF Init, TrialInit
    <2>3. CarriedOut = Announced /\ Len(events) = Announced /\ Announced \in Nat
      BY <2>2, CountFacts
    <2> QED
      BY <2>1, <2>3 DEF TimeInv, PendingIsNew
  <1>2. BooksInv /\ TimeInv /\ [Next]_vars => TimeInv'
    <2> SUFFICES ASSUME BooksInv, TimeInv, [Next]_vars PROVE TimeInv'
      OBVIOUS
    <2>0. CarriedOut \in Nat /\ Len(events) \in Nat
      BY CountFacts
    <2>1. CASE OrchestratorTick
      BY <2>1, TickOnTime
    <2>2. CASE AdvanceClock \/ EndWarmup \/ StopTrial
      BY <2>2, ClockOnTime
    <2>3. ASSUME UNCHANGED <<stage, clock, t0, ticked, profile, fired>>
          PROVE  LeftIsAhead' /\ FiredOnTime'
      BY <2>3 DEF TimeInv, LeftIsAhead, FiredOnTime
    <2>4. CASE Enforce
      <3>1. UNCHANGED <<stage, clock, t0, ticked, profile, fired>>
        BY <2>4 DEF Enforce
      <3>2. UNCHANGED <<Announced, events>> /\ CarriedOut' = CarriedOut + 1
        BY <2>4, EnforceBooks
      <3>3. PendingIsNew'
        BY <2>0, <3>1, <3>2, PendingShrinks DEF TimeInv
      <3> QED
        BY <2>3, <3>1, <3>3 DEF TimeInv
    <2>5. CASE OnAttrition
      <3>1. UNCHANGED <<stage, clock, t0, ticked, profile, fired>>
        BY <2>5 DEF OnAttrition
      <3>2. UNCHANGED <<Announced, CarriedOut>> /\ Len(events') = Len(events) + 1
        BY <2>5, RecordBooks
      <3>3. PendingIsNew'
        BY <2>0, <3>1, <3>2, PendingShrinks DEF TimeInv
      <3> QED
        BY <2>3, <3>1, <3>3 DEF TimeInv
    <2>6. CASE \/ \E a \in Anchors, f \in Followers : Admit(a, f)
               \/ \E a \in Anchors : OnLoad(a)
               \/ UNCHANGED trialVars
      <3>1. UNCHANGED <<stage, clock, t0, ticked, profile, fired>>
        BY <2>6 DEF Admit, OnLoad, trialVars
      <3>2. UNCHANGED <<Announced, CarriedOut, events>>
        BY <2>6, OtherBooks
      <3>3. PendingIsNew'
        BY <2>0, <3>1, <3>2, PendingShrinks DEF TimeInv
      <3> QED
        BY <2>3, <3>1, <3>3 DEF TimeInv
    <2> QED
      BY <2>1, <2>2, <2>4, <2>5, <2>6, TrialMoves
  <1> QED
    BY <1>1, <1>2, AlwaysBooks, PTL DEF Spec

\* Every kill is announced in the mission, at its time, and none that is due before
\* the end is left over: the clock that the main thread sets back costs no event
\* and advances none.
THEOREM EventsAreOnTime == Spec => []EventsOnTime
  <1>1. BooksInv /\ TimeInv => EventsOnTime
    <2> SUFFICES ASSUME BooksInv, TimeInv PROVE EventsOnTime
      OBVIOUS
    <2>1. DOMAIN profile = 1 .. Len(profile)
      BY DEF BooksInv, TrialTypeOK
    <2> QED
      BY <2>1 DEF TimeInv, LeftIsAhead, FiredOnTime, EventsOnTime
  <1> QED
    BY <1>1, AlwaysBooks, AlwaysOnTime, PTL

LEMMA ScheduleFacts ==
  /\ DOMAIN Schedule = 1 .. Kills
  /\ \A i \in 1 .. Kills : Schedule[i].at = Due(i) /\ Schedule[i].victim = i - 1
  <1>1. Schedule = [i \in 1 .. Kills |-> [at |-> Due(i), victim |-> i - 1]]
    BY DEF Schedule, ProfileFor, Kills, Due
  <1> QED
    BY <1>1

\* When the trial has been stopped, what is still to be carried out or recorded
\* was due at that moment.
LEMMA StoppedBooks ==
  ASSUME BooksInv, TimeInv, stage = "stopped"
  PROVE  /\ \A i \in 1 .. Announced : i > CarriedOut \/ i > Len(events) => i - 1 \in LastMinute
         /\ \A i \in 1 .. Kills : Due(i) < Mission => i <= CarriedOut
  <1>1. /\ Announced \in Nat /\ Len(profile) \in Nat /\ CarriedOut \in Nat /\ Len(events) \in Nat
        /\ Announced + Len(profile) = Kills /\ clock = Warmup + Mission
    BY TrialParameters, CountFacts DEF BooksInv, TrialTypeOK, Announced, TimeInv, LeftIsAhead
  <1>2. ASSUME NEW i \in 1 .. Announced, i > CarriedOut \/ i > Len(events) PROVE Due(i) = Mission
    <2>1. Due(i) = clock - Warmup
      BY <1>2 DEF TimeInv, PendingIsNew
    <2> QED
      BY <1>1, <2>1, TrialParameters
  <1>3. ASSUME NEW i \in 1 .. Announced, i > CarriedOut \/ i > Len(events) PROVE i - 1 \in LastMinute
    <2>1. i \in 1 .. Kills /\ Due(i) = Mission
      BY <1>1, <1>2, <1>3, TrialParameters
    <2>2. i \in DOMAIN Schedule /\ Schedule[i].at = Mission /\ Schedule[i].victim = i - 1
      BY <2>1, ScheduleFacts
    <2> QED
      BY <2>2 DEF LastMinute
  <1>4. ASSUME NEW i \in 1 .. Kills, Due(i) < Mission PROVE i <= CarriedOut
    <2>1. ASSUME i > Announced PROVE FALSE
      <3> DEFINE j == i - Announced
      <3>1. j \in 1 .. Len(profile) /\ Announced + j = i
        BY <1>1, <2>1, TrialParameters
      <3> HIDE DEF j
      <3>2. profile[j] = [at |-> Due(Announced + j), victim |-> Announced + j - 1]
        BY <3>1 DEF BooksInv, OneList
      <3>3. profile[j].at = Due(i)
        BY <3>1, <3>2
      <3>4. Due(i) >= Mission
        BY <3>1, <3>3 DEF TimeInv, LeftIsAhead
      <3>5. Due(i) \in Nat /\ Mission \in Nat
        BY <1>1, DueFacts, TrialParameters
      <3> QED
        BY <1>4, <3>4, <3>5
    <2>2. i \in 1 .. Announced
      BY <1>1, <2>1, TrialParameters
    <2>3. i > CarriedOut => Due(i) = Mission
      BY <1>2, <2>2
    <2> QED
      BY <1>1, <1>4, <2>3, TrialParameters
  <1> QED
    BY <1>3, <1>4

\* Orchestrator, enforcer and timeline never disagree by more than the messages
\* between them, and at the end of a trial the timeline lists the dead anchors, but
\* for one that was due at that moment.
THEOREM BooksAlwaysAgree == Spec => []BooksAgree
  <1>1. BooksInv /\ TimeInv => BooksAgree
    <2> SUFFICES ASSUME BooksInv, TimeInv PROVE BooksAgree
      OBVIOUS
    <2>1. /\ Len(orders) \in Nat /\ Len(notices) \in Nat /\ Len(events) \in Nat /\ DOMAIN events = 1 .. Len(events)
          /\ Announced \in Nat /\ CarriedOut \in 0 .. M - 1 /\ Announced = CarriedOut + Len(orders)
      BY TrialParameters DEF BooksInv, TrialTypeOK, Announced, CarriedOut
    <2>2. Cardinality(alive) = M - CarriedOut
      <3>1. alive = CarriedOut .. M - 1 /\ CarriedOut \in Int /\ M - 1 \in Int /\ CarriedOut <= M - 1
        BY <2>1, TrialParameters DEF BooksInv, OneList
      <3>2. Cardinality(CarriedOut .. M - 1) = (M - 1) - CarriedOut + 1
        BY <3>1, FS_Interval
      <3> QED
        BY <3>1, <3>2, TrialParameters
    <2>3. surviving = Cardinality(alive) - Len(orders)
      BY <2>1, <2>2, TrialParameters DEF BooksInv, OneList
    <2>4. Len(events) + Len(notices) = M - surviving
      <3>1. Len(events) + Len(notices) = Announced /\ surviving = M - Announced
        BY DEF BooksInv, OneList
      <3> QED
        BY <2>1, <3>1, TrialParameters
    <2>5. \A i \in DOMAIN events : events[i].left = M - i /\ events[i].victim = i - 1
      BY <2>1 DEF BooksInv, OneList
    <2>6. ASSUME stage = "stopped"
          PROVE  (Anchors \ alive) \ LastMinute
                   = {events[i].victim : i \in DOMAIN events} \ LastMinute
      <3>1. Anchors \ alive = 0 .. CarriedOut - 1
        BY <2>1, TrialParameters DEF Anchors, BooksInv, OneList
      <3>2. \A i \in 1 .. Announced : i > CarriedOut \/ i > Len(events) => i - 1 \in LastMinute
        BY <2>6, StoppedBooks
      <3>3. Len(events) <= Announced
        BY <2>1 DEF BooksInv, OneList
      <3>4. ASSUME NEW a \in 0 .. CarriedOut - 1, a \notin LastMinute
            PROVE  a \in {events[i].victim : i \in DOMAIN events}
        <4>1. a + 1 \in 1 .. Announced /\ (a + 1) - 1 = a
          BY <2>1
        <4>2. a + 1 \in DOMAIN events
          BY <2>1, <3>2, <3>4, <4>1
        <4> QED
          BY <2>5, <4>1, <4>2
      <3>5. ASSUME NEW i \in DOMAIN events, events[i].victim \notin LastMinute
            PROVE  events[i].victim \in 0 .. CarriedOut - 1
        <4>1. i \in 1 .. Announced /\ events[i].victim = i - 1
          BY <2>1, <2>5, <3>3
        <4>2. i <= CarriedOut
          BY <2>1, <3>2, <3>5, <4>1
        <4> QED
          BY <2>1, <4>1, <4>2
      <3> QED
        BY <3>1, <3>4, <3>5
    <2> QED
      BY <2>3, <2>4, <2>5, <2>6 DEF BooksAgree
  <1> QED
    BY <1>1, AlwaysBooks, AlwaysOnTime, PTL

-----------------------------------------------------------------------------
(* Sums. The library's induction theorems have an operator as parameter;   *)
(* that every non-empty set of numbers has a least element does as well.   *)

LEMMA Upward ==
  ASSUME NEW S, 0 \in S, \A n \in Nat : n \in S => n + 1 \in S
  PROVE  Nat \subseteq S
  <1> DEFINE T == Nat \ S
             R == OpToRel(<, Nat)
  <1>1. SUFFICES ASSUME T # {} PROVE FALSE
    OBVIOUS
  <1>2. T \subseteq Nat
    OBVIOUS
  <1>3. PICK x \in T : \A y \in T : ~ (<<y, x>> \in R)
    <2> HIDE DEF T, R
    <2>1. IsWellFoundedOn(R, Nat)
      BY NatLessThanWellFounded DEF R
    <2> QED
      BY <1>1, <1>2, <2>1, WFMin
  <1>4. x # 0 /\ x - 1 \in Nat /\ x - 1 \notin S
    OBVIOUS
  <1>5. x - 1 \in T /\ <<x - 1, x>> \in R
    BY <1>4 DEF OpToRel
  <1> QED
    BY <1>3, <1>5

AnyOf(s) == CHOOSE x \in s : TRUE

\* g[s] is the sum of f over s, for every part s of S.
Adds(g, S, f) ==
  g = [s \in SUBSET S |-> IF s = {} THEN 0 ELSE f[AnyOf(s)] + g[s \ {AnyOf(s)}]]

LEMMA AnyOfFacts ==
  ASSUME NEW s, IsFiniteSet(s), s # {}
  PROVE  /\ AnyOf(s) \in s /\ IsFiniteSet(s \ {AnyOf(s)})
         /\ Cardinality(s) \in Nat /\ Cardinality(s) # 0
         /\ \A x \in s : /\ IsFiniteSet(s \ {x}) /\ Cardinality(s \ {x}) \in Nat
                         /\ Cardinality(s \ {x}) = Cardinality(s) - 1
  <1>1. AnyOf(s) \in s
    BY DEF AnyOf
  <1>2. Cardinality(s) \in Nat /\ Cardinality(s) # 0
    BY FS_CardinalityType, FS_EmptySet
  <1>3. \A x \in s : IsFiniteSet(s \ {x}) /\ Cardinality(s \ {x}) = Cardinality(s) - 1
    BY FS_RemoveElement
  <1> QED
    BY <1>1, <1>2, <1>3

LEMMA SumExists ==
  ASSUME NEW S, IsFiniteSet(S), NEW f
  PROVE  \E g : Adds(g, S, f)
  <1> DEFINE Rule(g, s) == IF s = {} THEN 0 ELSE f[AnyOf(s)] + g[s \ {AnyOf(s)}]
             Upto(g, n) == \A s \in SUBSET S : Cardinality(s) <= n => g[s] = Rule(g, s)
             N == {n \in Nat : \E g : g = [s \in SUBSET S |-> g[s]] /\ Upto(g, n)}
  <1>1. \A s \in SUBSET S : IsFiniteSet(s) /\ Cardinality(s) \in Nat /\ Cardinality(s) <= Cardinality(S)
    BY FS_Subset, FS_CardinalityType
  <1>2. 0 \in N
    <2> DEFINE g == [s \in SUBSET S |-> 0]
    <2>1. \A s \in SUBSET S : Cardinality(s) <= 0 => s = {}
      BY <1>1, FS_EmptySet
    <2>2. Upto(g, 0)
      BY <2>1
    <2>3. g = [s \in SUBSET S |-> g[s]]
      OBVIOUS
    <2> HIDE DEF g, Upto
    <2> QED
      BY <2>2, <2>3
  <1>3. ASSUME NEW n \in Nat, n \in N PROVE n + 1 \in N
    <2>1. PICK g : g = [s \in SUBSET S |-> g[s]] /\ Upto(g, n)
      BY <1>3
    <2> DEFINE h == [s \in SUBSET S |-> Rule(g, s)]
    <2>2. ASSUME NEW s \in SUBSET S, Cardinality(s) <= n + 1 PROVE h[s] = Rule(h, s)
      <3>1. CASE s = {}
        BY <3>1
      <3>2. CASE s # {}
        <4> DEFINE r == s \ {AnyOf(s)}
        <4>1. Cardinality(s) \in Nat /\ r \in SUBSET S /\ Cardinality(r) = Cardinality(s) - 1
          BY <1>1, <3>2, AnyOfFacts
        <4>2. Cardinality(r) <= n
          BY <2>2, <4>1
        <4>3. g[r] = Rule(g, r)
          BY <2>1, <4>1, <4>2
        <4>4. h[r] = g[r]
          BY <4>1, <4>3
        <4> QED
          BY <3>2, <4>4
      <3> QED
        BY <3>1, <3>2
    <2>3. Upto(h, n + 1)
      BY <2>2
    <2>4. h = [s \in SUBSET S |-> h[s]]
      OBVIOUS
    <2> HIDE DEF h, Upto
    <2> QED
      BY <2>3, <2>4
  <1> HIDE DEF N
  <1>4. Cardinality(S) \in N
    BY <1>2, <1>3, Upward, FS_CardinalityType
  <1>5. PICK g : g = [s \in SUBSET S |-> g[s]] /\ Upto(g, Cardinality(S))
    BY <1>4 DEF N
  <1>6. \A s \in SUBSET S : g[s] = Rule(g, s)
    BY <1>1, <1>5
  <1>7. g = [s \in SUBSET S |-> Rule(g, s)]
    BY <1>5, <1>6
  <1> QED
    BY <1>7 DEF Adds

\* The terms may be added in any order.
AnyOrder(g, S, f) ==
  \A s \in SUBSET S : g[s] \in Nat /\ \A x \in s : g[s] = f[x] + g[s \ {x}]

LEMMA SumFacts ==
  ASSUME NEW S, IsFiniteSet(S), NEW f, \A x \in S : f[x] \in Nat, NEW g, Adds(g, S, f)
  PROVE  AnyOrder(g, S, f)
  <1> DEFINE Good(s) == g[s] \in Nat /\ \A x \in s : g[s] = f[x] + g[s \ {x}]
             N == {n \in Nat : \A s \in SUBSET S : Cardinality(s) <= n => Good(s)}
  <1>1. \A s \in SUBSET S : IsFiniteSet(s) /\ Cardinality(s) \in Nat
    BY FS_Subset, FS_CardinalityType
  <1>2. \A s \in SUBSET S : g[s] = IF s = {} THEN 0 ELSE f[AnyOf(s)] + g[s \ {AnyOf(s)}]
    <2> DEFINE h == [s \in SUBSET S |-> IF s = {} THEN 0 ELSE f[AnyOf(s)] + g[s \ {AnyOf(s)}]]
    <2>1. g = h
      BY DEF Adds
    <2>2. \A s \in SUBSET S : h[s] = IF s = {} THEN 0 ELSE f[AnyOf(s)] + g[s \ {AnyOf(s)}]
      OBVIOUS
    <2> HIDE DEF h
    <2> QED
      BY <2>1, <2>2
  <1>3. 0 \in N
    <2> SUFFICES ASSUME NEW s \in SUBSET S, Cardinality(s) <= 0 PROVE Good(s)
      OBVIOUS
    <2>1. s = {}
      BY <1>1, FS_EmptySet
    <2>2. g[s] = 0
      BY <1>2, <2>1
    <2> QED
      BY <2>1, <2>2
  <1>4. ASSUME NEW n \in Nat, n \in N PROVE n + 1 \in N
    <2> SUFFICES ASSUME NEW s \in SUBSET S, Cardinality(s) <= n + 1, s # {} PROVE Good(s)
      BY <1>2
    <2> DEFINE c == AnyOf(s)
    <2>1. IsFiniteSet(s) /\ Cardinality(s) \in Nat
      BY <1>1
    <2>2. c \in s
      BY <2>1, AnyOfFacts
    <2>3. g[s] = f[c] + g[s \ {c}]
      BY <1>2
    <2> HIDE DEF c
    <2>4. ASSUME NEW x \in s, NEW r \in SUBSET (s \ {x})
          PROVE  r \in SUBSET S /\ g[r] \in Nat /\ \A y \in r : g[r] = f[y] + g[r \ {y}]
      <3>1. IsFiniteSet(s \ {x}) /\ Cardinality(s \ {x}) = Cardinality(s) - 1
        BY <2>1, FS_RemoveElement
      <3>2. Cardinality(r) <= Cardinality(s \ {x})
        BY <3>1, FS_Subset
      <3>3. r \in SUBSET S
        OBVIOUS
      <3>4. Cardinality(r) <= n
        BY <1>1, <2>1, <3>1, <3>2, <3>3
      <3> QED
        BY <1>4, <3>3, <3>4
    <2>5. f[c] \in Nat /\ g[s \ {c}] \in Nat
      BY <2>2, <2>4
    <2>6. ASSUME NEW x \in s PROVE g[s] = f[x] + g[s \ {x}]
      <3>1. CASE x = c
        BY <2>3, <3>1
      <3>2. CASE x # c
        <4> DEFINE r == (s \ {c}) \ {x}
        <4>1. x \in s \ {c} /\ c \in s \ {x} /\ r = (s \ {x}) \ {c} /\ r \in SUBSET (s \ {c})
          BY <2>2, <3>2
        <4>2. g[s \ {c}] = f[x] + g[r]
          BY <2>2, <2>4, <4>1
        <4>3. g[s \ {x}] = f[c] + g[r]
          BY <2>4, <4>1
        <4>4. g[r] \in Nat
          BY <2>2, <2>4, <4>1
        <4>5. f[x] \in Nat
          OBVIOUS
        <4> HIDE DEF r
        <4> QED
          BY <2>3, <2>5, <4>2, <4>3, <4>4, <4>5
      <3> QED
        BY <3>1, <3>2
    <2>7. g[s] \in Nat
      BY <2>3, <2>5
    <2> QED
      BY <2>6, <2>7
  <1> HIDE DEF N
  <1>5. \A s \in SUBSET S : Cardinality(s) \in N
    BY <1>1, <1>3, <1>4, Upward
  <1>6. ASSUME NEW s \in SUBSET S PROVE Good(s)
    <2>1. Cardinality(s) \in N /\ Cardinality(s) <= Cardinality(s)
      BY <1>1, <1>5
    <2> HIDE DEF Good
    <2> QED
      BY <2>1 DEF N
  <1> QED
    BY <1>6 DEF AnyOrder

\* A sum of no fewer terms, none of them smaller, is no smaller.
LEMMA SumGrows ==
  ASSUME NEW S, IsFiniteSet(S), NEW T \in SUBSET S,
         NEW f, \A x \in S : f[x] \in Nat, NEW g, Adds(g, S, f),
         NEW e, \A x \in T : e[x] \in Nat /\ e[x] <= f[x], NEW h, Adds(h, T, e)
  PROVE  h[T] <= g[S]
  <1>1. IsFiniteSet(T)
    BY FS_Subset
  <1>2. \A s \in SUBSET S : g[s] \in Nat /\ \A x \in s : g[s] = f[x] + g[s \ {x}]
    <2>1. AnyOrder(g, S, f)
      BY SumFacts, Zenon
    <2> QED
      BY <2>1 DEF AnyOrder
  <1>3. \A s \in SUBSET T : h[s] \in Nat /\ \A x \in s : h[s] = e[x] + h[s \ {x}]
    <2>1. \A x \in T : e[x] \in Nat
      OBVIOUS
    <2>2. AnyOrder(h, T, e)
      BY <1>1, <2>1, SumFacts, Zenon
    <2> QED
      BY <2>2 DEF AnyOrder
  <1>4. \A s \in SUBSET S : IsFiniteSet(s) /\ Cardinality(s) \in Nat
    BY FS_Subset, FS_CardinalityType
  <1>5. g[{}] = 0 /\ h[{}] = 0
    BY DEF Adds
  <1> DEFINE N == {n \in Nat : \A s \in SUBSET S, t \in SUBSET T :
                     Cardinality(s) <= n /\ t \subseteq s => h[t] <= g[s]}
  <1>6. 0 \in N
    <2> SUFFICES ASSUME NEW s \in SUBSET S, NEW t \in SUBSET T, Cardinality(s) <= 0, t \subseteq s
                 PROVE  h[t] <= g[s]
      OBVIOUS
    <2>1. s = {} /\ t = {}
      BY <1>4, FS_EmptySet
    <2> QED
      BY <1>5, <2>1
  <1>7. ASSUME NEW n \in Nat, n \in N PROVE n + 1 \in N
    <2> SUFFICES ASSUME NEW s \in SUBSET S, NEW t \in SUBSET T,
                        Cardinality(s) <= n + 1, t \subseteq s
                 PROVE  h[t] <= g[s]
      OBVIOUS
    <2>1. ASSUME NEW x \in s, NEW r \in SUBSET T, r \subseteq s \ {x} PROVE h[r] <= g[s \ {x}]
      <3>1. s \ {x} \in SUBSET S /\ Cardinality(s \ {x}) = Cardinality(s) - 1
        BY <1>4, FS_RemoveElement
      <3>2. Cardinality(s \ {x}) <= n
        BY <1>4, <3>1
      <3> QED
        BY <1>7, <2>1, <3>1, <3>2
    <2>2. \A x \in s : g[s] = f[x] + g[s \ {x}] /\ f[x] \in Nat /\ g[s \ {x}] \in Nat
      BY <1>2
    <2>3. CASE t = {}
      BY <1>2, <1>5, <2>3
    <2>4. CASE t # {}
      <3>1. PICK x \in t : TRUE
        BY <2>4
      <3>2. h[t] = e[x] + h[t \ {x}] /\ h[t \ {x}] \in Nat /\ e[x] \in Nat /\ e[x] <= f[x]
        BY <1>3
      <3>3. h[t \ {x}] <= g[s \ {x}]
        BY <2>1
      <3>4. g[s] = f[x] + g[s \ {x}] /\ f[x] \in Nat /\ g[s \ {x}] \in Nat
        BY <2>2
      <3> DEFINE ht == h[t]
                 hr == h[t \ {x}]
                 gs == g[s]
                 gr == g[s \ {x}]
                 ex == e[x]
                 fx == f[x]
      <3>5. /\ ht = ex + hr /\ gs = fx + gr /\ hr <= gr /\ ex <= fx
            /\ ex \in Nat /\ hr \in Nat /\ fx \in Nat /\ gr \in Nat
        BY <3>2, <3>3, <3>4
      <3> HIDE DEF ht, hr, gs, gr, ex, fx
      <3>6. ht <= gs
        BY <3>5
      <3> QED
        BY <3>6 DEF ht, gs
    <2> QED
      BY <2>3, <2>4
  <1> HIDE DEF N
  <1>8. Cardinality(S) \in N
    BY <1>4, <1>6, <1>7, Upward
  <1>9. Cardinality(S) <= Cardinality(S) /\ S \in SUBSET S /\ T \in SUBSET T /\ T \subseteq S
    BY <1>4
  <1> QED
    BY <1>8, <1>9 DEF N

SumOf(f, S) == MapThenSumSet(LAMBDA a : f[a], S)

LEMMA SumOfUnfolds ==
  ASSUME NEW S, IsFiniteSet(S), NEW f
  PROVE  \E g : Adds(g, S, f) /\ SumOf(f, S) = g[S]
  <1> DEFINE Is(g) == g = [s \in SUBSET S |->
                             IF s = {} THEN 0
                             ELSE f[CHOOSE x \in s : TRUE] + g[s \ {CHOOSE x \in s : TRUE}]]
             h == CHOOSE g : Is(g)
  <1>1. SumOf(f, S) = h[S]
    BY DEF SumOf, MapThenSumSet, MapThenFoldSet
  <1>2. \E g : Is(g)
    <2>1. PICK g : Adds(g, S, f)
      BY SumExists
    <2>2. Is(g)
      BY <2>1 DEF Adds, AnyOf
    <2> QED
      BY <2>2
  <1>3. Is(h)
    BY <1>2
  <1> HIDE DEF h
  <1>4. Adds(h, S, f)
    BY <1>3 DEF Adds, AnyOf
  <1> QED
    BY <1>1, <1>4

\* How many followers an anchor holds.
Loads == [a \in Anchors |-> Cardinality(ledger[a])]

LEMMA LoadsUnfold ==
  ASSUME NEW S \in SUBSET Anchors, IsFiniteSet(S)
  PROVE  \E g : /\ Adds(g, S, Loads)
                /\ MapThenSumSet(LAMBDA a : Cardinality(ledger[a]), S) = g[S]
  <1> DEFINE Body(g, s) == Cardinality(ledger[CHOOSE x \in s : TRUE]) + g[s \ {CHOOSE x \in s : TRUE}]
             Is(g) == g = [s \in SUBSET S |-> IF s = {} THEN 0 ELSE Body(g, s)]
             h == CHOOSE g : Is(g)
  <1>1. MapThenSumSet(LAMBDA a : Cardinality(ledger[a]), S) = h[S]
    BY DEF MapThenSumSet, MapThenFoldSet
  <1>2. ASSUME NEW s \in SUBSET S, s # {}
        PROVE  Loads[AnyOf(s)] = Cardinality(ledger[CHOOSE x \in s : TRUE])
    <2>1. (CHOOSE x \in s : TRUE) \in s
      BY <1>2
    <2> QED
      BY <2>1 DEF Loads, AnyOf
  <1>3. ASSUME NEW g PROVE Adds(g, S, Loads) <=> Is(g)
    <2> DEFINE A == [s \in SUBSET S |-> IF s = {} THEN 0
                                         ELSE Loads[AnyOf(s)] + g[s \ {AnyOf(s)}]]
               B == [s \in SUBSET S |-> IF s = {} THEN 0 ELSE Body(g, s)]
    <2>1. \A s \in SUBSET S : (IF s = {} THEN 0 ELSE Loads[AnyOf(s)] + g[s \ {AnyOf(s)}])
                              = (IF s = {} THEN 0 ELSE Body(g, s))
      BY <1>2 DEF AnyOf
    <2>2. A = B
      BY <2>1
    <2>3. Adds(g, S, Loads) <=> g = A
      BY DEF Adds
    <2>4. Is(g) <=> g = B
      OBVIOUS
    <2> HIDE DEF A, B, Is
    <2> QED
      BY <2>2, <2>3, <2>4
  <1>4. \E g : Is(g)
    <2>1. \E g : Adds(g, S, Loads)
      BY SumExists
    <2> HIDE DEF Is
    <2> QED
      BY <1>3, <2>1
  <1>5. Is(h)
    BY <1>4
  <1> HIDE DEF h, Is
  <1> QED
    BY <1>1, <1>3, <1>5

-----------------------------------------------------------------------------
(* What a pass is worth.                                                   *)

\* The latest load row of an anchor never exceeds what the anchor holds.
LoadInv ==
  /\ ledger \in [Anchors -> SUBSET Followers] /\ last \in [Anchors -> Int]
  /\ \A a \in Anchors : last[a] # NoRow => last[a] \in Nat /\ last[a] <= Cardinality(ledger[a])

\* The anchors that the analysis counts.
Counted == {a \in Anchors : last[a] # NoRow /\ \A i \in DOMAIN events : events[i].victim # a}

Survived == SumOf(last, Counted) >= F - 1

\* A row tells how the runner has ended, or comes from a trial that has not passed.
Tells(r) ==
  /\ r.kind = "passed" => ended[r.trial] = "passed"
  /\ r.kind \in {"stale", "partial"} => ended[r.trial] # "passed"

EarnedInv ==
  /\ ended \in [Trial -> How \union {"no"}]
  /\ \A r \in futures : Tells(r)
  /\ \A i \in DOMAIN table : Tells(table[i])
  /\ script = "phase6" /\ ended[Watched] = "passed" => stage = "stopped" /\ Survived

LEMMA FollowersAreFinite == \A S \in SUBSET Followers : IsFiniteSet(S) /\ Cardinality(S) \in Nat
  <1>1. 0 \in Int /\ F - 1 \in Int
    BY AttritionAssumption
  <1>2. IsFiniteSet(Followers)
    BY <1>1, FS_Interval DEF Followers
  <1> QED
    BY <1>2, FS_Subset, FS_CardinalityType

LEMMA AlwaysLoad == Spec => []LoadInv
  <1>1. Init => LoadInv
    BY DEF Init, TrialInit, LoadInv, NoRow
  <1>2. LoadInv /\ [Next]_vars => LoadInv'
    <2> SUFFICES ASSUME LoadInv, [Next]_vars PROVE LoadInv'
      OBVIOUS
    <2> USE DEF LoadInv
    <2>1. ASSUME NEW a \in Anchors, NEW f \in Followers, Admit(a, f) PROVE LoadInv'
      <3>1. ledger' = [ledger EXCEPT ![a] = @ \union {f}] /\ last' = last
        BY <2>1 DEF Admit
      <3>2. ledger[a] \union {f} \in SUBSET Followers /\ ledger[a] \in SUBSET (ledger[a] \union {f})
        OBVIOUS
      <3>3. /\ Cardinality(ledger[a]) <= Cardinality(ledger[a] \union {f})
            /\ Cardinality(ledger[a]) \in Nat /\ Cardinality(ledger[a] \union {f}) \in Nat
        BY <3>2, FollowersAreFinite, FS_Subset
      <3>4. ASSUME NEW b \in Anchors, last[b] # NoRow
            PROVE  last'[b] \in Nat /\ last'[b] <= Cardinality(ledger'[b])
        <4>1. CASE b = a
          BY <3>1, <3>3, <3>4, <4>1
        <4>2. CASE b # a
          BY <3>1, <3>4, <4>2
        <4> QED
          BY <4>1, <4>2
      <3> QED
        BY <3>1, <3>2, <3>4
    <2>2. ASSUME NEW a \in Anchors, OnLoad(a) PROVE LoadInv'
      <3>1. last' = [last EXCEPT ![a] = Cardinality(ledger[a])] /\ ledger' = ledger
        BY <2>2 DEF OnLoad
      <3>2. Cardinality(ledger[a]) \in Nat
        BY FollowersAreFinite
      <3> QED
        BY <3>1, <3>2
    <2>3. CASE UNCHANGED <<ledger, last>>
      BY <2>3
    <2> QED
      BY <2>1, <2>2, <2>3, TrialMoves
         DEF OrchestratorTick, Enforce, OnAttrition, AdvanceClock, EndWarmup, StopTrial, trialVars
  <1> QED
    BY <1>1, <1>2, PTL DEF Spec

\* Nothing happens to a trial that has been stopped.
LEMMA StoppedStays ==
  ASSUME [Next]_vars, stage = "stopped", Survived
  PROVE  stage' = "stopped" /\ Survived'
  <1>1. UNCHANGED trialVars
    BY TrialMoves DEF OrchestratorTick, Enforce, OnAttrition, Admit, OnLoad, AdvanceClock,
                      EndWarmup, StopTrial, UnderWay
  <1>2. stage' = stage /\ last' = last /\ events' = events
    BY <1>1 DEF trialVars
  <1>3. Counted' = Counted
    BY <1>2 DEF Counted
  <1> QED
    BY <1>2, <1>3 DEF Survived

\* The row of a runner tells how it has ended.
LEMMA NewRowTells ==
  ASSUME script \in Script, NEW t \in Trial, NEW how \in How, NEW file \in FilesAfter(t, how)
  PROVE  LET k == RowOf(t, how, file).kind
         IN  /\ k = "passed" => how = "passed"
             /\ k \in {"stale", "partial"} => how # "passed"
  <1> DEFINE k == RowOf(t, how, file).kind
  <1>1. /\ file \in {"own", "left", "none"}
        /\ file = "left" => how # "passed"
        /\ file = "own" /\ script # "phase6" => how # "crashed"
    <2>1. CASE how = "passed"
      <3>1. FilesAfter(t, how) = {"own"}
        BY <2>1 DEF FilesAfter
      <3> QED
        BY <2>1, <3>1
    <2>2. CASE how # "passed" /\ script = "phase6"
      <3>1. file \in {"own", IF t \in left THEN "left" ELSE "none"}
        BY <2>2 DEF FilesAfter
      <3>2. file \in {"own", "left", "none"}
        BY <3>1
      <3> QED
        BY <2>2, <3>2
    <2>3. CASE how = "failed" /\ script # "phase6"
      BY <2>3 DEF FilesAfter
    <2>4. CASE how = "crashed" /\ script # "phase6"
      BY <2>4 DEF FilesAfter
    <2> QED
      BY <2>1, <2>2, <2>3, <2>4 DEF How
  <1>2. how \in {"passed", "failed", "crashed"}
    BY DEF How
  <1>3. CASE script = "phase3"
    BY <1>2, <1>3 DEF RowOf, Phase3Row, Row
  <1>4. CASE script = "phase4"
    <2>1. k = Phase4Row(t, how, file).kind
      BY <1>4 DEF RowOf
    <2>2. CASE file = "own"
      BY <1>2, <2>1, <2>2 DEF Phase4Row, Row
    <2>3. CASE file = "left"
      BY <1>1, <2>1, <2>3 DEF Phase4Row, Row
    <2>4. CASE file = "none"
      BY <2>1, <2>4 DEF Phase4Row, Row
    <2> QED
      BY <1>1, <2>2, <2>3, <2>4
  <1>5. CASE script = "phase5"
    <2>1. k = Phase5Row(t, how, file).kind
      BY <1>5 DEF RowOf
    <2>2. CASE file = "own"
      BY <1>2, <2>1, <2>2 DEF Phase5Row, Row
    <2>3. CASE file = "left"
      BY <1>1, <2>1, <2>3 DEF Phase5Row, Row
    <2>4. CASE file = "none"
      BY <2>1, <2>4 DEF Phase5Row, Row
    <2> QED
      BY <1>1, <2>2, <2>3, <2>4
  <1>6. CASE script = "phase6"
    <2>1. k = Phase6Row(t, how, file).kind
      BY <1>6 DEF RowOf
    <2>2. CASE file = "own"
      BY <1>2, <2>1, <2>2 DEF Phase6Row, Row
    <2>3. CASE file = "left"
      BY <1>1, <2>1, <2>3 DEF Phase6Row, Row
    <2>4. CASE file = "none"
      BY <2>1, <2>4 DEF Phase6Row, Row
    <2> QED
      BY <1>1, <2>2, <2>3, <2>4
  <1> QED
    BY <1>3, <1>4, <1>5, <1>6 DEF Script

\* A row of a trial that is finished keeps telling the truth.
LEMMA EndEarned ==
  ASSUME IInv, EarnedInv, NEW w \in Worker, NEW how \in How,
         Outcome(w, how), EndTrial(w, how), UNCHANGED trialVars, [Next]_vars
  PROVE  EarnedInv'
  <1> DEFINE t == busy[w]
  <1>1. /\ t \in Trial /\ t \in RunningTrials
        /\ ended' = [ended EXCEPT ![t] = how] /\ UNCHANGED <<script, table>>
    BY DEF EndTrial, OnTrial, RunningTrials, IInv, SweepTypeOK
  <1>2. PICK file, r :
          /\ file \in FilesAfter(t, how)
          /\ r = RowOf(t, how, file) /\ futures' = futures \union {r}
    BY DEF EndTrial
  <1>3. r.trial = t /\ (r.kind = "passed" => how = "passed")
        /\ (r.kind \in {"stale", "partial"} => how # "passed")
    <2>1. script \in Script
      BY DEF IInv, SweepTypeOK
    <2> QED
      BY <1>1, <1>2, <2>1, RowFacts, NewRowTells
  <1>4. Following(w) <=> script = "phase6" /\ t = Watched
    BY DEF Following
  <1> HIDE DEF t
  <1>5. ended' \in [Trial -> How \union {"no"}] /\ ended'[t] = how
        /\ \A u \in Trial \ {t} : ended'[u] = ended[u]
    BY <1>1 DEF EarnedInv
  <1>6. ASSUME NEW q, Tells(q), q.trial \in Trial, q.trial # t PROVE Tells(q)'
    <2>1. ended'[q.trial] = ended[q.trial]
      BY <1>5, <1>6
    <2> QED
      BY <1>6, <2>1 DEF Tells
  <1>7. Tells(r)'
    BY <1>3, <1>5 DEF Tells
  <1>8. \A q \in futures' : Tells(q)'
    <2>1. ASSUME NEW q \in futures PROVE Tells(q) /\ q.trial \in Trial /\ q.trial # t
      BY <1>1 DEF IInv, OnePlace, SweepTypeOK, RowType, Taken, EarnedInv
    <2> QED
      BY <1>2, <1>6, <1>7, <2>1
  <1>9. \A i \in DOMAIN table' : Tells(table[i])'
    <2>1. ASSUME NEW i \in DOMAIN table
          PROVE  Tells(table[i]) /\ table[i].trial \in Trial /\ table[i].trial # t
      <3>1. table[i] \in RowType
        BY DEF IInv, SweepTypeOK
      <3> QED
        BY <1>1, <3>1 DEF IInv, OnePlace, RowType, Listed, EarnedInv
    <2>2. ASSUME NEW i \in DOMAIN table PROVE Tells(table[i])'
      <3>1. ended'[table[i].trial] = ended[table[i].trial]
        BY <1>5, <2>1
      <3> QED
        BY <1>1, <2>1, <3>1 DEF Tells
    <2> QED
      BY <1>1, <2>2
  <1>10. ASSUME script = "phase6", ended'[Watched] = "passed"
         PROVE  stage' = "stopped" /\ Survived'
    <2>1. stage = "stopped" /\ Survived
      <3>1. CASE t = Watched
        <4>1. how = "passed" /\ Following(w)
          BY <1>4, <1>5, <1>10, <3>1
        <4>2. stage = "stopped" /\ PassTrial
          BY <4>1 DEF Outcome
        <4> QED
          BY <4>2 DEF PassTrial, MissionSurvived, TotalAttached, Survived, SumOf, Counted
      <3>2. CASE t # Watched
        BY <1>5, <1>10, <3>2, CampaignAssumption DEF EarnedInv
      <3> QED
        BY <3>1, <3>2
    <2> QED
      BY <2>1, StoppedStays
  <1> QED
    BY <1>1, <1>5, <1>8, <1>9, <1>10 DEF EarnedInv

LEMMA NextEarned ==
  ASSUME IInv, EarnedInv, [Next]_vars
  PROVE  EarnedInv'
  <1>1. CASE \E w \in Worker, how \in How :
               Outcome(w, how) /\ EndTrial(w, how) /\ UNCHANGED trialVars
    BY <1>1, EndEarned
  <1>2. ASSUME UNCHANGED <<script, ended>>, futures' \subseteq futures,
               \A i \in DOMAIN table' : table'[i] \in futures \/ \E j \in DOMAIN table : table'[i] = table[j]
        PROVE  EarnedInv'
    <2>1. \A r : Tells(r)' <=> Tells(r)
      BY <1>2 DEF Tells
    <2>2. \A i \in DOMAIN table' : Tells(table[i])'
      <3> SUFFICES ASSUME NEW i \in DOMAIN table' PROVE Tells(table[i])'
        OBVIOUS
      <3>1. Tells(table'[i])
        BY <1>2 DEF EarnedInv
      <3> QED
        BY <1>2, <3>1 DEF Tells
    <2>3. script' = "phase6" /\ ended'[Watched] = "passed" => stage' = "stopped" /\ Survived'
      BY <1>2, StoppedStays DEF EarnedInv
    <2> QED
      BY <1>2, <2>1, <2>2, <2>3 DEF EarnedInv
  <1>3. \/ \E w \in Worker, how \in How :
             Outcome(w, how) /\ EndTrial(w, how) /\ UNCHANGED trialVars
        \/ \E w \in Worker : StartTrial(w)
        \/ \E row \in futures : AppendRow(row) \/ Raise(row)
        \/ GiveUp \/ Finish \/ UNCHANGED sweepVars
    BY DEF Next, SweepStep, TrialStep, MainNext, vars, How
  <1>4. CASE \E row \in futures : AppendRow(row)
    <2>1. PICK row \in futures : AppendRow(row)
      BY <1>4
    <2>2. /\ futures' \subseteq futures /\ table' = Append(table, row) /\ UNCHANGED <<script, ended>>
      BY <2>1 DEF AppendRow
    <2>3. table \in Seq(RowType) /\ row \in RowType
      BY DEF IInv, SweepTypeOK
    <2>4. \A i \in DOMAIN table' : table'[i] = row \/ \E j \in DOMAIN table : table'[i] = table[j]
      <3> SUFFICES ASSUME NEW i \in DOMAIN table', i # Len(table) + 1
                   PROVE  \E j \in DOMAIN table : table'[i] = table[j]
        BY <2>2, <2>3
      <3>1. i \in DOMAIN table /\ table'[i] = table[i]
        BY <2>2, <2>3
      <3> QED
        BY <3>1
    <2> QED
      BY <1>2, <2>2, <2>4
  <1>5. CASE UNCHANGED <<script, ended, table>> /\ futures' \subseteq futures
    BY <1>2, <1>5
  <1> QED
    BY <1>1, <1>3, <1>4, <1>5 DEF StartTrial, Raise, GiveUp, Finish, sweepVars

LEMMA AlwaysEarned == Spec => []EarnedInv
  <1>1. Init => EarnedInv
    BY CampaignAssumption DEF Init, SweepInit, EarnedInv, How
  <1>2. IInv /\ EarnedInv /\ [Next]_vars => EarnedInv'
    BY NextEarned
  <1> QED
    BY <1>1, <1>2, AlwaysInductive, PTL DEF Spec

\* Where no follower has two slots, there are as many followers as slots.
LEMMA DisjointSums ==
  ASSUME ledger \in [Anchors -> SUBSET Followers],
         NEW S \in SUBSET Anchors, IsFiniteSet(S), NEW g, AnyOrder(g, S, Loads), g[{}] = 0,
         \A a, b \in S : a # b => ledger[a] \intersect ledger[b] = {}
  PROVE  g[S] = Cardinality(UNION {ledger[a] : a \in S})
  <1> DEFINE All(s) == UNION {ledger[a] : a \in s}
             N == {n \in Nat : \A s \in SUBSET S : Cardinality(s) <= n => g[s] = Cardinality(All(s))}
  <1>1. \A s \in SUBSET S : IsFiniteSet(s) /\ Cardinality(s) \in Nat
    BY FS_Subset, FS_CardinalityType
  <1>2. \A s \in SUBSET S : All(s) \in SUBSET Followers
    OBVIOUS
  <1>3. 0 \in N
    <2> SUFFICES ASSUME NEW s \in SUBSET S, Cardinality(s) <= 0 PROVE g[s] = Cardinality(All(s))
      OBVIOUS
    <2>1. s = {}
      BY <1>1, FS_EmptySet
    <2>2. All(s) = {}
      BY <2>1
    <2> QED
      BY <2>1, <2>2, FS_EmptySet
  <1>4. ASSUME NEW n \in Nat, n \in N PROVE n + 1 \in N
    <2> SUFFICES ASSUME NEW s \in SUBSET S, Cardinality(s) <= n + 1 PROVE g[s] = Cardinality(All(s))
      OBVIOUS
    <2>1. CASE Cardinality(s) <= n
      BY <1>4, <2>1
    <2>2. CASE s # {}
      <3>1. PICK x \in s : TRUE
        BY <2>2
      <3> DEFINE r == s \ {x}
      <3>2. r \in SUBSET S /\ Cardinality(r) = Cardinality(s) - 1
        BY <1>1, FS_RemoveElement
      <3>3. g[r] = Cardinality(All(r))
        <4>1. Cardinality(r) <= n
          BY <1>1, <3>2
        <4> HIDE DEF r
        <4> QED
          BY <1>4, <3>2, <4>1
      <3>4. g[s] = Loads[x] + g[r] /\ Loads[x] = Cardinality(ledger[x])
        BY DEF AnyOrder, Loads
      <3>5. All(s) = ledger[x] \union All(r) /\ ledger[x] \intersect All(r) = {}
        OBVIOUS
      <3>6. ledger[x] \in SUBSET Followers /\ All(r) \in SUBSET Followers
        BY <1>2, <3>2
      <3> HIDE DEF All, r
      <3>7. /\ IsFiniteSet(ledger[x]) /\ Cardinality(ledger[x]) \in Nat
            /\ IsFiniteSet(All(r)) /\ Cardinality(All(r)) \in Nat
        BY <3>6, FollowersAreFinite
      <3>8. Cardinality(All(s)) = Cardinality(ledger[x]) + Cardinality(All(r)) - 0
        <4>1. Cardinality({}) = 0
          BY FS_EmptySet
        <4> DEFINE T == All(r)
        <4> HIDE DEF T
        <4>2. /\ IsFiniteSet(ledger[x]) /\ IsFiniteSet(T)
              /\ All(s) = ledger[x] \union T /\ ledger[x] \intersect T = {}
          BY <3>5, <3>7 DEF T
        <4>3. Cardinality(ledger[x] \union T)
                = Cardinality(ledger[x]) + Cardinality(T) - Cardinality(ledger[x] \intersect T)
          BY <4>2, FS_Union
        <4> QED
          BY <4>1, <4>2, <4>3 DEF T
      <3> QED
        BY <3>3, <3>4, <3>7, <3>8
    <2>3. s = {} => Cardinality(s) <= n
      BY FS_EmptySet
    <2> QED
      BY <2>1, <2>2, <2>3
  <1> HIDE DEF N
  <1>5. Cardinality(S) \in N
    BY <1>1, <1>3, <1>4, Upward
  <1>6. Cardinality(S) <= Cardinality(S) /\ S \in SUBSET S
    BY <1>1
  <1> HIDE DEF All
  <1>7. g[S] = Cardinality(All(S))
    BY <1>5, <1>6 DEF N
  <1> QED
    BY <1>7 DEF All

\* Whoever the analysis counts was standing when the trial was stopped.
LEMMA CountedStand ==
  ASSUME BooksInv, TimeInv, stage = "stopped"
  PROVE  Counted \subseteq Standing /\ Standing \subseteq Anchors
  <1>1. /\ CarriedOut \in Nat /\ Announced \in Nat /\ CarriedOut <= Announced /\ Announced <= Kills
        /\ Len(events) \in Nat /\ DOMAIN events = 1 .. Len(events) /\ alive = CarriedOut .. M - 1
    <2>1. /\ profile \in Seq(EventType) /\ orders \in Seq(NoticeType)
          /\ notices \in Seq(NoticeType) /\ events \in Seq(EventRowType)
      BY DEF BooksInv, TrialTypeOK
    <2>2. alive = CarriedOut .. M - 1 /\ Len(events) + Len(notices) = Announced
      BY DEF BooksInv, OneList
    <2>3. Len(orders) <= Announced
      BY DEF BooksInv, TrialTypeOK
    <2>4. /\ Len(profile) \in Nat /\ Len(orders) \in Nat /\ Len(notices) \in Nat
          /\ Len(events) \in Nat /\ DOMAIN events = 1 .. Len(events)
      BY <2>1, LenProperties
    <2>5. Announced \in Nat /\ Announced <= Kills
      BY <2>2, <2>4, TrialParameters DEF Announced
    <2>6. CarriedOut \in Nat /\ CarriedOut <= Announced
      BY <2>3, <2>4, <2>5 DEF CarriedOut
    <2> QED
      BY <2>2, <2>4, <2>5, <2>6
  <1>2. ASSUME NEW a \in Anchors, a \notin Standing PROVE a \notin Counted
    <2>1. a \in Nat /\ a < CarriedOut /\ a \notin LastMinute
      BY <1>1, <1>2, TrialParameters DEF Anchors, Standing
    <2>2. a + 1 \in 1 .. Announced /\ (a + 1) - 1 = a
      BY <1>1, <2>1
    <2>3. a + 1 \in DOMAIN events
      BY <1>1, <2>1, <2>2, StoppedBooks
    <2>4. events[a + 1].victim = (a + 1) - 1
      BY <1>1, <2>3 DEF BooksInv, OneList
    <2> QED
      BY <2>2, <2>3, <2>4 DEF Counted
  <1>3. LastMinute \subseteq Anchors
    <2> SUFFICES ASSUME NEW i \in DOMAIN Schedule PROVE Schedule[i].victim \in Anchors
      BY DEF LastMinute
    <2>1. i \in 1 .. Kills /\ Schedule[i].victim = i - 1
      BY ScheduleFacts
    <2> QED
      BY <2>1, TrialParameters DEF Anchors
  <1>4. alive \subseteq Anchors
    BY <1>1, TrialParameters DEF Anchors
  <1> QED
    BY <1>2, <1>3, <1>4 DEF Standing, Counted

\* At the end of a trial that has survived, the kills have taken place and those
\* that are left hold the slots.
LEMMA SurvivedMeans ==
  ASSUME BooksInv, TimeInv, LoadInv, stage = "stopped", Survived
  PROVE  WellSpent
  <1>1. KillsHappened
    <2> SUFFICES ASSUME NEW i \in 1 .. Kills, Due(i) < Mission PROVE i - 1 \notin alive
      BY ScheduleFacts DEF KillsHappened
    <2>1. i <= CarriedOut /\ CarriedOut \in Nat
      BY StoppedBooks, CountFacts
    <2>2. alive = CarriedOut .. M - 1
      BY DEF BooksInv, OneList
    <2> QED
      BY <2>1, <2>2, TrialParameters
  <1>2. Counted \subseteq Standing /\ Standing \subseteq Anchors
    BY CountedStand
  <1>3. IsFiniteSet(Standing) /\ IsFiniteSet(Counted)
    <2>1. IsFiniteSet(Anchors)
      <3>1. 0 \in Int /\ M - 1 \in Int
        BY TrialParameters
      <3> QED
        BY <3>1, FS_Interval DEF Anchors
    <2> QED
      BY <1>2, <2>1, FS_Subset
  <1>4. PICK h : Adds(h, Counted, last) /\ SumOf(last, Counted) = h[Counted]
    BY <1>3, SumOfUnfolds
  <1>5. PICK g : /\ Adds(g, Standing, Loads)
                 /\ MapThenSumSet(LAMBDA a : Cardinality(ledger[a]), Standing) = g[Standing]
    BY <1>2, <1>3, LoadsUnfold
  <1>6. \A a \in Standing : Loads[a] \in Nat
    BY <1>2, FollowersAreFinite DEF LoadInv, Loads
  <1>7. \A a \in Counted : last[a] \in Nat /\ last[a] <= Loads[a]
    BY <1>2 DEF Counted, LoadInv, Loads
  <1>8. h[Counted] <= g[Standing]
    BY <1>2, <1>3, <1>4, <1>5, <1>6, <1>7, SumGrows
  <1>9. AnyOrder(g, Standing, Loads)
    BY <1>3, <1>5, <1>6, SumFacts
  <1>10. h[Counted] \in Int /\ g[Standing] \in Int /\ F \in Int
    <2>1. AnyOrder(h, Counted, last)
      BY <1>3, <1>4, <1>7, SumFacts
    <2> QED
      BY <1>9, <2>1, AttritionAssumption DEF AnyOrder
  <1>11. g[Standing] >= F - 1
    BY <1>4, <1>8, <1>10 DEF Survived
  <1>12. SlotsHeld
    BY <1>5, <1>11 DEF SlotsHeld
  <1>13. ASSUME ~CountedTwice PROVE AllButOneServed
    <2>1. \A a, b \in Standing : a # b => ledger[a] \intersect ledger[b] = {}
      BY <1>13 DEF CountedTwice
    <2>2. g[{}] = 0
      BY <1>5 DEF Adds
    <2>3. g[Standing] = Cardinality(Served)
      BY <1>2, <1>3, <1>9, <2>1, <2>2, DisjointSums DEF LoadInv, Served
    <2> QED
      BY <1>11, <2>3 DEF AllButOneServed
  <1> QED
    BY <1>1, <1>12, <1>13 DEF WellSpent

\* A sweep that is reported to have passed has earned it, whatever crashes, stale
\* files and interleavings: each of its trials has passed, or has not behind a file
\* that looks like a result; and where the trial that is followed passed, the kills
\* due before its end took place and the anchors left hold slots for all followers
\* but one, which serve all but one unless one of them has two.
THEOREM PassesAreEarned == Spec => []PassIsEarned
  <1>1. IInv /\ EarnedInv /\ BooksInv /\ TimeInv /\ LoadInv => PassIsEarned
    <2> SUFFICES ASSUME IInv, EarnedInv, BooksInv, TimeInv, LoadInv,
                        Report = "passed", NEW i \in DOMAIN table
                 PROVE  LET t == table[i].trial
                        IN  \/ /\ ended[t] = "passed" /\ table[i].kind = "passed"
                               /\ script = "phase6" /\ t = Watched => WellSpent
                            \/ ended[t] # "passed" /\ table[i].kind \in {"stale", "partial"}
      BY DEF PassIsEarned
    <2>1. Kinds \subseteq {"passed", "stale", "partial"}
      BY DEF Report, Phase4Report, Phase5Report, Phase6Report, IInv, SweepTypeOK, Script
    <2>2. table[i].kind \in {"passed", "stale", "partial"}
      BY <2>1 DEF Kinds
    <2>3. Tells(table[i])
      BY DEF EarnedInv
    <2>4. ASSUME script = "phase6", ended[Watched] = "passed" PROVE WellSpent
      BY <2>4, SurvivedMeans DEF EarnedInv
    <2> QED
      BY <2>2, <2>3, <2>4 DEF Tells
  <1> QED
    BY <1>1, AlwaysInductive, AlwaysEarned, AlwaysBooks, AlwaysOnTime, AlwaysLoad, PTL

-----------------------------------------------------------------------------
(* The anchors of a trial keep SlotLedger's promise.                       *)

\* Fewer survivors are never given less room.
LEMMA CapacityGrows ==
  ASSUME NEW c \in Nat, NEW d \in Nat, c <= d
  PROVE  Capacity(c) \in Nat /\ Capacity(d) \in Nat /\ Capacity(d) <= Capacity(c)
  <1> DEFINE x == AtLeast(c, 1)
             y == AtLeast(d, 1)
             p == F + x - 1
             r == F + y - 1
             q == p \div x
             s == r \div y
  <1>0. F \in Nat \ {0}
    BY AttritionAssumption
  <1>1. x \in Nat \ {0} /\ y \in Nat \ {0} /\ x <= y
    BY DEF AtLeast
  <1>2. Capacity(c) = AtLeast(q, 1) /\ Capacity(d) = AtLeast(s, 1)
    BY DEF Capacity, CeilOf
  <1> HIDE DEF x, y
  <1>3. p \in Nat /\ r \in Nat
    BY <1>0, <1>1
  <1> HIDE DEF p, r
  <1>4. q \in Nat /\ s \in Nat
    BY <1>1, <1>3
  <1>5. p < x * q + x /\ y * s <= r
    BY <1>1, <1>3
  <1>6. F <= x * q /\ y * s < F + y
    BY <1>0, <1>1, <1>4, <1>5 DEF p, r
  <1> HIDE DEF q, s
  <1>7. ASSUME q <= s - 1 PROVE FALSE
    <2>1. x * q <= y * q
      BY <1>1, <1>4
    <2>2. y * q <= y * (s - 1)
      BY <1>1, <1>4, <1>7
    <2>3. y * (s - 1) = y * s - y
      BY <1>1, <1>4
    <2> QED
      BY <1>0, <1>1, <1>4, <1>6, <2>1, <2>2, <2>3
  <1>8. s <= q
    BY <1>4, <1>7
  <1> QED
    BY <1>2, <1>4, <1>8 DEF AtLeast

\* No ledger outgrows its anchor, and no survivor has more room than the next
\* re-balancing gives it.
RoomInv ==
  /\ alive \in SUBSET Anchors
  /\ ledger \in [Anchors -> SUBSET Followers] /\ room \in [Anchors -> Nat]
  /\ \A a \in Anchors : Cardinality(ledger[a]) <= room[a]
  /\ \A a \in alive : room[a] <= Capacity(Cardinality(alive))

\* No sample of the timeline shows an anchor over its capacity.
NeverOver == \A r \in loads : ~r.over

LEMMA AnchorsAreFinite ==
  \A S \in SUBSET Anchors :
    /\ IsFiniteSet(S) /\ Cardinality(S) \in Nat
    /\ \A R \in SUBSET S : Cardinality(R) <= Cardinality(S)
  <1>1. 0 \in Int /\ M - 1 \in Int
    BY AttritionAssumption
  <1>2. IsFiniteSet(Anchors)
    BY <1>1, FS_Interval DEF Anchors
  <1> QED
    BY <1>2, FS_Subset, FS_CardinalityType

LEMMA AllAnchors == Cardinality(Anchors) = M
  <1>1. 0 \in Int /\ M - 1 \in Int /\ M \in Nat \ {0}
    BY AttritionAssumption
  <1>2. Cardinality(0 .. M - 1) = IF 0 > M - 1 THEN 0 ELSE M - 1 - 0 + 1
    BY <1>1, FS_Interval
  <1> QED
    BY <1>1, <1>2 DEF Anchors

LEMMA RoomInit == Init => RoomInv /\ NeverOver
  <1> SUFFICES ASSUME Init PROVE RoomInv /\ NeverOver
    OBVIOUS
  <1>1. M \in Nat /\ Capacity(M) \in Nat
    BY AttritionAssumption, CapacityGrows
  <1>2. alive = Anchors /\ room = [a \in Anchors |-> Capacity(M)] /\ ledger = [a \in Anchors |-> {}]
        /\ loads = {}
    BY DEF Init, TrialInit
  <1>3. \A a \in Anchors : room[a] = Capacity(Cardinality(alive)) /\ Cardinality(ledger[a]) = 0
    BY <1>2, AllAnchors, FS_EmptySet
  <1> QED
    BY <1>1, <1>2, <1>3 DEF RoomInv, NeverOver

\* A re-balancing raises capacities, or leaves them.
LEMMA EnforceRaises ==
  ASSUME RoomInv, Enforce
  PROVE  /\ RoomInv' /\ UNCHANGED <<ledger, loads>>
         /\ \A a \in Anchors : room'[a] >= room[a]
  <1> DEFINE v == Head(orders).victim
             c == Capacity(Cardinality(alive'))
  <1>1. /\ alive' = alive \ {v} /\ UNCHANGED <<ledger, loads>>
        /\ room' = [a \in Anchors |-> IF v \in alive /\ a \in alive' THEN c ELSE room[a]]
    BY DEF Enforce
  <1> HIDE DEF v
  <1>2. alive' \in SUBSET Anchors /\ alive' \in SUBSET alive
    BY <1>1 DEF RoomInv
  <1>3. c \in Nat /\ Capacity(Cardinality(alive)) \in Nat /\ Capacity(Cardinality(alive)) <= c
    BY <1>2, AnchorsAreFinite, CapacityGrows DEF RoomInv
  <1> HIDE DEF c
  <1>4. \A a \in Anchors : room'[a] \in Nat /\ room'[a] >= room[a]
    BY <1>1, <1>2, <1>3 DEF RoomInv
  <1>5. \A a \in alive' : room'[a] <= c
    BY <1>1, <1>2, <1>3 DEF RoomInv
  <1>6. room' \in [Anchors -> Nat]
    BY <1>1, <1>4
  <1>7. \A a \in Anchors : Cardinality(ledger'[a]) <= room'[a]
    <2> SUFFICES ASSUME NEW a \in Anchors PROVE Cardinality(ledger[a]) <= room'[a]
      BY <1>1
    <2>1. Cardinality(ledger[a]) \in Nat /\ Cardinality(ledger[a]) <= room[a] /\ room[a] \in Nat
      BY FollowersAreFinite DEF RoomInv
    <2> QED
      BY <1>4, <2>1
  <1> QED
    BY <1>1, <1>2, <1>4, <1>5, <1>6, <1>7 DEF RoomInv, c

LEMMA AdmitFits ==
  ASSUME RoomInv, NEW a \in Anchors, NEW f \in Followers, Admit(a, f)
  PROVE  RoomInv' /\ UNCHANGED loads
  <1>1. /\ ledger' = [ledger EXCEPT ![a] = @ \union {f}] /\ UNCHANGED <<room, alive, loads>>
        /\ Cardinality(ledger[a]) < room[a] /\ f \notin ledger[a]
    BY DEF Admit, HasRoom
  <1>2. /\ ledger[a] \in SUBSET Followers /\ IsFiniteSet(ledger[a])
        /\ Cardinality(ledger[a]) \in Nat /\ room[a] \in Nat
    BY FollowersAreFinite DEF RoomInv
  <1>3. Cardinality(ledger[a] \union {f}) = Cardinality(ledger[a]) + 1
    BY <1>1, <1>2, FS_AddElement
  <1>4. Cardinality(ledger'[a]) <= room[a]
    BY <1>1, <1>2, <1>3 DEF RoomInv
  <1>5. ledger' \in [Anchors -> SUBSET Followers] /\ \A b \in Anchors \ {a} : ledger'[b] = ledger[b]
    BY <1>1, <1>2 DEF RoomInv
  <1> QED
    BY <1>1, <1>4, <1>5 DEF RoomInv

LEMMA RoomStep == RoomInv /\ NeverOver /\ [Next]_vars => (RoomInv /\ NeverOver)'
  <1> SUFFICES ASSUME RoomInv, NeverOver, [Next]_vars PROVE (RoomInv /\ NeverOver)'
    OBVIOUS
  <1>1. CASE Enforce
    BY <1>1, EnforceRaises DEF NeverOver
  <1>2. ASSUME NEW a \in Anchors, NEW f \in Followers, Admit(a, f) PROVE (RoomInv /\ NeverOver)'
    BY <1>2, AdmitFits DEF NeverOver
  <1>3. ASSUME NEW a \in Anchors, OnLoad(a) PROVE (RoomInv /\ NeverOver)'
    <2>1. UNCHANGED <<alive, ledger, room>>
      BY <1>3 DEF OnLoad
    <2>2. (Cardinality(ledger[a]) > room[a]) = FALSE
      BY FollowersAreFinite DEF RoomInv
    <2>3. loads' = loads \union {[t |-> clock, anchor |-> a, over |-> FALSE]}
      BY <1>3, <2>2, Zenon DEF OnLoad
    <2>4. \A r \in loads' : ~r.over
      BY <2>2, <2>3 DEF NeverOver
    <2>5. RoomInv'
      BY <2>1 DEF RoomInv
    <2> QED
      BY <2>4, <2>5 DEF NeverOver
  <1>4. CASE OrchestratorTick \/ OnAttrition \/ AdvanceClock \/ EndWarmup \/ StopTrial
    BY <1>4 DEF OrchestratorTick, OnAttrition, AdvanceClock, EndWarmup, StopTrial, RoomInv, NeverOver
  <1>5. CASE UNCHANGED trialVars
    BY <1>5 DEF trialVars, RoomInv, NeverOver
  <1> QED
    BY <1>1, <1>2, <1>3, <1>4, <1>5, TrialMoves

LEMMA AlwaysRoom == Spec => [](RoomInv /\ NeverOver)
  BY RoomInit, RoomStep, PTL DEF Spec

LEMMA SameCardinality == \A S : Ledger!Cardinality(S) = Cardinality(S)
  BY DEF Ledger!Cardinality, Cardinality

\* Every step of a campaign is one of SlotLedger's, or none of its business.
LEMMA LedgerStep ==
  ASSUME RoomInv, [Next]_vars
  PROVE  [Ledger!Next]_(Ledger!ledgerVars)
  <1>1. CASE Enforce
    <2>1. /\ room' \in [Anchors -> Nat] /\ ledger' = ledger
          /\ \A a \in Anchors : room'[a] >= room[a]
      BY <1>1, EnforceRaises DEF RoomInv
    <2>2. Ledger!Enlarge
      BY <2>1 DEF Ledger!Enlarge
    <2> QED
      BY <2>2 DEF Ledger!Next
  <1>2. ASSUME NEW a \in Anchors, NEW f \in Followers, Admit(a, f)
        PROVE  [Ledger!Next]_(Ledger!ledgerVars)
    <2>1. Ledger!Admit(a, f)
      BY <1>2, SameCardinality DEF Admit, HasRoom, Ledger!Admit
    <2> QED
      BY <2>1 DEF Ledger!Next
  <1>3. ASSUME NEW a \in Anchors, OnLoad(a) PROVE UNCHANGED Ledger!ledgerVars
    BY <1>3 DEF OnLoad, Ledger!ledgerVars
  <1>4. CASE OrchestratorTick \/ OnAttrition \/ AdvanceClock \/ EndWarmup \/ StopTrial
    BY <1>4 DEF OrchestratorTick, OnAttrition, AdvanceClock, EndWarmup, StopTrial, Ledger!ledgerVars
  <1>5. CASE UNCHANGED trialVars
    BY <1>5 DEF trialVars, Ledger!ledgerVars
  <1> QED
    BY <1>1, <1>2, <1>3, <1>4, <1>5, TrialMoves

\* The trial implements SlotLedger, as the failover protocol does: through any
\* kills and re-balancings its anchors admit only where there is room, and
\* their capacities never shrink.
THEOREM TrialsKeepTheLedger == Spec => KeepsLedger
  <1>1. Init => Ledger!Init
    <2> SUFFICES ASSUME Init PROVE Ledger!Init
      OBVIOUS
    <2>1. RoomInv
      BY RoomInit
    <2>2. \A f \in Followers : f % M \in Anchors
      BY AttritionAssumption DEF Followers, Anchors
    <2> QED
      BY <2>1, <2>2, SameCardinality DEF RoomInv, Ledger!Init
  <1>2. RoomInv /\ [Next]_vars => [Ledger!Next]_(Ledger!ledgerVars)
    BY LedgerStep
  <1> QED
    BY <1>1, <1>2, AlwaysRoom, PTL DEF Spec, KeepsLedger, Ledger!Spec

\* Admission control leaves the analysis nothing to find: no sample of any
\* timeline is over capacity, so that the two criteria on overload and on the
\* time a re-balancing takes hold of every trial, whatever their budgets.
THEOREM OverloadIsNeverSeen ==
  Spec => [](\A i \in DOMAIN events : RebalanceLatency(i) = 0 /\ OverCapInterval(i) = 0)
  <1>1. ASSUME NeverOver, NEW i \in DOMAIN events
        PROVE  RebalanceLatency(i) = 0 /\ OverCapInterval(i) = 0
    <2>1. {r \in Window(i) : r.over} = {}
      BY <1>1 DEF NeverOver, Window
    <2>2. Max({0}) = 0
      BY DEF Max
    <2>3. {0} \union {r.t - events[i].t : r \in {r \in Window(i) : r.over}} = {0}
      BY <2>1
    <2>4. RebalanceLatency(i) = 0
      BY <2>2, <2>3 DEF RebalanceLatency
    <2>5. OverCapInterval(i) = 0
      BY <2>1, <2>2 DEF OverCapInterval
    <2> QED
      BY <2>4, <2>5
  <1>2. NeverOver => \A i \in DOMAIN events : RebalanceLatency(i) = 0 /\ OverCapInterval(i) = 0
    BY <1>1
  <1> QED
    BY <1>2, AlwaysRoom, PTL

=============================================================================
