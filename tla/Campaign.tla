------------------------------ MODULE Campaign ------------------------------
(***************************************************************************)
(* A sweep and the trials it runs.  One trial of a Phase 6 sweep, Watched, *)
(* is followed in detail, from the construction of its nodes to the        *)
(* analysis of its timeline; of every other trial only the way its runner  *)
(* ends is known.                                                          *)
(***************************************************************************)
EXTENDS Sweep, Attrition

CONSTANT Watched

ASSUME CampaignAssumption == Watched \in Trial

vars == <<sweepVars, trialVars>>

Init == SweepInit /\ TrialInit

Following(w) == script = "phase6" /\ busy[w] = Watched

\* A trial that is followed ends with the verdict of its analysis, once it has
\* run to the end; any runner may crash at any moment.
Outcome(w, how) ==
    how # "crashed" /\ Following(w) =>
        stage = "stopped" /\ (how = "passed" <=> PassTrial)

SweepStep ==
    /\ \/ \E w \in Worker : StartTrial(w)
       \/ \E w \in Worker, how \in {"passed", "failed", "crashed"} :
             Outcome(w, how) /\ EndTrial(w, how)
       \/ MainNext
    /\ UNCHANGED trialVars

TrialStep ==
    /\ \E w \in Worker : Following(w)
    /\ TrialNext
    /\ UNCHANGED sweepVars

Next == SweepStep \/ TrialStep

Spec == Init /\ [][Next]_vars

-----------------------------------------------------------------------------
(* What must hold.                                                         *)

KillsHappened ==
    \A i \in DOMAIN Schedule : Schedule[i].at < Mission => Schedule[i].victim \notin alive

\* The anchors that no kill has taken before the trial was stopped.
Standing == alive \cup LastMinute

SlotsHeld == MapThenSumSet(LAMBDA a : Cardinality(ledger[a]), Standing) >= F - 1

CountedTwice == \E a, b \in Standing : a # b /\ ledger[a] \cap ledger[b] # {}

Served == UNION {ledger[a] : a \in Standing}

AllButOneServed == Cardinality(Served) >= F - 1

WellSpent == KillsHappened /\ SlotsHeld /\ (CountedTwice \/ AllButOneServed)

\* When a sweep is reported to have passed entirely, the runner of every trial in
\* its table has passed; in the Phase 6 trial that is followed, the kills of the
\* schedule have then taken place and the anchors left hold slots for all followers
\* but one.  Slots are counted, not followers: one that two survivors have admitted
\* makes up for another that nobody has, and only where there is none of the kind
\* are all but one served.  The exception is what the analyses cannot see: a trial
\* that has not passed, behind a file of an earlier sweep, or behind a timeline
\* that was cut short.
PassIsEarned ==
    main = "done" /\ Report = "passed" =>
        \A i \in DOMAIN table :
            LET t == table[i].trial
            IN  \/ /\ ended[t] = "passed" /\ table[i].kind = "passed"
                   /\ script = "phase6" /\ t = Watched => WellSpent
                \/ ended[t] # "passed" /\ table[i].kind \in {"stale", "partial"}
=============================================================================
