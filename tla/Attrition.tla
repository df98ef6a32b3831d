----------------------------- MODULE Attrition ------------------------------
(***************************************************************************)
(* One trial of the Tier-B attrition campaign (phase6-tier-b-runner.py):   *)
(* the orchestrator announces the kills of a schedule, the enforcer carries*)
(* them out and re-balances the capacities, the load monitor writes the    *)
(* timeline, and phase6-analyze.py reads it when the trial has ended.      *)
(*                                                                         *)
(* The followers appear only in the ledgers of the anchors, as SlotLedger  *)
(* promises them: an anchor admits a follower when it has room and never   *)
(* lets one go.  That a follower asks another anchor only when one of its  *)
(* own has died is what Failover shows (NoFalseFailover).                  *)
(*                                                                         *)
(* All nodes of a trial live in one process.  Time is counted from their   *)
(* construction, in units within which every timer fires and every message *)
(* is handled; only the last one may end before.                           *)
(***************************************************************************)
EXTENDS Integers, FiniteSets, FiniteSetsExt, Sequences

CONSTANTS
    M,                 \* anchors, numbered 0..M-1
    F,                 \* followers
    Victims,           \* n_victims of the sweep
    First, Step,       \* t_first_event_s, t_step_s
    Warmup, Mission,   \* t_warmup_s, t_mission_s
    CapBudget, RebalanceBudget  \* pass criteria of the analysis

ASSUME AttritionAssumption ==
    /\ {M, F, Step, Warmup, CapBudget, RebalanceBudget} \subseteq Nat \ {0}
    /\ {Victims, First, Mission} \subseteq Nat

\* The campaign schedules the first kill after the warm-up (30 s against 8 s); one
\* that was due earlier would be announced during it.
ASSUME ScheduleAssumption == Warmup < First

VARIABLES
    stage,      \* "warmup", "mission" or "stopped": where the main thread is
    clock,      \* time since the nodes were constructed
    t0,         \* orchestrator.t0
    profile,    \* events the orchestrator has not announced yet
    surviving,  \* its count of surviving anchors
    orders,     \* /attrition/event on its way to the enforcer
    notices,    \* the same topic on its way to the monitor
    alive,      \* enforcer.anchors
    room,       \* room[a]: target_capacity of anchor a
    ledger,     \* ledger[a]: followers_attached of anchor a
    sampled,    \* anchors whose load the monitor has written in this unit
    ticked,     \* TRUE when the orchestrator's timer has fired in this unit
    last,       \* last[a]: n_attached in the latest load row of a, NoRow if none
    loads,      \* the other columns of the load rows
    events,     \* the attrition rows of the timeline
    fired       \* history: when each event of the schedule was announced

trialVars == <<stage, clock, t0, profile, surviving, orders, notices, alive, room,
               ledger, sampled, ticked, last, loads, events, fired>>

Anchors == 0..(M - 1)
Followers == 0..(F - 1)
NoRow == -1

AtLeast(n, low) == IF n < low THEN low ELSE n
CeilOf(n, d) == (n + d - 1) \div d
Capacity(survivors) == AtLeast(CeilOf(F, AtLeast(survivors, 1)), 1)

\* The schedule of the sweep never kills the last anchor.
ProfileFor(m, victims) ==
    [i \in 1..(IF victims < m THEN victims ELSE m - 1) |->
        [at |-> First + (i - 1) * Step, victim |-> i - 1]]

TrialInit ==
    /\ stage = "warmup" /\ clock = 0 /\ t0 = 0
    /\ profile = ProfileFor(M, Victims) /\ surviving = M
    /\ orders = <<>> /\ notices = <<>>
    /\ alive = Anchors
    /\ room = [a \in Anchors |-> Capacity(M)]
    /\ ledger = [a \in Anchors |-> {}]
    /\ sampled = {} /\ ticked = FALSE
    /\ last = [a \in Anchors |-> NoRow] /\ loads = {} /\ events = <<>>
    /\ fired = {}

UnderWay == stage # "stopped"

-----------------------------------------------------------------------------
(* attrition_orchestrator_node *)

\* How many anchors survive the i-th of the events announced in one tick.
LeftBefore(i) == AtLeast(surviving - i + 1, 0)
LeftAfter(i) == AtLeast(surviving - i, 0)

\* Everything that is due is announced in one tick.
OrchestratorTick ==
    LET now == clock - t0
        n == Cardinality({i \in DOMAIN profile : profile[i].at <= now})
        said == [i \in 1..n |-> [victim |-> profile[i].victim, left |-> LeftAfter(i)]]
    IN  /\ UnderWay /\ ~ticked
        /\ ticked' = TRUE
        /\ profile' = SubSeq(profile, n + 1, Len(profile))
        /\ surviving' = AtLeast(surviving - n, 0)
        /\ orders' = orders \o said /\ notices' = notices \o said
        /\ fired' = fired \cup {[due |-> profile[i].at, stage |-> stage,
                                 after |-> clock - Warmup] : i \in 1..n}
        /\ UNCHANGED <<stage, clock, t0, alive, room, ledger, sampled, last, loads, events>>

(* AttritionEnforcer *)

Enforce ==
    /\ UnderWay /\ orders # <<>>
    /\ orders' = Tail(orders)
    /\ alive' = alive \ {Head(orders).victim}
    /\ room' = [a \in Anchors |->
                 IF Head(orders).victim \in alive /\ a \in alive'
                 THEN Capacity(Cardinality(alive')) ELSE room[a]]
    /\ UNCHANGED <<stage, clock, t0, profile, surviving, notices, ledger, sampled,
                   ticked, last, loads, events, fired>>

(* anchor_node and follower_node, as SlotLedger has them *)

HasReason(f, a) ==
    \/ a = f % M
    \/ \E b \in Anchors \ alive : f \in ledger[b]

\* Mutant: a full anchor is taken to have room for one more.
HasSlack(a) == Cardinality(ledger[a]) <= room[a]

HasRoom(a) == Cardinality(ledger[a]) < room[a]

Admit(a, f) ==
    /\ UnderWay /\ a \in alive /\ f \notin ledger[a]
    /\ HasReason(f, a) /\ HasRoom(a)
    /\ ledger' = [ledger EXCEPT ![a] = @ \cup {f}]
    /\ UNCHANGED <<stage, clock, t0, profile, surviving, orders, notices, alive, room,
                   sampled, ticked, last, loads, events, fired>>

(* load_monitor_node *)

OnLoad(a) ==
    /\ UnderWay /\ a \in alive \ sampled
    /\ sampled' = sampled \cup {a}
    /\ last' = [last EXCEPT ![a] = Cardinality(ledger[a])]
    /\ loads' = loads \cup {[t |-> clock, anchor |-> a,
                             over |-> Cardinality(ledger[a]) > room[a]]}
    /\ UNCHANGED <<stage, clock, t0, profile, surviving, orders, notices, alive, room,
                   ledger, ticked, events, fired>>

OnAttrition ==
    /\ UnderWay /\ notices # <<>>
    /\ notices' = Tail(notices)
    /\ events' = Append(events, [t |-> clock, victim |-> Head(notices).victim,
                                 left |-> Head(notices).left])
    /\ UNCHANGED <<stage, clock, t0, profile, surviving, orders, alive, room, ledger,
                   sampled, ticked, last, loads, fired>>

-----------------------------------------------------------------------------
(* The main thread of run_trial *)

Settled == ticked /\ orders = <<>> /\ notices = <<>> /\ alive \subseteq sampled

AdvanceClock ==
    /\ UnderWay /\ Settled
    /\ clock < (IF stage = "warmup" THEN Warmup ELSE Warmup + Mission)
    /\ clock' = clock + 1
    /\ sampled' = {} /\ ticked' = FALSE
    /\ UNCHANGED <<stage, t0, profile, surviving, orders, notices, alive, room, ledger,
                   last, loads, events, fired>>

StartMission ==
    /\ stage = "warmup" /\ clock = Warmup
    /\ stage' = "mission"
    /\ UNCHANGED <<t0, clock, profile, surviving, orders, notices, alive, room, ledger,
                   sampled, ticked, last, loads, events, fired>>

\* The orchestrator has been ticking since its construction; its clock is set
\* back when the warm-up is over.
EndWarmup ==
    /\ stage = "warmup" /\ clock = Warmup
    /\ stage' = "mission" /\ t0' = clock
    /\ UNCHANGED <<clock, profile, surviving, orders, notices, alive, room, ledger,
                   sampled, ticked, last, loads, events, fired>>

\* Nobody is waited for: what is due at the end of the mission may still happen,
\* or may not.
StopTrial ==
    /\ stage = "mission" /\ clock = Warmup + Mission
    /\ stage' = "stopped"
    /\ UNCHANGED <<clock, t0, profile, surviving, orders, notices, alive, room, ledger,
                   sampled, ticked, last, loads, events, fired>>

TrialNext ==
    \/ OrchestratorTick
    \/ Enforce
    \/ \E a \in Anchors, f \in Followers : Admit(a, f)
    \/ \E a \in Anchors : OnLoad(a)
    \/ OnAttrition
    \/ AdvanceClock
    \/ EndWarmup
    \/ StopTrial

-----------------------------------------------------------------------------
(* phase6-analyze.py, on the timeline as it is *)

\* The load rows between an attrition row and the next one, or the last load row.
Window(i) ==
    LET end == IF i < Len(events) THEN events[i + 1].t ELSE Max({r.t : r \in loads})
    IN  {r \in loads : events[i].t <= r.t /\ r.t < end /\ r.anchor # events[i].victim}

RebalanceLatency(i) ==
    Max({0} \cup {r.t - events[i].t : r \in {r \in Window(i) : r.over}})

\* The longest time for which consecutive samples of an anchor were over capacity.
OverCapInterval(i) ==
    LET W == Window(i)
        Lasts(r, s) == /\ r.anchor = s.anchor /\ r.t <= s.t
                       /\ \A q \in W : q.anchor = r.anchor /\ r.t <= q.t /\ q.t < s.t => q.over
    IN  Max({0} \cup UNION {{s.t - r.t : s \in {s \in W : Lasts(r, s)}} :
                               r \in {r \in W : r.over}})

TotalOfAll == MapThenSumSet(LAMBDA a : AtLeast(last[a], 0), Anchors)

TotalAttached ==
    LET counted == {a \in Anchors : last[a] # NoRow
                                    /\ \A i \in DOMAIN events : events[i].victim # a}
    IN  MapThenSumSet(LAMBDA a : last[a], counted)

MissionSurvived == TotalAttached >= F - 1

\* Without an event there is no verdict.
PassTrial ==
    /\ events # <<>>
    /\ \A i \in DOMAIN events :
          RebalanceLatency(i) < RebalanceBudget /\ OverCapInterval(i) < CapBudget
    /\ MissionSurvived

-----------------------------------------------------------------------------
(* What must hold.                                                         *)

\* An event of the schedule is announced during the mission and exactly as long
\* after the end of the warm-up as the schedule says, although the orchestrator
\* has been ticking since its construction; none that is due before the end of the
\* mission is left over.
EventsOnTime ==
    /\ \A e \in fired : e.stage = "mission" /\ e.after = e.due
    /\ stage = "stopped" => \A i \in DOMAIN profile : profile[i].at >= Mission

\* The anchor whose kill is due when the trial is stopped, if there is one.
Schedule == ProfileFor(M, Victims)
LastMinute == {Schedule[i].victim : i \in {i \in DOMAIN Schedule : Schedule[i].at = Mission}}

\* Three nodes count the same anchors at different times: the orchestrator, who
\* announces a death before it happens, the enforcer, who brings it about, and
\* the monitor, whose rows the analysis takes for the truth.  When the trial has
\* been stopped they can differ by the kill that was due at that moment only.
BooksAgree ==
    /\ surviving = Cardinality(alive) - Len(orders)
    /\ Len(events) + Len(notices) = M - surviving
    /\ \A i \in DOMAIN events : events[i].left = M - i
    /\ stage = "stopped" =>
          (Anchors \ alive) \ LastMinute
              = {events[i].victim : i \in DOMAIN events} \ LastMinute

\* The anchors keep the promise of SlotLedger through kills and re-balancings: a
\* ledger only grows where there is room, and the enforcer never lowers a
\* capacity. Where a follower listens is not followed; it stays where it was dealt.
Ledger == INSTANCE SlotLedger WITH Anchor <- Anchors, Follower <- Followers,
                                   home <- [f \in Followers |-> f % M]
KeepsLedger == Ledger!Spec
=============================================================================
