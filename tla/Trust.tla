-------------------------------- MODULE Trust --------------------------------
(***************************************************************************)
(* The reputation chain of Phase 2: verifier_node, reputation_manager_node *)
(* and quorum_exclusion_node, one of each on every UAV.                    *)
(*                                                                         *)
(* A verifier publishes its verdict to everybody, so each reputation       *)
(* manager applies the verdicts of all verifiers, in an order of its own.  *)
(* Verdicts are repeated at every observation, and so are views (1 Hz) and *)
(* states (5 Hz): none is kept in flight, any manager or quorum node may   *)
(* handle the current one of any sender at any time.                       *)
(*                                                                         *)
(* Reputations are fractions of One, products are rounded down, and time   *)
(* passes in lapses, over which the 10 Hz decay ticks leave Kept of One.   *)
(***************************************************************************)
EXTENDS Integers, FiniteSets

CONSTANTS
  UAV,
  Publishing,   \* the UAVs whose observations come within r_verify of others
  Byzantine,    \* those whose observations show another place (mode byzantine)
  Blind,        \* the UAVs whose verifier finds no tile, and so refuses all
  Manager,      \* the UAVs whose reputation manager is modelled, and
  Observer,     \* those whose quorum node is: nobody hears of the others
  One, RInit, AlphaPos, AlphaNeg, TReject, TQuorum,  \* parameters, times One
  MQuorum,      \* m_quorum
  Kept,
  MaxLapses,    \* bound: lapses in a run
  Unknown       \* no entry in a dict

ASSUME TrustAssumption ==
  /\ IsFiniteSet(UAV)
  /\ Publishing \subseteq UAV
  /\ Byzantine \subseteq UAV
  /\ Blind \subseteq UAV
  /\ Manager \subseteq UAV
  /\ Observer \subseteq UAV
  /\ One \in Nat \ {0}
  /\ {RInit, AlphaPos, AlphaNeg, TReject, TQuorum, Kept} \subseteq 0 .. One
  /\ MQuorum \in Nat \ {0}
  /\ MaxLapses \in Nat
  /\ Unknown \notin Int

Level == 0 .. One

VARIABLES
  rep,       \* rep[n][p]: reputation of p at n's reputation manager
  fading,    \* fading[n]: rep[n][n] decayed from its last update to now
  lapses,
  \* A quorum node compares what it keeps with a threshold and does nothing
  \* else with it, so only the result is kept here.
  rejecting, \* rejecting[o][t]: the voters whose last view of t, as o knows
             \* it from views[t], is below t_reject
  trusted,   \* trusted[o]: the voters whose voter_own_r is above t_quorum
  excluded   \* excluded[o]

vars == <<rep, fading, lapses, rejecting, trusted, excluded>>

Init ==
  /\ rep = [n \in UAV |-> [p \in UAV |-> IF p = n THEN One ELSE Unknown]]
  /\ fading = [n \in UAV |-> One]
  /\ lapses = 0
  /\ rejecting = [o \in Observer |-> [t \in UAV |-> {}]]
  /\ trusted = [o \in Observer |-> {}]
  /\ excluded = [o \in Observer |-> {}]

-----------------------------------------------------------------------------
(* Verdicts.                                                               *)

\* "No tile coverage -- treat as UNVERIFIED conservatively".
Verified(v, t) == t \notin Byzantine /\ v \notin Blind

\* self.rep.get(p, (self.r_init, now))
Known(n, p) == IF rep[n][p] = Unknown THEN RInit ELSE rep[n][p]

\* Mutant: no upper limit.
ClampBelow(r) == IF r < 0 THEN 0 ELSE r

Clamp(r) == IF r < 0 THEN 0 ELSE IF r > One THEN One ELSE r

Weighted(alpha, rk) == (alpha * rk) \div One

\* What is left of r after a lapse.
Decayed(r) == (r * Kept) \div One

\* The entry an update starts from.  The ticks skip n's own entry, but an
\* update decays it from its last update to now, like any other.
Current(n, t) == IF t = n THEN fading[n] ELSE Known(n, t)

\* Mutant: the asymmetric update with its signs swapped.
SwappedUpdate(r, good, rk) ==
  Clamp(IF good THEN r - Weighted(AlphaNeg, rk) ELSE r + Weighted(AlphaPos, rk))

Updated(r, good, rk) ==
  Clamp(IF good THEN r + Weighted(AlphaPos, rk) ELSE r - Weighted(AlphaNeg, rk))

\* n's manager handles the verdict of v on t, weighted by the reporter's
\* reputation as n knows it.  A manager hears a verdict on itself on two
\* topics, and handles it twice: one step for each.
OnUpdate(n, v, t) ==
  /\ t \in Publishing
  /\ v # t
  /\ LET r == Updated(Current(n, t), Verified(v, t), Known(n, v)) IN
       /\ rep' = [rep EXCEPT ![n][t] = r]
       /\ fading' = IF t = n THEN [fading EXCEPT ![n] = r] ELSE fading
  /\ UNCHANGED <<lapses, rejecting, trusted, excluded>>

\* Time passes without verdicts: _apply_decay_tick decays what each manager
\* holds of others.
Lapse ==
  /\ lapses < MaxLapses
  /\ lapses' = lapses + 1
  /\ rep' = [n \in UAV |-> [p \in UAV |->
               IF p = n \/ rep[n][p] = Unknown
               THEN rep[n][p]
               ELSE Decayed(rep[n][p])]]
  /\ fading' = [n \in UAV |-> Decayed(fading[n])]
  /\ UNCHANGED <<rejecting, trusted, excluded>>

-----------------------------------------------------------------------------
(* The quorum.                                                             *)

Rejects(r) == r # Unknown /\ r < TReject

\* The set S, with v in it or not.
With(S, v, isIn) == IF isIn THEN S \cup {v} ELSE S \ {v}

\* Mutant: v's view of itself counts too.
OnAnyView(o, v, t) ==
  /\ v # o
  /\ rep[v][t] # Unknown
  /\ rejecting' = [rejecting EXCEPT ![o][t] = With(@, v, Rejects(rep[v][t]))]
  /\ UNCHANGED <<rep, fading, lapses, trusted, excluded>>

\* v broadcasts its view of every peer it knows, itself excepted; o does not
\* count its own broadcasts.
OnView(o, v, t) ==
  /\ v \notin {o, t}
  /\ rep[v][t] # Unknown
  /\ rejecting' = [rejecting EXCEPT ![o][t] = With(@, v, Rejects(rep[v][t]))]
  /\ UNCHANGED <<rep, fading, lapses, trusted, excluded>>

OnState(o, v) ==
  /\ trusted' = [trusted EXCEPT ![o] = With(@, v, rep[v][v] > TQuorum)]
  /\ UNCHANGED <<rep, fading, lapses, rejecting, excluded>>

Qualified(o, t) == rejecting[o][t] \cap trusted[o]

\* Mutant: one vote too many is asked for.
TickAboveQuorum(o) ==
  /\ excluded' = [excluded EXCEPT ![o] =
                    @ \cup {t \in UAV : Cardinality(Qualified(o, t)) > MQuorum}]
  /\ UNCHANGED <<rep, fading, lapses, rejecting, trusted>>

\* An exclusion is emitted once and never taken back.
Tick(o) ==
  /\ excluded' = [excluded EXCEPT ![o] =
                    @ \cup {t \in UAV : Cardinality(Qualified(o, t)) >= MQuorum}]
  /\ UNCHANGED <<rep, fading, lapses, rejecting, trusted>>

Next ==
  \/ \E n \in Manager, v, t \in UAV : OnUpdate(n, v, t)
  \/ Lapse
  \/ \E o \in Observer, v \in Manager, t \in UAV : OnView(o, v, t)
  \/ \E o \in Observer, v \in Manager : OnState(o, v)
  \/ \E o \in Observer : Tick(o)

Spec == Init /\ [][Next]_vars

\* Observations are repeated every publish_period_s by a UAV that stays in
\* range, views, states and ticks are periodic: no node stops for good while
\* it has something new to handle.
Fairness ==
  /\ \A n \in Manager : WF_vars(\E v, t \in UAV : OnUpdate(n, v, t))
  /\ \A o \in Observer :
       /\ WF_vars(\E v \in Manager, t \in UAV : OnView(o, v, t))
       /\ WF_vars(\E v \in Manager : OnState(o, v))
       /\ WF_vars(Tick(o))

FairSpec == Spec /\ Fairness

-----------------------------------------------------------------------------
(* Properties.                                                             *)

\* Every variable keeps its type.
TypeOK ==
  /\ rep \in [UAV -> [UAV -> Level \cup {Unknown}]]
  /\ \A n \in UAV : rep[n][n] # Unknown
  /\ fading \in [UAV -> Level]
  /\ lapses \in 0 .. MaxLapses
  /\ rejecting \in [Observer -> [UAV -> SUBSET UAV]]
  /\ trusted \in [Observer -> SUBSET UAV]
  /\ excluded \in [Observer -> SUBSET UAV]

\* Prop 1, "honest not excluded when f <= M-1" (docs/VALIDATION_PLAN.md).
HonestNeverExcluded == \A o \in Observer : excluded[o] \subseteq Byzantine

\* What it takes in the code: the lapses of a run leave of the initial
\* reputation at least T_reject.  (floor[n] is what n of them leave.)
LapsesHarmless ==
  \E floor \in [0 .. MaxLapses -> Level] :
    /\ floor[0] <= RInit
    /\ \A n \in 0 .. MaxLapses - 1 : floor[n + 1] <= Decayed(floor[n])
    /\ \A n \in 0 .. MaxLapses : floor[n] >= TReject

\* An exclusion, though decided from views and states received at different
\* times and never revised, stands: M UAVs other than the excluded one and the
\* one that excludes it reject it now.
Rejecters(t) == {v \in UAV \ {t} : Rejects(rep[v][t])}
ExclusionStands ==
  \A o \in Observer : \A t \in excluded[o] :
    Cardinality(Rejecters(t) \ {o}) >= MQuorum

\* Prop 3, convergence: every other UAV excludes a Byzantine one in the end
\* (where there are M more UAVs to vote: neither the voter itself nor the
\* target has a say).
ByzantineExcluded ==
  \A o \in Observer, b \in Byzantine \cap Publishing :
    o # b => <>(b \in excluded[o])

=============================================================================
