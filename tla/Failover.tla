------------------------------ MODULE Failover ------------------------------
(***************************************************************************)
(* Automatic failover (paper IV-F): follower_node.py, anchor_node.py and   *)
(* the AttritionEnforcer of scripts/phase6-tier-b-runner.py, as processes  *)
(* exchanging ROS 2 messages.                                              *)
(*                                                                         *)
(* Time is abstracted to the order of events.  The watchdog is a flag      *)
(* `silent' that says T_timeout has elapsed since the last DistilledState. *)
(* The offer-window and attach-timeout timers are made by create_timer,    *)
(* which in rclpy is periodic, and no code cancels them: a timer left over *)
(* from an earlier round may fire at any moment of a later one.  Entering  *)
(* DETECTING or ATTACHING creates the timer that ends it, so in those      *)
(* states one always exists and here it may fire at any time.  Module      *)
(* FollowerTimers models the clock.                                        *)
(***************************************************************************)
EXTENDS Integers, FiniteSets

CONSTANTS
  Anchor, Follower,
  Initial,      \* Initial[f]: follower f's initial_anchor_id parameter
  InitialCapacity,  \* the target_capacity parameter of every anchor
  Victims,      \* the nodes the attrition profile may kill, once each
  Silenceable,  \* the anchors whose publish_rate may be set to 0 (S2, S3)
  Rejectable,   \* the anchors whose reputation may drop below T_reject (S5)
  Lossy,        \* may a message be lost in transit?
  Lagging,      \* may a healthy anchor's stream reach a follower so late
                \* that its watchdog expires?
  WarmedUp,     \* start after the initial attaches have been granted (the
                \* runner's t_warmup_s) or before any of them is sent
  MaxCopies,    \* bound: copies of one anchor's offer a follower remembers
  NoAnchor      \* attach_target = None

ASSUME SetsAssumption ==
  /\ IsFiniteSet(Anchor)
  /\ IsFiniteSet(Follower)
  /\ NoAnchor \notin Anchor
ASSUME ParametersAssumption ==
  /\ Initial \in [Follower -> Anchor]
  /\ InitialCapacity \in Nat
  /\ Victims \subseteq Anchor \cup Follower
  /\ Silenceable \subseteq Anchor
  /\ Rejectable \subseteq Anchor
  /\ Lossy \in BOOLEAN
  /\ Lagging \in BOOLEAN
  /\ WarmedUp \in BOOLEAN
  /\ MaxCopies \in Nat \ {0}

VARIABLES
  \* anchor_node
  up,          \* the anchors that have not been killed
  capacity,    \* target_capacity
  attached,    \* followers_attached
  silenced,    \* the anchors whose DistilledState timer is gone
  rejected,    \* the anchors that publish a reputation below T_reject
  \* follower_node
  flying,      \* the followers that have not been killed
  state,       \* STATE_ATTACHED, STATE_DETECTING or STATE_ATTACHING
  current,     \* current_anchor
  \* A value the code keeps in a state where it never reads it again is
  \* replaced by the initial one in the next three.
  target,      \* attach_target, read only while ATTACHING
  pool,        \* offers_received while DETECTING, _ranked_offers while
               \* ATTACHING: the two are never live together
  silent,      \* while ATTACHED: T_timeout has passed since last_distilled_t
  booted,      \* the one-shot _send_initial_attach has fired
  \* the middleware
  msgs         \* messages in flight

anchorVars   == <<up, capacity, attached, silenced, rejected>>
followerVars == <<flying, state, current, target, pool, silent, booted>>
vars         == <<anchorVars, followerVars, msgs>>

Message(kind, a, f) == [kind |-> kind, anchor |-> a, follower |-> f]

Messages ==
  [kind : {"request", "offer", "attach", "ack"},
   anchor : Anchor, follower : Follower]

NoOffers == [a \in Anchor |-> 0]

\* Nobody reads what is sent to an anchor that has been destroyed.
SendTo(a, ms) == msgs' = IF a \in up THEN msgs \cup ms ELSE msgs

-----------------------------------------------------------------------------
(* The attrition enforcer's capacity rule.                                 *)

CeilDiv(n, d) == (n + d - 1) \div d

AtLeastOne(n) == IF n < 1 THEN 1 ELSE n

\* max(1, ceil(n_followers_init / max(survivors, 1)))
RebalancedCapacity(survivors) ==
  AtLeastOne(CeilDiv(Cardinality(Follower), AtLeastOne(Cardinality(survivors))))

StartingLedger(a) == IF WarmedUp THEN {f \in Follower : Initial[f] = a} ELSE {}

ASSUME WarmUpAssumption ==
  \A a \in Anchor : Cardinality(StartingLedger(a)) <= InitialCapacity

\* Where anchors may die, they start with the capacity the runner computes.
ASSUME CapacityAssumption ==
  Victims \cap Anchor # {} => InitialCapacity = RebalancedCapacity(Anchor)

-----------------------------------------------------------------------------
Init ==
  /\ up = Anchor
  /\ capacity = [a \in Anchor |-> InitialCapacity]
  /\ attached = [a \in Anchor |-> StartingLedger(a)]
  /\ silenced = {}
  /\ rejected = {}
  /\ flying = Follower
  /\ state = [f \in Follower |-> "ATTACHED"]
  /\ current = Initial
  /\ target = [f \in Follower |-> NoAnchor]
  /\ pool = [f \in Follower |-> NoOffers]
  /\ silent = [f \in Follower |-> FALSE]
  /\ booted = [f \in Follower |-> WarmedUp]
  /\ msgs = {}

-----------------------------------------------------------------------------
(* Follower.                                                               *)

\* The jittered one-shot attach to the initial anchor.  It overwrites
\* attach_target whatever the state; its ack is ignored unless ATTACHING.
SendInitialAttach(f) ==
  /\ f \in flying
  /\ ~booted[f]
  /\ booted' = [booted EXCEPT ![f] = TRUE]
  /\ target' = IF state[f] = "ATTACHING"
               THEN [target EXCEPT ![f] = current[f]]
               ELSE target
  /\ SendTo(current[f], {Message("attach", current[f], f)})
  /\ UNCHANGED <<anchorVars, flying, state, current, pool, silent>>

\* Enter DETECTING: forget old offers, broadcast ReassignRequest to every
\* anchor, create a window timer.
StartDetecting(f) ==
  /\ state' = [state EXCEPT ![f] = "DETECTING"]
  /\ pool' = [pool EXCEPT ![f] = NoOffers]
  /\ silent' = [silent EXCEPT ![f] = FALSE]
  /\ msgs' = msgs \cup {Message("request", a, f) : a \in up}
  /\ UNCHANGED <<anchorVars, flying, current, target, booted>>

Heard(f) == current[f] \in up \ silenced

\* A DistilledState with an acceptable reputation restarts the watchdog.
OnDistilledHealthy(f) ==
  /\ f \in flying
  /\ state[f] = "ATTACHED"
  /\ Heard(f)
  /\ current[f] \notin rejected
  /\ silent' = [silent EXCEPT ![f] = FALSE]
  /\ UNCHANGED <<anchorVars, flying, state, current, target, pool, booted, msgs>>

\* A DistilledState with R < T_reject starts a failover at once (S5).
OnDistilledRejected(f) ==
  /\ f \in flying
  /\ state[f] = "ATTACHED"
  /\ Heard(f)
  /\ current[f] \in rejected
  /\ StartDetecting(f)

\* T_timeout elapses with no DistilledState handled.
FallSilent(f) ==
  /\ f \in flying
  /\ state[f] = "ATTACHED"
  /\ ~silent[f]
  /\ Lagging \/ ~Heard(f)
  /\ silent' = [silent EXCEPT ![f] = TRUE]
  /\ UNCHANGED <<anchorVars, flying, state, current, target, pool, booted, msgs>>

WatchdogTick(f) ==
  /\ f \in flying
  /\ state[f] = "ATTACHED"
  /\ silent[f]
  /\ StartDetecting(f)

\* Offers carry no follower id and are collected whoever asked for them.
OnOffer(f, a) ==
  /\ f \in flying
  /\ Message("offer", a, f) \in msgs
  /\ msgs' = msgs \ {Message("offer", a, f)}
  /\ pool' = IF state[f] = "DETECTING" /\ pool[f][a] < MaxCopies
             THEN [pool EXCEPT ![f][a] = @ + 1]
             ELSE pool
  /\ UNCHANGED <<anchorVars, flying, state, current, target, silent, booted>>

\* Mutant: an empty offer list leaves the follower waiting.
KeepWaiting(f) ==
  /\ state' = [state EXCEPT ![f] = "DETECTING"]
  /\ target' = [target EXCEPT ![f] = NoAnchor]
  /\ UNCHANGED <<silent, pool, msgs>>

\* The follower gives up this round: ATTACHED to the old anchor, with
\* last_distilled_t set so far back that the watchdog fires again.
RestartCycle(f) ==
  /\ silent' = [silent EXCEPT ![f] = TRUE]
  /\ state' = [state EXCEPT ![f] = "ATTACHED"]
  /\ target' = [target EXCEPT ![f] = NoAnchor]
  /\ UNCHANGED <<pool, msgs>>

\* The jittered score can rank the offers in any order, so popping the head
\* of the ranking takes any of them.
TryAnchor(f, a) ==
  /\ pool[f][a] > 0
  /\ pool' = [pool EXCEPT ![f][a] = @ - 1]
  /\ target' = [target EXCEPT ![f] = a]
  /\ state' = [state EXCEPT ![f] = "ATTACHING"]
  /\ SendTo(a, {Message("attach", a, f)})
  /\ UNCHANGED silent

TryNextAttach(f) ==
  /\ \/ pool[f] = NoOffers /\ RestartCycle(f)
     \/ \E a \in Anchor : TryAnchor(f, a)
  /\ UNCHANGED <<anchorVars, flying, current, booted>>

CloseOfferWindow(f) ==
  /\ f \in flying
  /\ state[f] = "DETECTING"
  /\ TryNextAttach(f)

AttachTimeoutTick(f) ==
  /\ f \in flying
  /\ state[f] = "ATTACHING"
  /\ TryNextAttach(f)

\* Follower f handles the ack of a: it listens to `home' from now on.
CompleteFailover(f, a, home, late) ==
  /\ f \in flying
  /\ Message("ack", a, f) \in msgs
  /\ state[f] = "ATTACHING"
  /\ msgs' = msgs \ {Message("ack", a, f)}
  /\ current' = [current EXCEPT ![f] = home]
  /\ silent' = [silent EXCEPT ![f] = late]
  /\ state' = [state EXCEPT ![f] = "ATTACHED"]
  /\ pool' = [pool EXCEPT ![f] = NoOffers]
  /\ target' = [target EXCEPT ![f] = NoAnchor]
  /\ UNCHANGED <<anchorVars, flying, booted>>

\* Mutants: any ack completes the attach to attach_target; attach_target is
\* cleared before it is copied; last_distilled_t is not restarted.
AckFromAnyone(f, a) == CompleteFailover(f, a, target[f], FALSE)
AckClearedFirst(f, a) == target[f] = a /\ CompleteFailover(f, a, NoAnchor, FALSE)
AckKeepsClock(f, a) == target[f] = a /\ CompleteFailover(f, a, a, TRUE)

\* The ack this follower is waiting for: the failover completes.
OnAckAwaited(f, a) == target[f] = a /\ CompleteFailover(f, a, a, FALSE)

\* Any other ack is dropped; the anchor that sent it keeps the slot.
OnAckIgnored(f, a) ==
  /\ f \in flying
  /\ Message("ack", a, f) \in msgs
  /\ state[f] # "ATTACHING" \/ target[f] # a
  /\ msgs' = msgs \ {Message("ack", a, f)}
  /\ UNCHANGED <<anchorVars, followerVars>>

-----------------------------------------------------------------------------
(* Anchor.                                                                 *)

\* Mutant: off by one.
Overfull(a) == Cardinality(attached[a]) > capacity[a]

Full(a) == Cardinality(attached[a]) >= capacity[a]

\* An anchor with room answers on its own offer topic, which every follower
\* reads; a full one stays silent.
OnReassignRequest(a, f) ==
  /\ a \in up
  /\ Message("request", a, f) \in msgs
  /\ msgs' = (msgs \ {Message("request", a, f)})
             \cup (IF Full(a) THEN {} ELSE {Message("offer", a, g) : g \in flying})
  /\ UNCHANGED <<anchorVars, followerVars>>

\* Mutant: the ack is sent before admission is decided.
AckFirst(a, f) ==
  /\ a \in up
  /\ Message("attach", a, f) \in msgs
  /\ attached' = IF f \notin attached[a] /\ Full(a)
                 THEN attached
                 ELSE [attached EXCEPT ![a] = @ \cup {f}]
  /\ msgs' = (msgs \ {Message("attach", a, f)})
             \cup (IF f \in flying THEN {Message("ack", a, f)} ELSE {})
  /\ UNCHANGED <<up, capacity, silenced, rejected, followerVars>>

\* Admission control: refuse silently when full, unless f is known already.
OnAttachRequest(a, f) ==
  /\ a \in up
  /\ Message("attach", a, f) \in msgs
  /\ LET rest == msgs \ {Message("attach", a, f)} IN
       IF f \notin attached[a] /\ Full(a)
       THEN /\ msgs' = rest
            /\ UNCHANGED attached
       ELSE /\ attached' = [attached EXCEPT ![a] = @ \cup {f}]
            /\ msgs' = rest \cup (IF f \in flying THEN {Message("ack", a, f)} ELSE {})
  /\ UNCHANGED <<up, capacity, silenced, rejected, followerVars>>

\* _param_cb, publish_rate = 0: only the DistilledState timer is destroyed.
SilencePublisher(a) ==
  /\ a \in (up \cap Silenceable) \ silenced
  /\ silenced' = silenced \cup {a}
  /\ UNCHANGED <<up, capacity, attached, rejected, followerVars, msgs>>

\* _param_cb, reputation = 0.1 (S5).
DropReputation(a) ==
  /\ a \in (up \cap Rejectable) \ rejected
  /\ rejected' = rejected \cup {a}
  /\ UNCHANGED <<up, capacity, attached, silenced, followerVars, msgs>>

-----------------------------------------------------------------------------
(* Attrition and the middleware.                                           *)

\* Mutant: survivors are counted before the victim is gone.
CountedTooEarly(a) ==
  /\ a \in up \cap Victims
  /\ up' = up \ {a}
  /\ capacity' = [b \in Anchor |->
                    IF b \in up' THEN RebalancedCapacity(up) ELSE capacity[b]]
  /\ msgs' = {m \in msgs : m.anchor # a \/ m.kind \in {"offer", "ack"}}
  /\ UNCHANGED <<attached, silenced, rejected, followerVars>>

\* The enforcer destroys the anchor and pushes a new capacity onto the
\* survivors; what was addressed to it is gone, what it sent is not.
KillAnchor(a) ==
  /\ a \in up \cap Victims
  /\ up' = up \ {a}
  /\ capacity' = [b \in Anchor |->
                    IF b \in up' THEN RebalancedCapacity(up') ELSE capacity[b]]
  /\ msgs' = {m \in msgs : m.anchor # a \/ m.kind \in {"offer", "ack"}}
  /\ UNCHANGED <<attached, silenced, rejected, followerVars>>

\* A destroyed follower stays in every followers_attached it was in.
KillFollower(f) ==
  /\ f \in flying \cap Victims
  /\ flying' = flying \ {f}
  /\ msgs' = {m \in msgs : m.follower # f \/ m.kind \in {"request", "attach"}}
  /\ UNCHANGED <<anchorVars, state, current, target, pool, silent, booted>>

LoseMessage(m) ==
  /\ Lossy
  /\ msgs' = msgs \ {m}
  /\ UNCHANGED <<anchorVars, followerVars>>

FollowerNext(f) ==
  \/ SendInitialAttach(f)
  \/ OnDistilledHealthy(f)
  \/ OnDistilledRejected(f)
  \/ FallSilent(f)
  \/ WatchdogTick(f)
  \/ CloseOfferWindow(f)
  \/ AttachTimeoutTick(f)
  \/ KillFollower(f)

PairNext(a, f) ==
  \/ OnOffer(f, a)
  \/ OnAckAwaited(f, a)
  \/ OnAckIgnored(f, a)
  \/ OnReassignRequest(a, f)
  \/ OnAttachRequest(a, f)

AnchorNext(a) ==
  \/ SilencePublisher(a)
  \/ DropReputation(a)
  \/ KillAnchor(a)

Next ==
  \/ \E f \in Follower : FollowerNext(f)
  \/ \E a \in Anchor, f \in Follower : PairNext(a, f)
  \/ \E a \in Anchor : AnchorNext(a)
  \/ \E m \in msgs : LoseMessage(m)

Spec == Init /\ [][Next]_vars

\* Timers keep firing and readers keep being served.  A reply that is again
\* and again in time for the state that waits for it is in time once: round
\* trips are milliseconds, windows are seconds, and only left-over timers
\* make a window shorter.  The Gaussian score jitter gives every offer a
\* chance to rank first.
Fairness ==
  /\ \A f \in Follower :
       /\ WF_vars(FallSilent(f))
       /\ WF_vars(WatchdogTick(f))
       /\ WF_vars(OnDistilledRejected(f))
       /\ WF_vars(CloseOfferWindow(f))
       /\ WF_vars(AttachTimeoutTick(f))
  /\ \A f \in Follower, a \in Anchor :
       /\ SF_vars(state[f] = "DETECTING" /\ OnReassignRequest(a, f))
       /\ SF_vars(state[f] = "DETECTING" /\ OnOffer(f, a))
       /\ SF_vars(state[f] = "ATTACHING" /\ target[f] = a /\ OnAttachRequest(a, f))
       /\ SF_vars(CloseOfferWindow(f) /\ target'[f] = a)
       /\ SF_vars(OnAckAwaited(f, a))

FairSpec == Spec /\ Fairness

-----------------------------------------------------------------------------
(* Properties.                                                             *)

\* Every variable keeps its type.
TypeOK ==
  /\ up \subseteq Anchor
  /\ capacity \in [Anchor -> Nat]
  /\ attached \in [Anchor -> SUBSET Follower]
  /\ silenced \subseteq Anchor
  /\ rejected \subseteq Anchor
  /\ flying \subseteq Follower
  /\ state \in [Follower -> {"ATTACHED", "DETECTING", "ATTACHING"}]
  /\ current \in [Follower -> Anchor]
  /\ target \in [Follower -> Anchor \cup {NoAnchor}]
  /\ pool \in [Follower -> [Anchor -> 0 .. MaxCopies]]
  /\ silent \in [Follower -> BOOLEAN]
  /\ booted \in [Follower -> BOOLEAN]
  /\ msgs \subseteq Messages

\* "Capacity invariant strictly held" (README.md): whatever the burst of
\* displaced followers, and while capacities are re-balanced under it, no
\* anchor has admitted more followers than its target_capacity.
CapacityInvariant ==
  \A a \in Anchor : Cardinality(attached[a]) <= capacity[a]

\* An ack in flight is backed by a slot at the anchor that sent it, however
\* late it is and whatever either side has done since.
AckBacked ==
  \A m \in msgs : m.kind = "ack" => m.follower \in attached[m.anchor]

\* The load an anchor publishes never misses a follower that moved to it:
\* every follower that has left its initial anchor is in followers_attached
\* of the anchor it now listens to.
HomeHoldsSlot ==
  \A f \in Follower : current[f] # Initial[f] => f \in attached[current[f]]

\* After any sequence of kills the survivors' capacities together hold every
\* initial follower (the purpose of new_target_capacity = ceil(N / survivors)).
SurvivorsHaveRoom ==
  \A a \in up : Cardinality(up) * capacity[a] >= Cardinality(Follower)

\* "Zero false-positive failovers" (docs/phase-4-spec.md): a follower leaves
\* an anchor only if that anchor is dead, silenced or rejected.  It holds
\* where the middleware delivers the stream in time (~Lagging).
NoFalseFailover ==
  [][\A f \in Follower :
       current'[f] # current[f] => ~Heard(f) \/ current[f] \in rejected]_vars

\* "All surviving followers retain an anchor" (docs/phase-6-spec.md): a
\* follower whose anchor is dead, silenced or rejected is eventually with one
\* that is none of these.
Unserved(f) == f \in flying /\ (~Heard(f) \/ current[f] \in rejected)
Recovery == \A f \in Follower : Unserved(f) ~> ~Unserved(f)

\* S3 "network drops 100% of anchor's outbound packets (... invisible to
\* followers)" (docs/phase-4-spec.md): no failover completes at an anchor under
\* that scenario.  A restarted cycle also returns to ATTACHED, but silent.
SilencedAnchorInvisible ==
  [][\A f \in Follower :
       (state[f] = "ATTACHING" /\ state'[f] = "ATTACHED" /\ ~silent'[f])
         => current'[f] \notin silenced]_vars

\* The protocol keeps the promise of SlotLedger.
Ledger == INSTANCE SlotLedger
            WITH ledger <- attached, room <- capacity, home <- current
ImplementsLedger == Ledger!Spec

=============================================================================
