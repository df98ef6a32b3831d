# Formal models of the UAV swarm nodes

TLA+ models, TLC configurations and TLAPS proofs for the logic of this repository:
the failover of followers between anchors, the reputation chain from observations
to the exclusion quorum, the Raft baseline, the spoof detector, the factor graphs,
and the trials and sweeps that measure them. `PROJECT.json` is the
machine-readable index: every definition with the lines it models, every run,
hazard, finding and theorem.

    tlc -workers 2 -config raft.cfg MCRaft      # a run
    tlapm RaftProofs.tla                        # a proof module

## 1. The system

Every UAV runs several ROS 2 nodes, single-threaded objects whose callbacks
(subscriptions, timers, parameter changes) run one at a time; nodes of one trial
run side by side, in processes of their own (Phase 4) or on one multi-threaded
executor (Phase 6, Tier B). They share nothing but topics, with one exception:
the Tier B enforcer reaches into the anchors it re-balances. Nothing is persisted
and no script restarts a node, so there is no recovery to model.

| Component | State | Operations | Hard because |
|---|---|---|---|
| `follower_node` | state, current anchor, attach target, offers, last DistilledState, timers | watchdog, offer window, attach attempts with fallback, acks, initial attach | late acks, left-over timers, retries, one-shot timer in mid-failover |
| `anchor_node` | followers_attached, target_capacity, reputation, stream timer | offer, admission control, parameter changes | bursts of attaches, full anchors, slots nobody returns |
| `AttritionEnforcer`, Tier B runner | surviving anchors and followers | kill, re-balance | capacities change under traffic |
| `attrition_orchestrator_node`, `load_monitor_node`, trial analysis | schedule, survivor counters; timeline | tick; record; judge a trial | reset of t0 while ticking; three counts of the same anchors |
| `verifier_node` | up to 200 pending observations | verdict when near enough | eviction, exceptions, no tile |
| `signed_observation_publisher_node` | position | periodic observation, honest or forged | - |
| `reputation_manager_node` | reputation of every peer and of itself | asymmetric weighted update, decay, broadcasts | everybody applies everybody's verdicts, in different orders |
| `quorum_exclusion_node` | last views, last own reputations, excluded | tick that counts qualified voters | views and standing of different age; exclusion is final |
| `raft_node` | state, term, votes | election, vote, heartbeat | votes of several terms in flight, depth-1 heartbeats, Byzantine claimers |
| `spoof_detector_node` | reported poses, window of conflicts, cooldowns | greedy peeling | cooldown skips the peeling |
| `factor_graph_node` | known keys, pending factors | bootstrap, range, TRN, iSAM2 update | a failed update loses initial values, not keys |
| sensors and bridges (`uwb_*`, `multi_uwb_*`, `position_broadcaster`, `trn_anchor`, `px4_position_bridge`, `comm_logger`) | latest poses | add noise and publish | numerical or pure I/O |
| topology generator (`phase3-gen-topology.py`) | - | place clusters, search breadth-first | the hop asked for is not always the one generated |
| sweeps of Phases 3 to 6 | work list, pool, table, manifest | submit, collect, summarise | failed runners, files of earlier sweeps, trials that share a host |
| other scripts: runners of Tier A, smokes, builds, plots | results | start processes, draw | - |

Interactions. Follower to anchors: `/reassign/request` (broadcast), offers on each
anchor's topic (read by *all* followers), `/attach/request/a<id>`,
`/attach/ack/f<id>`, and the anchor's `DistilledState` stream, whose absence or
low reputation starts a failover. Orchestrator to enforcer: `/attrition/event`.
Publisher to verifiers: `/signed_observation`; verifiers to all managers:
`/reputation/update`; managers to quorum nodes: `/reputation/view` and
`/distilled_state`. Raft: heartbeats (best effort, depth 1), vote requests and grants. Positions and ranges reach the spoof
detector and the factor graphs; states and estimates pass between the latter. A sweep
starts a runner per trial and reads the file it leaves.

What makes each correct: no anchor over capacity, no follower at an anchor that
has not admitted it, nobody leaves a healthy anchor, everybody is served again
(failover); one leader per term, terms decided once (Raft); no honest UAV
excluded, Byzantine ones excluded in the end, exclusions that stay justified
(trust); every observation judged once, and truly (verifier); victims found in time and
alerts only about them or their neighbours (spoof detector); no factor on a key without
a value (factor graph); schedules kept, and pass reports that mean what they
say (trials and sweeps).

## 2. Modules

| Module | Role |
|---|---|
| `SlotLedger` | abstract: ledgers that never outgrow their capacity, followers that move only where they are admitted; refined by Failover and by Attrition |
| `Failover`, `FailoverProofs`, `MCFailover` | follower_node, anchor_node, the enforcer, and messages in flight; refines SlotLedger |
| `FollowerTimers`, `FollowerTimersProofs` | one follower with a clock and its never-cancelled periodic timers |
| `LeaderElection` | abstract: each term is won at most once, for good |
| `Raft`, `RaftProofs`, `MCRaft` | raft_node; refines LeaderElection |
| `Verifier`, `VerifierProofs`, `MCVerifier` | signed_observation_publisher_node and verifier_node: from a claim to a verdict |
| `Trust`, `TrustProofs`, `MCTrust` | from verdicts to exclusions: reputation managers, quorum nodes |
| `SpoofDetector`, `SpoofProofs`, `MCSpoof` | a Phase 5 trial: broadcasters, ranging, spoof detector, collector |
| `FactorGraph` | factor_graph_node on every UAV |
| `Topology` | phase3-gen-topology.py |
| `Phase3`, `Phase3Proofs`, `MCPhase3` | composes Topology and FactorGraph: a topology is generated, one is flown |
| `Attrition` | a Tier B trial: orchestrator, enforcer, load monitor, analysis |
| `Sweep` | the batch sweeps of Phases 3 to 6 with their pools of workers |
| `Campaign`, `CampaignProofs`, `MCCampaign` | composes Sweep and Attrition: a sweep with one Phase 6 trial in detail |

Each module's variables carry the code's names, with one action per callback, timer or
main-thread step.

**Failover.** `capacity` is target_capacity, `attached` is followers_attached, `current`
and `target` are current_anchor and attach_target; `pool` counts offers by anchor: it is
offers_received while DETECTING and _ranked_offers while ATTACHING. Choices:

- Time is order. `silent` says that T_timeout has passed. Window and attach timers
  may fire whenever the state has them, because timers of earlier rounds keep
  firing; FollowerTimers has the durations.
- The score is jittered with a Gaussian factor, so any offer can rank first.
- `msgs` is a set: two identical messages in flight are one. A repeated attach is
  idempotent, a repeated request only produces offers already possible. Delivery is
  in any order. `LoseMessage` matters only for liveness: for safety a lost message
  is one that stays in flight.
- An offer carries no follower id and is one message per flying follower.
- `KillAnchor` re-balances all survivors in one step; the code does it anchor by
  anchor. Capacities only grow, and each anchor reads only its own, so any
  interleaving equals one in which the late anchors' requests came first.
- A slower publish rate (S2's first step) is a healthy stream.
- `WarmedUp` chooses between a start after the runner's warm-up and a cold one.
- Mutual exclusion inside a node is the code's: default callback groups.

**FollowerTimers.** Ticks of the watchdog; each instant runs everything due, in any
order, before time goes on. Timers are counted by phase, since all of one kind have
one period. `orphan` and `waited` are history variables. Outside `clock` everything
is an age, and an age nobody reads is 0. A restarted round sets last_distilled_t back by
t_timeout and 0.1 s more, which is one watchdog period (`RestartCycle`).

**Raft.** Timers may expire at any time. Grants that refuse are left out (nobody acts
on them). `mailbox` is the depth-1 heartbeat queue; which nodes a heartbeat reaches
is open (best effort). `MaxTerm` bounds elections only.

**Verifier.** One verifier is followed; the publishers of the others claim the place
they are at, and a forger extracts its descriptors 3 km away. Positions are x
coordinates, because the tile of a place is `int(abs(x)) % len(tiles)`; descriptors are
the tile they come from and their number, and those of different tiles do not match.
`pending` is the deque, in its order and with its eviction, `inbox` the subscription's
queue. A walk over `pending` is one action, as in the code: it drops what is too old,
judges what is near, lets the pipeline fail on any, and deletes the collected
indices at the end. The unit of time is a publishing period. `Readable` are the tiles of which
the verifier has an image: its dataset_dir is its own, and where it is empty, or a file cannot be
read, every claim is refuted (`Confirms`). A verifier with none is one of Trust's `Blind`.

**Trust.** Reputations are integers out of `One`, products rounded down. Verdicts,
views and states are repeated all the time and never kept in flight: any node may
handle the current one of any sender at any time. A quorum node only compares what
it keeps with a threshold, so only the results are kept. `Lapse` is a stretch of time
without verdicts, in which everything decays by the factor `Kept`/`One`. `Manager` and
`Observer` name the UAVs whose nodes are modelled; nobody hears of the others.
Only the reasons VERIFIED and UNVERIFIED appear, since no node publishes another.
What a verdict is here is what Verifier shows it to be.

**SpoofDetector.** A range conflicts with the reported positions of its ends only if one
of them is reported with an offset, surely if exactly one is, and openly where geometry
decides (`Marginal`, or both ends shifted). A tick is `BeginTick` (rebuild the conflict
sets from the window), a `Flag` or `Skip` per greedy pick, and `EndTick`; callbacks of
other nodes run in between, its own do not. `age` and `quiet` are saturating ages of the
last conflict and of the last alert. `OnParam` is the runner's injection, `firstAlert`
the collector. The unit of time is a ranging period.

**FactorGraph.** Per node, `known` is known_keys, `inits` and `factors` are what
pending_init and pending_factors are about, `values` the keys inside iSAM2. The smoother
is external: an update fails when a factor mentions a key without a value, when a value is
inserted twice, or for a numerical reason (`MaxFlakes` bounds those). Messages are repeated
for ever and none is kept in flight.

**Topology.** Positions are rounded to metres and directions taken from a few. `Visit` is
one round of the search: the next UAV of the queue is taken and its neighbours get their hop, in
the order of the adjacency lists (`Ascending`).

**Attrition.** `t0`, `profile`, `surviving` are the orchestrator's, `alive` and `room`
the enforcer's and anchors', `events` and `loads` what the monitor has written;
`orders` and `notices` are the one topic on its two ways. Followers appear only in the
ledgers, as SlotLedger promises them. Everything that has a timer fires in every unit of
time, except at the very end: `StopTrial` waits for nobody, so that a kill due at that moment may be
announced, enforced and recorded in any part. The analysis is a function of the timeline, criterion by criterion.

**Sweep, Campaign.** Four scripts with one main function; they differ in what a failed
runner means (an exception that ends the sweep, a row, a re-used file) and how a runner
cleans up. A trial belongs to one ROS domain (process id modulo 100) and, in Phase 4,
ends by killing every process of the package. Phase 4 nodes have sessions of their own: a runner
that is killed leaves them on its domain (`stray`), until a Phase 4 runner ends. `jobs` is chosen
from what each script is given. `left` are files of an interrupted sweep: directories are reused.
`disturbed` collects the trials that were reached by nodes, or by the pkill, of another one. Campaign follows one Phase 6 trial (`Watched`) step by step; of any
other only the way its runner ends is known. Any runner may crash at any moment.

## 3. Runs

All of them set `CHECK_DEADLOCK FALSE`: counters are bounded (`MaxTerm`, `MaxOrphan`,
`Horizon`, `Budget`, ...), trials and sweeps end, and a swarm without pending messages is
at rest.

| Run | Instance | Shows |
|---|---|---|
| `failover_attrition` | 3 anchors (capacity 2), 4 followers, a1 may die | type, CapacityInvariant, AckBacked, HomeHoldsSlot, refinement of SlotLedger |
| `failover_storm` | 2 anchors, 2 followers, cold start; a1 and f2 may die, a2 be silenced or rejected | CapacityInvariant under mixed failures, SurvivorsHaveRoom, NoFalseFailover |
| `failover_recovery` | room everywhere, a1 silenced and/or rejected, lossy | Recovery |
| `failover_homeless` | capacity 1, a1 dies | **violated** (Recovery): a follower locked out by its own unknown slot |
| `timers` | 5 s, 1 s, 2 s in half-second ticks (the watchdog's period, and the 0.1 s, are then one such tick), 15 s orphaned | NoOverlongWait, ReportedTimeBounded |
| `raft` | 3 nodes, 1 Byzantine, 2 terms | OneLeaderPerTerm, LeaderIsElected, HeartbeatIsElected, OnlyLiarsDepose, refinement of LeaderElection |
| `verifier` | 1 verifier that moves once, an honest publisher and a forger, 3 periods, one failure per walk, one tile it cannot read | JudgedOnce, VerdictsAreSound, QueueHasRoom, NearIsJudged |
| `trust` | 4 UAVs, 3 managers, 1 Byzantine, quorum 2, 1 lapse | HonestNeverExcluded, ExclusionStands, ByzantineExcluded |
| `spoof` | 4 UAVs, 1 or 2 victims, one pair out of range, one marginal | AlertJustified, VictimsFoundInTime |
| `spoof_peeled` | the same, everybody in range | **violated** (PeelingAttributes): an honest UAV alerted in a cooldown |
| `phase3` | chains of 0 to 4 levels, relay 1 or 3, two directions; 2 anchors and 1 follower flown | UpdatesSucceed, HopIsShortest, HopIsExact, SwarmEstimated |
| `campaign` | sweeps of 2 trials with up to 3 workers, two on one domain; a trial with 4 anchors, 2 kills, 3 followers | RowsAccounted, DisturbedForCause, EventsOnTime, BooksAgree, PassIsEarned, refinement of SlotLedger (KeepsLedger) |

Bounds and why they are enough.

- *Anchors and followers.* The capacity race needs an anchor with room for fewer than
  ask: two followers displaced from a1 compete for the single free slot of a2 and of
  a3. The proofs cover all sizes.
- *Messages in flight.* 5 in `failover_attrition` (a broadcast offer is 4 of them and
  one more message can overtake it), 3 in `failover_storm`. States beyond the bound
  are checked and not continued. The runs of one follower have no such constraint.
- *Copies of an offer* (`MaxCopies` 1): a second copy only repeats an attempt.
- *Timers.* Two timers of one kind at one phase, 30 ticks: three complete rounds,
  more than a timer needs to meet a later attempt.
- *Terms.* Two: a stale grant or heartbeat needs an earlier and a later term.
- *Reputation levels.* `trust` keeps four levels with the same order of thresholds as
  the real ones.
- *Spoofing.* m_suspect is 2 (3 by default): two victims with two common neighbours are
  then the smallest swarm in which an honest UAV reaches it; the proofs cover every
  m_suspect, window and cooldown. The window is one ranging period and the cooldown two, so
  that a conflict outlives the period it was measured in and a victim is skipped in the
  middle of its conflicts; the observation time covers two such rounds.
- *Queue.* `MaxLen` is the demand, (foreign publishers) x (MaxAge + 2) = 6; with 5 the run is
  violated, so the demand is exact. Three periods let an observation expire.
- *Places.* Two pairs within r_verify of each other; one place where the forger's displacement
  comes back to the same tile, one without enough keypoints, one of which there is no image.
- *Topologies.* Four levels are the campaign's. The factor graphs need no more than a node,
  a peer without one, and two kinds of key; the proofs cover all swarms. Two flakes let a
  node fail twice or two nodes once.
- *Trials.* Two kills: the second is re-balanced over the first. Four anchors and three
  followers: with three of each no survivor would ever be full when asked. The second kill is due
  exactly when the mission ends, so that it happens in full, in part or not at all. Two trials and
  two workers are all that a row, a duplicate, or two trials at once need. Process ids 299 and 300
  cross a multiple of 100; a third worker, 399, has the domain of the first, and only a Phase 5
  sweep with three jobs has both. Phase 4 has one job or two. An earlier sweep has left nothing, or
  files of all trials and nodes on one domain. Each of the exceptions that DisturbedForCause,
  PassIsEarned and BooksAgree name occurs in the run: without any one of them, TLC finds the rest
  violated.

Symmetry is used in `failover_attrition` (f1 and f4 start alike) and in `raft`
(honest nodes), with safety properties only. `SurvivorsHaveRoom`, like the rest of
`failover_storm`, starts from the capacity the runner computes.

Fairness. Failover assumes weak fairness of the timers and of handling what arrives;
strong fairness of each step of a round trip *in the state that waits for it*:
windows are seconds and round trips milliseconds, so a reply that is again and again in
time for its window is in time once, and jitter lets each offer rank first at times.
Nothing is assumed of kills, parameter changes, losses or the initial attach. Trust
assumes that every manager keeps applying verdicts and every quorum node keeps reading
views and states and ticking: all are periodic in the code. Weak fairness of the
disjunction is enough, since repeated inputs that change nothing leave other inputs
enabled. Phase3 assumes weak fairness of the generator, of each node's 20 Hz tick and of
hearing the estimates of peers, which are published in every tick; ranges, fixes and
states are not needed. Verifier assumes weak fairness of the node's timer and of its
subscription, which one thread serves alternately; publishing and moving are not fair.

## 4. Findings

Two runs expect a violation; each counterexample is a behaviour of the code at odds with
a sentence of the repository (quoted in `PROJECT.json`).

1. **Orphaned by its own slot** (`anchor_node.py:125`). A full anchor is silent to every
   request, also to a follower it has admitted. If the ack was late or lost, the
   follower does not know of its slot and never gets an offer again.
2. **Cooldown disables the peeling** (`spoof_detector_node.py:158`). A spoofed UAV in
   cooldown leaves the loop before it is removed from its neighbours' sets, so that for
   most ticks an honest neighbour of several victims is alerted in their place, which is what
   peeling is documented to prevent.

Seen while modelling, and not run as findings:

- *Failover.* S3 is not silence: publish_rate 0 stops the stream only, the anchor still
  offers and acknowledges (`anchor_node.py:191`); full anchors hide this in the Phase 4
  campaign. Timers are periodic and never cancelled, so attempts are cut short
  (`follower_node.py:296`), and each restarted round moves the moment of death from which
  the switching time is reported (`261`, `284`): `SilencedAnchorInvisible`,
  `AttemptGetsItsTimeout` and `ReportedTimeTrue` state what does not hold. With one survivor
  the reported time can reach 5 + 0.1 + 0.1 + 1 + 2 s: the timeout, what a restart adds to it, one
  watchdog period, the window and one attempt.
- *Raft.* Heartbeats of an equal term depose a leader, contrary to the docstring
  (`raft_node.py:133`); harmless among honest nodes (theorem `HonestLeadersYield`), not
  with a claimer.
- *Trust.* One verifier without tiles refutes every claim, honest ones too, and so lowers a UAV's
  reputation at every manager: M views, one source (`verifier_node.py:203`). HonestNeverExcluded
  is about swarms without such a verifier (`Blind = {}`). Reputations themselves decay (the documents
  decay V): a UAV nobody verifies is rejected after some 900 s. A manager's own entry decays
  in `_on_update` though the tick spares it on purpose; self-targeted verdicts are
  handled twice. With N_honest = M the honest observers never see M votes.
- *Verifier.* Three foreign UAVs at 45 s with max_pending_age_s of an hour have a demand of 246,
  more than the deque's 200; two have one of 164. v_score divides by K, so that a tile with fewer than
  t_verify * K keypoints confirms nobody. For a few negative places
  `int(abs(x)) % 32` maps x and x + 3000 to the same tile, and the forgery passes.
  The campaign says PERIOD_S=45; launch_uav passes 10 s.
- *Topology.* The check of line 69 (2*step_m > r_comm_m) ignores the radius of the clusters:
  with the function's own default of 60 m a level is skipped. At 80 m, relay = 2 gives hop 4
  for k = 3. Only --check tells.
- *Trials.* A crashed runner leaves a part of its timeline, or the file of an earlier sweep, and
  both are analysed as complete; a crash row of Phase 5 lacks n_uavs, which stops its analysis.
  With admission control no anchor is ever over capacity, so that Phase 6's criteria on
  overload and re-balancing hold whatever happens (theorem `OverloadIsNeverSeen`), while total_attached counts
  slots nobody uses (41 and 42 of 40 in `workspaces/phase6-tier-b-prod-v3/results.csv`):
  `phase6-analyze.py:121-122` says "total followers protocol-attached [...] (allow 1 orphan)", but a
  follower admitted by two survivors makes up for one that nobody has admitted. PassIsEarned
  therefore says that all but one are served only where no follower has two slots; in the run two
  of three can be without any anchor in a trial that passes.
- *Parallel trials.* `phase4-campaign.sh:7` advertises JOBS=4, but the first of two Phase 4 runners
  to end kills the nodes of the other (`phase4-scenario-runner.py:231`).
  `phase3-batch-sweep.py:64-68` says that "parallel workers get different domains", but a domain is
  the process id modulo 100. And the nodes of a killed Phase 4 runner stay
  (`phase4-scenario-runner.py:66`): with one job they answer the next trial, and after the sweep
  those of other phases. DisturbedForCause says that there are no other causes.
- *Schedules.* EventsOnTime needs the first event after the warm-up (`ScheduleAssumption`).
- *Phase 2.* The recorder subscribes 15 s after the nodes start, while an exclusion is
  published once; Prop 3's median is over those exclusions that were recorded.

## 5. Proofs

Theorems hold for all sizes and parameters admitted by the named assumptions of the
modules (finite node sets, capacities and thresholds in range; where anchors may die they
start with the runner's capacity). Each is a property some run checks, unless said otherwise.

**FailoverProofs.** The inductive invariant is
`TypeOK /\ CapacityInvariant /\ AckBacked /\ HomeHoldsSlot /\ CapacityTracksSurvivors`.
HomeHoldsSlot is not inductive alone: a follower moves because of an ack, so the ack must
be known to be backed (AckBacked). CapacityInvariant survives a kill only because
capacities never shrink, which needs the survivors' capacity to be the computed one
(CapacityTracksSurvivors) and the rule ceil(N/survivors) to be antitone
(`CeilDivAntitone`). Every step is first shown to be a SlotLedger step or a stutter
(`StepSimulation`), and the capacity and home parts follow from the abstract steps.
`RoomForEveryone` assumes that anchors may die; `NoFailoverIsFalse` assumes `~Lagging` and
rests on a second invariant: a follower that looks for an anchor has a reason to, and
dead, silenced or rejected anchors do not heal.

**RaftProofs.** The inductive invariant adds to TypeOK: nobody has voted in a term above its
own; a grant in flight, and a counted one, is a vote its sender has cast; a leader has
counted a majority; an unread heartbeat comes from another node, and if honest from a winner
of its term. Two majorities share a voter, who has one vote per term (`OneWinner`). A vote,
once cast, is never changed (`VotesAreKept`): a node starts an election only in a term above
any it has voted in, hence the first part. `RaftImplementsElection` maps the winner of a term
to the node a majority has voted for. `HonestLeadersYield` (no run: it assumes
`Byzantine = {}`) is the docstring's claim where nobody lies.

**TrustProofs.** `ByzantineStayExcluded` holds with any parameters: the reputation of a
Byzantine UAV only falls, so a view once below T_reject stays below and the cached
comparison (`RejectionHolds`) never becomes wrong. `HonestStayIn` and `ExclusionsStand` need
what the code needs: no blind verifier (`Blind = {}`), and lapses without verdicts that leave
of R_init at least T_reject (`LapsesHarmless`; MCTrust assumes both, so that TLC evaluates
them for the run). `Standing` is inductive: after n lapses every known reputation of an honest
UAV is at least the n-th value of a floor that decays as they do; hence no view rejects one
and no tick finds a vote. The bound on the number of Byzantine UAVs plays no part.

**VerifierProofs.** The walk of `_tick` ends by deleting the collected indices from the deque,
last one first. `Delete` is a fold; the first part of the module proves what it returns: the
elements at the indices not deleted, in their order (`LeftOf`). The inductive invariant is
TypeOK and
- `OnePerPeriod`: a publisher has one observation of a period;
- `Arriving` and `Waiting`: nothing is in the subscription's queue or the deque twice, nor in both;
- `Accounted`: what is stored waits, or has one vote, or is stale or excused;
- `Truthful`: every vote is the verdict that the tiles of the claim give.

JudgedOnce is not inductive without the distinctness, since one deletion could remove
two copies. `VerdictsTellTheTruth` needs `OneIsNotEnough` (with the defaults seven matches are
needed: one descriptor alone is no proof), which MCVerifier assumes of the run, and holds for any set
of readable tiles. `TheDemandIsBounded` assumes nothing: it counts the observations of one publisher
that are young enough to wait, whatever the length of the deque, and concludes that a deque as
long as the demand never evicts. What the code's 200 is worth is arithmetic on it (section 4).

**SpoofProofs.** The inductive invariant adds to TypeOK that a conflict in the window has an
end with an offset (`ConflictReal`), that the peers a running tick still holds against a UAV
are such neighbours (`PeersReal`; peeling only removes), and that everybody alerted has an
offset or m_suspect neighbours with one (`AlertedGuilty`). Offsets are never taken back, so
guilt stays. `AlertsAreJustified` is a run's property for any layout, window, cooldown and
number of UAVs; `FewVictimsNoFalsePositives` concludes that fewer than m_suspect victims
give no false positive.

`VictimsAreFound` is about time. `RolledOut` follows the offsets unit by unit: injected in the
first, reported in the second, measured in the third. From then on each tick starts with all
the conflicts of every victim. A tick that ends without the alert of a victim has flagged an
innocent before it, since picks go on until nobody has m_suspect peers; that innocent is then
in cooldown, so the next tick needs another. `EachTickTells` counts them: the innocents spent
are at least the ticks begun. `BudgetSuffices` says that there are fewer innocents that could
be flagged (`Suspectable`) than ticks in the budget, or none; MCSpoof assumes it of the run.
With fewer victims than m_suspect there are none (`FewVictimsAreFound`): this is the production
campaign (20 UAVs, 2 spoofed, m_suspect 3).

**Phase3Proofs.** The search keeps `SearchInv`: a UAV that has been seen is reached in as many
links as its hop says (`Reached`); the queue is in order and spans two hops at most (`OneWave`);
the neighbours of what has left it are seen, at most one hop further (`Explored`); no anchor
has been seen. So every UAV within n links is seen, with hop at most n, unless something that
near still waits (`SeenWithin`), and the first anchor found is a nearest one:
`TheHopIsShortest`, for any topology that can be generated. `GivesUpRightly` is the same
for the answer -1. `TheHopIsExact` assumes that links join UAVs of the same or successive
levels only and that each has one a level below (`Laddered`), which the generator does not
guarantee for every radius (section 4); MCPhase3 assumes it, so that TLC evaluates it for every
shape and direction of the run.

For the factor graphs the inductive invariant is GraphTypeOK, UpdatesSucceed, and
`KeysBacked`: at a node without a numerical failure, the known keys are exactly those with a
value inside or pending, and none has both. It is what UpdatesSucceed lacks: an
update is acceptable because every factor is about known keys. `KeysAreNeverLost` is that
part as a theorem. `FlightsAreFactorGraphs` is the composition: every trial satisfies
GraphSpec, from which the invariants follow. `CepRanksExist` bounds the indices compute_cep
reads.

**FollowerTimersProofs.** Each wait has a timer that ends it (`WindowEnds`, `AttemptEnds`): it
was made in the phase of the clock in which the wait began, so after exactly one period it is
due, and time does not go on before it has run. The clock wraps around, hence the lemmas on
remainders; timers of earlier rounds can only end a wait sooner. `DeadBounded` adds up the
waits of a round by the offers it has left, which is the bound on the reported time.

**CampaignProofs.** The invariant of `RowsAreAccounted` puts every trial at one place at most -
waiting, running, finished, listed - and, until a failed trial ends the sweep, at exactly one
(`OnePlace`, `NoneLost`). `DisturbancesHaveACause` assumes nothing of jobs, process ids or
leftovers. With one job in Phase 4 a trial can only be reached by nodes that stray; the invariant
(`CauseInv`) adds that these were left by the trial before it, or by an earlier sweep, because
every runner that comes to its end kills all of them (`Succession`).

Of the trial that is followed, the invariant of `BooksAlwaysAgree` (`OneList`) is that there is
one list of kills, of which schedule, orders on the way, enforcer, notices on the way and
timeline each hold a segment. `EventsAreOnTime` adds `LeftIsAhead`: what is left of the schedule
is not overdue and, once the orchestrator has ticked, not due. Kills due before the end of the
mission are therefore announced; one due at the end may not be (`LastMinute` in BooksAgree). It rests on `ScheduleAssumption`
(the first event comes after the warm-up), without which the ticks before the reset would
announce it.

`PassesAreEarned` joins both halves. A row is a runner's own verdict or covers a crash
(`EarnedInv`), and a verdict "passed" follows from the timeline. A load row is never above
what the anchor holds (`LoadInv`; ledgers only grow), so that the sum of the rows the analysis
counts, found to be at least the number of followers less one, is a lower bound of the slots held
by anchors that no kill has taken before the trial was stopped: by OneList the analysis leaves out
exactly the dead ones, but for one that a kill at the last moment takes. The ledgers of these
anchors then hold as many followers as slots, unless some follower is in two of them
(`DisjointSums`).

`TrialsKeepTheLedger` closes the gap between the two models of anchors: Attrition has only their
ledgers, and implements the SlotLedger that Failover implements too (homes are not followed in a
trial and are mapped to the anchor each follower was dealt). It rests on `RoomInv`: a survivor
never has more room than the next re-balancing gives it, since ceil(F / survivors) only grows
(`CapacityGrows`). Hence no sample is over capacity, and two criteria of phase6-analyze.py
cannot fail (`OverloadIsNeverSeen`).

**How sums and searches are proved.** The library's induction theorems take an operator as a
parameter, which no installed prover can instantiate. Induction is done instead with a set: a
set of numbers without a least element is empty (`Upward`, from the well-foundedness of < on
Nat). That gives the functions that recursive definitions and folds choose (`Within`,
`FoldLeft`, `MapThenSumSet`) first their existence, then their equations.

**Only model-checked.** `Recovery`, `ByzantineExcluded`, `SwarmEstimated` and `NearIsJudged`:
liveness and ENABLED are out of the prover's reach. Every other property of a passing run is a
theorem. `Lagging = TRUE` is in no run; the theorems other than
`NoFailoverIsFalse` include it.

## 6. Not modelled

Numerical code (SuperPoint matching, iSAM2, noise models, curve fits), Gazebo and PX4
(Tier A), comm_logger, the image statistics of Phases 1 and 9, the Phase 2 recorder, plots,
smoke tests, builds. S4 (partial partition) is deferred in the repository itself. Raft
progress: timers have no durations, so liveness under a Byzantine claimer is not stated.
Unlimited growth of a follower's timers is a matter of performance. That the collectors of
Phase 4 listen before the trigger is sequential code.

## 7. Plan

1. A refinement between the layers of the reputation chain: Trust's verdict as an abstraction
   of Verifier's.
2. Safety parts of the liveness properties: what a step towards recovery never undoes.
3. Raft with timed heartbeats, if it can be kept small: progress without a claimer.
4. The Phase 2 recorder against exclusions that are published once.
