------------------------------ MODULE Verifier ------------------------------
(***************************************************************************)
(* The Proof-of-Observation pipeline of Phase 2, seen by one verifier: the *)
(* publishers of the other UAVs (signed_observation_publisher_node.py)     *)
(* broadcast what they claim to have seen, and the verifier                *)
(* (verifier_node.py) keeps each claim until it is near enough to check it *)
(* against the imagery of the claimed place.                               *)
(*                                                                         *)
(* A position is its x coordinate in metres, the only one the look-up of   *)
(* an image tile uses.  A set of descriptors is the tile it was extracted  *)
(* from and how many there are.  The unit of time is one publishing period *)
(* (45 s); the verifier's 0.5 s timer fires at least once in each.         *)
(***************************************************************************)
EXTENDS Integers, FiniteSets, SequencesExt

CONSTANTS
    UAV,
    Publishing,   \* those whose publisher runs
    Self,         \* verifier_id, the verifier that is modelled
    Forger,       \* UAVs whose publisher runs with mode byzantine
    Place,        \* x coordinates a UAV may be at
    NTiles,       \* image files in dataset_dir
    Readable,     \* tiles of which Self has an image: its dataset_dir is its own, and
                  \* may be empty or hold a damaged file
    Keypoints,    \* Keypoints[t]: keypoints SuperPoint finds in tile t
    RVerify,      \* r_verify
    OffsetX,      \* byzantine_offset_x
    KModeA,       \* k_modea, descriptors in one observation at most
    TVerify,      \* t_verify, in percent
    MaxLen,       \* maxlen of the deque of pending observations
    Depth,        \* history depth of the subscription
    MaxAge,       \* max_pending_age_s, in publishing periods
    Start,        \* Start[u]: initial_position of u's nodes
    Horizon,      \* bound of the model: the clock stops here
    MaxMoves,     \* bound of the model: poses that differ from the one before
    MaxFailures   \* bound of the model: pipeline failures in one walk

ASSUME VerifierAssumption ==
    /\ IsFiniteSet(UAV) /\ Place \subseteq Int
    /\ Self \in UAV /\ Publishing \subseteq UAV /\ Forger \subseteq UAV
    /\ Readable \subseteq 0..(NTiles - 1)
    /\ {NTiles, KModeA, MaxLen, Depth} \subseteq Nat \ {0}
    /\ {RVerify, OffsetX, TVerify, MaxAge, Horizon, MaxMoves, MaxFailures} \subseteq Nat
    /\ Start \in [UAV -> Place]
    /\ Keypoints \in [0..(NTiles - 1) -> Nat]

VARIABLES
    clock,        \* time, in publishing periods
    ticked,       \* TRUE when the verifier's timer has fired in this period
    at,           \* at[u]: my_position_xyz of u's publisher (and verifier)
    moves,        \* number of moves so far
    due,          \* UAVs whose publishing timer has not yet fired in this period
    inbox,        \* observations delivered to the subscription, not yet handled
    pending,      \* the deque of observations to verify
    votes,        \* history: votes[o], the verdicts broadcast about observation o
    stored,       \* history: observations that have entered the deque
    excused       \* history: those a full deque or a failed pipeline has cost

vars == <<clock, ticked, at, moves, due, inbox, pending, votes, stored, excused>>

Abs(n) == IF n < 0 THEN -n ELSE n
Lesser(a, b) == IF a < b THEN a ELSE b

TileAt(x) == Abs(x) % NTiles

Claim(u, t, x, n) ==
    [target |-> u, timestamp |-> t, position |-> x,
     tile |-> TileAt(IF u \in Forger THEN x + OffsetX ELSE x), count |-> n]

\* What a publisher extracts: the strongest KModeA keypoints of the tile it
\* looks at, which for a forger is not the tile of the place it claims.
ExtractDescriptors(u, t, x) ==
    Claim(u, t, x, Lesser(KModeA, Keypoints[Claim(u, t, x, 0).tile]))

Observation == {ExtractDescriptors(u, t, x) : u \in UAV, t \in 0..Horizon, x \in Place}

Init ==
    /\ clock = 0 /\ ticked = FALSE
    /\ at = Start /\ moves = 0
    /\ due = Publishing
    /\ inbox = <<>> /\ pending = <<>>
    /\ votes = <<>>
    /\ stored = {} /\ excused = {}

-----------------------------------------------------------------------------
(* signed_observation_publisher_node *)

OnPose(u) ==
    /\ moves < MaxMoves /\ moves' = moves + 1
    /\ \E x \in Place \ {at[u]} : at' = [at EXCEPT ![u] = x]
    /\ UNCHANGED <<clock, ticked, due, inbox, pending, votes, stored, excused>>

\* A bounded queue that loses its oldest element when it is full.
Push(queue, o, limit) ==
    IF Len(queue) < limit THEN Append(queue, o) ELSE Append(Tail(queue), o)

\* Extraction may fail; the observation of this period is then not published.
PublishObservation(u) ==
    /\ u \in due
    /\ due' = due \ {u}
    /\ \/ inbox' = Push(inbox, ExtractDescriptors(u, clock, at[u]), Depth)
       \/ UNCHANGED inbox
    /\ UNCHANGED <<clock, ticked, at, moves, pending, votes, stored, excused>>

-----------------------------------------------------------------------------
(* verifier_node *)

\* An observation of its own, or one without descriptors, is ignored.
Ignored(o) == o.target = Self \/ o.count = 0

OnObservation ==
    /\ inbox # <<>>
    /\ inbox' = Tail(inbox)
    /\ IF Ignored(Head(inbox))
       THEN UNCHANGED <<pending, stored, excused>>
       ELSE /\ pending' = Push(pending, Head(inbox), MaxLen)
            /\ stored' = stored \cup {Head(inbox)}
            /\ excused' = IF Len(pending) = MaxLen
                          THEN excused \cup {Head(pending)} ELSE excused
    /\ UNCHANGED <<clock, ticked, at, moves, due, votes>>

StaleLate(o) == clock - o.timestamp > 2 * MaxAge
Stale(o) == clock - o.timestamp > MaxAge
Reach(x) == Abs(at[Self] - x) <= RVerify
Near(o) == Reach(o.position)

\* Descriptors of the same tile all pass the ratio test, descriptors of another
\* one do not.  The score divides by KModeA, however few were sent.
Accepted(o, tile) == IF o.tile = tile /\ Keypoints[tile] >= 2 THEN o.count ELSE 0

\* Without an image of the place, nothing is verified.
Confirms(o, tile) == tile \in Readable /\ 100 * Accepted(o, tile) > TVerify * KModeA

\* Mutant: the tile is that of the place where the verifier is now.
VerifiedFromHere(o) == Confirms(o, TileAt(at[Self]))

Verified(o) == Confirms(o, TileAt(o.position))

Verdict(o) == IF Verified(o) THEN "VERIFIED" ELSE "UNVERIFIED"

Dropping(q, i, indices) == IF i \in indices THEN RemoveAt(q, i) ELSE q
Upwards(queue) == [i \in 1..Len(queue) |-> i]

DeleteAscending(queue, indices) ==
    FoldLeft(LAMBDA q, i : Dropping(q, i, indices), queue, Upwards(queue))

\* del pending[i], the highest index first.
Delete(queue, indices) ==
    FoldLeft(LAMBDA q, i : Dropping(q, i, indices), queue, Reverse(Upwards(queue)))

VotesOn(o) == IF o \in DOMAIN votes THEN votes[o] ELSE <<>>

\* One walk over the queue: stale observations are dropped, near ones judged.
\* The pipeline may raise for some of them, which ends them without a verdict.
StaleOnes == {i \in DOMAIN pending : Stale(pending[i])}
NearPrefix == {i \in DOMAIN pending : \A j \in 1..i : Near(pending[j])}
NearOnes == {i \in DOMAIN pending \ StaleOnes : Near(pending[i])}

Tick ==
    /\ ticked' = TRUE
    /\ \E failed \in SUBSET NearOnes :
         /\ Cardinality(failed) <= MaxFailures
         /\ LET judged == {pending[i] : i \in NearOnes \ failed}
            IN  votes' = [o \in DOMAIN votes \cup judged |->
                    VotesOn(o) \o (IF o \in judged THEN <<Verdict(o)>> ELSE <<>>)]
         /\ excused' = excused \cup {pending[i] : i \in failed}
    /\ pending' = Delete(pending, StaleOnes \cup NearOnes)
    /\ UNCHANGED <<clock, at, moves, due, inbox, stored>>

-----------------------------------------------------------------------------
\* Every timer fires once in a period: each publisher's, and the verifier's
\* much faster one at least once; what was delivered has then been handled.
Advance ==
    /\ clock < Horizon /\ ticked /\ due = {} /\ inbox = <<>>
    /\ clock' = clock + 1
    /\ ticked' = FALSE /\ due' = Publishing
    /\ UNCHANGED <<at, moves, inbox, pending, votes, stored, excused>>

Next ==
    \/ \E u \in UAV : OnPose(u) \/ PublishObservation(u)
    \/ OnObservation
    \/ Tick
    \/ Advance

\* The node's single thread serves its timer and its subscription alternately.
Spec == Init /\ [][Next]_vars /\ WF_vars(Tick) /\ WF_vars(OnObservation)

-----------------------------------------------------------------------------
(* What must hold.                                                         *)

TypeOK ==
    /\ clock \in 0..Horizon /\ ticked \in BOOLEAN
    /\ at \in [UAV -> Place] /\ moves \in 0..MaxMoves /\ due \subseteq Publishing
    /\ inbox \in Seq(Observation) /\ Len(inbox) <= Depth
    /\ pending \in Seq(Observation) /\ Len(pending) <= MaxLen
    /\ DOMAIN votes \subseteq stored
    /\ \A o \in DOMAIN votes : votes[o] \in Seq({"VERIFIED", "UNVERIFIED"})
    /\ stored \subseteq Observation /\ excused \subseteq stored

Held(o) == Cardinality({i \in DOMAIN pending : pending[i] = o})

\* An observation that has entered the deque is still waiting or has exactly one
\* verdict, unless age, a full deque or a failed pipeline has cost it: the walk
\* of _tick collects indices and deletes them afterwards, and one index too far
\* would forget a claim nobody has checked and vote twice on another.
JudgedOnce ==
    \A o \in stored :
        \/ Held(o) + Len(VotesOn(o)) = 1
        \/ Held(o) + Len(VotesOn(o)) = 0 /\ (Stale(o) \/ o \in excused)

Rich(tile) == 100 * Lesser(KModeA, Keypoints[tile]) > TVerify * KModeA

\* A verdict tells what the publisher did, however far the verifier has moved
\* since: a claim is confirmed only by an image of the claimed place, and a forged
\* one only where its displaced look-up aliases to the very tile of that place
\* (int(abs(x)) % len(tiles)); an honest claim is refuted only over a tile too poor
\* in keypoints, or by a verifier that has no image of the place.
VerdictsAreSound ==
    \A o \in DOMAIN votes : \A v \in Range(votes[o]) :
        LET tile == TileAt(o.position)
        IN  /\ v = "VERIFIED" =>
                  /\ tile \in Readable
                  /\ o.target \in Forger => TileAt(o.position + OffsetX) = tile
            /\ v = "UNVERIFIED" =>
                  o.target \in Forger \/ ~Rich(tile) \/ tile \notin Readable

\* So few descriptors pass that one alone is no proof, as with the defaults
\* (k_modea 20, t_verify 0.30: seven are needed).
OneIsNotEnough == 100 <= TVerify * KModeA

\* What can be on its way to a verdict: of every foreign publisher one observation
\* of each period up to max_pending_age_s, the current one, and one that has
\* expired since the last walk.
Demand == Cardinality(Publishing \ {Self}) * (MaxAge + 2)

\* A new observation never meets a deque that already holds as many as the demand.
DemandIsMet == inbox # <<>> => Len(pending) < Demand \/ Ignored(Head(inbox))

\* The deque never evicts, as long as it is sized for the demand.
QueueHasRoom == inbox # <<>> => Len(pending) < MaxLen \/ Ignored(Head(inbox))

\* The observations of a place the verifier stays near to leave the deque, however
\* many of farther places wait before them.
NearIsJudged ==
    \A x \in Place :
        <>[]Reach(x) => <>[](\A o \in Range(pending) : o.position # x)
=============================================================================
