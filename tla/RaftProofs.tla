----------------------------- MODULE RaftProofs -----------------------------
(***************************************************************************)
(* Proofs about Raft, for any finite set of nodes, any of which may be     *)
(* Byzantine in the sense of raft_node.py: false heartbeats, honest votes. *)
(***************************************************************************)
EXTENDS Raft, FiniteSetTheorems, TLAPS

-----------------------------------------------------------------------------
(* Majorities.                                                             *)

LEMMA QuorumFacts ==
  /\ Cardinality(Node) \in Nat
  /\ Quorum \in Nat
  /\ Quorum >= 1
  /\ Quorum + Quorum > Cardinality(Node)
  <1>1. Cardinality(Node) \in Nat
    BY NodeAssumption, FS_CardinalityType
  <1> QED
    BY <1>1 DEF Quorum

LEMMA SupportersFinite ==
  ASSUME NEW n, NEW t
  PROVE  /\ Supporters(n, t) \in SUBSET Node
         /\ IsFiniteSet(Supporters(n, t))
         /\ Cardinality(Supporters(n, t)) \in Nat
  BY NodeAssumption, FS_Subset, FS_CardinalityType DEF Supporters

\* Two majorities share a voter, and a voter has one vote in a term.
LEMMA OneWinner ==
  ASSUME NEW m, NEW n, NEW t, Elected(m, t), Elected(n, t)
  PROVE  m = n
  <1> DEFINE S == Supporters(m, t)
             T == Supporters(n, t)
  <1>1. Cardinality(S) + Cardinality(T) > Cardinality(Node)
    BY SupportersFinite, QuorumFacts DEF Elected
  <1>2. S \cap T # {}
    BY <1>1, SupportersFinite, NodeAssumption, FS_MajoritiesIntersect
  <1> QED
    BY <1>2 DEF Supporters

-----------------------------------------------------------------------------
(* The inductive invariant.                                                *)

\* A node has voted in no term beyond its own: this is why overwriting
\* voted_for_term in _start_election changes no vote.
NoFutureVote ==
  \A n \in Node, t \in Term : votedFor[n][t] # Nobody => t <= term[n]

\* A grant in flight and a counted vote stand for a vote that was given.
GrantIsVote ==
  \A g \in msgs : g.kind = "grant" => votedFor[g.from][g.term] = g.to

CountedIsVote ==
  \A n \in Node :
    state[n] # "F" =>
      /\ term[n] \in Term
      /\ \A v \in votes[n] : votedFor[v][term[n]] = n

LeaderHasQuorum ==
  \A n \in Node : state[n] = "L" => Cardinality(votes[n]) >= Quorum

HeartbeatFromOther ==
  \A n \in Node :
    mailbox[n] # Empty => mailbox[n].term \in Term /\ mailbox[n].leader # n

IInv ==
  /\ TypeOK
  /\ NoFutureVote
  /\ GrantIsVote
  /\ CountedIsVote
  /\ LeaderHasQuorum
  /\ HeartbeatFromOther
  /\ HeartbeatIsElected

LEMMA EmptyFacts ==
  /\ Empty.leader = Nobody
  /\ \A n, t : Heartbeat(n, t).leader = n /\ Heartbeat(n, t).term = t
  /\ \A n \in Node : \A t : Heartbeat(n, t) # Empty
  BY NodeAssumption DEF Empty, Heartbeat

LEMMA TypeInit == Init => TypeOK
  BY NodeAssumption DEF Init, TypeOK, Term

LEMMA IInvInit == Init => IInv
  <1> SUFFICES ASSUME Init PROVE IInv
    OBVIOUS
  <1>1. HeartbeatFromOther
    BY DEF Init, HeartbeatFromOther
  <1>2. NoFutureVote /\ GrantIsVote /\ CountedIsVote /\ LeaderHasQuorum
    BY DEF Init, NoFutureVote, GrantIsVote, CountedIsVote, LeaderHasQuorum
  <1>3. HeartbeatIsElected
    BY DEF Init, HeartbeatIsElected
  <1> QED
    BY <1>1, <1>2, <1>3, TypeInit DEF IInv

LeadersElected ==
  TypeOK /\ CountedIsVote /\ LeaderHasQuorum => LeaderIsElected

LEMMA LeaderElected == LeadersElected
  <1> SUFFICES ASSUME TypeOK, CountedIsVote, LeaderHasQuorum,
                      NEW n \in Node, state[n] = "L"
               PROVE  Elected(n, term[n])
    BY DEF LeadersElected, LeaderIsElected
  <1>1. votes[n] \in SUBSET Supporters(n, term[n])
    BY DEF TypeOK, CountedIsVote, Supporters
  <1>2. /\ Cardinality(votes[n]) <= Cardinality(Supporters(n, term[n]))
        /\ Cardinality(votes[n]) \in Nat
    BY <1>1, SupportersFinite, FS_Subset, FS_CardinalityType
  <1> QED
    BY <1>2, SupportersFinite, QuorumFacts DEF LeaderHasQuorum, Elected

LEMMA LeaderElectedNext == LeadersElected'
  BY LeaderElected, PTL

-----------------------------------------------------------------------------
(* Types.                                                                  *)

LEMMA BroadcastType ==
  ASSUME TypeOK, NEW n \in Node, NEW t \in 0 .. MaxTerm, Broadcast(n, t)
  PROVE  mailbox' \in [Node -> {Empty} \cup [leader : Node, term : 0 .. MaxTerm]]
  BY DEF TypeOK, Broadcast, Heartbeat

LEMMA VoteType ==
  ASSUME votedFor \in [Node -> [Term -> Node \cup {Nobody}]],
         NEW n \in Node, NEW t \in Term, NEW m \in Node
  PROVE  /\ [votedFor EXCEPT ![n][t] = m] \in [Node -> [Term -> Node \cup {Nobody}]]
         /\ \A p \in Node, s \in Term :
              [votedFor EXCEPT ![n][t] = m][p][s] =
                IF p = n /\ s = t THEN m ELSE votedFor[p][s]
  <1> DEFINE row == [votedFor[n] EXCEPT ![t] = m]
  <1>1. row \in [Term -> Node \cup {Nobody}]
    OBVIOUS
  <1>2. [votedFor EXCEPT ![n][t] = m] = [votedFor EXCEPT ![n] = row]
    OBVIOUS
  <1>3. \A s \in Term : row[s] = IF s = t THEN m ELSE votedFor[n][s]
    OBVIOUS
  <1> HIDE DEF row
  <1>4. \A p \in Node : [votedFor EXCEPT ![n] = row][p] = IF p = n THEN row ELSE votedFor[p]
    OBVIOUS
  <1> QED
    BY <1>1, <1>2, <1>3, <1>4

LEMMA TypeNext == TypeOK /\ [Next]_vars => TypeOK'
  <1> SUFFICES ASSUME TypeOK, [Next]_vars PROVE TypeOK'
    OBVIOUS
  <1>0. CASE UNCHANGED vars
    BY <1>0 DEF vars, TypeOK
  <1>1. ASSUME NEW n \in Node, StartElection(n) PROVE TypeOK'
    <2>1. term[n] + 1 \in Term /\ term[n] + 1 \in 0 .. MaxTerm
      BY <1>1, NodeAssumption DEF StartElection, TypeOK, Term
    <2>2. {Vote("request", n, m, term[n] + 1) : m \in Node \ {n}}
            \subseteq [kind : {"request", "grant"}, from : Node, to : Node, term : Term]
      BY <2>1 DEF Vote
    <2> QED
      BY <1>1, <2>1, <2>2 DEF StartElection, TypeOK
  <1>2. ASSUME NEW n \in Node, LeaderTick(n) PROVE TypeOK'
    <2>1. term[n] \in 0 .. MaxTerm
      BY DEF TypeOK
    <2>2. mailbox' \in [Node -> {Empty} \cup [leader : Node, term : 0 .. MaxTerm]]
      BY <1>2, <2>1, BroadcastType DEF LeaderTick
    <2> QED
      BY <1>2, <2>2 DEF LeaderTick, TypeOK
  <1>3. ASSUME NEW n \in Node, ByzantineTick(n) PROVE TypeOK'
    <2>1. AtLeastOne(term[n]) \in 0 .. MaxTerm
      BY NodeAssumption DEF TypeOK, AtLeastOne
    <2>2. mailbox' \in [Node -> {Empty} \cup [leader : Node, term : 0 .. MaxTerm]]
      BY <1>3, <2>1, BroadcastType DEF ByzantineTick
    <2> QED
      BY <1>3, <2>2 DEF ByzantineTick, TypeOK
  <1>4. ASSUME NEW n \in Node, OnHeartbeat(n) PROVE TypeOK'
    <2>1. mailbox[n].term \in 0 .. MaxTerm
      BY <1>4 DEF OnHeartbeat, TypeOK
    <2> QED
      BY <1>4, <2>1 DEF OnHeartbeat, TypeOK
  <1>5. ASSUME NEW n \in Node, NEW r \in msgs, OnVoteRequest(n, r) PROVE TypeOK'
    <2>1. r.from \in Node /\ r.term \in Term /\ r.term \in 0 .. MaxTerm
      BY NodeAssumption DEF TypeOK, Term
    <2>2. Vote("grant", n, r.from, r.term)
            \in [kind : {"request", "grant"}, from : Node, to : Node, term : Term]
      BY <2>1 DEF Vote
    <2>3. msgs' \subseteq [kind : {"request", "grant"}, from : Node, to : Node, term : Term]
      BY <1>5, <2>2 DEF OnVoteRequest, AnswerVoteRequest, TypeOK
    <2>4. votedFor' \in [Node -> [Term -> Node \cup {Nobody}]]
      <3>1. \/ votedFor' = votedFor
            \/ votedFor' = [votedFor EXCEPT ![n][r.term] = r.from]
        BY <1>5 DEF OnVoteRequest, AnswerVoteRequest
      <3>2. votedFor \in [Node -> [Term -> Node \cup {Nobody}]]
        BY DEF TypeOK
      <3>3. [votedFor EXCEPT ![n][r.term] = r.from]
              \in [Node -> [Term -> Node \cup {Nobody}]]
        BY <2>1, <3>2, VoteType
      <3> QED
        BY <3>1, <3>2, <3>3
    <2>5. term' \in [Node -> 0 .. MaxTerm]
      BY <1>5, <2>1 DEF OnVoteRequest, AnswerVoteRequest, TypeOK
    <2>6. state' \in [Node -> {"F", "C", "L"}]
      BY <1>5 DEF OnVoteRequest, AnswerVoteRequest, TypeOK
    <2> QED
      BY <1>5, <2>3, <2>4, <2>5, <2>6 DEF OnVoteRequest, AnswerVoteRequest, TypeOK
  <1>6. ASSUME NEW n \in Node, NEW g \in msgs, OnVoteGrant(n, g) PROVE TypeOK'
    <2>1. g.from \in Node /\ term[n] \in 0 .. MaxTerm
      BY DEF TypeOK
    <2>2. mailbox' \in [Node -> {Empty} \cup [leader : Node, term : 0 .. MaxTerm]]
      BY <1>6, <2>1, BroadcastType DEF OnVoteGrant, CountGrant, TypeOK
    <2>3. votes' \in [Node -> SUBSET Node]
      BY <1>6, <2>1 DEF OnVoteGrant, CountGrant, TypeOK
    <2>4. state' \in [Node -> {"F", "C", "L"}]
      BY <1>6 DEF OnVoteGrant, CountGrant, TypeOK
    <2> QED
      BY <1>6, <2>2, <2>3, <2>4 DEF OnVoteGrant, CountGrant, TypeOK
  <1> QED
    BY <1>0, <1>1, <1>2, <1>3, <1>4, <1>5, <1>6 DEF Next

-----------------------------------------------------------------------------
(* Votes.                                                                  *)

\* A step casts at most one vote, where none or the same was cast before, and
\* never in a term beyond the voter's.
VoteCast(n, t, c) ==
  /\ votedFor[n][t] \in {Nobody, c}
  /\ votedFor' = [votedFor EXCEPT ![n][t] = c]
  /\ t <= term'[n]

LEMMA StepCastsOneVote ==
  ASSUME TypeOK, NoFutureVote, [Next]_vars
  PROVE  \/ votedFor' = votedFor
         \/ \E n, c \in Node, t \in Term : VoteCast(n, t, c)
  <1>1. CASE UNCHANGED vars
    BY <1>1 DEF vars
  <1>2. ASSUME NEW n \in Node, StartElection(n)
        PROVE  VoteCast(n, term[n] + 1, n) /\ term[n] + 1 \in Term
    <2>1. term[n] + 1 \in Term
      BY <1>2, NodeAssumption DEF StartElection, TypeOK, Term
    <2>2. term[n] \in Nat /\ term'[n] = term[n] + 1
      BY <1>2 DEF StartElection, TypeOK
    <2>3. votedFor[n][term[n] + 1] = Nobody
      BY <2>1, <2>2 DEF NoFutureVote
    <2> QED
      BY <1>2, <2>1, <2>2, <2>3 DEF StartElection, VoteCast
  <1>3. ASSUME NEW n \in Node, LeaderTick(n) \/ ByzantineTick(n) \/ OnHeartbeat(n)
        PROVE  votedFor' = votedFor
    BY <1>3 DEF LeaderTick, ByzantineTick, OnHeartbeat
  <1>4. ASSUME NEW n \in Node, NEW r \in msgs, OnVoteRequest(n, r)
        PROVE  \/ votedFor' = votedFor
               \/ VoteCast(n, r.term, r.from) /\ r.term \in Term /\ r.from \in Node
    <2>1. r.term \in Term /\ r.term \in Nat /\ r.from \in Node
      BY DEF TypeOK, Term
    <2>2. CASE votedFor' # votedFor
      <3>1. /\ votedFor' = [votedFor EXCEPT ![n][r.term] = r.from]
            /\ VoteIsFree(n, r)
            /\ term' = [term EXCEPT ![n] = r.term]
        BY <1>4, <2>2 DEF OnVoteRequest, AnswerVoteRequest
      <3>2. term'[n] = r.term
        BY <3>1 DEF TypeOK
      <3> QED
        BY <2>1, <3>1, <3>2 DEF VoteIsFree, VoteCast
    <2> QED
      BY <2>2
  <1>5. ASSUME NEW n \in Node, NEW g \in msgs, OnVoteGrant(n, g)
        PROVE  votedFor' = votedFor
    BY <1>5 DEF OnVoteGrant, CountGrant
  <1> QED
    BY <1>1, <1>2, <1>3, <1>4, <1>5 DEF Next

\* A vote, once cast, is never changed.
VotesKept ==
  \A m \in Node, t \in Term :
    votedFor[m][t] # Nobody => votedFor'[m][t] = votedFor[m][t]

LEMMA VotesAreKept ==
  ASSUME TypeOK, NoFutureVote, [Next]_vars
  PROVE  VotesKept
  <1>1. CASE votedFor' = votedFor
    BY <1>1 DEF VotesKept
  <1>2. ASSUME NEW n \in Node, NEW c \in Node, NEW t \in Term, VoteCast(n, t, c)
        PROVE  VotesKept
    <2>1. votedFor \in [Node -> [Term -> Node \cup {Nobody}]]
      BY DEF TypeOK
    <2>2. \A p \in Node, s \in Term :
            votedFor'[p][s] = IF p = n /\ s = t THEN c ELSE votedFor[p][s]
      BY <1>2, <2>1, VoteType DEF VoteCast
    <2> QED
      BY <1>2, <2>2 DEF VoteCast, VotesKept
  <1> QED
    BY <1>1, <1>2, StepCastsOneVote

LEMMA ElectedKept ==
  ASSUME VotesKept, NEW n \in Node, NEW t \in Term, Elected(n, t)
  PROVE  Elected(n, t)'
  <1>1. Supporters(n, t) \in SUBSET Supporters(n, t)'
    BY NodeAssumption DEF Supporters, VotesKept
  <1>2. Supporters(n, t)' \in SUBSET Node
    BY DEF Supporters
  <1>3. IsFiniteSet(Supporters(n, t)')
    BY <1>2, NodeAssumption, FS_Subset
  <1>4. /\ Cardinality(Supporters(n, t)) <= Cardinality(Supporters(n, t)')
        /\ Cardinality(Supporters(n, t)') \in Nat
    BY <1>1, <1>3, FS_Subset, FS_CardinalityType
  <1> QED
    BY <1>4, SupportersFinite, QuorumFacts DEF Elected

-----------------------------------------------------------------------------
(* Each part of the invariant is kept by every step.                       *)

LEMMA TermsGrow ==
  ASSUME TypeOK, [Next]_vars, NEW n \in Node
  PROVE  term'[n] >= term[n]
  <1>0. term[n] \in Int /\ \A r \in msgs : r.term \in Int
    BY DEF TypeOK, Term
  <1>1. CASE UNCHANGED vars
    BY <1>0, <1>1 DEF vars
  <1>2. ASSUME NEW m \in Node, StartElection(m) \/ LeaderTick(m) \/ ByzantineTick(m)
        PROVE  term'[n] >= term[n]
    BY <1>0, <1>2 DEF StartElection, LeaderTick, ByzantineTick, TypeOK
  <1>3. ASSUME NEW m \in Node, OnHeartbeat(m) PROVE term'[n] >= term[n]
    <2>1. mailbox[m].term \in Int
      BY <1>3 DEF OnHeartbeat, TypeOK
    <2> QED
      BY <1>0, <1>3, <2>1 DEF OnHeartbeat, TypeOK
  <1>4. ASSUME NEW m \in Node, NEW r \in msgs, OnVoteRequest(m, r)
        PROVE  term'[n] >= term[n]
    BY <1>0, <1>4 DEF OnVoteRequest, AnswerVoteRequest, TypeOK
  <1>5. ASSUME NEW m \in Node, NEW g \in msgs, OnVoteGrant(m, g)
        PROVE  term'[n] >= term[n]
    BY <1>0, <1>5 DEF OnVoteGrant, CountGrant
  <1> QED
    BY <1>1, <1>2, <1>3, <1>4, <1>5 DEF Next

LEMMA NoFutureVoteStep ==
  ASSUME TypeOK, TypeOK', NoFutureVote, [Next]_vars
  PROVE  NoFutureVote'
  <1> SUFFICES ASSUME NEW p \in Node, NEW s \in Term, votedFor'[p][s] # Nobody
               PROVE  s <= term'[p]
    BY DEF NoFutureVote
  <1>0. s \in Int /\ term[p] \in Int /\ term'[p] \in Int /\ term'[p] >= term[p]
    BY TermsGrow DEF TypeOK, Term
  <1>1. CASE votedFor' = votedFor
    BY <1>0, <1>1 DEF NoFutureVote
  <1>2. ASSUME NEW n \in Node, NEW c \in Node, NEW t \in Term, VoteCast(n, t, c)
        PROVE  s <= term'[p]
    <2>1. votedFor \in [Node -> [Term -> Node \cup {Nobody}]]
      BY DEF TypeOK
    <2>2. votedFor'[p][s] = IF p = n /\ s = t THEN c ELSE votedFor[p][s]
      BY <1>2, <2>1, VoteType DEF VoteCast
    <2> QED
      BY <1>0, <1>2, <2>2 DEF VoteCast, NoFutureVote
  <1> QED
    BY <1>1, <1>2, StepCastsOneVote

LEMMA GrantIsVoteStep ==
  ASSUME TypeOK, GrantIsVote, VotesKept, [Next]_vars
  PROVE  GrantIsVote'
  <1> SUFFICES ASSUME NEW g \in msgs', g.kind = "grant"
               PROVE  votedFor'[g.from][g.term] = g.to
    BY DEF GrantIsVote
  <1>1. CASE g \in msgs
    <2>1. /\ votedFor[g.from][g.term] = g.to
          /\ g.from \in Node /\ g.to \in Node /\ g.term \in Term
      BY <1>1 DEF GrantIsVote, TypeOK
    <2> QED
      BY <2>1, NodeAssumption DEF VotesKept
  <1>2. CASE g \notin msgs
    <2>1. PICK n \in Node, r \in msgs :
            OnVoteRequest(n, r) /\ g = Vote("grant", n, r.from, r.term)
      BY <1>2 DEF Next, vars, StartElection, LeaderTick, ByzantineTick,
           OnHeartbeat, OnVoteRequest, AnswerVoteRequest, OnVoteGrant,
           CountGrant, Vote
    <2>2. r.term \in Term /\ r.from \in Node
      BY DEF TypeOK
    <2>3. votedFor' = [votedFor EXCEPT ![n][r.term] = r.from]
      BY <1>2, <2>1 DEF OnVoteRequest, AnswerVoteRequest
    <2>4. votedFor'[n][r.term] = r.from
      BY <2>2, <2>3, VoteType DEF TypeOK
    <2> QED
      BY <2>1, <2>4 DEF Vote
  <1> QED
    BY <1>1, <1>2

\* What the handlers do to one node's role: it is kept with its term and its
\* votes, given up, taken up with one's own vote, or strengthened by a grant.
Kept(n) ==
  state'[n] = state[n] /\ votes'[n] = votes[n] /\ term'[n] = term[n]

Campaigns(n) ==
  /\ state'[n] = "C"
  /\ term'[n] \in Term
  /\ votes'[n] = {n}
  /\ votedFor'[n][term'[n]] = n

Counts(n) ==
  /\ state[n] = "C"
  /\ term'[n] = term[n]
  /\ \E g \in msgs : /\ g.kind = "grant" /\ g.to = n /\ g.term = term[n]
                     /\ votes'[n] = votes[n] \cup {g.from}
  /\ state'[n] = "L" => Cardinality(votes'[n]) >= Quorum

LEMMA RoleStep ==
  ASSUME TypeOK, [Next]_vars, NEW n \in Node
  PROVE  Kept(n) \/ state'[n] = "F" \/ Campaigns(n) \/ Counts(n)
  <1>1. CASE UNCHANGED vars
    BY <1>1 DEF vars, Kept
  <1>2. ASSUME NEW m \in Node, StartElection(m) PROVE Kept(n) \/ Campaigns(n)
    <2>1. CASE m = n
      <3>1. term[n] + 1 \in Term
        BY <1>2, <2>1, NodeAssumption DEF StartElection, TypeOK, Term
      <3>2. votedFor'[n][term[n] + 1] = n
        BY <1>2, <2>1, <3>1, VoteType DEF StartElection, TypeOK
      <3> QED
        BY <1>2, <2>1, <3>1, <3>2 DEF StartElection, TypeOK, Campaigns
    <2>2. CASE m # n
      BY <1>2, <2>2 DEF StartElection, TypeOK, Kept
    <2> QED
      BY <2>1, <2>2
  <1>3. ASSUME NEW m \in Node, LeaderTick(m) \/ ByzantineTick(m) PROVE Kept(n)
    BY <1>3 DEF LeaderTick, ByzantineTick, Kept
  <1>4. ASSUME NEW m \in Node, OnHeartbeat(m) PROVE Kept(n) \/ state'[n] = "F"
    BY <1>4 DEF OnHeartbeat, TypeOK, Kept
  <1>5. ASSUME NEW m \in Node, NEW r \in msgs, OnVoteRequest(m, r)
        PROVE  Kept(n) \/ state'[n] = "F"
    <2>1. r.term \in Int /\ term[m] \in Int
      BY DEF TypeOK, Term
    <2> QED
      BY <1>5, <2>1 DEF OnVoteRequest, AnswerVoteRequest, TypeOK, Kept
  <1>6. ASSUME NEW m \in Node, NEW g \in msgs, OnVoteGrant(m, g)
        PROVE  Kept(n) \/ Counts(n)
    <2>1. CASE m = n /\ state[n] = "C" /\ g.term = term[n]
      BY <1>6, <2>1 DEF OnVoteGrant, CountGrant, TypeOK, Counts
    <2>2. CASE ~(m = n /\ state[n] = "C" /\ g.term = term[n])
      BY <1>6, <2>2 DEF OnVoteGrant, CountGrant, TypeOK, Kept
    <2> QED
      BY <2>1, <2>2
  <1> QED
    BY <1>1, <1>2, <1>3, <1>4, <1>5, <1>6 DEF Next

LEMMA CountedIsVoteStep ==
  ASSUME TypeOK, TypeOK', CountedIsVote, GrantIsVote, VotesKept, [Next]_vars
  PROVE  CountedIsVote'
  <1> SUFFICES ASSUME NEW n \in Node, state'[n] # "F"
               PROVE  /\ term'[n] \in Term
                      /\ \A v \in votes'[n] : votedFor'[v][term'[n]] = n
    BY DEF CountedIsVote
  <1>0. ASSUME state[n] # "F", NEW v \in votes[n]
        PROVE  votedFor'[v][term[n]] = n
    <2>1. v \in Node /\ term[n] \in Term /\ votedFor[v][term[n]] = n
      BY <1>0 DEF TypeOK, CountedIsVote
    <2> QED
      BY <2>1, NodeAssumption DEF VotesKept
  <1>1. CASE Kept(n)
    BY <1>0, <1>1 DEF Kept, CountedIsVote
  <1>2. CASE Campaigns(n)
    BY <1>2 DEF Campaigns
  <1>3. CASE Counts(n)
    <2>1. PICK g \in msgs : /\ g.kind = "grant" /\ g.to = n /\ g.term = term[n]
                            /\ votes'[n] = votes[n] \cup {g.from}
      BY <1>3 DEF Counts
    <2>2. votedFor[g.from][term[n]] = n /\ g.from \in Node /\ term[n] \in Term
      BY <1>3, <2>1 DEF GrantIsVote, CountedIsVote, Counts, TypeOK
    <2>3. votedFor'[g.from][term[n]] = n
      BY <2>2, NodeAssumption DEF VotesKept
    <2> QED
      BY <1>0, <1>3, <2>1, <2>2, <2>3 DEF Counts
  <1> QED
    BY <1>1, <1>2, <1>3, RoleStep

LEMMA LeaderHasQuorumStep ==
  ASSUME TypeOK, LeaderHasQuorum, [Next]_vars
  PROVE  LeaderHasQuorum'
  BY RoleStep DEF LeaderHasQuorum, Kept, Campaigns, Counts

\* The unread heartbeat of a node is an old one, or has just been sent by
\* another node: a leader of its own term, or a liar.
HeartbeatOrigin(m) ==
  \/ mailbox'[m] = Empty
  \/ mailbox'[m] = mailbox[m]
  \/ \E n \in Node \ {m}, t \in 0 .. MaxTerm :
       /\ mailbox'[m] = Heartbeat(n, t)
       /\ (n \in Byzantine /\ t \in Term) \/ (state'[n] = "L" /\ t = term'[n])

LEMMA HeartbeatSent ==
  ASSUME TypeOK, [Next]_vars, NEW m \in Node
  PROVE  HeartbeatOrigin(m)
  <1>0. ASSUME NEW n \in Node, NEW t, Broadcast(n, t)
        PROVE  mailbox'[m] = mailbox[m] \/ (m # n /\ mailbox'[m] = Heartbeat(n, t))
    BY <1>0 DEF Broadcast
  <1>1. CASE UNCHANGED mailbox
    BY <1>1 DEF HeartbeatOrigin
  <1>2. ASSUME NEW n \in Node, LeaderTick(n) PROVE HeartbeatOrigin(m)
    BY <1>0, <1>2 DEF LeaderTick, HeartbeatOrigin, TypeOK
  <1>3. ASSUME NEW n \in Node, ByzantineTick(n) PROVE HeartbeatOrigin(m)
    <2>1. AtLeastOne(term[n]) \in 0 .. MaxTerm /\ AtLeastOne(term[n]) \in Term
      BY NodeAssumption DEF TypeOK, AtLeastOne, Term
    <2> QED
      BY <1>0, <1>3, <2>1 DEF ByzantineTick, HeartbeatOrigin
  <1>4. ASSUME NEW n \in Node, OnHeartbeat(n) PROVE HeartbeatOrigin(m)
    BY <1>4 DEF OnHeartbeat, HeartbeatOrigin, TypeOK
  <1>5. ASSUME NEW n \in Node, NEW g \in msgs, OnVoteGrant(n, g), mailbox' # mailbox
        PROVE  HeartbeatOrigin(m)
    <2>1. Broadcast(n, term[n]) /\ state' = [state EXCEPT ![n] = "L"] /\ term' = term
      BY <1>5 DEF OnVoteGrant, CountGrant
    <2> QED
      BY <1>0, <2>1 DEF HeartbeatOrigin, TypeOK
  <1> QED
    BY <1>1, <1>2, <1>3, <1>4, <1>5
    DEF Next, vars, StartElection, OnVoteRequest, AnswerVoteRequest

LEMMA HeartbeatFromOtherStep ==
  ASSUME TypeOK, HeartbeatFromOther, CountedIsVote', [Next]_vars
  PROVE  HeartbeatFromOther'
  <1> SUFFICES ASSUME NEW m \in Node, mailbox'[m] # Empty
               PROVE  mailbox'[m].term \in Term /\ mailbox'[m].leader # m
    BY DEF HeartbeatFromOther
  <1>1. CASE mailbox'[m] = mailbox[m]
    BY <1>1 DEF HeartbeatFromOther
  <1>2. ASSUME NEW n \in Node \ {m}, NEW t \in Term, mailbox'[m] = Heartbeat(n, t)
        PROVE  mailbox'[m].term \in Term /\ mailbox'[m].leader # m
    BY <1>2, EmptyFacts
  <1> QED
    BY <1>1, <1>2, HeartbeatSent DEF HeartbeatOrigin, CountedIsVote

LEMMA HeartbeatIsElectedStep ==
  ASSUME TypeOK, TypeOK', HeartbeatIsElected, HeartbeatFromOther, CountedIsVote',
         LeaderHasQuorum', VotesKept, [Next]_vars
  PROVE  HeartbeatIsElected'
  <1> SUFFICES ASSUME NEW m \in Node, mailbox'[m] # Empty,
                      mailbox'[m].leader \notin Byzantine
               PROVE  Elected(mailbox[m].leader, mailbox[m].term)'
    BY DEF HeartbeatIsElected
  <1>1. ASSUME NEW l \in Node, NEW t \in Term, Elected(l, t)',
               mailbox'[m].leader = l, mailbox'[m].term = t
        PROVE  Elected(mailbox[m].leader, mailbox[m].term)'
    BY <1>1 DEF Elected, Supporters
  <1>2. CASE mailbox'[m] = mailbox[m]
    <2>1. PICK l \in Node, t \in Term :
            l = mailbox[m].leader /\ t = mailbox[m].term /\ Elected(l, t)
      BY <1>2 DEF TypeOK, HeartbeatIsElected, HeartbeatFromOther
    <2>2. Elected(l, t)'
      BY <2>1, ElectedKept
    <2> QED
      BY <1>1, <1>2, <2>1, <2>2
  <1>3. ASSUME NEW n \in Node, NEW t \in 0 .. MaxTerm, state'[n] = "L",
               t = term'[n], mailbox'[m] = Heartbeat(n, t)
        PROVE  Elected(mailbox[m].leader, mailbox[m].term)'
    <2>1. t \in Term
      BY <1>3 DEF CountedIsVote
    <2>2. Elected(n, term[n])'
      BY <1>3, LeaderElectedNext DEF LeadersElected, LeaderIsElected
    <2>3. Elected(n, t)'
      BY <1>3, <2>2 DEF Elected, Supporters
    <2> QED
      BY <1>1, <1>3, <2>1, <2>3, EmptyFacts
  <1> QED
    BY <1>2, <1>3, HeartbeatSent, EmptyFacts DEF HeartbeatOrigin

LEMMA IInvNext == IInv /\ [Next]_vars => IInv' /\ VotesKept
  <1> SUFFICES ASSUME IInv, [Next]_vars PROVE IInv' /\ VotesKept
    OBVIOUS
  <1> USE DEF IInv
  <1>1. TypeOK' /\ VotesKept
    BY TypeNext, VotesAreKept
  <1>2. NoFutureVote' /\ GrantIsVote' /\ LeaderHasQuorum'
    BY <1>1, NoFutureVoteStep, GrantIsVoteStep, LeaderHasQuorumStep
  <1>3. CountedIsVote'
    BY <1>1, CountedIsVoteStep
  <1>4. HeartbeatFromOther'
    BY <1>3, HeartbeatFromOtherStep
  <1>5. HeartbeatIsElected'
    BY <1>1, <1>2, <1>3, HeartbeatIsElectedStep
  <1> QED
    BY <1>1, <1>2, <1>3, <1>4, <1>5

LEMMA IInvAlways == Spec => []IInv
  BY IInvInit, IInvNext, PTL DEF Spec

-----------------------------------------------------------------------------
(* The theorems.                                                           *)

\* Every handler of raft_node.py keeps the types of the node's fields.
THEOREM TypeCorrect == Spec => []TypeOK
  <1>1. IInv => TypeOK
    BY DEF IInv
  <1> QED
    BY <1>1, IInvAlways, PTL

\* A leader of raft_node.py has the votes of a majority in the term it claims.
THEOREM LeadersAreElected == Spec => []LeaderIsElected
  <1>1. IInv => LeaderIsElected
    BY LeaderElected DEF IInv, LeadersElected
  <1> QED
    BY <1>1, IInvAlways, PTL

\* No two nodes of raft_node.py lead the same term, whatever some of them
\* claim in their heartbeats.
THEOREM LeadersAreUnique == Spec => []OneLeaderPerTerm
  <1>1. LeaderIsElected => OneLeaderPerTerm
    BY OneWinner DEF LeaderIsElected, OneLeaderPerTerm
  <1> QED
    BY <1>1, LeadersAreElected, PTL

\* An honest node's heartbeat, however late it is read, is of a term it won.
THEOREM HeartbeatsAreElected == Spec => []HeartbeatIsElected
  <1>1. IInv => HeartbeatIsElected
    BY DEF IInv
  <1> QED
    BY <1>1, IInvAlways, PTL

LEMMA DeposedInOwnTerm ==
  ASSUME IInv, [Next]_vars, NEW n \in Node,
         state[n] = "L", state'[n] # "L", term'[n] = term[n]
  PROVE  mailbox[n].leader \in Byzantine
  <1>1. OnHeartbeat(n)
    <2>1. \A r \in msgs : r.term \in Int
      BY DEF IInv, TypeOK, Term
    <2>2. ASSUME NEW m \in Node, NEW r \in msgs, OnVoteRequest(m, r) PROVE FALSE
      BY <2>1, <2>2 DEF OnVoteRequest, AnswerVoteRequest, IInv, TypeOK
    <2>3. ASSUME NEW m \in Node, NEW g \in msgs, OnVoteGrant(m, g) PROVE FALSE
      BY <2>3 DEF OnVoteGrant, CountGrant, IInv, TypeOK
    <2>4. ASSUME NEW m \in Node, StartElection(m) \/ LeaderTick(m) \/ ByzantineTick(m)
          PROVE  FALSE
      BY <2>4 DEF StartElection, LeaderTick, ByzantineTick, IInv, TypeOK
    <2>5. ASSUME NEW m \in Node, OnHeartbeat(m) PROVE m = n
      BY <2>5 DEF OnHeartbeat, IInv, TypeOK
    <2>6. ~UNCHANGED vars
      BY DEF vars
    <2> QED
      BY <2>2, <2>3, <2>4, <2>5, <2>6 DEF Next
  <1>2. mailbox[n] # Empty /\ mailbox[n].term = term[n]
    BY <1>1 DEF OnHeartbeat, IInv, TypeOK
  <1>3. mailbox[n].leader # n
    BY <1>2 DEF IInv, HeartbeatFromOther
  <1>4. Elected(n, term[n])
    BY LeaderElected DEF IInv, LeadersElected, LeaderIsElected
  <1>5. mailbox[n].leader \notin Byzantine => Elected(mailbox[n].leader, term[n])
    BY <1>2 DEF IInv, HeartbeatIsElected
  <1> QED
    BY <1>3, <1>4, <1>5, OneWinner

\* In raft_node.py only a false heartbeat deposes a leader in its own term.
THEOREM LiarsDepose == Spec => OnlyLiarsDepose
  <1>1. IInv /\ [Next]_vars =>
          [\A n \in Node : state[n] = "L" /\ state'[n] # "L" /\ term'[n] = term[n]
             => mailbox[n].leader \in Byzantine]_vars
    BY DeposedInOwnTerm
  <1> QED
    BY <1>1, IInvAlways, PTL DEF Spec, OnlyLiarsDepose

\* Where no node is Byzantine, a leader of raft_node.py yields to a higher
\* term only, as its docstring says.
THEOREM HonestLeadersYield ==
  ASSUME Byzantine = {}
  PROVE  Spec => LeaderYieldsToHigherTerm
  <1>1. IInv /\ [Next]_vars =>
          [\A n \in Node : state[n] = "L" /\ state'[n] # "L" => term'[n] > term[n]]_vars
    <2> SUFFICES ASSUME IInv, [Next]_vars, NEW n \in Node,
                        state[n] = "L", state'[n] # "L"
                 PROVE  term'[n] > term[n]
      OBVIOUS
    <2>1. term[n] \in Int /\ term'[n] \in Int /\ term'[n] >= term[n]
      BY TermsGrow, TypeNext DEF IInv, TypeOK
    <2>2. term'[n] # term[n]
      BY DeposedInOwnTerm
    <2> QED
      BY <2>1, <2>2
  <1> QED
    BY <1>1, IInvAlways, PTL DEF Spec, LeaderYieldsToHigherTerm

-----------------------------------------------------------------------------
(* The votes implement the abstract election.                              *)

LEMMA WinnerFacts ==
  ASSUME NEW t
  PROVE  /\ \A n \in Node : Elected(n, t) => Winner(t) = n
         /\ (\A n \in Node : ~Elected(n, t)) => Winner(t) = Nobody
  BY OneWinner DEF Winner

WinnersAreElected ==
  \A t \in Term : /\ \A n \in Node : Elected(n, t) => Winner(t) = n
                  /\ (\A n \in Node : ~Elected(n, t)) => Winner(t) = Nobody

LEMMA WinnersNext == WinnersAreElected'
  <1>1. WinnersAreElected
    BY WinnerFacts DEF WinnersAreElected
  <1> QED
    BY <1>1, PTL

LEMMA ElectionInit == Init => Election!Init
  <1> SUFFICES ASSUME Init, NEW t \in Term PROVE Winner(t) = Nobody
    BY DEF Election!Init
  <1>1. ASSUME NEW n \in Node PROVE Supporters(n, t) = {}
    BY NodeAssumption DEF Init, Supporters
  <1>2. \A n \in Node : ~Elected(n, t)
    BY <1>1, FS_EmptySet, QuorumFacts DEF Elected
  <1> QED
    BY <1>2, WinnerFacts

LEMMA ElectionNext ==
  ASSUME IInv, [Next]_vars
  PROVE  [Election!Next]_([t \in Term |-> Winner(t)])
  <1> DEFINE w == [t \in Term |-> Winner(t)]
  <1>1. CASE votedFor' = votedFor
    BY <1>1 DEF Winner, Elected, Supporters
  <1>2. ASSUME NEW v \in Node, NEW c \in Node, NEW t \in Term, VoteCast(v, t, c)
        PROVE  [Election!Next]_w
    <2>1. ASSUME NEW s \in Term, s # t PROVE Winner(s)' = Winner(s)
      <3>1. \A p \in Node : votedFor'[p][s] = votedFor[p][s]
        BY <1>2, <2>1, VoteType DEF VoteCast, IInv, TypeOK
      <3>2. \A n \in Node : Supporters(n, s)' = Supporters(n, s)
        BY <3>1 DEF Supporters
      <3> QED
        BY <3>2 DEF Winner, Elected
    <2>2. CASE Winner(t)' = Winner(t)
      <3>1. w' = w
        BY <2>1, <2>2
      <3> QED
        BY <3>1
    <2>3. CASE Winner(t)' # Winner(t)
      <3>1. ASSUME NEW n \in Node, Elected(n, t) PROVE FALSE
        <4>1. Elected(n, t)'
          BY <3>1, IInvNext, ElectedKept
        <4> QED
          BY <2>3, <3>1, <4>1, WinnerFacts, WinnersNext DEF WinnersAreElected
      <3>2. Winner(t) = Nobody
        BY <3>1, WinnerFacts
      <3>3. PICK n \in Node : Elected(n, t)'
        BY <2>3, <3>2, WinnersNext DEF WinnersAreElected
      <3>4. Winner(t)' = n
        BY <3>3, WinnersNext DEF WinnersAreElected
      <3>5. w' = [w EXCEPT ![t] = n] /\ w[t] = Nobody
        BY <2>1, <3>2, <3>4
      <3> QED
        BY <3>5 DEF Election!Next, Election!Win
    <2> QED
      BY <2>2, <2>3
  <1> QED
    BY <1>1, <1>2, StepCastsOneVote DEF IInv

\* Vote by vote and message by message, raft_node.py decides each term once.
THEOREM RaftImplementsElection == Spec => ImplementsElection
  <1>1. IInv /\ [Next]_vars => [Election!Next]_([t \in Term |-> Winner(t)])
    BY ElectionNext
  <1> QED
    BY <1>1, ElectionInit, IInvAlways, PTL DEF Spec, ImplementsElection, Election!Spec

=============================================================================
