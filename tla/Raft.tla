-------------------------------- MODULE Raft --------------------------------
(***************************************************************************)
(* The Raft baseline of Phase 8 (raft_node.py): leader election only.      *)
(*                                                                         *)
(* Time is abstracted away: an election timer may expire, and a heartbeat  *)
(* may be sent, at any moment.  Vote requests and grants are never forced  *)
(* to arrive, so a lost message is one that stays in flight and a killed   *)
(* node (phase8-raft-trial.sh) is one that takes no more steps.            *)
(***************************************************************************)
EXTENDS Integers, FiniteSets

CONSTANTS
  Node,
  Byzantine,  \* the nodes whose `byzantine' parameter is true
  MaxTerm,    \* bound: no election is started beyond this term
  Nobody      \* no entry in voted_for_term

ASSUME NodeAssumption ==
  /\ IsFiniteSet(Node)
  /\ Byzantine \subseteq Node
  /\ MaxTerm \in Nat \ {0}
  /\ Nobody \notin Node

Term == 1 .. MaxTerm

VARIABLES
  state,     \* STATE_FOLLOWER, STATE_CANDIDATE or STATE_LEADER
  term,
  votedFor,  \* voted_for_term
  votes,     \* votes_received
  mailbox,   \* the heartbeat a node has not read yet: the queue has depth 1
  msgs       \* vote requests and grants in flight

vars == <<state, term, votedFor, votes, mailbox, msgs>>

Empty == [leader |-> Nobody, term |-> 0]

Heartbeat(n, t) == [leader |-> n, term |-> t]

Vote(kind, from, to, t) == [kind |-> kind, from |-> from, to |-> to, term |-> t]

\* n_members // 2 + 1
Quorum == Cardinality(Node) \div 2 + 1

Init ==
  /\ state = [n \in Node |-> "F"]
  /\ term = [n \in Node |-> 0]
  /\ votedFor = [n \in Node |-> [t \in Term |-> Nobody]]
  /\ votes = [n \in Node |-> {}]
  /\ mailbox = [n \in Node |-> Empty]
  /\ msgs = {}

-----------------------------------------------------------------------------
\* BEST_EFFORT, depth 1: a heartbeat replaces the unread one of the nodes it
\* reaches.  (A node ignores its own; that its own may push out another's is
\* one more way of losing that one.)
Broadcast(n, t) ==
  \E reached \in SUBSET (Node \ {n}) :
    mailbox' = [m \in Node |-> IF m \in reached THEN Heartbeat(n, t) ELSE mailbox[m]]

\* next_election_t is over: _start_election.
StartElection(n) ==
  /\ n \notin Byzantine
  /\ state[n] # "L"
  /\ term[n] < MaxTerm
  /\ LET t == term[n] + 1 IN
       /\ term' = [term EXCEPT ![n] = t]
       /\ votedFor' = [votedFor EXCEPT ![n][t] = n]
       /\ msgs' = msgs \cup {Vote("request", n, m, t) : m \in Node \ {n}}
  /\ state' = [state EXCEPT ![n] = "C"]
  /\ votes' = [votes EXCEPT ![n] = {n}]
  /\ UNCHANGED mailbox

LeaderTick(n) ==
  /\ n \notin Byzantine
  /\ state[n] = "L"
  /\ Broadcast(n, term[n])
  /\ UNCHANGED <<state, term, votedFor, votes, msgs>>

\* Mutant: "always one above what we last saw".
OneAbove(t) == t + 1

AtLeastOne(t) == IF t < 1 THEN 1 ELSE t

\* A Byzantine node claims to lead whatever its state, and never campaigns.
ByzantineTick(n) ==
  /\ n \in Byzantine
  /\ Broadcast(n, AtLeastOne(term[n]))
  /\ UNCHANGED <<state, term, votedFor, votes, msgs>>

\* Mutant: a candidate or leader of the new term keeps its state.
KeepState(n) ==
  /\ mailbox[n] # Empty
  /\ mailbox' = [mailbox EXCEPT ![n] = Empty]
  /\ IF mailbox[n].term < term[n]
     THEN UNCHANGED term
     ELSE term' = [term EXCEPT ![n] = mailbox[n].term]
  /\ UNCHANGED <<state, votedFor, votes, msgs>>

\* A stale heartbeat is ignored; any other one, also of the same term, makes
\* a candidate or a leader step down.
OnHeartbeat(n) ==
  /\ mailbox[n] # Empty
  /\ mailbox' = [mailbox EXCEPT ![n] = Empty]
  /\ IF mailbox[n].term < term[n]
     THEN UNCHANGED <<term, state>>
     ELSE /\ term' = [term EXCEPT ![n] = mailbox[n].term]
          /\ state' = [state EXCEPT ![n] = "F"]
  /\ UNCHANGED <<votedFor, votes, msgs>>

\* A request of an older term is refused.  Nobody acts on a refusal, so that
\* message is left out.
AnswerVoteRequest(n, r, free, deposed) ==
  /\ r \in msgs
  /\ r.kind = "request"
  /\ r.to = n
  /\ LET rest == msgs \ {r} IN
       IF r.term < term[n]
       THEN msgs' = rest /\ UNCHANGED <<term, state, votedFor>>
       ELSE /\ term' = [term EXCEPT ![n] = r.term]
            /\ state' = IF deposed THEN [state EXCEPT ![n] = "F"] ELSE state
            /\ IF free
               THEN /\ votedFor' = [votedFor EXCEPT ![n][r.term] = r.from]
                    /\ msgs' = rest \cup {Vote("grant", n, r.from, r.term)}
               ELSE msgs' = rest /\ UNCHANGED votedFor
  /\ UNCHANGED <<votes, mailbox>>

VoteIsFree(n, r) == votedFor[n][r.term] \in {Nobody, r.from}

\* Mutants: a second candidate also gets the vote; a rival of the same term
\* deposes.
GrantTwice(n, r) == AnswerVoteRequest(n, r, TRUE, r.term > term[n])
YieldToRival(n, r) == AnswerVoteRequest(n, r, VoteIsFree(n, r), TRUE)

\* The vote of a term goes to the first candidate that asks for it.
OnVoteRequest(n, r) ==
  AnswerVoteRequest(n, r, VoteIsFree(n, r), r.term > term[n])

\* The grant that completes a majority makes the candidate leader, which sends
\* a heartbeat at once.
CountGrant(n, g, counts) ==
  /\ g \in msgs
  /\ g.kind = "grant"
  /\ g.to = n
  /\ msgs' = msgs \ {g}
  /\ IF counts
     THEN /\ votes' = [votes EXCEPT ![n] = @ \cup {g.from}]
          /\ IF Cardinality(votes'[n]) >= Quorum
             THEN state' = [state EXCEPT ![n] = "L"] /\ Broadcast(n, term[n])
             ELSE UNCHANGED <<state, mailbox>>
     ELSE UNCHANGED <<votes, state, mailbox>>
  /\ UNCHANGED <<term, votedFor>>

\* Mutant: a grant of an earlier term counts.
CountStaleGrant(n, g) == CountGrant(n, g, state[n] = "C")

\* Only a candidate counts grants, and only those of its current term.
OnVoteGrant(n, g) == CountGrant(n, g, state[n] = "C" /\ g.term = term[n])

Next ==
  \E n \in Node :
    \/ StartElection(n)
    \/ LeaderTick(n)
    \/ ByzantineTick(n)
    \/ OnHeartbeat(n)
    \/ \E m \in msgs : OnVoteRequest(n, m) \/ OnVoteGrant(n, m)

Spec == Init /\ [][Next]_vars

-----------------------------------------------------------------------------
(* Properties.                                                             *)

\* Every variable keeps its type.
TypeOK ==
  /\ state \in [Node -> {"F", "C", "L"}]
  /\ term \in [Node -> 0 .. MaxTerm]
  /\ votedFor \in [Node -> [Term -> Node \cup {Nobody}]]
  /\ votes \in [Node -> SUBSET Node]
  /\ mailbox \in [Node -> {Empty} \cup [leader : Node, term : 0 .. MaxTerm]]
  /\ msgs \subseteq [kind : {"request", "grant"}, from : Node, to : Node, term : Term]

Supporters(n, t) == {m \in Node : votedFor[m][t] = n}

Elected(n, t) == Cardinality(Supporters(n, t)) >= Quorum

\* No two nodes lead the same term, although each term's votes are counted
\* from messages and a node overwrites its vote when it starts an election.
OneLeaderPerTerm ==
  \A m, n \in Node :
    state[m] = "L" /\ state[n] = "L" /\ term[m] = term[n] => m = n

\* A leader has been voted for by a majority in the term it claims to lead:
\* no step moves a leader to a term it has not won.
LeaderIsElected == \A n \in Node : state[n] = "L" => Elected(n, term[n])

\* A heartbeat of a node that follows the protocol, however old, is of a term
\* that node has won.
HeartbeatIsElected ==
  \A n \in Node :
    mailbox[n] # Empty /\ mailbox[n].leader \notin Byzantine
      => Elected(mailbox[n].leader, mailbox[n].term)

\* "LEADER: on higher-term heartbeat: become FOLLOWER (we lost)" (raft_node.py,
\* docstring): a leader is not deposed in its own term.
LeaderYieldsToHigherTerm ==
  [][\A n \in Node : state[n] = "L" /\ state'[n] # "L" => term'[n] > term[n]]_vars

\* What is left of it where some nodes lie: only a heartbeat of a Byzantine
\* node deposes a leader in its own term.
OnlyLiarsDepose ==
  [][\A n \in Node :
       state[n] = "L" /\ state'[n] # "L" /\ term'[n] = term[n]
         => mailbox[n].leader \in Byzantine]_vars

Winner(t) ==
  IF \E n \in Node : Elected(n, t)
  THEN CHOOSE n \in Node : Elected(n, t)
  ELSE Nobody

\* The votes decide each term once and for all.
Election == INSTANCE LeaderElection WITH winner <- [t \in Term |-> Winner(t)]
ImplementsElection == Election!Spec

=============================================================================
