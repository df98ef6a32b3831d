----------------------------- MODULE FactorGraph -----------------------------
(***************************************************************************)
(* factor_graph_node on every UAV of a Phase 3 trial: which keys a node    *)
(* knows, which initial values and factors wait for its next tick, and     *)
(* which keys have a value in its smoother.                                *)
(*                                                                         *)
(* The smoother (gtsam's ISAM2) is external. An update fails when a factor *)
(* mentions a key that has no value, when a value is inserted again, and,  *)
(* seldom, for a numerical reason (a flake). Ranges, fixes and estimates   *)
(* are repeated for ever, so none is kept in flight.                       *)
(***************************************************************************)
EXTENDS Integers, FiniteSets

CONSTANTS
  UAV,
  Node,      \* the UAVs whose node is modelled; of the others, estimates come
  Anchor,    \* they have a TRN node
  Link,      \* the sets {a, b} that a ranging simulator measures
  Telling,   \* the UAVs that publish a DistilledState
  MaxFlakes  \* bound: updates that fail for a numerical reason

ASSUME GraphAssumption ==
  /\ Node \subseteq UAV
  /\ Anchor \subseteq UAV
  /\ Link \subseteq SUBSET UAV
  /\ Telling \subseteq UAV
  /\ MaxFlakes \in Nat

VARIABLES
  known,    \* known_keys
  inits,    \* pending_init
  factors,  \* the keys in pending_factors
  values,   \* the keys with a value in isam
  flaked,   \* the nodes at which an update has failed for a numerical reason
  failed,   \* the nodes at which an update has failed
  flakes

graphVars == <<known, inits, factors, values, flaked, failed, flakes>>

GraphInit ==
  /\ known = [f \in Node |-> {}]
  /\ inits = [f \in Node |-> {}]
  /\ factors = [f \in Node |-> {}]
  /\ values = [f \in Node |-> {}]
  /\ flaked = {} /\ failed = {}
  /\ flakes = 0

-----------------------------------------------------------------------------
(* _ensure_gtsam: the first callback of a node seeds it with its own key.  *)

Seed(f) == IF known[f] = {} THEN {f} ELSE {}

\* Mutant: a key gets its value but is not remembered.
AddUnremembered(f, keys, mentioned) ==
  /\ known' = [known EXCEPT ![f] = @ \union Seed(f)]
  /\ inits' = [inits EXCEPT ![f] = @ \union Seed(f) \union keys]
  /\ factors' = [factors EXCEPT ![f] = @ \union Seed(f) \union mentioned]
  /\ UNCHANGED <<values, flaked, failed, flakes>>

\* Keys that enter known_keys and pending_init of f, and keys of factors.
Add(f, keys, mentioned) ==
  /\ known' = [known EXCEPT ![f] = @ \union Seed(f) \union keys]
  /\ inits' = [inits EXCEPT ![f] = @ \union Seed(f) \union keys]
  /\ factors' = [factors EXCEPT ![f] = @ \union Seed(f) \union mentioned]
  /\ UNCHANGED <<values, flaked, failed, flakes>>

New(f, p) == {p} \ (known[f] \union Seed(f))

\* A prior at every DistilledState, a value at the first.
OnState(f, p) ==
  /\ p \in Telling
  /\ Add(f, IF p = f THEN {} ELSE New(f, p), {p} \ {f})

\* Mutant: one known end is enough.
OnRangeOneEnd(f, link) ==
  LET usable == link \intersect (known[f] \union Seed(f)) # {}
  IN  Add(f, {}, IF usable THEN link ELSE {})

\* "otherwise iSAM2 update would fail on missing initial guesses"
OnRange(f, link) ==
  LET usable == link \subseteq known[f] \union Seed(f)
  IN  Add(f, {}, IF usable THEN link ELSE {})

\* The last tick of p published its estimate.
Publishes(p) == p \in Node => p \in values[p]

\* Mutant: a peer must have been known before.
OnPeerKnown(f, p) ==
  /\ Publishes(p) /\ p # f /\ p \in known[f]
  /\ Add(f, New(f, p), {p})

\* One-shot: the first estimate heard of a peer, and only that.
OnPeer(f, p) ==
  /\ Publishes(p) /\ p # f /\ p \notin known[f]
  /\ Add(f, New(f, p), {p})

\* Every node hears the fixes of every anchor.
OnTrn(f, a) == a \in Anchor /\ Add(f, New(f, a), {a})

-----------------------------------------------------------------------------
(* Ticks.                                                                  *)

\* What the tick hands to isam.update, with the seed of a node whose first
\* callback it is.
GivenInits(f) == inits[f] \union Seed(f)
GivenFactors(f) == factors[f] \union Seed(f)

Acceptable(f) ==
  /\ GivenFactors(f) \subseteq values[f] \union GivenInits(f)
  /\ GivenInits(f) \intersect values[f] = {}

\* finally: both pending sets are emptied, whether the update succeeds or
\* not. A failing update may have taken the initial values or not.
Tick(f) ==
  /\ known' = [known EXCEPT ![f] = @ \union Seed(f)]
  /\ inits' = [inits EXCEPT ![f] = {}]
  /\ factors' = [factors EXCEPT ![f] = {}]
  /\ \/ /\ Acceptable(f)
        /\ values' = [values EXCEPT ![f] = @ \union GivenInits(f)]
        /\ UNCHANGED <<flaked, failed, flakes>>
     \/ /\ GivenFactors(f) \union GivenInits(f) # {}
        /\ \/ ~Acceptable(f) /\ UNCHANGED <<flaked, flakes>>
           \/ /\ flakes < MaxFlakes
              /\ flakes' = flakes + 1 /\ flaked' = flaked \union {f}
        /\ failed' = failed \union {f}
        /\ \E taken \in {{}, GivenInits(f)} :
             values' = [values EXCEPT ![f] = @ \union taken]

Hear(f) ==
  \/ \E p \in UAV : OnState(f, p) \/ OnPeer(f, p) \/ OnTrn(f, p)
  \/ \E link \in Link : OnRange(f, link)

GraphNext == \E f \in Node : Hear(f) \/ Tick(f)

GraphSpec == GraphInit /\ [][GraphNext]_graphVars

-----------------------------------------------------------------------------
(* Properties.                                                             *)

\* Types, and no node holds a value of a key it does not know.
GraphTypeOK ==
  /\ known \in [Node -> SUBSET UAV]
  /\ inits \in [Node -> SUBSET UAV]
  /\ factors \in [Node -> SUBSET UAV]
  /\ values \in [Node -> SUBSET UAV]
  /\ \A f \in Node :
       inits[f] \union factors[f] \union values[f] \subseteq known[f]
  /\ flaked \subseteq Node /\ failed \subseteq Node
  /\ flakes \in 0 .. MaxFlakes

\* Whatever order states, ranges, estimates and fixes arrive in, the node
\* never causes the failure of an update: one that fails does so after a
\* numerical failure at the same node. In particular, the keys lost by a
\* failure at one node never make an update fail at another.
UpdatesSucceed == failed \subseteq flaked

Estimated(f, p) == p \in values[f] \/ {f, p} \intersect flaked # {}

-----------------------------------------------------------------------------
(* Evaluation: which of n sorted errors compute_cep reports.               *)

MedianRank(n) == n \div 2
Rank95(n) == IF (95 * n) \div 100 < n - 1 THEN (95 * n) \div 100 ELSE n - 1

=============================================================================
