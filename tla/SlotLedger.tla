----------------------------- MODULE SlotLedger -----------------------------
(***************************************************************************)
(* What the failover protocol promises, with no messages, timers or        *)
(* follower states: every anchor keeps a ledger of the followers it has    *)
(* admitted, a ledger never outgrows the anchor's capacity, capacity never *)
(* shrinks, and a follower changes its home only to an anchor that has     *)
(* already admitted it.  Nothing is promised about leaving a ledger: no    *)
(* entry is ever removed, which is why the ledgers may count a follower    *)
(* more than once.                                                         *)
(***************************************************************************)
EXTENDS Naturals, FiniteSets

CONSTANTS Anchor, Follower

VARIABLES
  ledger,  \* ledger[a]: the followers anchor a has admitted
  room,    \* room[a]: how many it may admit
  home     \* home[f]: the anchor follower f listens to

ledgerVars == <<ledger, room, home>>

Init ==
  /\ room \in [Anchor -> Nat]
  /\ ledger \in [Anchor -> SUBSET Follower]
  /\ \A a \in Anchor : Cardinality(ledger[a]) <= room[a]
  /\ home \in [Follower -> Anchor]

Admit(a, f) ==
  /\ f \in ledger[a] \/ Cardinality(ledger[a]) < room[a]
  /\ ledger' = [ledger EXCEPT ![a] = @ \cup {f}]
  /\ UNCHANGED <<room, home>>

Move(f, a) ==
  /\ f \in ledger[a]
  /\ home' = [home EXCEPT ![f] = a]
  /\ UNCHANGED <<ledger, room>>

Enlarge ==
  /\ room' \in [Anchor -> Nat]
  /\ \A a \in Anchor : room'[a] >= room[a]
  /\ UNCHANGED <<ledger, home>>

Next ==
  \/ \E a \in Anchor, f \in Follower : Admit(a, f) \/ Move(f, a)
  \/ Enlarge

Spec == Init /\ [][Next]_ledgerVars

=============================================================================
