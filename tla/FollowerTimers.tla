--------------------------- MODULE FollowerTimers ---------------------------
(***************************************************************************)
(* The clock side of follower_node.py: one follower, its watchdog and the  *)
(* timers it makes with create_timer.  In rclpy such a timer is periodic,  *)
(* and the code neither cancels nor destroys one: after the round it was   *)
(* made for, it keeps firing into later rounds.  What arrives from the     *)
(* anchors, and when, is left open.                                        *)
(*                                                                         *)
(* One tick is the watchdog's period.  Instants are kept as ages, and an   *)
(* age nobody will read is 0.  The executor is assumed to keep up: what is *)
(* due at an instant runs, in any order, before time advances.             *)
(***************************************************************************)
EXTENDS Naturals

CONSTANTS
  TTimeout,   \* t_timeout, in ticks
  TWindow,    \* t_offer_window
  TAttach,    \* attach_timeout_s
  MaxOffers,  \* bound: offers collected in one window
  MaxTimers,  \* bound: timers of one kind firing at the same instant
  MaxOrphan   \* bound: ticks a run goes without a DistilledState

ASSUME TimesAssumption ==
  /\ TTimeout \in Nat \ {0}
  /\ TWindow \in Nat \ {0}
  /\ TAttach \in Nat \ {0}
  /\ MaxOffers \in Nat
  /\ MaxTimers \in Nat \ {0}
  /\ MaxOrphan \in Nat

VARIABLES
  clock,         \* now % (TWindow * TAttach)
  state,
  quiet,         \* now - last_distilled_t, read while ATTACHED
  dead,          \* now - t_anchor_death, read while ATTACHING
  offers,        \* len(offers_received), read while DETECTING
  ranked,        \* len(_ranked_offers), read while ATTACHING
  windowTimers,  \* how many window timers fire when clock % TWindow = p
  attachTimers,  \* how many attach-timeout timers fire when clock % TAttach = p
  due,           \* callbacks still to run at this instant
  \* history, not in the code
  orphan,        \* ticks since a DistilledState was last accepted
  waited         \* ticks since the current window or attempt began

vars == <<clock, state, quiet, dead, offers, ranked, windowTimers,
          attachTimers, due, orphan, waited>>

timers == <<windowTimers, attachTimers>>

NothingDue == [watchdog |-> 0, window |-> 0, attach |-> 0]

Init ==
  /\ clock = 0
  /\ state = "ATTACHED"
  /\ quiet = 0
  /\ dead = 0
  /\ offers = 0
  /\ ranked = 0
  /\ windowTimers = [p \in 0 .. TWindow - 1 |-> 0]
  /\ attachTimers = [p \in 0 .. TAttach - 1 |-> 0]
  /\ due = NothingDue
  /\ orphan = 0
  /\ waited = 0

Tick ==
  /\ due = NothingDue
  /\ orphan < MaxOrphan
  /\ clock' = (clock + 1) % (TWindow * TAttach)
  /\ due' = [watchdog |-> 1,
             window |-> windowTimers[clock' % TWindow],
             attach |-> attachTimers[clock' % TAttach]]
  /\ quiet' = IF state = "ATTACHED" THEN quiet + 1 ELSE quiet
  /\ dead' = IF state = "ATTACHED" THEN dead ELSE dead + 1
  /\ waited' = IF state = "ATTACHED" THEN waited ELSE waited + 1
  /\ orphan' = orphan + 1
  /\ UNCHANGED <<state, offers, ranked, timers>>

Runs(callback) ==
  /\ due[callback] > 0
  /\ due' = [due EXCEPT ![callback] = @ - 1]

\* t_anchor_death = now - silence; create_timer(_close_offer_window).
StartDetecting(silence) ==
  /\ windowTimers[clock % TWindow] < MaxTimers
  /\ windowTimers' = [windowTimers EXCEPT ![clock % TWindow] = @ + 1]
  /\ state' = "DETECTING"
  /\ dead' = silence
  /\ quiet' = 0
  /\ waited' = 0
  /\ UNCHANGED <<clock, offers, ranked, attachTimers>>

Ignore ==
  UNCHANGED <<clock, state, quiet, dead, offers, ranked, timers, waited>>

WatchdogTick ==
  /\ Runs("watchdog")
  /\ IF state = "ATTACHED" /\ quiet >= TTimeout THEN StartDetecting(quiet) ELSE Ignore
  /\ UNCHANGED orphan

OnDistilledHealthy ==
  /\ state = "ATTACHED"
  /\ quiet' = 0
  /\ orphan' = 0
  /\ UNCHANGED <<clock, state, dead, offers, ranked, timers, due, waited>>

OnDistilledRejected ==
  /\ state = "ATTACHED"
  /\ StartDetecting(0)
  /\ orphan' = 0
  /\ UNCHANGED due

OnOffer ==
  /\ state = "DETECTING"
  /\ offers < MaxOffers
  /\ offers' = offers + 1
  /\ UNCHANGED <<clock, state, quiet, dead, ranked, timers, due, orphan, waited>>

\* Back to ATTACHED with last_distilled_t = now - silence.
Restart(silence) ==
  /\ state' = "ATTACHED"
  /\ quiet' = silence
  /\ dead' = 0
  /\ offers' = 0
  /\ ranked' = 0
  /\ waited' = 0
  /\ UNCHANGED <<clock, timers>>

\* Mutant: the silence is left as long as it is.
RestartHonestly == Restart(dead)

\* last_distilled_t = now - t_timeout - 0.1, so that the next watchdog tick
\* starts another round; 0.1 s is the watchdog's period, one tick.
RestartCycle == Restart(TTimeout + 1)

\* Send the attach with n offers left; `own' says whether it gets a timer.
TryOffer(n, own) ==
  /\ state' = "ATTACHING"
  /\ offers' = 0
  /\ ranked' = n - 1
  /\ waited' = 0
  /\ attachTimers[clock % TAttach] < MaxTimers
  /\ attachTimers' = [attachTimers EXCEPT ![clock % TAttach] = @ + own]
  /\ UNCHANGED <<clock, quiet, dead, windowTimers>>

\* Mutant: the attempt gets no timer.
TryWithoutTimer(n) ==
  \/ n = 0 /\ RestartCycle
  \/ n > 0 /\ TryOffer(n, 0)

\* Mutant: an empty ranking is not noticed.
TryUnchecked(n) == TryOffer(n, 1)

\* create_timer(attach_timeout_s, _attach_timeout_tick) for every attempt.
TryNextAttach(n) ==
  \/ n = 0 /\ RestartCycle
  \/ n > 0 /\ TryOffer(n, 1)

\* A window timer, whichever round made it.
CloseOfferWindow ==
  /\ Runs("window")
  /\ IF state = "DETECTING" THEN TryNextAttach(offers) ELSE Ignore
  /\ UNCHANGED orphan

\* An attach-timeout timer, whichever attempt made it.
AttachTimeoutTick ==
  /\ Runs("attach")
  /\ IF state = "ATTACHING" THEN TryNextAttach(ranked) ELSE Ignore
  /\ UNCHANGED orphan

\* The awaited ack: now - t_anchor_death is published as the switching time.
OnAck ==
  /\ state = "ATTACHING"
  /\ Restart(0)
  /\ orphan' = 0
  /\ UNCHANGED due

Next ==
  \/ Tick
  \/ WatchdogTick
  \/ OnDistilledHealthy
  \/ OnDistilledRejected
  \/ OnOffer
  \/ CloseOfferWindow
  \/ AttachTimeoutTick
  \/ OnAck

Spec == Init /\ [][Next]_vars

-----------------------------------------------------------------------------
(* Properties.                                                             *)

\* Every variable keeps its type.
TypeOK ==
  /\ clock \in 0 .. TWindow * TAttach - 1
  /\ state \in {"ATTACHED", "DETECTING", "ATTACHING"}
  /\ quiet \in Nat
  /\ dead \in Nat
  /\ offers \in 0 .. MaxOffers
  /\ ranked \in 0 .. MaxOffers
  /\ windowTimers \in [0 .. TWindow - 1 -> 0 .. MaxTimers]
  /\ attachTimers \in [0 .. TAttach - 1 -> 0 .. MaxTimers]
  /\ due \in [{"watchdog", "window", "attach"} -> 0 .. MaxTimers]
  /\ orphan \in 0 .. MaxOrphan
  /\ waited \in Nat

\* However many left-over timers there are, a follower never waits longer than
\* the code intends: for the stream (T_timeout, the 0.1 s that a restarted cycle
\* adds to it, and one watchdog period), for offers (T_offer_window) or for an
\* ack (attach_timeout_s).
NoOverlongWait ==
  /\ state = "ATTACHED" => quiet <= TTimeout + 1 + due.watchdog
  /\ state = "DETECTING" => waited <= TWindow
  /\ state = "ATTACHING" => waited <= TAttach

\* The switching time that an ack would publish now stays below a bound that
\* has nothing to do with how long the follower has been without an anchor:
\* each restarted cycle moves t_anchor_death forward, to 0.1 s more than T_timeout
\* before the restart, and the watchdog may need a period to see it.  With one
\* survivor it is 5 + 0.1 + 0.1 + 1 + 2 s, below the 10 s that
\* docs/phase-4-spec.md accepts.
ReportedTimeBounded ==
  state = "ATTACHING" => dead <= TTimeout + 2 + TWindow + MaxOffers * TAttach

\* "Switching time = AttachAck arrival - last DistilledState received from the
\* previous anchor" (follower_node.py, docstring).
ReportedTimeTrue ==
  state = "ATTACHING" => dead = orphan

\* "The follower waits this long for an AttachAck before falling back to the
\* next-best offer" (follower_node.py, comment on attach_timeout_s).
AttemptGetsItsTimeout ==
  [][AttachTimeoutTick /\ state = "ATTACHING" => waited >= TAttach]_vars

=============================================================================
