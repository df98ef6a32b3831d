------------------------------- MODULE Sweep --------------------------------
(***************************************************************************)
(* The batch sweeps of Phases 3 to 6 (phase<n>-batch-sweep.py and          *)
(* phase6-tier-b-sweep.py).  Each runs a list of trials, one after the     *)
(* other or on a pool of worker processes, starts a runner for each, reads *)
(* the file the runner leaves, and appends its result to a table.          *)
(*                                                                         *)
(* The four scripts have the same main function; they differ in what they  *)
(* make of a runner that fails, in the file that counts as its result, and *)
(* in how a runner cleans up after itself.  Files may remain from an       *)
(* earlier sweep that was interrupted, as the directory of a run is reused,*)
(* and so may nodes: those of Phase 4 have sessions of their own, and      *)
(* outlive a runner that is killed.                                        *)
(***************************************************************************)
EXTENDS Integers, FiniteSets, Sequences

CONSTANTS
    Trial,        \* trials of a sweep, 0..n-1, in the order of the work list
    Worker,       \* worker processes, 0..k-1; with one job, 0 is the main process
    Jobs,         \* Jobs[s]: what script s may be given for --jobs
    Pid,          \* Pid[w]: process id of a worker
    Leftovers     \* what an earlier sweep may have left: files of trials, and nodes
                  \* on ROS domains

Script == {"phase3", "phase4", "phase5", "phase6"}

ASSUME SweepAssumption ==
    /\ IsFiniteSet(Trial) /\ Trial = 0..(Cardinality(Trial) - 1)
    /\ IsFiniteSet(Worker) /\ Worker = 0..(Cardinality(Worker) - 1)
    /\ Pid \in [Worker -> Nat]
    /\ Jobs \in [Script -> SUBSET (1..Cardinality(Worker))]
    /\ Leftovers \subseteq [files : SUBSET Trial, domains : SUBSET (1..100)]

VARIABLES
    script,      \* the sweep that is run
    jobs,        \* its --jobs
    main,        \* "running", "aborting", "done" or "aborted"
    todo,        \* trials not yet submitted, the next one first
    busy,        \* busy[w]: the trial worker w is on, Idle if none
    stray,       \* ROS domains with nodes of Phase 4 runners that were killed
    left,        \* trials for which an earlier sweep has left a file of results
    futures,     \* finished trials whose result the main process has not taken
    table,       \* results.csv: what was appended, in order
    done,        \* trials appended
    completed,   \* manifest.completed
    ended,       \* history: ended[t], how the runner of t has ended, "no" before
    disturbed    \* history: trials that ran while another one reached their nodes

sweepVars == <<script, jobs, main, todo, busy, stray, left, futures, table, done,
               completed, ended, disturbed>>

Idle == -1

Pool == {w \in Worker : w < jobs}

RosDomain(w) == (Pid[w] % 100) + 1

SweepInit ==
    /\ script \in Script /\ jobs \in Jobs[script]
    /\ main = "running"
    /\ todo = [i \in 1..Cardinality(Trial) |-> i - 1]
    /\ busy = [w \in Worker |-> Idle]
    /\ \E e \in Leftovers : left = e.files /\ stray = e.domains
    /\ futures = {} /\ table = <<>> /\ done = 0 /\ completed = 0
    /\ ended = [t \in Trial |-> "no"] /\ disturbed = {}

-----------------------------------------------------------------------------
(* Workers *)

OnTrial(w) == busy[w] # Idle
RunningTrials == {busy[w] : w \in {w \in Worker : OnTrial(w)}}

\* Trials on the same ROS domain hear each other: the topics have the same names.
Overlapping(b) ==
    {b[w] : w \in {w \in Worker : b[w] # Idle /\ \E v \in Worker \ {w} :
                                     b[v] # Idle /\ RosDomain(v) = RosDomain(w)}}

\* With one job the main process runs the trials itself and appends each result
\* before it starts the next one.
MayStart ==
    /\ main \in {"running", "aborting"} /\ todo # <<>>
    /\ jobs = 1 => futures = {} /\ main = "running"

StartTrial(w) ==
    /\ MayStart /\ w \in Pool /\ ~OnTrial(w)
    /\ busy' = [busy EXCEPT ![w] = Head(todo)]
    /\ todo' = Tail(todo)
    /\ disturbed' = disturbed \cup Overlapping(busy')
                      \cup (IF RosDomain(w) \in stray THEN {Head(todo)} ELSE {})
    /\ UNCHANGED <<script, jobs, main, stray, left, futures, table, done, completed,
                   ended>>

\* What run_one_trial makes of a runner that ended as "how", when "file" tells
\* whose results it finds: "own", "left" by an earlier sweep, or "none".
Row(t, kind) == [trial |-> t, kind |-> kind]

\* check=True: a runner that fails raises, and there is no row.
Phase3Row(t, how, file) == Row(t, IF how = "crashed" THEN "raised" ELSE how)

\* A missing file makes a single row, with no follower and no pass.
Phase4Row(t, how, file) ==
    Row(t, CASE file = "own" -> how [] file = "left" -> "stale" [] OTHER -> "error")

\* A missing file makes a row that lacks the columns its analysis needs.
Phase5Row(t, how, file) ==
    Row(t, CASE file = "own" -> how [] file = "left" -> "stale" [] OTHER -> "unreadable")

\* The timeline is written while the trial runs: what a crashed runner has written
\* of it is analysed like a complete one.
Phase6Row(t, how, file) ==
    Row(t, CASE file = "own" -> (IF how = "crashed" THEN "partial" ELSE how)
             [] file = "left" -> "stale"
             [] OTHER -> "error")

RowOf(t, how, file) ==
    CASE script = "phase3" -> Phase3Row(t, how, file)
      [] script = "phase4" -> Phase4Row(t, how, file)
      [] script = "phase5" -> Phase5Row(t, how, file)
      [] script = "phase6" -> Phase6Row(t, how, file)

\* The runners of Phases 3 to 5 write their results when they are finished, the
\* one of Phase 6 opens its timeline when it starts; a timeline without a kill
\* makes the analysis fail, which then writes no file.
FilesAfter(t, how) ==
    LET earlier == IF t \in left THEN "left" ELSE "none"
    IN  CASE how = "passed" -> {"own"}
          [] how # "passed" /\ script = "phase6" -> {"own", earlier}
          [] how = "failed" /\ script # "phase6" -> {"own"}
          [] how = "crashed" /\ script # "phase6" -> {earlier}

\* Mutant: the runner kills the nodes it has started itself, and no others.
KillOwn(w) == UNCHANGED <<stray, disturbed>>

\* The runner of Phase 4 ends by killing its nodes and every other process of the
\* package on the host.
KillPackage(w) ==
    stray' = {} /\ disturbed' = disturbed \cup (RunningTrials \ {busy[w]})

\* One that is killed does not come to that: whatever it has started stays.
LeaveBehind(w) ==
    stray' \in {stray, stray \cup {RosDomain(w)}} /\ UNCHANGED disturbed

\* The runners of the other phases keep their nodes to their own process.
CleanUp(w, how) ==
    \/ script # "phase4" /\ UNCHANGED <<stray, disturbed>>
    \/ script = "phase4" /\ KillPackage(w)
    \/ script = "phase4" /\ how = "crashed" /\ LeaveBehind(w)

EndTrial(w, how) ==
    /\ OnTrial(w)
    /\ \E file \in FilesAfter(busy[w], how) :
         futures' = futures \cup {RowOf(busy[w], how, file)}
    /\ ended' = [ended EXCEPT ![busy[w]] = how]
    /\ CleanUp(w, how)
    /\ busy' = [busy EXCEPT ![w] = Idle]
    /\ UNCHANGED <<script, jobs, main, todo, left, table, done, completed>>

-----------------------------------------------------------------------------
(* The main process *)

CountOnly(row) ==
    /\ main = "running" /\ row \in futures
    /\ futures' = futures \ {row}
    /\ table' = IF row.kind = "raised" THEN table ELSE Append(table, row)
    /\ done' = done + 1
    /\ left' = left \ {row.trial}
    /\ UNCHANGED <<script, jobs, main, todo, busy, stray, completed, ended,
                   disturbed>>

\* The result of a trial is appended, and its files are deleted.
AppendRow(row) ==
    /\ main = "running" /\ row \in futures /\ row.kind # "raised"
    /\ futures' = futures \ {row}
    /\ table' = Append(table, row)
    /\ done' = done + 1
    /\ left' = left \ {row.trial}
    /\ UNCHANGED <<script, jobs, main, todo, busy, stray, completed, ended,
                   disturbed>>

\* Taking the result of a trial that raised ends the main loop; a pool is still
\* waited for, and runs its whole work list for nothing.
Raise(row) ==
    /\ main = "running" /\ row \in futures /\ row.kind = "raised"
    /\ main' = IF jobs = 1 THEN "aborted" ELSE "aborting"
    /\ futures' = futures \ {row}
    /\ UNCHANGED <<script, jobs, todo, busy, stray, left, table, done, completed, ended,
                   disturbed>>

AllEnded == todo = <<>> /\ RunningTrials = {}

GiveUp ==
    /\ main = "aborting" /\ AllEnded
    /\ main' = "aborted"
    /\ UNCHANGED <<script, jobs, todo, busy, stray, left, futures, table, done, completed,
                   ended, disturbed>>

Finish ==
    /\ main = "running" /\ AllEnded /\ futures = {}
    /\ main' = "done" /\ completed' = done /\ left' = {}
    /\ UNCHANGED <<script, jobs, todo, busy, stray, futures, table, done, ended, disturbed>>

MainNext ==
    \/ \E row \in futures : AppendRow(row) \/ Raise(row)
    \/ GiveUp
    \/ Finish

-----------------------------------------------------------------------------
(* What the analyses make of the table: "passed" when they report that every   *)
(* trial has passed.  A stale or partial result may well be a pass.            *)

Kinds == {table[i].kind : i \in DOMAIN table}

\* phase4-analyze.py: a pass rate over all rows.
Phase4Report == IF Kinds \subseteq {"passed", "stale"} THEN "passed" ELSE "failed"

\* phase5-analyze.py stops at a row it cannot read.
Phase5Report ==
    CASE "unreadable" \in Kinds -> "none"
      [] Kinds \subseteq {"passed", "stale"} -> "passed"
      [] OTHER -> "failed"

\* phase6-tier-b-campaign.sh counts the rows that say pass_trial.
Phase6Report == IF Kinds \subseteq {"passed", "stale", "partial"} THEN "passed" ELSE "failed"

\* phase3-analyze.py only averages.
Report ==
    CASE script = "phase3" -> "none"
      [] script = "phase4" -> Phase4Report
      [] script = "phase5" -> Phase5Report
      [] script = "phase6" -> Phase6Report

-----------------------------------------------------------------------------
(* What must hold.                                                         *)

\* A sweep that says it has completed has exactly one result of every trial, in
\* whatever order the pool finished them; one that was aborted does not say so,
\* and none of its rows is there twice either.
RowsAccounted ==
    /\ \A i, j \in DOMAIN table : table[i].trial = table[j].trial => i = j
    /\ completed # 0 => /\ completed = Cardinality(Trial)
                        /\ {table[i].trial : i \in DOMAIN table} = Trial

\* A trial that is heard by, or killed with, the nodes of another one has a cause
\* that can be told from the sweep: two workers of the pool with the same ROS
\* domain; several jobs of Phase 4; and nodes that a killed runner of Phase 4 has
\* left, which with one job reach only the next trial of that sweep, or the first
\* one of the next, and in the other phases every trial on their domain.
DisturbedForCause ==
    \A t \in disturbed :
        \/ \E v, w \in Pool : v # w /\ RosDomain(v) = RosDomain(w)
        \/ /\ script = "phase4"
           /\ jobs > 1 \/ t = 0 \/ ended[t - 1] = "crashed"
        \/ /\ script # "phase4"
           /\ \E w \in Pool : RosDomain(w) \in stray
=============================================================================
