----------------------------- MODULE Schedules ------------------------------
(***************************************************************************)
(* The scheduler of synthetic runs (synthetic/scheduler.py) and the stress *)
(* runner it calls (synthetic/stress_runner.py): loops that look for a     *)
(* schedule that is due, a run with a thread for every session, the row of *)
(* the run and the comparison with the row before it.  One schedule is     *)
(* enough: a loop takes them one after the other.                          *)
(***************************************************************************)
EXTENDS Naturals, Sequences, SequencesExt, FiniteSets

CONSTANTS Loops,         \* threads of the loop
          Sessions,      \* the sessions of a run, by number
          MaxRuns,       \* bound: runs
          Intervals      \* bound: times the interval goes by

ScheduleAssumption == Intervals \in Nat /\ MaxRuns \in Nat /\ Sessions \subseteq Nat

VARIABLES running,       \* Scheduler._running
          loop,          \* where each loop is, and the run it is in
          due,           \* the interval has gone by since last_run_at
          elapsed,       \* how often it has
          runs,          \* of every run begun: its sessions and its result
          rows,          \* synthetic_schedule_runs
          restarted      \* a loop was started while another still ran

vars == <<running, loop, due, elapsed, runs, rows, restarted>>

Off == [pc |-> "off", run |-> 0]

Init ==
    /\ running = FALSE
    /\ loop = [l \in Loops |-> Off]
    /\ due = TRUE /\ elapsed = 0
    /\ runs = <<>> /\ rows = <<>>
    /\ restarted = FALSE

At(l, pc) == loop' = [loop EXCEPT ![l].pc = pc]

\* start_background: the flag says whether a loop runs, nobody looks at the
\* thread of the one before.
Start ==
    /\ ~running
    /\ \E l \in Loops :
          /\ loop[l].pc = "off"
          /\ At(l, "check")
    /\ running' = TRUE
    /\ restarted' = (restarted \/ \E l \in Loops : loop[l].pc # "off")
    /\ UNCHANGED <<due, elapsed, runs, rows>>

\* stop_background: the thread is waited for, but no more than five seconds.
Stop ==
    /\ running
    /\ running' = FALSE
    /\ UNCHANGED <<loop, due, elapsed, runs, rows, restarted>>

\* The interval of the schedule goes by.
Elapse ==
    /\ ~due /\ elapsed < Intervals
    /\ due' = TRUE /\ elapsed' = elapsed + 1
    /\ UNCHANGED <<running, loop, runs, rows, restarted>>

-----------------------------------------------------------------------------
(* The loop.                                                               *)

Fresh == [began |-> {}, ended |-> {}, joined |-> {}, completed |-> 0, failed |-> 0]

\* A schedule that is due is run; last_run_at is only written when it is over.
Check(l) ==
    /\ loop[l].pc = "check"
    /\ IF ~running THEN loop' = [loop EXCEPT ![l] = Off] /\ UNCHANGED runs
       ELSE IF due /\ Len(runs) < MaxRuns
         THEN /\ runs' = Append(runs, Fresh)
              /\ loop' = [loop EXCEPT ![l] = [pc |-> "run", run |-> Len(runs) + 1]]
       ELSE At(l, "sleep") /\ UNCHANGED runs
    /\ UNCHANGED <<running, due, elapsed, rows, restarted>>

Wake(l) ==
    /\ loop[l].pc = "sleep"
    /\ At(l, "check")
    /\ UNCHANGED <<running, due, elapsed, runs, rows, restarted>>

\* The run raises: no row, and last_run_at stays as it was.
RunRaises(l) ==
    /\ loop[l].pc = "run" /\ runs[loop[l].run] = Fresh
    /\ At(l, "sleep")
    /\ UNCHANGED <<running, due, elapsed, runs, rows, restarted>>

-----------------------------------------------------------------------------
(* The sessions of a run: their threads are started in turn, and joined.   *)

FirstOf(group, s) == s \in group /\ \A other \in group : s <= other

Begin(l, s) ==
    LET r == loop[l].run
    IN  /\ loop[l].pc = "run" /\ FirstOf(Sessions \ runs[r].began, s)
        /\ runs' = [runs EXCEPT ![r].began = @ \cup {s}]
        /\ UNCHANGED <<running, loop, due, elapsed, rows, restarted>>

\* As if a session that succeeds were counted before its verification.
CountTwice(run, ok) ==
    [run EXCEPT !.completed = IF ok THEN @ + 1 ELSE @, !.failed = @ + 1]

Count(run, ok) ==
    [run EXCEPT !.completed = IF ok THEN @ + 1 ELSE @, !.failed = IF ok THEN @ ELSE @ + 1]

\* A session succeeds, fails, or ends without being counted when on_end raises.
EndSession(r, s) ==
    /\ r \in DOMAIN runs /\ s \in runs[r].began \ runs[r].ended
    /\ \/ \E ok \in BOOLEAN :
             runs' = [runs EXCEPT ![r] = [Count(runs[r], ok) EXCEPT !.ended = @ \cup {s}]]
       \/ runs' = [runs EXCEPT ![r].ended = @ \cup {s}]
    /\ UNCHANGED <<running, loop, due, elapsed, rows, restarted>>

\* join gives up on a thread after five minutes.
Join(l, s) ==
    LET r == loop[l].run
    IN  /\ loop[l].pc = "run" /\ runs[r].began = Sessions
        /\ FirstOf(Sessions \ runs[r].joined, s)
        /\ runs' = [runs EXCEPT ![r].joined = @ \cup {s}]
        /\ UNCHANGED <<running, loop, due, elapsed, rows, restarted>>

-----------------------------------------------------------------------------
(* The row and the comparison.                                             *)

\* The row has no column for the threshold of the schedule: it is always ten.
Threshold == 10

\* The rate of completed sessions fell by more than the threshold, in percent.
Worse(row, before) ==
    100 * before.completed > 100 * row.completed + Threshold * Cardinality(Sessions)

\* As if the run were compared with the one begun before it.
PreviousBegun(r) == {k \in DOMAIN rows : rows[k].run = r - 1}

Previous(r) == {k \in DOMAIN rows : k = Len(rows)}

Regresses(row, r) == \E k \in Previous(r) : Worse(row, rows[k])

Save(l) ==
    LET r == loop[l].run
        row == [run |-> r, completed |-> runs[r].completed, failed |-> runs[r].failed]
    IN  /\ loop[l].pc = "run" /\ runs[r].joined = Sessions
        /\ rows' = Append(rows, [run |-> r, completed |-> row.completed, failed |-> row.failed,
                                 regression |-> Regresses(row, r)])
        /\ At(l, "stamp")
        /\ UNCHANGED <<running, due, elapsed, runs, restarted>>

Stamp(l) ==
    /\ loop[l].pc = "stamp"
    /\ due' = FALSE
    /\ At(l, "sleep")
    /\ UNCHANGED <<running, elapsed, runs, rows, restarted>>

Next ==
    \/ Start \/ Stop \/ Elapse
    \/ \E l \in Loops :
          \/ Check(l) \/ Wake(l) \/ RunRaises(l) \/ Save(l) \/ Stamp(l)
          \/ \E s \in Sessions : Begin(l, s) \/ Join(l, s)
    \/ \E r \in 1..MaxRuns, s \in Sessions : EndSession(r, s)

Spec == Init /\ [][Next]_vars

-----------------------------------------------------------------------------
(* Properties.                                                             *)

\* A schedule runs once in an interval, unless a scheduler was stopped and
\* started again before its loop had seen it (README, Findings).
RunsAreSpaced ==
    ~restarted =>
        /\ Len(rows) <= elapsed + 1
        /\ Cardinality({l \in Loops : loop[l].pc # "off"}) <= 1

\* A row counts no session twice and none that did not end.
RowsAreCounted ==
    \A k \in DOMAIN rows :
        rows[k].completed + rows[k].failed <= Cardinality(runs[rows[k].run].ended)

\* Rows are compared in the order they were written, each with the one before.
RegressionsAreChained ==
    \A k \in DOMAIN rows :
        rows[k].regression = (k > 1 /\ Worse(rows[k], rows[k - 1]))

SchedulesAreKept == RunsAreSpaced /\ RowsAreCounted /\ RegressionsAreChained
=============================================================================
