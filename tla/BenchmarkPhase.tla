--------------------------- MODULE BenchmarkPhase ---------------------------
(***************************************************************************)
(* One timed phase of a benchmark: BenchmarkExecutor._run_phase            *)
(* (benchmark/executor.py) over the sessions of an SSHReplayAdapter        *)
(* (benchmark/adapters.py).  A worker per virtual user opens a session,    *)
(* plays the journey, closes it, and starts over until the deadline or     *)
(* until somebody declares the phase dead.  Times are abstracted to        *)
(* whether the deadline has passed, samples to how many there are.         *)
(***************************************************************************)
EXTENDS Naturals, FiniteSets

CONSTANTS Users,        \* the virtual users of this level
          JourneySteps, \* the steps of the journey
          ErrorCap,     \* MAX_ERROR_SAMPLES_PER_PHASE
          FailedPasses, \* MAX_CONSECUTIVE_FAILED_PASSES
          MaxPasses     \* bound: passes of a worker

PhaseAssumption ==
    IsFiniteSet(Users) /\ JourneySteps \in Nat \ {0} /\ ErrorCap \in Nat \ {0}

VARIABLES at,        \* at[u]: where u's worker is
          late,      \* the deadline has passed
          fatal,     \* estado["fatal"], "" while the phase lives
          errors,    \* estado["erros_fase"]
          complete,  \* estado["completas"]
          cuts,      \* the length of journey_incompletions
          before,    \* before[u]: that length when u's journey began
          got,       \* got[u]: error samples of u's pass, and whether one is session_io_error
          strikes,   \* strikes[u]: passadas_falhas
          transport, \* last_start_error_transport
          passes,    \* passes[u]: passes begun
          whole      \* history: passes that executed every step

vars == <<at, late, fatal, errors, complete, cuts, before, got, strikes, transport, passes, whole>>

Nothing == [errors |-> 0, io |-> FALSE]

Init ==
    /\ at = [u \in Users |-> "loop"]
    /\ late \in BOOLEAN
    /\ fatal = "" /\ errors = 0 /\ complete = 0 /\ cuts = 0
    /\ before = [u \in Users |-> 0]
    /\ got = [u \in Users |-> Nothing]
    /\ strikes = [u \in Users |-> 0]
    /\ transport \in BOOLEAN
    /\ passes = [u \in Users |-> 0]
    /\ whole = 0

Go(u, place) == at' = [at EXCEPT ![u] = place]

DeadlinePasses ==
    /\ ~late /\ late' = TRUE
    /\ UNCHANGED <<at, fatal, errors, complete, cuts, before, got, strikes, transport, passes, whole>>

\* The first pass is made whatever the time.
MayPass(u) == passes[u] = 0 \/ ~late

NextPass(u) ==
    /\ at[u] = "loop"
    /\ IF MayPass(u) /\ fatal = ""
       THEN /\ passes[u] < MaxPasses
            /\ passes' = [passes EXCEPT ![u] = @ + 1]
            /\ Go(u, "start")
       ELSE Go(u, "done") /\ UNCHANGED passes
    /\ UNCHANGED <<late, fatal, errors, complete, cuts, before, got, strikes, transport, whole>>

StartFails(u) == fatal' = "start_session_failed" /\ Go(u, "done")

\* start_session: the ssh process, which may fail to start ...
OpenSession(u) ==
    /\ at[u] = "start"
    /\ \/ StartFails(u) /\ UNCHANGED transport
       \/ transport' = FALSE /\ Go(u, "preamble") /\ UNCHANGED fatal
    /\ UNCHANGED <<late, errors, complete, cuts, before, got, strikes, passes, whole>>

\* ... and the entry preamble, whose failure is one of the network when the
\* session showed nothing else.  Then the incompletions are counted.
Preamble(u) ==
    /\ at[u] = "preamble"
    /\ \/ StartFails(u) /\ transport' \in BOOLEAN /\ UNCHANGED before
       \/ /\ Go(u, "journey") /\ before' = [before EXCEPT ![u] = cuts]
          /\ UNCHANGED <<fatal, transport>>
    /\ UNCHANGED <<late, errors, complete, cuts, got, strikes, passes, whole>>

Produce(u, n, io) == got' = [got EXCEPT ![u] = [errors |-> n, io |-> io]]

\* execute_journey: all the steps, any of which may time out without an end
\* to the journey and the last of which may end the session; or the session is
\* closed or breaks before the last one; or an exception.
Journey(u) ==
    /\ at[u] = "journey"
    /\ \/ /\ \E n \in 0..JourneySteps, io \in BOOLEAN : (io => n # 0) /\ Produce(u, n, io)
          /\ whole' = whole + 1
          /\ Go(u, "count") /\ UNCHANGED <<cuts, fatal>>
       \/ /\ \E n \in 1..JourneySteps - 1, io \in BOOLEAN : Produce(u, n, io)
          /\ cuts' = cuts + 1
          /\ Go(u, "count") /\ UNCHANGED <<fatal, whole>>
       \/ /\ fatal' = "execute_journey_failed"
          /\ Go(u, "judge") /\ UNCHANGED <<cuts, got, whole>>
    /\ UNCHANGED <<late, errors, complete, before, strikes, transport, passes>>

\* As if a pass counted whenever it produced samples.
CountEvery(u) ==
    /\ at[u] = "count"
    /\ complete' = complete + 1
    /\ Go(u, "collect")
    /\ UNCHANGED <<late, fatal, errors, cuts, before, got, strikes, transport, passes, whole>>

\* A pass is complete when nobody's journey was cut meanwhile.
Count(u) ==
    /\ at[u] = "count"
    /\ complete' = complete + (IF cuts = before[u] THEN 1 ELSE 0)
    /\ Go(u, "collect")
    /\ UNCHANGED <<late, fatal, errors, cuts, before, got, strikes, transport, passes, whole>>

\* stop_session, and the samples under the lock.
Collect(u) ==
    /\ at[u] = "collect"
    /\ errors' = errors + got[u].errors
    /\ Go(u, "judge")
    /\ UNCHANGED <<late, fatal, complete, cuts, before, got, strikes, transport, passes, whole>>

Strike(u) == strikes[u] + 1 >= FailedPasses

\* The circuit breaker, without the lock: too many errors, somebody else's
\* end, too many passes in a row whose session broke.
Judge(u) ==
    /\ at[u] = "judge"
    /\ \/ /\ errors >= ErrorCap
          /\ fatal' = "error_sample_cap_exceeded" /\ Go(u, "done") /\ UNCHANGED strikes
       \/ /\ errors < ErrorCap /\ fatal # ""
          /\ Go(u, "done") /\ UNCHANGED <<fatal, strikes>>
       \/ /\ errors < ErrorCap /\ fatal = "" /\ got[u].io
          /\ strikes' = [strikes EXCEPT ![u] = @ + 1]
          /\ IF Strike(u) THEN fatal' = "session_unstable" /\ Go(u, "done")
                          ELSE Go(u, "loop") /\ UNCHANGED fatal
       \/ /\ errors < ErrorCap /\ fatal = "" /\ ~got[u].io
          /\ strikes' = [strikes EXCEPT ![u] = 0]
          /\ Go(u, "loop") /\ UNCHANGED fatal
    /\ got' = [got EXCEPT ![u] = Nothing]
    /\ UNCHANGED <<late, errors, complete, cuts, before, transport, passes, whole>>

Worker(u) ==
    NextPass(u) \/ OpenSession(u) \/ Preamble(u) \/ Journey(u) \/ Count(u) \/ Collect(u) \/ Judge(u)

Next == DeadlinePasses \/ \E u \in Users : Worker(u)

Spec == Init /\ [][Next]_vars

----------------------------------------------------------------------------
\* The journeys a phase reports are journeys of which every step was executed,
\* and none is missing while no session was cut (_run_phase).  With cuts some
\* are: a cut of one user hides the journeys that the others play meanwhile.
JourneysCounted ==
    /\ complete <= whole
    /\ cuts = 0 /\ (\A u \in Users : at[u] # "count") => complete = whole

\* A dead session never becomes a storm of errors: what a phase collects
\* exceeds the cap by less than a journey of every worker, though the breaker
\* is read and set without a lock (the module's docstring).
NoErrorStorm == errors < ErrorCap + Cardinality(Users) * JourneySteps

\* The numbers of a phase are those of the sessions it played.
PhaseIsHonest == JourneysCounted /\ NoErrorStorm

=============================================================================
