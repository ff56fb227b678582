--------------------------- MODULE BenchmarkLadder --------------------------
(***************************************************************************)
(* BenchmarkExecutor.run (benchmark/executor.py): the ladder of            *)
(* concurrency levels, climbed once per iteration with every environment   *)
(* at every level, the conditions that end it, and what is then said of    *)
(* the experiment.  What a run is like is a choice; samples and metrics    *)
(* are reduced to whether a stop condition of the contract is met.         *)
(***************************************************************************)
EXTENDS Naturals, Sequences, FiniteSets

CONSTANTS Envs,       \* the environments of the contract, in order
          Levels,     \* concurrency_levels, as they are given
          Iterations  \* iterations

\* An experiment has an environment (create_experiment), and a level asks for sessions.
LadderAssumption ==
    /\ Envs \in Seq(STRING) /\ Envs # <<>>
    /\ Levels \in Seq(Nat \ {0})
    /\ Iterations \in Nat \ {0}

Environments == {Envs[k] : k \in 1..Len(Envs)}

\* start_session_failed, with last_start_error_transport or without, and any other failure.
Failures == {"transport", "admission", "other"}

\* A level tried: its place, and the outcome of every environment, "" for COMPLETED.
Runs == [iteration : 1..Iterations, level : 1..Len(Levels), env : Environments,
         failure : {""} \cup Failures]

VARIABLES phase,     \* "preflight", "climb", "run", "judge", "cleanup" or "done"
          iteration, level,
          runs,      \* all_runs
          aborted,   \* the runs that were reclassified, in memory
          evidence,  \* the files execution-result.json that say FAILED
          inARow,    \* niveis_transporte_consecutivos
          ceiling,   \* admission_ceiling, 0 for none
          stop,      \* stop_reason
          met,       \* history: levels where a stop condition was met
          result     \* status and reason of the experiment

vars == <<phase, iteration, level, runs, aborted, evidence, inARow, ceiling, stop, met, result>>
place == <<iteration, level>>

Nowhere == [condition |-> "none", iteration |-> 0, level |-> 0]
Here(condition) == [condition |-> condition, iteration |-> iteration, level |-> level]
At(r) == <<r.iteration, r.level>>

\* A level is known by its sessions, in stop_reason as in the directory of a run.
Known(p) == <<p[1], Levels[p[2]]>>
File(r) == <<r.env, Known(At(r))>>
Latest == {r \in runs : At(r) = place}
Failed == {r \in runs : r.failure # "" /\ r \notin aborted}

Init ==
    /\ phase = "preflight"
    /\ iteration = 1 /\ level = 1
    /\ runs = {} /\ aborted = {} /\ evidence = {}
    /\ inARow = 0 /\ ceiling = 0 /\ stop = Nowhere
    /\ met = {}
    /\ result = [status |-> "", reason |-> ""]

\* An environment that cannot be reached: no run at all.
Preflight ==
    /\ phase = "preflight"
    /\ \/ phase' = "climb" /\ UNCHANGED result
       \/ phase' = "done" /\ result' = [status |-> "FAILED", reason |-> "environment_unreachable"]
    /\ UNCHANGED <<place, runs, aborted, evidence, inARow, ceiling, stop, met>>

Hard == stop.condition \notin {"none", "session_admission_limit"}

\* As if the ceiling held only for the iteration that found it.
SkippedOnce == ceiling # 0 /\ Levels[level] >= ceiling /\ iteration = stop.iteration

\* Levels from the ceiling on are skipped.
Skipped == ceiling # 0 /\ Levels[level] >= ceiling

Ended == inARow >= 2 \/ Hard

\* The next level, the next iteration, or the end of the ladder.
Climb ==
    /\ phase = "climb"
    /\ IF level > Len(Levels) \/ Ended
       THEN IF Ended \/ iteration = Iterations
            THEN phase' = "cleanup" /\ UNCHANGED place
            ELSE iteration' = iteration + 1 /\ level' = 1 /\ UNCHANGED phase
       ELSE IF Skipped
            THEN level' = level + 1 /\ UNCHANGED <<iteration, phase>>
            ELSE phase' = "run" /\ UNCHANGED place
    /\ UNCHANGED <<runs, aborted, evidence, inARow, ceiling, stop, met, result>>

\* run_level: the environments one after the other, each with its artifacts
\* on disk before the next one starts, over those of an equal level.
RunLevel ==
    /\ phase = "run"
    /\ \E outcome \in [Environments -> {""} \cup Failures] :
          LET new == {[iteration |-> iteration, level |-> level, env |-> e,
                       failure |-> outcome[e]] : e \in Environments}
          IN  /\ runs' = runs \cup new
              /\ evidence' = (evidence \ {File(r) : r \in new})
                                \cup {File(r) : r \in {x \in new : x.failure # ""}}
    /\ phase' = "judge"
    /\ UNCHANGED <<place, aborted, inARow, ceiling, stop, met, result>>

AllFailed(how) == \A r \in Latest : r.failure = how
EarlierCompleted == \E r \in runs \ Latest : r.failure = ""

\* No environment admits the sessions of a level although one was completed
\* before: the lowest such level is the ceiling, the first one the reason.
AdmissionLimit ==
    IF AllFailed("admission") /\ EarlierCompleted
    THEN /\ ceiling' = (IF ceiling = 0 \/ Levels[level] < ceiling THEN Levels[level] ELSE ceiling)
         /\ stop' = (IF stop = Nowhere THEN Here("session_admission_limit") ELSE stop)
    ELSE UNCHANGED <<ceiling, stop>>

\* Two levels in a row lost to the network, else a stop condition of the
\* contract, else the limit of admission.
Judge ==
    /\ phase = "judge"
    /\ inARow' = (IF AllFailed("transport") THEN inARow + 1 ELSE 0)
    /\ \/ inARow' >= 2 /\ UNCHANGED <<stop, ceiling, met>>
       \/ /\ inARow' < 2
          /\ stop' = Here("host") /\ met' = met \cup {place} /\ UNCHANGED ceiling
       \/ inARow' < 2 /\ AdmissionLimit /\ UNCHANGED met
    /\ phase' = "climb" /\ level' = level + 1
    /\ UNCHANGED <<iteration, runs, aborted, evidence, result>>

Stopped ==
    {r \in runs : /\ r.failure # "" /\ stop # Nowhere
                  /\ Known(At(r)) = Known(<<stop.iteration, stop.level>>)}

\* A failed run of the level in stop_reason becomes ABORTED, in memory and then
\* on disk, where a missing file or an error is passed over.
Reclassify(r) ==
    /\ phase = "cleanup" /\ r \in Stopped \ aborted
    /\ aborted' = aborted \cup {r}
    /\ evidence' \in {evidence, evidence \ {File(r)}}
    /\ UNCHANGED <<phase, place, runs, inARow, ceiling, stop, met, result>>

\* What the experiment was.
Conclude ==
    /\ phase = "cleanup" /\ Stopped \subseteq aborted
    /\ result' = [status |-> IF inARow >= 2 \/ Failed # {} THEN "FAILED" ELSE "COMPLETED",
                  reason |-> IF inARow >= 2 THEN "environment_unreachable_mid_run"
                             ELSE IF Failed # {} THEN "run_failed" ELSE stop.condition]
    /\ phase' = "done"
    /\ UNCHANGED <<place, runs, aborted, evidence, inARow, ceiling, stop, met>>

Next == Preflight \/ Climb \/ RunLevel \/ Judge \/ (\E r \in runs : Reclassify(r)) \/ Conclude

Spec == Init /\ [][Next]_vars /\ WF_vars(Next)

----------------------------------------------------------------------------
Tried == {At(r) : r \in runs}

\* A level is a limit of admission when no environment admitted its sessions.
Refused(p) == \A r \in runs : At(r) = p => r.failure = "admission"
Before(p, q) == p[1] < q[1] \/ (p[1] = q[1] /\ p[2] < q[2])
Limits == {p \in Tried : Refused(p) /\ \E r \in runs : Before(At(r), p) /\ r.failure = ""}

\* Nobody asks again for as many sessions as no environment admits (run).
CeilingHolds ==
    \A p \in Limits \ met, q \in Tried : Before(p, q) => Levels[q[2]] < Levels[p[2]]

Stops == Limits \cup met
Blemished == {At(r) : r \in {s \in runs : s.failure # ""}}

\* An experiment that is called COMPLETED failed at no other level than its
\* limits, and one level that stopped the ladder does not fail it (run).
StopIsNotFailure ==
    phase = "done" /\ runs # {} =>
        /\ result.status = "COMPLETED" =>
              \A p \in Blemished : \E q \in Stops : Known(p) = Known(q)
        /\ Blemished \subseteq Stops /\ Cardinality(Stops) = 1 => result.status = "COMPLETED"

OwnFiles == \A k, l \in 1..Len(Levels) : Levels[k] = Levels[l] => k = l

\* A later comparison reads the disk: when no level is asked for twice, it
\* never looks better there than in the verdict.  It may look worse, for a
\* reclassification that cannot be written is passed over (README, Findings).
DiskIsNotMilder ==
    phase = "done" /\ runs # {} /\ OwnFiles /\ evidence = {} =>
        result.status = "COMPLETED" \/ inARow >= 2

\* What an experiment is called and what it leaves on the disk follow from
\* what its runs met.
VerdictIsHonest == CeilingHolds /\ StopIsNotFailure /\ DiskIsNotMilder

=============================================================================
