--------------------------- MODULE SyntheticReplay --------------------------
(***************************************************************************)
(* Background work of the control plane for one capture: the jobs of the   *)
(* synthetic replay in one click (capture_synthesis_service.py), the runs  *)
(* they start, which replay the trail the job has built, and the pipeline  *)
(* of the source analysis (synthetic_plan_service.py).  All of them take   *)
(* connections of one pool; the jobs of a capture share one directory.     *)
(***************************************************************************)
EXTENDS Naturals, FiniteSets

CONSTANTS Jobs, Pipelines,
          Nobody,
          PoolSize,  \* max_size of the pool
          Faults     \* what may go wrong in this instance

ReplayAssumption ==
    /\ Nobody \notin Jobs
    /\ PoolSize \in Nat \ {0}
    /\ Faults \subseteq {"job",       \* the synthesis raises
                         "run",       \* the replay fails
                         "pipeline",  \* the analysis raises
                         "locked"}    \* an UPDATE raises

VARIABLES
    parts,    \* audit files of the capture: 1, or 2 since it was rotated
    dataset,  \* the job whose rows dataset.json holds
    trail,    \* the trail directory: for each name the writer and its rows
    job,      \* job[j]: status, what its thread does, its file and its rows
    run,      \* run[j]: the run of j, with what the thread has read
    pool,     \* free connections, and those that can be opened
    pipeline, \* pipeline[p]: the row of pipeline_runs, and its thread
    met       \* history: the jobs whose files another one has written

vars == <<parts, dataset, trail, job, run, pool, pipeline, met>>

\* A capture of one file gives its name to the trail; of several, they are
\* combined first.  Only audit-*.jsonl is verified and replayed.
Names == {"audit", "combined"}
Missing == [writer |-> Nobody, rows |-> Nobody, whole |-> TRUE]
Audit == trail["audit"]

NoRun == [at |-> "none", hint |-> Nobody, read |-> {}]
Active == {j \in Jobs : run[j].at \in {"queued", "verified", "reading"}}

Init ==
    /\ parts = 1
    /\ dataset = Nobody
    /\ trail = [n \in Names |-> Missing]
    /\ job = [j \in Jobs |-> [status |-> "none", at |-> "none", file |-> "audit", rows |-> Nobody]]
    /\ run = [j \in Jobs |-> NoRun]
    /\ pool = PoolSize
    /\ pipeline = [p \in Pipelines |-> [status |-> "none", at |-> "none"]]
    /\ met = {}

\* The capture goes on while it is synthesized.
Rotate ==
    /\ parts = 1
    /\ parts' = 2
    /\ UNCHANGED <<dataset, trail, job, run, pool, pipeline, met>>

-----------------------------------------------------------------------------
(* A job: start_synthetic_replay_job and its thread.                       *)

At(j, here) == job[j].at = here
Goto(j, there) == job' = [job EXCEPT ![j].at = there]
Work == <<parts, run, pipeline>>

\* The job is in the registry before its thread starts.
Post(j) ==
    /\ At(j, "none")
    /\ job' = [job EXCEPT ![j].status = "queued", ![j].at = "start"]
    /\ UNCHANGED <<Work, dataset, trail, pool, met>>

Begin(j) ==
    /\ At(j, "start")
    /\ job' = [job EXCEPT ![j].status = "running", ![j].at = "acquire"]
    /\ UNCHANGED <<Work, dataset, trail, pool, met>>

\* Outside the try: with no connection in 30 s the thread ends as it is.
Acquire(j) ==
    /\ At(j, "acquire")
    /\ IF pool > 0 THEN pool' = pool - 1 /\ Goto(j, "synthesize")
       ELSE Goto(j, "refused") /\ UNCHANGED pool
    /\ UNCHANGED <<Work, dataset, trail, met>>

\* Those whose files j writes over: they have begun and their runs are not over.
Others(j) ==
    {k \in Jobs \ {j} :
        \/ job[k].at \in {"read", "open", "write", "create", "launch"}
        \/ k \in Active}

\* They and j have met then.
Meet(j) == met' = met \cup Others(j) \cup {k \in {j} : Others(j) # {}}

\* synthesize_capture: the files of the capture, and dataset.json anew.
Synthesize(j) ==
    /\ At(j, "synthesize")
    /\ job' = [job EXCEPT ![j].at = "read",
                          ![j].file = IF parts = 1 THEN "audit" ELSE "combined"]
    /\ dataset' = j
    /\ Meet(j)
    /\ UNCHANGED <<Work, trail, pool>>

\* _first_session_dataset_row reads it back.
ReadDataset(j) ==
    /\ At(j, "read")
    /\ job' = [job EXCEPT ![j].at = "open", ![j].rows = dataset]
    /\ UNCHANGED <<Work, dataset, trail, pool, met>>

\* build_synthetic_trail truncates the file ...
OpenTrail(j) ==
    /\ At(j, "open")
    /\ trail' = [trail EXCEPT ![job[j].file] =
                    [writer |-> j, rows |-> job[j].rows, whole |-> FALSE]]
    /\ Meet(j)
    /\ Goto(j, "write")
    /\ UNCHANGED <<Work, dataset, pool>>

\* ... and writes it; two that write at once leave what neither wrote.
WriteTrail(j) ==
    /\ At(j, "write")
    /\ trail' = [trail EXCEPT ![job[j].file].whole = (trail[job[j].file].writer = j)]
    /\ Goto(j, "create")
    /\ UNCHANGED <<Work, dataset, pool, met>>

\* compute_last_hash_hint: the last line of the trail, of which the run keeps
\* a fingerprint; two active runs of one fingerprint there are not.
Hint == IF Audit.whole THEN Audit.rows ELSE Nobody
Conflict == \E k \in Active : run[k].hint = Hint

Create(j) ==
    /\ At(j, "create")
    /\ ~Conflict
    /\ run' = [run EXCEPT ![j] = [at |-> "queued", hint |-> Hint, read |-> {}]]
    /\ Goto(j, "launch")
    /\ UNCHANGED <<parts, dataset, trail, pool, pipeline, met>>

Raise(j) ==
    /\ \/ At(j, "synthesize") /\ "job" \in Faults
       \/ At(j, "create") /\ Conflict
    /\ job' = [job EXCEPT ![j].status = "error", ![j].at = "release"]
    /\ UNCHANGED <<Work, dataset, trail, pool, met>>

\* start_run_async: from here on the thread of the run goes its own way.
Launch(j) ==
    /\ At(j, "launch")
    /\ Goto(j, "release")
    /\ UNCHANGED <<Work, dataset, trail, pool, met>>

\* As if an error returned before the connection is given back.
ReleaseDone(j) ==
    /\ At(j, "release")
    /\ pool' = IF job[j].status = "error" THEN pool ELSE pool + 1
    /\ Goto(j, IF job[j].status = "error" THEN "end" ELSE "report")
    /\ UNCHANGED <<Work, dataset, trail, met>>

\* finally: an error has been told before, a result is told after it.
Release(j) ==
    /\ At(j, "release")
    /\ pool' = pool + 1
    /\ Goto(j, IF job[j].status = "error" THEN "end" ELSE "report")
    /\ UNCHANGED <<Work, dataset, trail, met>>

Report(j) ==
    /\ At(j, "report")
    /\ job' = [job EXCEPT ![j].status = "done", ![j].at = "end"]
    /\ UNCHANGED <<Work, dataset, trail, pool, met>>

Job(j) ==
    \/ Post(j) \/ Begin(j) \/ Acquire(j) \/ Synthesize(j) \/ ReadDataset(j)
    \/ OpenTrail(j) \/ WriteTrail(j) \/ Create(j) \/ Raise(j) \/ Launch(j)
    \/ Release(j) \/ Report(j)

-----------------------------------------------------------------------------
(* The run of a job: Runner._run_inner, as far as it reads the trail.      *)

RunTo(j, there) == run' = [run EXCEPT ![j].at = there]
Base == <<parts, dataset, trail, job, pool, pipeline, met>>

\* verify_log of audit-*.jsonl; where there is none it raises nothing.
Verify(j) ==
    /\ run[j].at = "queued" /\ job[j].at \in {"release", "report", "end"}
    /\ RunTo(j, IF Audit.whole THEN "verified" ELSE "failed")
    /\ UNCHANGED Base

\* The events, read from the file as they are replayed.
Read(j) ==
    /\ \/ run[j].at = "verified"
          /\ run' = [run EXCEPT ![j].at = "reading", ![j].read = {Audit}]
       \/ run[j].at = "reading"
          /\ run' = [run EXCEPT ![j].at = "success", ![j].read = @ \cup {Audit}]
    /\ UNCHANGED Base

Fail(j) ==
    /\ run[j].at \in {"verified", "reading"}
    /\ "run" \in Faults
    /\ RunTo(j, "failed")
    /\ UNCHANGED Base

Run(j) == Verify(j) \/ Read(j) \/ Fail(j)

-----------------------------------------------------------------------------
(* The pipeline: launch_pipeline_async.                                    *)

PipelineTo(p, status, there) == pipeline' = [pipeline EXCEPT ![p] = [status |-> status, at |-> there]]
PipelineAt(p, here) == pipeline[p].at = here
Rest == <<parts, dataset, trail, job, run, met>>

CreateRow(p) ==
    /\ PipelineAt(p, "none")
    /\ PipelineTo(p, "running", "acquire")
    /\ UNCHANGED <<Rest, pool>>

\* Without a connection in time it fails, as with any other exception.
Take(p) ==
    /\ PipelineAt(p, "acquire")
    /\ IF pool > 0 THEN pool' = pool - 1 /\ PipelineTo(p, "running", "analyse")
       ELSE PipelineTo(p, "running", "fail") /\ UNCHANGED pool
    /\ UNCHANGED Rest

\* _progress_callback takes a second connection for each step, if it can, and
\* keeps it when its UPDATE raises.
Progress(p) ==
    /\ PipelineAt(p, "analyse")
    /\ pool > 0
    /\ "locked" \in Faults
    /\ pool' = pool - 1
    /\ UNCHANGED <<Rest, pipeline>>

Analyse(p) ==
    /\ PipelineAt(p, "analyse")
    /\ pool' = pool + 1
    /\ PipelineTo(p, "running", "mark")
    /\ UNCHANGED Rest

\* The connection of an analysis that raises is not given back.
AnalyseRaises(p) ==
    /\ PipelineAt(p, "analyse")
    /\ "pipeline" \in Faults
    /\ PipelineTo(p, "running", "fail")
    /\ UNCHANGED <<Rest, pool>>

\* The row is set with a connection of its own; if that raises, it is kept.
Mark(p) ==
    /\ PipelineAt(p, "mark")
    /\ \/ pool > 0 /\ PipelineTo(p, "completed", "end") /\ UNCHANGED pool
       \/ pool > 0 /\ "locked" \in Faults /\ pool' = pool - 1 /\ PipelineTo(p, "running", "fail")
       \/ pool = 0 /\ PipelineTo(p, "running", "fail") /\ UNCHANGED pool
    /\ UNCHANGED Rest

MarkFailed(p) ==
    /\ PipelineAt(p, "fail")
    /\ \/ pool > 0 /\ PipelineTo(p, "failed", "end") /\ UNCHANGED pool
       \/ pool > 0 /\ "locked" \in Faults /\ pool' = pool - 1 /\ PipelineTo(p, "running", "end")
       \/ pool = 0 /\ PipelineTo(p, "running", "end") /\ UNCHANGED pool
    /\ UNCHANGED Rest

Pipeline(p) ==
    \/ CreateRow(p) \/ Take(p) \/ Progress(p) \/ Analyse(p) \/ AnalyseRaises(p)
    \/ Mark(p) \/ MarkFailed(p)

-----------------------------------------------------------------------------
Next ==
    \/ Rotate
    \/ \E j \in Jobs : Job(j) \/ Run(j)
    \/ \E p \in Pipelines : Pipeline(p)

Spec == Init /\ [][Next]_vars

-----------------------------------------------------------------------------
(* Properties.                                                             *)

Own(j) == [writer |-> j, rows |-> j, whole |-> TRUE]

\* The run of a job replays the trail the job has built, which passes the
\* verification and can be replayed by a real run (module docstring of
\* synthetic_trail.py).
TrailIsReplayed == \A j \in Jobs : run[j].at = "success" => run[j].read = {Own(j)}

\* It does for a capture of one file while no other job of the capture is at
\* work: nothing a job left behind earlier gets into the trail of a later one.
AloneIsOwn ==
    \A j \in Jobs :
        run[j].at = "success" /\ job[j].file = "audit" /\ j \notin met =>
            run[j].read \subseteq {Own(j)}

\* A thread that is over has told its job how it ended, unless it was refused a
\* connection: done with a run, or an error without one.
JobsReport ==
    \A j \in Jobs :
        At(j, "end") =>
            /\ job[j].status \in {"done", "error"}
            /\ (job[j].status = "done") = (run[j].at # "none")

\* Jobs give back every connection they take, however they end: until a
\* pipeline has begun to lose some, all are free or held by a job at work.
Holders ==
    {j \in Jobs : job[j].at \notin {"none", "start", "acquire", "refused", "report", "end"}}

ConnectionsReturn ==
    (\A p \in Pipelines : pipeline[p].at \in {"none", "acquire"}) =>
        pool + Cardinality(Holders) = PoolSize

\* The work in the background ends as its records say.
JobsAreSound == AloneIsOwn /\ JobsReport /\ ConnectionsReturn

=============================================================================
