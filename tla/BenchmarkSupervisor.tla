------------------------- MODULE BenchmarkSupervisor ------------------------
(***************************************************************************)
(* Benchmark experiments in the control plane: the requests that create,   *)
(* start, cancel and compare them (control/services/benchmark_service.py), *)
(* the supervised thread that executes one, and the rows they all write    *)
(* (benchmark/persistence.py), a statement at a time, each committed on    *)
(* its own.  The execution itself is BenchmarkLadder.  The experiments are *)
(* on the same environment: one run id stands for env-iterN-concM.         *)
(***************************************************************************)
EXTENDS Naturals, FiniteSets

CONSTANTS Experiments,
          Handlers,    \* requests being served
          Threads,     \* bound: executions
          MaxRequests, \* bound: requests served
          MaxBoots     \* bound: starts of the control plane

SupervisorAssumption == "none" \notin Threads

Finished == {"COMPLETED", "FAILED"}

VARIABLES status,     \* status[e]: benchmark_experiments, "none" for no row
          disk,       \* disk[e]: "none", "manifest", or the status in execution-result.json
          run,        \* the run row: the experiment it names, "none" for no row
          samples,    \* the experiments whose samples are attached to that row
          compared,   \* compared[e]: the last comparison: "none", "legacy" or "current"
          request,    \* request[h]: what h is serving, at which step
          thread,     \* thread[t]: what t executes, at which step
          registry,   \* _threads
          cancelled,  \* the executions whose cancel event is set
          served, boots,
          overlapped, \* history: two executions were alive at once
          met,        \* history: the experiments a start found at their last statement
          lost        \* history: the experiments a restart took the execution of

vars == <<status, disk, run, samples, compared, request, thread, registry, cancelled,
          served, boots, overlapped, met, lost>>
rows == <<status, disk, run, samples, compared>>
history == <<overlapped, met, lost>>

Idle == [op |-> "none", on |-> "none", verdict |-> "none"]
Free == [at |-> "none", on |-> "none", result |-> "none"]

Alive(t) == thread[t].at \notin {"none", "ended"}
IsRunning(e) == registry[e] # "none" /\ Alive(registry[e])
Executing == {t \in Threads : Alive(t)}

\* A database that knows the experiments or not, and the artifacts a release
\* brought or an older version left, with its comparisons.
Init ==
    /\ \E known \in SUBSET Experiments, done \in [Experiments -> Finished \cup {"none", "manifest"}] :
          /\ \A e \in known : done[e] # "none"
          /\ disk = done
          /\ status = [e \in Experiments |->
                         IF e \notin known THEN "none"
                         ELSE IF done[e] = "manifest" THEN "CREATED" ELSE done[e]]
          /\ run \in {"none"} \cup {e \in known : done[e] \in Finished}
          /\ compared = [e \in Experiments |->
                           IF e \in known /\ done[e] \in Finished THEN "legacy" ELSE "none"]
    /\ samples = (IF run = "none" THEN {} ELSE {run})
    /\ request = [h \in Handlers |-> Idle]
    /\ thread = [t \in Threads |-> Free]
    /\ registry = [e \in Experiments |-> "none"]
    /\ cancelled = {}
    /\ served = 0
    /\ boots = 0
    /\ overlapped = FALSE /\ met = {} /\ lost = {}

Up == boots > 0

----------------------------------------------------------------------------
\* import_experiments_from_artifacts: every directory with a manifest and no
\* row is adopted, with the status of its result, COMPLETED without one, and
\* its runs; one run id, so the last directory keeps the row.
Adopted == {e \in Experiments : status[e] = "none" /\ disk[e] # "none"}
WithRuns == {e \in Adopted : disk[e] \in Finished}

Import ==
    /\ status' = [e \in Experiments |->
                    IF e \notin Adopted THEN status[e]
                    ELSE IF disk[e] = "manifest" THEN "COMPLETED" ELSE disk[e]]
    /\ IF WithRuns = {} THEN UNCHANGED <<run, samples>>
                        ELSE run' \in WithRuns /\ samples' = {}

\* The control plane starts, for the first time or after it was killed with
\* its requests and its executions.
Boot ==
    /\ boots < MaxBoots /\ boots' = boots + 1
    /\ Import
    /\ request' = [h \in Handlers |-> Idle]
    /\ thread' = [t \in Threads |-> IF Alive(t) THEN [Free EXCEPT !.at = "ended"] ELSE thread[t]]
    /\ registry' = [e \in Experiments |-> "none"]
    /\ lost' = lost \cup {e \in Experiments : status[e] = "RUNNING"}
    /\ UNCHANGED <<disk, compared, cancelled, served, overlapped, met>>

Serve(h, op, e) ==
    /\ Up /\ request[h] = Idle
    /\ served < MaxRequests
    /\ served' = served + 1
    /\ request' = [request EXCEPT ![h] = [op |-> op, on |-> e, verdict |-> "none"]]

At(h, op) == request[h].op = op
On(h) == request[h].on
Step(h, op) == request' = [request EXCEPT ![h].op = op] /\ UNCHANGED <<served, boots>>
Answer(h) == request' = [request EXCEPT ![h] = Idle] /\ UNCHANGED <<served, boots>>
SetStatus(e, s) == status' = [status EXCEPT ![e] = s]
Execution == <<thread, registry, cancelled>>

\* create_experiment: refused when the experiment is registered ...
Create(h, e) ==
    /\ status[e] = "none"
    /\ Serve(h, "manifest", e)
    /\ UNCHANGED <<rows, Execution, boots, history>>

\* ... the manifest, models and journeys on disk, if the contract is valid ...
WriteManifest(h) ==
    /\ At(h, "manifest")
    /\ \/ disk' = [disk EXCEPT ![On(h)] = IF @ = "none" THEN "manifest" ELSE @] /\ Step(h, "insert")
       \/ UNCHANGED disk /\ Answer(h)
    /\ UNCHANGED <<status, run, samples, compared, Execution, history>>

\* ... and the row, over the one of a request that came second.
Insert(h) ==
    /\ At(h, "insert")
    /\ SetStatus(On(h), "CREATED")
    /\ Answer(h)
    /\ UNCHANGED <<disk, run, samples, compared, Execution, history>>

\* start_experiment: refused while it is RUNNING or its thread is alive ...
Start(h, e) ==
    /\ status[e] \notin {"none", "RUNNING"} /\ ~IsRunning(e)
    /\ disk[e] # "none"
    /\ Serve(h, "mark", e)
    /\ UNCHANGED <<rows, Execution, boots, history>>

\* ... the status ...
MarkRunning(h) ==
    /\ At(h, "mark")
    /\ SetStatus(On(h), "RUNNING")
    /\ Step(h, "register")
    /\ UNCHANGED <<disk, run, samples, compared, Execution, history>>

Launch(t, e) ==
    /\ thread[t] = Free
    /\ thread' = [thread EXCEPT ![t] = [Free EXCEPT !.at = "execute", !.on = e]]
    /\ registry' = [registry EXCEPT ![e] = t]
    /\ overlapped' = (overlapped \/ Executing # {})

\* As if start did not look for a thread that is alive.
RegisterAgain(h) ==
    /\ At(h, "register")
    /\ \E t \in Threads : Launch(t, On(h))
    /\ Answer(h)
    /\ UNCHANGED <<rows, cancelled, met, lost>>

\* ... and the thread, under the lock, unless one is alive.
Register(h) ==
    /\ At(h, "register")
    /\ IF IsRunning(On(h))
       THEN /\ met' = (IF thread[registry[On(h)]].at = "close" THEN met \cup {On(h)} ELSE met)
            /\ UNCHANGED <<thread, registry, overlapped>>
       ELSE (\E t \in Threads : Launch(t, On(h))) /\ UNCHANGED met
    /\ Answer(h)
    /\ UNCHANGED <<rows, cancelled, lost>>

\* cancel_experiment: only what is RUNNING; the event, if there is one ...
Cancel(h, e) ==
    /\ status[e] = "RUNNING"
    /\ Serve(h, "event", e)
    /\ UNCHANGED <<rows, Execution, boots, history>>

SetEvent(h) ==
    /\ At(h, "event")
    /\ cancelled' = (IF registry[On(h)] = "none" THEN cancelled ELSE cancelled \cup {registry[On(h)]})
    /\ Step(h, "cancel")
    /\ UNCHANGED <<rows, thread, registry, history>>

\* ... and the status.
MarkCancelled(h) ==
    /\ At(h, "cancel")
    /\ SetStatus(On(h), "CANCELLED")
    /\ Answer(h)
    /\ UNCHANGED <<disk, run, samples, compared, Execution, history>>

\* comparison_payload: a comparison of an older version is computed again from
\* the disk when there are runs, unless the experiment is RUNNING ...
Compare(h, e) ==
    /\ status[e] \notin {"none", "RUNNING"}
    /\ compared[e] = "legacy" /\ run = e /\ disk[e] # "none"
    /\ Serve(h, "heal", e)
    /\ UNCHANGED <<rows, Execution, boots, history>>

\* ... stored ...
Heal(h) ==
    /\ At(h, "heal")
    /\ compared' = [compared EXCEPT ![On(h)] = "current"]
    /\ request' = [request EXCEPT ![h].op = "healed",
                                  ![h].verdict = IF disk[On(h)] = "manifest" THEN "COMPLETED" ELSE disk[On(h)]]
    /\ UNCHANGED <<status, disk, run, samples, Execution, served, boots, history>>

\* ... and the experiment takes its status from the disk.
HealStatus(h) ==
    /\ At(h, "healed")
    /\ SetStatus(On(h), request[h].verdict)
    /\ Answer(h)
    /\ UNCHANGED <<disk, run, samples, compared, Execution, history>>

----------------------------------------------------------------------------
To(t, place) == thread' = [thread EXCEPT ![t].at = place]
Mine(t) == thread[t].on
Others == <<request, registry, cancelled, served, boots, history>>

\* The executor, and its result on disk.  A cancelled execution fails at its
\* next call of an adapter, if it makes one.
Execute(t) ==
    /\ thread[t].at = "execute"
    /\ \E result \in Finished :
          /\ disk' = [disk EXCEPT ![Mine(t)] = result]
          /\ thread' = [thread EXCEPT ![t].at = "experiment", ![t].result = result]
    /\ UNCHANGED <<status, run, samples, compared, Others>>

\* _persist_result: the experiment, with the status of the result ...
SaveExperiment(t) ==
    /\ thread[t].at = "experiment"
    /\ SetStatus(Mine(t), thread[t].result)
    /\ To(t, "run")
    /\ UNCHANGED <<disk, run, samples, compared, Others>>

\* ... the run, in place of the one with its id and of that one's samples ...
SaveRun(t) ==
    /\ thread[t].at = "run"
    /\ run' = Mine(t) /\ samples' = {}
    /\ To(t, "samples")
    /\ UNCHANGED <<status, disk, compared, Others>>

\* ... the samples of that id ...
SaveSamples(t) ==
    /\ thread[t].at = "samples"
    /\ samples' = samples \cup {Mine(t)}
    /\ To(t, "comparison")
    /\ UNCHANGED <<status, disk, run, compared, Others>>

\* ... and the comparison.
SaveComparison(t) ==
    /\ thread[t].at = "comparison"
    /\ compared' = [compared EXCEPT ![Mine(t)] = "current"]
    /\ To(t, "look")
    /\ UNCHANGED <<status, disk, run, samples, Others>>

\* An exception on the way.
Break(t) ==
    /\ thread[t].at \in {"execute", "experiment", "run", "samples", "comparison"}
    /\ thread' = [thread EXCEPT ![t].at = "look", ![t].result = "FAILED"]
    /\ UNCHANGED <<rows, Others>>

\* The event is read ...
Look(t) ==
    /\ thread[t].at = "look"
    /\ thread' = [thread EXCEPT ![t].at = "final",
                                ![t].result = IF t \in cancelled THEN "CANCELLED" ELSE @]
    /\ UNCHANGED <<rows, Others>>

\* ... the last statement ...
Final(t) ==
    /\ thread[t].at = "final"
    /\ SetStatus(Mine(t), thread[t].result)
    /\ To(t, "close")
    /\ UNCHANGED <<disk, run, samples, compared, Others>>

\* ... and the connection is closed.
Close(t) ==
    /\ thread[t].at = "close"
    /\ To(t, "ended")
    /\ UNCHANGED <<rows, Others>>

Request(h) ==
    \/ \E e \in Experiments : Create(h, e) \/ Start(h, e) \/ Cancel(h, e) \/ Compare(h, e)
    \/ WriteManifest(h) \/ Insert(h)
    \/ MarkRunning(h) \/ Register(h)
    \/ SetEvent(h) \/ MarkCancelled(h)
    \/ Heal(h) \/ HealStatus(h)

Run(t) ==
    \/ Execute(t) \/ SaveExperiment(t) \/ SaveRun(t) \/ SaveSamples(t) \/ SaveComparison(t)
    \/ Break(t) \/ Look(t) \/ Final(t) \/ Close(t)

Next == Boot \/ (\E h \in Handlers : Request(h)) \/ (\E t \in Threads : Run(t))

Spec == Init /\ [][Next]_vars

----------------------------------------------------------------------------
\* An experiment is executed once at a time, though two starts may both have
\* found it idle (BenchmarkSupervisor.start).
OneExecution == \A s, t \in Executing : Mine(s) = Mine(t) => s = t

Starting(e) == \E h \in Handlers : On(h) = e /\ At(h, "register")

\* What is said to be RUNNING is executed or about to be, unless a restart
\* took the execution, or a start found the thread past its last statement.
RunningIsExecuted ==
    \A e \in Experiments : status[e] = "RUNNING" => IsRunning(e) \/ Starting(e) \/ e \in met \cup lost

\* Samples of two experiments are under one run only if they were executed at
\* the same time (save_run, save_app_samples).
MixtureNeedsOverlap == Cardinality(samples) > 1 => overlapped

\* What the control plane says of an experiment is what happens to it.
ExecutionsAreTracked == OneExecution /\ RunningIsExecuted /\ MixtureNeedsOverlap

=============================================================================
