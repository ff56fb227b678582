--------------------------- MODULE BenchmarkProofs ---------------------------
(***************************************************************************)
(* The work of the control plane in the background: benchmarks and their   *)
(* journeys, synthetic replays and scheduled runs, for any number of       *)
(* users, experiments, jobs and schedules, and for the levels and the      *)
(* journeys of MCControlPlane.  What the runs check on small instances,    *)
(* proved from an inductive invariant for each part.                       *)
(***************************************************************************)
EXTENDS MCControlPlane, FiniteSetTheorems, SequenceTheorems, TLAPS

\* The parts count with the same Cardinality.
LEMMA SameSize ==
    \A Group : S!Cardinality(Group) = Cardinality(Group)
           /\ P!Cardinality(Group) = Cardinality(Group)
BY DEF S!Cardinality, P!Cardinality, Cardinality

-----------------------------------------------------------------------------
(* Experiments (control/services/benchmark_service.py).                    *)

RunnerPlaces == {"none", "execute", "experiment", "run", "samples", "comparison", "look", "final",
                 "close", "ended"}
RequestSteps == {"none", "manifest", "insert", "mark", "register", "event", "cancel", "heal", "healed"}
Results == {"none", "COMPLETED", "FAILED", "CANCELLED"}
Artifacts == {"none", "manifest", "COMPLETED", "FAILED"}

ThreadType == [at : RunnerPlaces, on : Experiments \cup {"none"}, result : Results]
RequestOf == [op : RequestSteps, on : Experiments \cup {"none"}, verdict : Artifacts]

ExecutionTypes ==
    /\ disk \in [Experiments -> Artifacts]
    /\ DOMAIN status = Experiments
    /\ thread \in [Runners -> ThreadType]
    /\ request \in [Handlers -> RequestOf]
    /\ registry \in [Experiments -> Runners \cup {"none"}]
    /\ \A h \in Handlers : request[h].op # "none" => request[h].on \in Experiments
    /\ \A t \in Runners : S!Alive(t) => thread[t].on \in Experiments

\* A thread that lives is the one its experiment is registered with, and only
\* with it.
RegistryHolds ==
    /\ \A t \in Runners : S!Alive(t) => registry[thread[t].on] = t
    /\ \A e \in Experiments : registry[e] # "none" =>
          thread[registry[e]].at # "none" /\ thread[registry[e]].on = e

\* The thread of a running experiment has its last statement before it.
RunningIsServed ==
    \A e \in Experiments : status[e] = "RUNNING" =>
        \/ S!IsRunning(e) /\ thread[registry[e]].at # "close"
        \/ S!Starting(e)
        \/ e \in met \cup lost

\* Alone, an execution finds no samples that another one put there.
AloneIsClean ==
    ~overlapped =>
        /\ \A s, t \in S!Executing : s = t
        /\ \A a, b \in samples : a = b
        /\ \A t \in Runners : thread[t].at = "samples" => samples = {}

ExecutionInv == ExecutionTypes /\ RegistryHolds /\ RunningIsServed /\ AloneIsClean

LEMMA NoRunnerIsNone == "none" \notin Runners
BY SupervisorBounds DEF S!SupervisorAssumption

LEMMA ExecutionStarts == S!Init => ExecutionInv
<1> SUFFICES ASSUME S!Init PROVE ExecutionInv
  OBVIOUS
<1>1. /\ disk \in [Experiments -> Artifacts] /\ DOMAIN status = Experiments
      /\ \A e \in Experiments : status[e] # "RUNNING"
      /\ \A a, b \in samples : a = b
      /\ request = [h \in Handlers |-> S!Idle] /\ thread = [t \in Runners |-> S!Free]
      /\ registry = [e \in Experiments |-> "none"]
  BY DEF S!Init, S!Finished, Artifacts
<1>2. S!Idle \in RequestOf /\ S!Free \in ThreadType /\ S!Idle.op = "none" /\ S!Free.at = "none"
  BY DEF S!Idle, S!Free, RequestOf, ThreadType, RequestSteps, RunnerPlaces, Results, Artifacts
<1>3. ExecutionTypes
  BY <1>1, <1>2 DEF ExecutionTypes, S!Alive
<1>4. RegistryHolds /\ RunningIsServed /\ AloneIsClean
  BY <1>1, <1>2 DEF RegistryHolds, RunningIsServed, AloneIsClean, S!Alive, S!Executing
<1>5. QED
  BY <1>3, <1>4 DEF ExecutionInv

\* A request takes a step and leaves the executions alone.
LEMMA ServingStep ==
    ASSUME ExecutionInv, NEW h \in Handlers, NEW r \in RequestOf,
           request[h].op # "register", request' = [request EXCEPT ![h] = r],
           r.op # "none" => r.on \in Experiments,
           UNCHANGED <<thread, registry, samples, overlapped, met, lost>>,
           disk' \in [Experiments -> Artifacts], DOMAIN status' = Experiments,
           \A e \in Experiments : status'[e] = "RUNNING" =>
               status[e] = "RUNNING" \/ (r.op = "register" /\ r.on = e)
    PROVE  ExecutionInv'
<1>1. /\ request' \in [Handlers -> RequestOf] /\ request'[h] = r
      /\ \A g \in Handlers : g # h => request'[g] = request[g]
  BY DEF ExecutionInv, ExecutionTypes
<1>2. ExecutionTypes'
  BY <1>1 DEF ExecutionInv, ExecutionTypes, S!Alive
<1>3. RegistryHolds' /\ AloneIsClean'
  BY DEF ExecutionInv, RegistryHolds, AloneIsClean, S!Alive, S!Executing
<1>4. RunningIsServed'
  <2>1. SUFFICES ASSUME NEW e \in Experiments, status'[e] = "RUNNING"
                 PROVE  \/ (S!IsRunning(e) /\ thread[registry[e]].at # "close")'
                        \/ S!Starting(e)'
                        \/ e \in met' \cup lost'
    BY DEF RunningIsServed
  <2>2. CASE r.op = "register" /\ r.on = e
    BY <1>1, <2>2 DEF S!Starting, S!On, S!At
  <2>3. CASE status[e] = "RUNNING" /\ S!Starting(e)
    <3>1. PICK g \in Handlers : request[g].on = e /\ request[g].op = "register"
      BY <2>3 DEF S!Starting, S!On, S!At
    <3>2. request'[g] = request[g]
      BY <1>1, <3>1
    <3>3. QED
      BY <3>1, <3>2 DEF S!Starting, S!On, S!At
  <2>4. CASE status[e] = "RUNNING" /\ ~S!Starting(e)
    BY <2>4 DEF ExecutionInv, RunningIsServed, S!IsRunning, S!Alive
  <2>5. QED
    BY <2>1, <2>2, <2>3, <2>4
<1>5. QED
  BY <1>2, <1>3, <1>4 DEF ExecutionInv

\* A thread takes a step, and leaves the requests alone.
LEMMA ExecutingStep ==
    ASSUME ExecutionInv, NEW t \in Runners, NEW x \in ThreadType,
           S!Alive(t), thread' = [thread EXCEPT ![t] = x], x.on = thread[t].on, x.at # "none",
           UNCHANGED <<request, registry, overlapped, met, lost>>,
           disk' \in [Experiments -> Artifacts], DOMAIN status' = Experiments,
           \A e \in Experiments : status'[e] = "RUNNING" => status[e] = "RUNNING",
           x.at = "close" => status'[x.on] # "RUNNING",
           x.at = "ended" => thread[t].at = "close",
           \/ samples' = samples
           \/ samples' = {}
           \/ thread[t].at = "samples" /\ samples' = samples \cup {x.on},
           x.at = "samples" => samples' = {}
    PROVE  ExecutionInv'
<1>1. /\ thread' \in [Runners -> ThreadType] /\ thread'[t] = x
      /\ \A u \in Runners : u # t => thread'[u] = thread[u]
  BY DEF ExecutionInv, ExecutionTypes
<1>2. \A u \in Runners : S!Alive(u)' => S!Alive(u)
  BY <1>1 DEF S!Alive
<1>3. \A u \in Runners : thread'[u].on = thread[u].on
  BY <1>1
<1>4. ExecutionTypes'
  BY <1>1, <1>2, <1>3 DEF ExecutionInv, ExecutionTypes
<1>5. RegistryHolds'
  BY <1>2, <1>3 DEF ExecutionInv, RegistryHolds
<1>6. RunningIsServed'
  <2>1. SUFFICES ASSUME NEW e \in Experiments, status'[e] = "RUNNING",
                        S!IsRunning(e), thread[registry[e]].at # "close"
                 PROVE  (S!IsRunning(e) /\ thread[registry[e]].at # "close")'
    BY DEF ExecutionInv, RunningIsServed, S!Starting, S!On, S!At
  <2>2. registry[e] \in Runners /\ registry' = registry
    BY <2>1, NoRunnerIsNone DEF ExecutionInv, ExecutionTypes, S!IsRunning
  <2>3. CASE registry[e] # t
    BY <1>1, <2>1, <2>2, <2>3 DEF S!IsRunning, S!Alive
  <2>4. CASE registry[e] = t
    <3>1. thread[t].on = e
      BY <2>4, NoRunnerIsNone DEF ExecutionInv, RegistryHolds
    <3>2. x.at \notin {"none", "ended", "close"}
      BY <2>1, <2>4, <3>1
    <3>3. QED
      BY <1>1, <2>2, <2>4, <3>2, NoRunnerIsNone DEF S!IsRunning, S!Alive
  <2>5. QED
    BY <2>3, <2>4
<1>7. AloneIsClean'
  <2>1. SUFFICES ASSUME ~overlapped
                 PROVE  /\ \A u, v \in S!Executing' : u = v
                        /\ \A a, b \in samples' : a = b
                        /\ \A u \in Runners : thread'[u].at = "samples" => samples' = {}
    BY DEF AloneIsClean
  <2>2. /\ \A u, v \in S!Executing : u = v
        /\ \A a, b \in samples : a = b
        /\ thread[t].at = "samples" => samples = {}
    BY <2>1 DEF ExecutionInv, AloneIsClean
  <2>3. \A u \in Runners : S!Alive(u) => u = t
    BY <2>2 DEF S!Executing
  <2>4. \A u, v \in S!Executing' : u = v
    BY <1>2, <2>3 DEF S!Executing
  <2>5. \A a, b \in samples' : a = b
    BY <2>2
  <2>6. ASSUME NEW u \in Runners, thread'[u].at = "samples" PROVE samples' = {}
    <3>1. S!Alive(u)'
      BY <2>6 DEF S!Alive
    <3>2. u = t
      BY <1>2, <2>3, <3>1
    <3>3. QED
      BY <1>1, <2>6, <3>2
  <2>7. QED
    BY <2>4, <2>5, <2>6
<1>8. QED
  BY <1>4, <1>5, <1>6, <1>7 DEF ExecutionInv

-----------------------------------------------------------------------------
(* The requests.                                                           *)

LEMMA Serving ==
    ASSUME ExecutionInv, NEW h \in Handlers, request[h].op # "none"
    PROVE  /\ request[h].on \in Experiments /\ request[h].op \in RequestSteps
           /\ request[h].verdict \in Artifacts
           /\ \A op \in RequestSteps : [request[h] EXCEPT !.op = op] \in RequestOf
           /\ S!Idle \in RequestOf
BY DEF ExecutionInv, ExecutionTypes, RequestOf, S!Idle, RequestSteps, Artifacts

LEMMA ServeStep ==
    ASSUME ExecutionInv, NEW h \in Handlers, NEW e \in Experiments,
           NEW op \in RequestSteps \ {"none", "register"}, S!Serve(h, op, e),
           UNCHANGED <<thread, registry, samples, overlapped, met, lost, disk, status>>
    PROVE  ExecutionInv'
<1> DEFINE r == [op |-> op, on |-> e, verdict |-> "none"]
<1>1. r \in RequestOf /\ r.op # "register" /\ r.on \in Experiments
  BY DEF RequestOf, Artifacts
<1>2. request' = [request EXCEPT ![h] = r] /\ request[h].op # "register"
  BY DEF S!Serve, S!Idle
<1>3. disk' \in [Experiments -> Artifacts] /\ DOMAIN status' = Experiments
  BY DEF ExecutionInv, ExecutionTypes
<1> HIDE DEF r
<1>4. QED
  BY <1>1, <1>2, <1>3, ServingStep

\* A step to the next place of a request, or to its answer.
LEMMA NextStep ==
    ASSUME ExecutionInv, NEW h \in Handlers, request[h].op \notin {"none", "register"},
           NEW op \in RequestSteps \ {"none"}, S!Step(h, op) \/ S!Answer(h),
           UNCHANGED <<thread, registry, samples, overlapped, met, lost>>,
           disk' \in [Experiments -> Artifacts], DOMAIN status' = Experiments,
           \A e \in Experiments : status'[e] = "RUNNING" =>
               status[e] = "RUNNING"
               \/ (S!Step(h, op) /\ op = "register" /\ request[h].on = e)
    PROVE  ExecutionInv'
<1>1. CASE S!Step(h, op)
  <2> DEFINE r == [request[h] EXCEPT !.op = op]
  <2>1. r \in RequestOf /\ r.op = op /\ r.on = request[h].on /\ r.on \in Experiments
    BY Serving DEF ExecutionInv, ExecutionTypes, RequestOf
  <2>2. request' = [request EXCEPT ![h] = r]
    BY <1>1 DEF S!Step
  <2> HIDE DEF r
  <2>3. QED
    BY <2>1, <2>2, ServingStep
<1>2. CASE S!Answer(h) /\ ~S!Step(h, op)
  <2>1. request' = [request EXCEPT ![h] = S!Idle] /\ S!Idle.op = "none"
    BY <1>2 DEF S!Answer, S!Idle
  <2>2. S!Idle \in RequestOf
    BY Serving
  <2>3. \A e \in Experiments : status'[e] = "RUNNING" => status[e] = "RUNNING"
    BY <1>2
  <2>4. QED
    BY <2>1, <2>2, <2>3, ServingStep
<1>3. QED
  BY <1>1, <1>2

LEMMA StatusSet ==
    ASSUME ExecutionInv, NEW e \in Experiments, NEW s, S!SetStatus(e, s)
    PROVE  /\ DOMAIN status' = Experiments /\ status'[e] = s
           /\ \A f \in Experiments : f # e => status'[f] = status[f]
BY DEF ExecutionInv, ExecutionTypes, S!SetStatus

LEMMA RowsTyped ==
    ASSUME ExecutionInv
    PROVE  disk \in [Experiments -> Artifacts] /\ DOMAIN status = Experiments
BY DEF ExecutionInv, ExecutionTypes

LEMMA WriteManifestStep ==
    ASSUME ExecutionInv, NEW h \in Handlers, S!WriteManifest(h)
    PROVE  ExecutionInv'
<1>1. request[h].op \notin {"none", "register"} /\ (S!Step(h, "insert") \/ S!Answer(h))
      /\ UNCHANGED <<thread, registry, samples, overlapped, met, lost, status>>
  BY DEF S!WriteManifest, S!At, S!Execution, S!history
<1>2. disk' \in [Experiments -> Artifacts]
  BY <1>1, Serving DEF S!WriteManifest, S!On, ExecutionInv, ExecutionTypes, Artifacts
<1>3. QED
  BY <1>1, <1>2, RowsTyped, NextStep DEF RequestSteps

LEMMA SettleStep ==
    ASSUME ExecutionInv, NEW h \in Handlers, S!Insert(h) \/ S!MarkCancelled(h) \/ S!HealStatus(h)
    PROVE  ExecutionInv'
<1>1. /\ request[h].op \in {"insert", "cancel", "healed"} /\ S!Answer(h)
      /\ UNCHANGED <<thread, registry, samples, overlapped, met, lost, disk>>
  BY DEF S!Insert, S!MarkCancelled, S!HealStatus, S!At, S!Execution, S!history
<1>2. PICK s : S!SetStatus(request[h].on, s) /\ s # "RUNNING"
  BY <1>1, Serving DEF S!Insert, S!MarkCancelled, S!HealStatus, S!On, Artifacts
<1>3. request[h].on \in Experiments
  BY <1>1, Serving
<1>4. /\ DOMAIN status' = Experiments
      /\ \A e \in Experiments : status'[e] = "RUNNING" => status[e] = "RUNNING"
  BY <1>2, <1>3, StatusSet
<1>5. QED
  BY <1>1, <1>4, RowsTyped, NextStep DEF RequestSteps

LEMMA MarkRunningStep ==
    ASSUME ExecutionInv, NEW h \in Handlers, S!MarkRunning(h)
    PROVE  ExecutionInv'
<1>1. /\ request[h].op = "mark" /\ S!Step(h, "register") /\ S!SetStatus(request[h].on, "RUNNING")
      /\ UNCHANGED <<thread, registry, samples, overlapped, met, lost, disk>>
  BY DEF S!MarkRunning, S!At, S!On, S!Execution, S!history
<1>2. request[h].on \in Experiments
  BY <1>1, Serving
<1>3. /\ DOMAIN status' = Experiments
      /\ \A e \in Experiments : e # request[h].on => status'[e] = status[e]
  BY <1>1, <1>2, StatusSet
<1>4. QED
  BY <1>1, <1>3, RowsTyped, NextStep DEF RequestSteps

LEMMA SetEventStep ==
    ASSUME ExecutionInv, NEW h \in Handlers, S!SetEvent(h)
    PROVE  ExecutionInv'
<1>1. /\ request[h].op = "event" /\ S!Step(h, "cancel")
      /\ UNCHANGED <<thread, registry, samples, overlapped, met, lost, disk, status>>
  BY DEF S!SetEvent, S!At, S!rows, S!history
<1>2. QED
  BY <1>1, RowsTyped, NextStep DEF RequestSteps

LEMMA HealStep ==
    ASSUME ExecutionInv, NEW h \in Handlers, S!Heal(h)
    PROVE  ExecutionInv'
<1>1. /\ request[h].op = "heal"
      /\ UNCHANGED <<thread, registry, samples, overlapped, met, lost, disk, status>>
  BY DEF S!Heal, S!At, S!Execution, S!history
<1>2. request[h].on \in Experiments /\ request[h] \in RequestOf
  BY <1>1, Serving DEF ExecutionInv, ExecutionTypes
<1> DEFINE v == IF disk[request[h].on] = "manifest" THEN "COMPLETED" ELSE disk[request[h].on]
           r == [request[h] EXCEPT !.op = "healed", !.verdict = v]
<1>3. v \in Artifacts
  BY <1>2, RowsTyped DEF Artifacts
<1>4. r \in RequestOf /\ r.op = "healed" /\ r.on = request[h].on
  BY <1>2, <1>3 DEF RequestOf, RequestSteps
<1>5. request' = [request EXCEPT ![h] = r]
  BY DEF S!Heal, S!On
<1> HIDE DEF r
<1>6. QED
  BY <1>1, <1>2, <1>4, <1>5, RowsTyped, ServingStep

\* The thread is started under the lock, unless the experiment has one.
LEMMA RegisterStep ==
    ASSUME ExecutionInv, NEW h \in Handlers, S!Register(h)
    PROVE  ExecutionInv'
<1> DEFINE e == request[h].on
<1>1. /\ request[h].op = "register" /\ request' = [request EXCEPT ![h] = S!Idle]
      /\ UNCHANGED <<disk, samples, status, lost>>
  BY DEF S!Register, S!At, S!Answer, S!rows
<1>2. e \in Experiments /\ S!Idle \in RequestOf /\ S!Idle.op = "none"
  BY <1>1, Serving DEF S!Idle
<1>3. /\ request' \in [Handlers -> RequestOf] /\ request'[h].op = "none"
      /\ \A g \in Handlers : g # h => request'[g] = request[g]
  BY <1>1, <1>2 DEF ExecutionInv, ExecutionTypes
<1>4. \A f \in Experiments : f # e /\ S!Starting(f) => S!Starting(f)'
  BY <1>1, <1>3 DEF S!Starting, S!On, S!At
<1>5. CASE S!IsRunning(e)
  <2>1. /\ UNCHANGED <<thread, registry, overlapped>> /\ met \subseteq met'
        /\ thread[registry[e]].at = "close" => e \in met'
    BY <1>5 DEF S!Register, S!On
  <2>2. ExecutionTypes'
    BY <1>1, <1>3, <2>1 DEF ExecutionInv, ExecutionTypes, S!Alive
  <2>3. RegistryHolds' /\ AloneIsClean'
    BY <1>1, <2>1 DEF ExecutionInv, RegistryHolds, AloneIsClean, S!Alive, S!Executing
  <2>4. RunningIsServed'
    BY <1>1, <1>4, <1>5, <2>1 DEF ExecutionInv, RunningIsServed, S!IsRunning, S!Alive
  <2>5. QED
    BY <2>2, <2>3, <2>4 DEF ExecutionInv
<1>6. CASE ~S!IsRunning(e)
  <2>1. PICK t \in Runners : S!Launch(t, e) /\ met' = met
    BY <1>6 DEF S!Register, S!On
  <2> DEFINE x == [S!Free EXCEPT !.at = "execute", !.on = e]
  <2>2. x \in ThreadType /\ x.at = "execute" /\ x.on = e
    BY <1>2 DEF S!Free, ThreadType, RunnerPlaces, Results
  <2>3. /\ thread[t].at = "none" /\ thread' = [thread EXCEPT ![t] = x]
        /\ registry' = [registry EXCEPT ![e] = t]
        /\ overlapped' = (overlapped \/ S!Executing # {})
    BY <2>1 DEF S!Launch, S!Free
  <2> HIDE DEF x
  <2>4. /\ thread' \in [Runners -> ThreadType] /\ thread'[t] = x
        /\ \A u \in Runners : u # t => thread'[u] = thread[u]
        /\ registry' \in [Experiments -> Runners \cup {"none"}] /\ registry'[e] = t
        /\ \A f \in Experiments : f # e => registry'[f] = registry[f]
    BY <1>2, <2>2, <2>3 DEF ExecutionInv, ExecutionTypes
  <2>5. \A u \in Runners : u # t => (S!Alive(u)' <=> S!Alive(u))
    BY <2>4 DEF S!Alive
  <2>6. ExecutionTypes'
    <3>1. \A u \in Runners : S!Alive(u)' => thread'[u].on \in Experiments
      BY <1>2, <2>2, <2>4, <2>5 DEF ExecutionInv, ExecutionTypes
    <3>2. \A g \in Handlers : request'[g].op # "none" => request'[g].on \in Experiments
      BY <1>3 DEF ExecutionInv, ExecutionTypes
    <3>3. QED
      BY <1>1, <1>3, <2>4, <3>1, <3>2 DEF ExecutionInv, ExecutionTypes
  <2>7. RegistryHolds'
    <3>1. ASSUME NEW u \in Runners, S!Alive(u)' PROVE registry'[thread'[u].on] = u
      <4>1. CASE u = t
        BY <2>2, <2>4, <4>1
      <4>2. CASE u # t
        <5>1. S!Alive(u) /\ thread'[u].on = thread[u].on /\ registry[thread[u].on] = u
          BY <2>4, <2>5, <3>1, <4>2 DEF ExecutionInv, RegistryHolds
        <5>2. thread[u].on \in Experiments
          BY <5>1 DEF ExecutionInv, ExecutionTypes
        <5>3. thread[u].on # e
          BY <1>6, <5>1, NoRunnerIsNone DEF S!IsRunning
        <5>4. QED
          BY <2>4, <5>1, <5>2, <5>3
      <4>3. QED
        BY <4>1, <4>2
    <3>2. ASSUME NEW f \in Experiments, registry'[f] # "none"
          PROVE  thread'[registry'[f]].at # "none" /\ thread'[registry'[f]].on = f
      <4>1. CASE f = e
        BY <2>2, <2>4, <4>1
      <4>2. CASE f # e
        <5>1. /\ registry'[f] = registry[f] /\ registry[f] \in Runners
              /\ thread[registry[f]].at # "none" /\ thread[registry[f]].on = f
          BY <2>4, <3>2, <4>2 DEF ExecutionInv, ExecutionTypes, RegistryHolds
        <5>2. registry[f] # t
          BY <2>3, <5>1
        <5>3. QED
          BY <2>4, <5>1, <5>2
      <4>3. QED
        BY <4>1, <4>2
    <3>3. QED
      BY <3>1, <3>2 DEF RegistryHolds
  <2>8. RunningIsServed'
    <3>1. SUFFICES ASSUME NEW f \in Experiments, status[f] = "RUNNING"
                   PROVE  \/ (S!IsRunning(f) /\ thread[registry[f]].at # "close")'
                          \/ S!Starting(f)'
                          \/ f \in met' \cup lost'
      BY <1>1 DEF RunningIsServed
    <3>2. CASE f = e
      BY <2>2, <2>4, <3>2, NoRunnerIsNone DEF S!IsRunning, S!Alive
    <3>3. CASE f # e /\ S!IsRunning(f) /\ thread[registry[f]].at # "close"
      <4>1. registry'[f] = registry[f] /\ registry[f] \in Runners /\ thread[registry[f]].at # "none"
        BY <2>4, <3>3 DEF ExecutionInv, ExecutionTypes, S!IsRunning, S!Alive
      <4>2. registry[f] # t
        BY <2>3, <4>1
      <4>3. QED
        BY <2>4, <3>3, <4>1, <4>2 DEF S!IsRunning, S!Alive
    <3>4. CASE f # e /\ (S!Starting(f) \/ f \in met \cup lost)
      BY <1>1, <1>4, <2>1, <3>4
    <3>5. QED
      BY <3>1, <3>2, <3>3, <3>4 DEF ExecutionInv, RunningIsServed
  <2>9. AloneIsClean'
    <3>1. SUFFICES ASSUME ~overlapped, S!Executing = {}
                   PROVE  /\ \A u, v \in S!Executing' : u = v
                          /\ \A a, b \in samples : a = b
                          /\ \A u \in Runners : thread'[u].at = "samples" => samples = {}
      BY <1>1, <2>3 DEF AloneIsClean
    <3>2. \A u \in Runners : S!Alive(u)' => u = t
      BY <2>5, <3>1 DEF S!Executing
    <3>3. \A u \in Runners : thread'[u].at = "samples" => u = t
      BY <3>2 DEF S!Alive
    <3>4. QED
      BY <2>2, <2>4, <3>1, <3>2, <3>3 DEF ExecutionInv, AloneIsClean, S!Executing
  <2>10. QED
    BY <2>6, <2>7, <2>8, <2>9 DEF ExecutionInv
<1>7. QED
  BY <1>5, <1>6

-----------------------------------------------------------------------------
(* The threads, and the start of the control plane.                        *)

LEMMA Executing ==
    ASSUME ExecutionInv, NEW t \in Runners, S!Alive(t)
    PROVE  /\ thread[t].on \in Experiments /\ thread[t].result \in Results
           /\ \A place \in RunnerPlaces, res \in Results :
                 [thread[t] EXCEPT !.at = place, !.result = res] \in ThreadType
BY DEF ExecutionInv, ExecutionTypes, ThreadType

\* Where a thread goes, with which result.
LEMMA GoesOn ==
    ASSUME ExecutionInv, NEW t \in Runners, S!Alive(t),
           NEW place \in RunnerPlaces \ {"none"}, NEW res \in Results,
           thread' = [thread EXCEPT ![t] = [thread[t] EXCEPT !.at = place, !.result = res]],
           S!Others' = S!Others,
           disk' \in [Experiments -> Artifacts], DOMAIN status' = Experiments,
           \A e \in Experiments : status'[e] = "RUNNING" => status[e] = "RUNNING",
           place = "close" => status'[thread[t].on] # "RUNNING",
           place = "ended" => thread[t].at = "close",
           \/ samples' = samples
           \/ samples' = {}
           \/ thread[t].at = "samples" /\ samples' = samples \cup {thread[t].on},
           place = "samples" => samples' = {}
    PROVE  ExecutionInv'
<1> DEFINE x == [thread[t] EXCEPT !.at = place, !.result = res]
<1>1. x \in ThreadType /\ x.at = place /\ x.on = thread[t].on
  BY Executing DEF ExecutionInv, ExecutionTypes, ThreadType
<1>2. thread' = [thread EXCEPT ![t] = x]
  OBVIOUS
<1>3. UNCHANGED <<request, registry, overlapped, met, lost>>
  BY DEF S!Others, S!history
<1> HIDE DEF x
<1>4. QED
  BY <1>1, <1>2, <1>3, ExecutingStep

\* A step that changes only the place of a thread.
LEMMA ToIsGoing ==
    ASSUME ExecutionInv, NEW t \in Runners, S!Alive(t), NEW place, S!To(t, place)
    PROVE  /\ thread[t].result \in Results
           /\ thread' = [thread EXCEPT ![t] = [thread[t] EXCEPT !.at = place,
                                                               !.result = thread[t].result]]
<1>1. thread[t] \in ThreadType
  BY DEF ExecutionInv, ExecutionTypes
<1>2. [thread[t] EXCEPT !.at = place, !.result = thread[t].result] = [thread[t] EXCEPT !.at = place]
  BY <1>1 DEF ThreadType
<1>3. QED
  BY <1>1, <1>2 DEF S!To, ThreadType

LEMMA ExecuteStep ==
    ASSUME ExecutionInv, NEW t \in Runners, S!Execute(t)
    PROVE  ExecutionInv'
<1>1. thread[t].at = "execute" /\ S!Alive(t) /\ UNCHANGED <<status, samples>> /\ S!Others' = S!Others
  BY DEF S!Execute, S!Alive, S!Others
<1>2. PICK res \in {"COMPLETED", "FAILED"} :
         /\ disk' = [disk EXCEPT ![thread[t].on] = res]
         /\ thread' = [thread EXCEPT ![t].at = "experiment", ![t].result = res]
  BY DEF S!Execute, S!Mine, S!Finished
<1>3. thread' = [thread EXCEPT ![t] = [thread[t] EXCEPT !.at = "experiment", !.result = res]]
  BY <1>2
<1>4. disk' \in [Experiments -> Artifacts]
  BY <1>1, <1>2, RowsTyped, Executing DEF Artifacts
<1>5. /\ "experiment" \in RunnerPlaces \ {"none"} /\ res \in Results
      /\ DOMAIN status' = Experiments
      /\ \A e \in Experiments : status'[e] = "RUNNING" => status[e] = "RUNNING"
  BY <1>1, RowsTyped DEF RunnerPlaces, Results
<1>6. QED
  BY <1>1, <1>3, <1>4, <1>5, GoesOn

LEMMA SaveStep ==
    ASSUME ExecutionInv, NEW t \in Runners,
           S!SaveExperiment(t) \/ S!Final(t)
    PROVE  ExecutionInv'
<1>1. PICK place \in {"run", "close"} :
         /\ S!Alive(t) /\ thread[t].at # "samples" /\ S!To(t, place)
         /\ S!SetStatus(thread[t].on, thread[t].result)
         /\ UNCHANGED <<disk, samples>> /\ S!Others' = S!Others
  BY DEF S!SaveExperiment, S!Final, S!Alive, S!Others, S!Mine
<1>2. thread[t].on \in Experiments /\ thread[t].result # "RUNNING"
  BY <1>1, Executing DEF Results
<1>3. /\ DOMAIN status' = Experiments /\ status'[thread[t].on] # "RUNNING"
      /\ \A e \in Experiments : status'[e] = "RUNNING" => status[e] = "RUNNING"
  BY <1>1, <1>2, StatusSet
<1>4. place \in RunnerPlaces \ {"none"} /\ place \notin {"ended", "samples"}
  BY DEF RunnerPlaces
<1>5. thread[t].result \in Results
      /\ thread' = [thread EXCEPT ![t] = [thread[t] EXCEPT !.at = place, !.result = thread[t].result]]
  BY <1>1, ToIsGoing
<1>6. QED
  BY <1>1, <1>3, <1>4, <1>5, RowsTyped, GoesOn

LEMMA SaveRunStep ==
    ASSUME ExecutionInv, NEW t \in Runners,
           S!SaveRun(t) \/ S!SaveSamples(t) \/ S!SaveComparison(t) \/ S!Close(t)
    PROVE  ExecutionInv'
<1>1. PICK place \in {"samples", "comparison", "look", "ended"} :
         /\ S!Alive(t) /\ S!To(t, place)
         /\ place = "ended" => thread[t].at = "close"
         /\ place = "samples" => samples' = {}
         /\ \/ samples' = samples
            \/ samples' = {}
            \/ thread[t].at = "samples" /\ samples' = samples \cup {thread[t].on}
         /\ UNCHANGED <<disk, status>> /\ S!Others' = S!Others
  BY DEF S!SaveRun, S!SaveSamples, S!SaveComparison, S!Close, S!Alive, S!Others, S!Mine, S!rows
<1>2. place \in RunnerPlaces \ {"none"} /\ place # "close"
  BY DEF RunnerPlaces
<1>3. thread[t].result \in Results
      /\ thread' = [thread EXCEPT ![t] = [thread[t] EXCEPT !.at = place, !.result = thread[t].result]]
  BY <1>1, ToIsGoing
<1>4. QED
  BY <1>1, <1>2, <1>3, RowsTyped, GoesOn

LEMMA BreakStep ==
    ASSUME ExecutionInv, NEW t \in Runners, S!Break(t) \/ S!Look(t)
    PROVE  ExecutionInv'
<1>1. S!Alive(t) /\ UNCHANGED <<disk, status, samples>> /\ S!Others' = S!Others
  BY DEF S!Break, S!Look, S!Alive, S!Others, S!rows
<1>2. thread[t].result \in Results
  BY <1>1, Executing
<1>3. PICK place \in {"look", "final"}, res \in Results :
         thread' = [thread EXCEPT ![t] = [thread[t] EXCEPT !.at = place, !.result = res]]
  <2>1. CASE S!Break(t)
    BY <2>1 DEF S!Break, Results
  <2>2. CASE S!Look(t)
    <3>1. CASE t \in cancelled
      BY <2>2, <3>1 DEF S!Look, Results
    <3>2. CASE t \notin cancelled
      BY <1>2, <2>2, <3>2, ZenonT(60) DEF S!Look
    <3>3. QED
      BY <3>1, <3>2
  <2>3. QED
    BY <2>1, <2>2
<1>4. QED
  BY <1>1, <1>3, RowsTyped, GoesOn DEF RunnerPlaces

\* The control plane starts: no thread lives, and what was running is lost.
LEMMA BootStep ==
    ASSUME ExecutionInv, S!Boot
    PROVE  ExecutionInv'
<1>1. /\ request' = [h \in Handlers |-> S!Idle] /\ registry' = [e \in Experiments |-> "none"]
      /\ thread' = [t \in Runners |-> IF S!Alive(t) THEN [S!Free EXCEPT !.at = "ended"] ELSE thread[t]]
      /\ lost' = lost \cup {e \in Experiments : status[e] = "RUNNING"}
      /\ disk' = disk /\ overlapped' = overlapped /\ met' = met
      /\ samples' = samples \/ samples' = {}
  BY DEF S!Boot, S!Import
<1>2. /\ DOMAIN status' = Experiments
      /\ \A e \in Experiments : status'[e] = "RUNNING" => status[e] = "RUNNING"
  BY RowsTyped DEF S!Boot, S!Import, S!Adopted, Artifacts
<1>3. S!Idle \in RequestOf /\ S!Idle.op = "none"
  BY DEF S!Idle, RequestOf, RequestSteps, Artifacts
<1>4. [S!Free EXCEPT !.at = "ended"] \in ThreadType /\ [S!Free EXCEPT !.at = "ended"].at = "ended"
  BY DEF S!Free, ThreadType, RunnerPlaces, Results
<1>5. thread' \in [Runners -> ThreadType] /\ \A t \in Runners : ~S!Alive(t)'
  BY <1>1, <1>4 DEF ExecutionInv, ExecutionTypes, S!Alive
<1>6. ExecutionTypes'
  BY <1>1, <1>2, <1>3, <1>5, RowsTyped DEF ExecutionTypes
<1>7. RegistryHolds' /\ RunningIsServed'
  BY <1>1, <1>2, <1>5 DEF RegistryHolds, RunningIsServed
<1>8. AloneIsClean'
  <2>1. S!Executing' = {} /\ \A t \in Runners : thread'[t].at # "samples"
    BY <1>5 DEF S!Executing, S!Alive
  <2>2. QED
    BY <1>1, <2>1 DEF ExecutionInv, AloneIsClean
<1>9. QED
  BY <1>6, <1>7, <1>8 DEF ExecutionInv

LEMMA RequestKeeps ==
    ASSUME ExecutionInv, NEW h \in Handlers, S!Request(h)
    PROVE  ExecutionInv'
<1>1. ASSUME NEW e \in Experiments,
             S!Create(h, e) \/ S!Start(h, e) \/ S!Cancel(h, e) \/ S!Compare(h, e)
      PROVE  ExecutionInv'
  <2>1. PICK op \in RequestSteps \ {"none", "register"} : S!Serve(h, op, e)
    BY <1>1 DEF S!Create, S!Start, S!Cancel, S!Compare, RequestSteps
  <2>2. UNCHANGED <<thread, registry, samples, overlapped, met, lost, disk, status>>
    BY <1>1 DEF S!Create, S!Start, S!Cancel, S!Compare, S!rows, S!Execution, S!history
  <2>3. QED
    BY <2>1, <2>2, ServeStep
<1>2. QED
  BY <1>1, WriteManifestStep, SettleStep, MarkRunningStep, RegisterStep, SetEventStep, HealStep
     DEF S!Request

LEMMA ExecutionKeeps == ExecutionInv /\ [S!Next]_(S!vars) => ExecutionInv'
<1> SUFFICES ASSUME ExecutionInv, [S!Next]_(S!vars) PROVE ExecutionInv'
  OBVIOUS
<1>1. ASSUME NEW t \in Runners, S!Run(t) PROVE ExecutionInv'
  BY <1>1, ExecuteStep, SaveStep, SaveRunStep, BreakStep DEF S!Run
<1>2. CASE UNCHANGED S!vars
  BY <1>2 DEF S!vars, ExecutionInv, ExecutionTypes, RegistryHolds, RunningIsServed, AloneIsClean,
     S!Alive, S!IsRunning, S!Starting, S!On, S!At, S!Executing
<1>3. QED
  BY <1>1, <1>2, RequestKeeps, BootStep DEF S!Next

LEMMA ExecutionIsTracked == ExecutionInv => S!ExecutionsAreTracked
<1> SUFFICES ASSUME ExecutionInv PROVE S!ExecutionsAreTracked
  OBVIOUS
<1>1. S!OneExecution
  BY DEF ExecutionInv, RegistryHolds, S!OneExecution, S!Executing, S!Mine
<1>2. S!RunningIsExecuted
  BY DEF ExecutionInv, RunningIsServed, S!RunningIsExecuted
<1>3. S!MixtureNeedsOverlap
  <2>1. SUFFICES ASSUME ~overlapped PROVE ~(Cardinality(samples) > 1)
    BY SameSize DEF S!MixtureNeedsOverlap
  <2>2. \A a, b \in samples : a = b
    BY <2>1 DEF ExecutionInv, AloneIsClean
  <2>3. samples = {} \/ \E a : samples = {a}
    BY <2>2
  <2>4. Cardinality({}) = 0 /\ \A a : Cardinality({a}) = 1
    BY FS_EmptySet, FS_Singleton
  <2>5. QED
    BY <2>3, <2>4
<1>4. QED
  BY <1>1, <1>2, <1>3 DEF S!ExecutionsAreTracked

\* However requests, executions and restarts of the control plane interleave, no
\* experiment has two executions at once, one that is said to be RUNNING has its
\* thread, and samples mix only where executions overlapped
\* (benchmark_service.py, benchmark/persistence.py).
THEOREM ExecutionsStayTracked == S!Spec => []ExecutionsAreTracked
<1>1. ExecutionInv => ExecutionsAreTracked
  BY ExecutionIsTracked DEF ExecutionsAreTracked
<1>2. QED
  BY <1>1, ExecutionStarts, ExecutionKeeps, PTL DEF S!Spec

-----------------------------------------------------------------------------
(* Phases (benchmark/executor.py, _run_phase).                             *)

WorkerPlaces == {"loop", "start", "preamble", "journey", "count", "collect", "judge", "done"}

PhaseTypes ==
    /\ at \in [Users -> WorkerPlaces]
    /\ errors \in Nat /\ complete \in Nat /\ cuts \in Nat /\ whole \in Nat
    /\ before \in [Users -> Nat]
    /\ got \in [Users -> [errors : 0..JourneySteps, io : BOOLEAN]]

\* The workers whose pass has given its errors, and those whose pass will be
\* called complete if nobody is cut before they count.
Given == {u \in Users : at[u] \in {"judge", "done"}}
Promising == {u \in Users : at[u] = "count" /\ before[u] = cuts}

PhaseInv ==
    /\ PhaseTypes
    /\ errors < ErrorCap + JourneySteps * Cardinality(Given)
    /\ \A u \in Users : before[u] <= cuts
    /\ complete + Cardinality(Promising) <= whole
    /\ cuts = 0 => complete + Cardinality(Promising) = whole

LEMMA OneMore ==
    ASSUME NEW Group, IsFiniteSet(Group), NEW u
    PROVE  /\ Cardinality(Group) \in Nat
           /\ u \notin Group => Cardinality(Group \cup {u}) = Cardinality(Group) + 1
           /\ u \in Group => Cardinality(Group \ {u}) = Cardinality(Group) - 1
BY FS_CardinalityType, FS_AddElement, FS_RemoveElement

LEMMA Times ==
    ASSUME NEW c \in Nat, NEW m \in Nat, NEW n \in Nat
    PROVE  /\ c * m \in Nat /\ c * (m + 1) = c * m + c
           /\ m <= n => c * m <= c * n /\ c * m <= n * c
OBVIOUS

LEMMA UsersAreFinite == IsFiniteSet(Users) /\ \A Group \in SUBSET Users : IsFiniteSet(Group)
<1>1. IsFiniteSet(Users)
  BY PhaseBounds DEF P!PhaseAssumption, P!IsFiniteSet, IsFiniteSet
<1>2. QED
  BY <1>1, FS_Subset

LEMMA CountsTyped ==
    ASSUME PhaseInv
    PROVE  /\ IsFiniteSet(Given) /\ IsFiniteSet(Promising)
           /\ Cardinality(Given) \in Nat /\ Cardinality(Promising) \in Nat
           /\ ErrorCap \in Nat \ {0} /\ JourneySteps \in Nat \ {0}
<1>1. IsFiniteSet(Given) /\ IsFiniteSet(Promising)
  BY UsersAreFinite DEF Given, Promising
<1>2. QED
  BY <1>1, FS_CardinalityType, PhaseBounds DEF P!PhaseAssumption

LEMMA PhaseStarts == P!Init => PhaseInv
<1> SUFFICES ASSUME P!Init PROVE PhaseInv
  OBVIOUS
<1>1. PhaseTypes
  <2>1. at \in [Users -> WorkerPlaces] /\ before \in [Users -> Nat]
    BY DEF P!Init, WorkerPlaces
  <2>2. 0 \in 0..JourneySteps
    BY PhaseBounds DEF P!PhaseAssumption
  <2>3. got \in [Users -> [errors : 0..JourneySteps, io : BOOLEAN]]
    BY <2>2 DEF P!Init, P!Nothing
  <2>4. QED
    BY <2>1, <2>3 DEF P!Init, PhaseTypes
<1>2. Given = {} /\ Promising = {}
  BY DEF P!Init, Given, Promising
<1>3. Cardinality(Given) = 0 /\ Cardinality(Promising) = 0 /\ ErrorCap \in Nat \ {0} /\ JourneySteps * 0 = 0
  BY <1>2, FS_EmptySet, PhaseBounds DEF P!PhaseAssumption
<1>4. errors = 0 /\ complete = 0 /\ cuts = 0 /\ whole = 0 /\ \A u \in Users : before[u] = 0
  BY DEF P!Init
<1>5. QED
  BY <1>1, <1>3, <1>4 DEF PhaseInv

\* A worker goes on without a pass to count, nor errors to give.
LEMMA WalkStep ==
    ASSUME PhaseInv, NEW u \in Users, NEW spot \in WorkerPlaces,
           at[u] \notin {"judge", "done", "count"}, spot # "count",
           at' = [at EXCEPT ![u] = spot],
           \/ before' = before
           \/ before' = [before EXCEPT ![u] = cuts],
           got' \in [Users -> [errors : 0..JourneySteps, io : BOOLEAN]],
           UNCHANGED <<errors, complete, cuts, whole>>
    PROVE  PhaseInv'
<1>1. /\ at'[u] = spot
      /\ \A v \in Users : v # u => at'[v] = at[v] /\ before'[v] = before[v]
      /\ before'[u] <= cuts
  BY DEF PhaseInv, PhaseTypes
<1>2. PhaseTypes'
  BY DEF PhaseInv, PhaseTypes
<1>3. Promising' = Promising
  BY <1>1 DEF Promising
<1>4. Given' = Given \/ (u \notin Given /\ Given' = Given \cup {u})
  BY <1>1 DEF Given
<1>5. Cardinality(Given') \in Nat /\ Cardinality(Given) <= Cardinality(Given')
  BY <1>4, CountsTyped, OneMore
<1>6. errors' < ErrorCap + JourneySteps * Cardinality(Given')
  <2>1. /\ JourneySteps * Cardinality(Given) <= JourneySteps * Cardinality(Given')
        /\ JourneySteps * Cardinality(Given) \in Nat /\ JourneySteps * Cardinality(Given') \in Nat
    BY <1>5, CountsTyped, Times
  <2>2. QED
    BY <2>1, CountsTyped DEF PhaseInv, PhaseTypes
<1>7. \A v \in Users : before'[v] <= cuts'
  BY <1>1 DEF PhaseInv
<1>8. QED
  BY <1>2, <1>3, <1>6, <1>7 DEF PhaseInv

LEMMA WalkingStep ==
    ASSUME PhaseInv, NEW u \in Users, P!NextPass(u) \/ P!OpenSession(u) \/ P!Preamble(u)
    PROVE  PhaseInv'
<1>1. PICK spot \in {"start", "preamble", "journey", "done"} :
         /\ at[u] \in {"loop", "start", "preamble"}
         /\ at' = [at EXCEPT ![u] = spot]
         /\ before' = before \/ before' = [before EXCEPT ![u] = cuts]
         /\ got' = got
         /\ UNCHANGED <<errors, complete, cuts, whole>>
  BY DEF P!NextPass, P!OpenSession, P!Preamble, P!Go, P!StartFails
<1>2. spot \in WorkerPlaces
  BY DEF WorkerPlaces
<1>3. QED
  BY <1>1, <1>2, WalkStep DEF PhaseInv, PhaseTypes

\* The journey: played to its end, cut, or ended by an exception.
LEMMA JourneyStep ==
    ASSUME PhaseInv, NEW u \in Users, P!Journey(u)
    PROVE  PhaseInv'
<1>1. at[u] = "journey" /\ UNCHANGED <<errors, complete, before>>
  BY DEF P!Journey
<1>2. got' \in [Users -> [errors : 0..JourneySteps, io : BOOLEAN]]
  <2>1. got' = got \/ \E n \in 0..JourneySteps, io \in BOOLEAN : P!Produce(u, n, io)
    <3>1. 1..(JourneySteps - 1) \subseteq 0..JourneySteps
      BY CountsTyped
    <3>2. QED
      BY <3>1 DEF P!Journey
  <2>2. ASSUME NEW n \in 0..JourneySteps, NEW io \in BOOLEAN, P!Produce(u, n, io)
        PROVE  got' \in [Users -> [errors : 0..JourneySteps, io : BOOLEAN]]
    BY <2>2 DEF PhaseInv, PhaseTypes, P!Produce
  <2>3. QED
    BY <2>1, <2>2 DEF PhaseInv, PhaseTypes
<1>3. CASE whole' = whole + 1 /\ cuts' = cuts /\ at' = [at EXCEPT ![u] = "count"]
  <2>1. at'[u] = "count" /\ \A v \in Users : v # u => at'[v] = at[v]
    BY <1>3 DEF PhaseInv, PhaseTypes
  <2>2. PhaseTypes'
    BY <1>1, <1>2, <1>3 DEF PhaseInv, PhaseTypes, WorkerPlaces
  <2>3. Given' = Given
    BY <1>1, <2>1 DEF Given
  <2>4. Promising' = IF before[u] = cuts THEN Promising \cup {u} ELSE Promising
    BY <1>1, <1>3, <2>1 DEF Promising
  <2>5. /\ errors' < ErrorCap + JourneySteps * Cardinality(Given')
        /\ \A v \in Users : before'[v] <= cuts'
    BY <1>1, <1>3, <2>3 DEF PhaseInv
  <2>6. /\ complete' + Cardinality(Promising') <= whole'
        /\ cuts' = 0 => complete' + Cardinality(Promising') = whole'
    <3>1. CASE before[u] = cuts
      <4>1. u \notin Promising
        BY <1>1 DEF Promising
      <4>2. Cardinality(Promising') = Cardinality(Promising) + 1
        BY <2>4, <3>1, <4>1, CountsTyped, OneMore
      <4>3. QED
        BY <1>1, <1>3, <4>2, CountsTyped DEF PhaseInv, PhaseTypes
    <3>2. CASE before[u] # cuts
      <4>1. cuts # 0
        BY <3>2 DEF PhaseInv, PhaseTypes
      <4>2. Promising' = Promising
        BY <2>4, <3>2
      <4>3. QED
        BY <1>1, <1>3, <4>1, <4>2, CountsTyped DEF PhaseInv, PhaseTypes
    <3>3. QED
      BY <3>1, <3>2
  <2>7. QED
    BY <2>2, <2>5, <2>6 DEF PhaseInv
<1>4. CASE cuts' = cuts + 1 /\ whole' = whole /\ at' = [at EXCEPT ![u] = "count"]
  <2>1. at'[u] = "count" /\ \A v \in Users : v # u => at'[v] = at[v]
    BY <1>4 DEF PhaseInv, PhaseTypes
  <2>2. PhaseTypes'
    BY <1>1, <1>2, <1>4 DEF PhaseInv, PhaseTypes, WorkerPlaces
  <2>3. Given' = Given
    BY <1>1, <2>1 DEF Given
  <2>4. \A v \in Users : before'[v] < cuts'
    BY <1>1, <1>4 DEF PhaseInv, PhaseTypes
  <2>5. Promising' = {}
    BY <2>4, <2>2 DEF Promising, PhaseTypes
  <2>6. Cardinality(Promising') = 0
    BY <2>5, FS_EmptySet
  <2>7. complete' <= whole' /\ cuts' # 0
    BY <1>1, <1>4, CountsTyped DEF PhaseInv, PhaseTypes
  <2>8. complete' + Cardinality(Promising') <= whole'
    <3>1. complete' \in Nat /\ whole' \in Nat
      BY <2>2 DEF PhaseTypes
    <3>2. \A m, n, k \in Nat : m <= n /\ k = 0 => m + k <= n
      OBVIOUS
    <3>3. Cardinality(Promising') \in Nat
      BY <2>6
    <3>4. QED
      BY <2>6, <2>7, <3>1, <3>2, <3>3
  <2>9. \A v \in Users : before'[v] <= cuts'
    BY <2>2, <2>4 DEF PhaseTypes
  <2>10. QED
    BY <1>1, <2>2, <2>3, <2>7, <2>8, <2>9 DEF PhaseInv
<1>5. CASE UNCHANGED <<cuts, whole>> /\ at' = [at EXCEPT ![u] = "judge"]
  BY <1>1, <1>2, <1>5, WalkStep DEF WorkerPlaces
<1>6. QED
  BY <1>3, <1>4, <1>5 DEF P!Journey, P!Go

LEMMA CountStep ==
    ASSUME PhaseInv, NEW u \in Users, P!Count(u)
    PROVE  PhaseInv'
<1>1. /\ at[u] = "count" /\ at' = [at EXCEPT ![u] = "collect"]
      /\ complete' = complete + (IF cuts = before[u] THEN 1 ELSE 0)
      /\ UNCHANGED <<errors, cuts, before, got, whole>>
  BY DEF P!Count, P!Go
<1>2. at'[u] = "collect" /\ \A v \in Users : v # u => at'[v] = at[v]
  BY <1>1 DEF PhaseInv, PhaseTypes
<1>3. PhaseTypes'
  BY <1>1 DEF PhaseInv, PhaseTypes, WorkerPlaces
<1>4. Given' = Given
  BY <1>1, <1>2 DEF Given
<1>5. Promising' = Promising \ {u}
  BY <1>1, <1>2 DEF Promising
<1>6. complete' + Cardinality(Promising') = complete + Cardinality(Promising)
  <2>1. CASE cuts = before[u]
    <3>1. u \in Promising
      BY <1>1, <2>1 DEF Promising
    <3>2. Cardinality(Promising') = Cardinality(Promising) - 1
      BY <1>5, <3>1, CountsTyped, OneMore
    <3>3. QED
      BY <1>1, <2>1, <3>2, CountsTyped DEF PhaseInv, PhaseTypes
  <2>2. CASE cuts # before[u]
    <3>1. Promising' = Promising
      BY <1>5, <2>2 DEF Promising
    <3>2. QED
      BY <1>1, <2>2, <3>1, CountsTyped DEF PhaseInv, PhaseTypes
  <2>3. QED
    BY <2>1, <2>2
<1>7. QED
  BY <1>1, <1>3, <1>4, <1>6 DEF PhaseInv

LEMMA CollectStep ==
    ASSUME PhaseInv, NEW u \in Users, P!Collect(u)
    PROVE  PhaseInv'
<1>1. /\ at[u] = "collect" /\ at' = [at EXCEPT ![u] = "judge"]
      /\ errors' = errors + got[u].errors
      /\ UNCHANGED <<complete, cuts, before, got, whole>>
  BY DEF P!Collect, P!Go
<1>2. at'[u] = "judge" /\ \A v \in Users : v # u => at'[v] = at[v]
  BY <1>1 DEF PhaseInv, PhaseTypes
<1>3. errors' \in Nat /\ errors' <= errors + JourneySteps
  <2>1. got[u].errors \in 0..JourneySteps
    BY DEF PhaseInv, PhaseTypes
  <2>2. QED
    BY <1>1, <2>1, CountsTyped DEF PhaseInv, PhaseTypes
<1>4. PhaseTypes'
  BY <1>1, <1>3 DEF PhaseInv, PhaseTypes, WorkerPlaces
<1>5. Promising' = Promising
  BY <1>1, <1>2 DEF Promising
<1>6. u \notin Given /\ Given' = Given \cup {u}
  BY <1>1, <1>2 DEF Given
<1>7. Cardinality(Given') = Cardinality(Given) + 1
  BY <1>6, CountsTyped, OneMore
<1>8. errors' < ErrorCap + JourneySteps * Cardinality(Given')
  <2>1. /\ JourneySteps * Cardinality(Given') = JourneySteps * Cardinality(Given) + JourneySteps
        /\ JourneySteps * Cardinality(Given) \in Nat
    BY <1>7, CountsTyped, Times
  <2>2. QED
    BY <1>3, <2>1, CountsTyped DEF PhaseInv, PhaseTypes
<1>9. QED
  BY <1>1, <1>4, <1>5, <1>8 DEF PhaseInv

LEMMA JudgeStep ==
    ASSUME PhaseInv, NEW u \in Users, P!Judge(u)
    PROVE  PhaseInv'
<1>1. PICK spot \in {"loop", "done"} :
         /\ at[u] = "judge" /\ at' = [at EXCEPT ![u] = spot]
         /\ spot = "done" \/ errors < ErrorCap
         /\ got' = [got EXCEPT ![u] = P!Nothing]
         /\ UNCHANGED <<errors, complete, cuts, before, whole>>
  BY DEF P!Judge, P!Go
<1>2. at'[u] = spot /\ \A v \in Users : v # u => at'[v] = at[v]
  BY <1>1 DEF PhaseInv, PhaseTypes
<1>3. PhaseTypes'
  BY <1>1, CountsTyped DEF PhaseInv, PhaseTypes, WorkerPlaces, P!Nothing
<1>4. Promising' = Promising
  BY <1>1, <1>2 DEF Promising
<1>5. errors' < ErrorCap + JourneySteps * Cardinality(Given')
  <2>1. CASE spot = "done"
    <3>1. Given' = Given
      BY <1>1, <1>2, <2>1 DEF Given
    <3>2. QED
      BY <1>1, <3>1 DEF PhaseInv
  <2>2. CASE errors < ErrorCap
    <3>1. Given' \in SUBSET Users
      BY DEF Given
    <3>2. JourneySteps * Cardinality(Given') \in Nat
      BY <3>1, UsersAreFinite, FS_CardinalityType, CountsTyped, Times
    <3>3. QED
      BY <1>1, <2>2, <3>2, CountsTyped DEF PhaseInv, PhaseTypes
  <2>3. QED
    BY <1>1, <2>1, <2>2
<1>6. QED
  BY <1>1, <1>3, <1>4, <1>5 DEF PhaseInv

LEMMA PhaseKeeps == PhaseInv /\ [P!Next]_(P!vars) => PhaseInv'
<1> SUFFICES ASSUME PhaseInv, [P!Next]_(P!vars) PROVE PhaseInv'
  OBVIOUS
<1>1. CASE P!DeadlinePasses \/ UNCHANGED P!vars
  BY <1>1 DEF P!DeadlinePasses, P!vars, PhaseInv, PhaseTypes, Given, Promising
<1>2. ASSUME NEW u \in Users, P!Worker(u) PROVE PhaseInv'
  BY <1>2, WalkingStep, JourneyStep, CountStep, CollectStep, JudgeStep DEF P!Worker
<1>3. QED
  BY <1>1, <1>2 DEF P!Next

LEMMA PhaseIsHonest == PhaseInv => P!PhaseIsHonest
<1> SUFFICES ASSUME PhaseInv PROVE P!PhaseIsHonest
  OBVIOUS
<1>1. P!JourneysCounted
  <2>1. complete <= whole
    BY CountsTyped DEF PhaseInv, PhaseTypes
  <2>2. ASSUME cuts = 0, \A u \in Users : at[u] # "count" PROVE complete = whole
    <3>1. Promising = {}
      BY <2>2 DEF Promising
    <3>2. Cardinality(Promising) = 0
      BY <3>1, FS_EmptySet
    <3>3. QED
      BY <2>2, <3>2 DEF PhaseInv, PhaseTypes
  <2>3. QED
    BY <2>1, <2>2 DEF P!JourneysCounted
<1>2. P!NoErrorStorm
  <2>1. Cardinality(Given) <= Cardinality(Users) /\ Cardinality(Users) \in Nat
    BY UsersAreFinite, FS_Subset, FS_CardinalityType DEF Given
  <2>2. /\ JourneySteps * Cardinality(Given) <= Cardinality(Users) * JourneySteps
        /\ JourneySteps * Cardinality(Given) \in Nat /\ Cardinality(Users) * JourneySteps \in Nat
    BY <2>1, CountsTyped, Times
  <2>3. QED
    BY <2>2, CountsTyped, SameSize DEF PhaseInv, PhaseTypes, P!NoErrorStorm
<1>3. QED
  BY <1>1, <1>2 DEF P!PhaseIsHonest

-----------------------------------------------------------------------------
(* Ladders (benchmark/executor.py, run).                                   *)

LEMMA LadderSize == \A Group : L!Cardinality(Group) = Cardinality(Group)
BY DEF L!Cardinality, Cardinality

Rung == <<iteration, level>>

LadderTypes ==
    /\ phase \in {"preflight", "climb", "run", "judge", "cleanup", "done"}
    /\ iteration \in Nat \ {0} /\ level \in Nat \ {0}
    /\ phase \in {"run", "judge"} => level \in 1..Len(Levels)
    /\ \A r \in runs : r.iteration \in Nat \ {0} /\ r.level \in 1..Len(Levels)
    /\ inARow \in Nat /\ ceiling \in Nat
    /\ IsFiniteSet(L!Tried) /\ lmet \subseteq L!Tried
    /\ phase = "preflight" => runs = {}

\* The ladder goes up: what was tried lies behind, but for the level that is
\* being judged.
LadderClimbs ==
    /\ \A p \in L!Tried : L!Before(p, Rung) \/ (phase = "judge" /\ p = Rung)
    /\ \A p \in lmet : L!Before(p, Rung)
    /\ phase = "judge" => Rung \in L!Tried

\* The ceiling is at or below every limit found, and what runs is below it.
CeilingServes ==
    /\ \A p \in L!Limits \ lmet :
          \/ phase = "judge" /\ p = Rung
          \/ ceiling # 0 /\ ceiling <= Levels[p[2]]
    /\ phase \in {"run", "judge"} => ceiling = 0 \/ Levels[level] < ceiling
    /\ L!CeilingHolds

\* The stop reason is a stop, and is there as soon as there is one.
StopServes ==
    /\ stop = L!Nowhere => \A p \in L!Stops : ~L!Before(p, Rung)
    /\ stop # L!Nowhere => <<stop.iteration, stop.level>> \in L!Stops

\* Levels lost in a row are levels that failed.
RowServes ==
    /\ inARow >= 1 => \E p \in L!Blemished : L!Before(p, Rung)
    /\ inARow >= 2 => \E p, q \in L!Blemished : p # q

\* A failed run says so on the disk, unless it is one that is reclassified.
FilesServe ==
    /\ phase \notin {"cleanup", "done"} => aborted = {}
    /\ aborted \subseteq L!Stopped
    /\ L!OwnFiles => \A r \in runs : r.failure # "" =>
          L!File(r) \in evidence \/ (phase \in {"cleanup", "done"} /\ r \in L!Stopped)

LadderInv ==
    /\ LadderTypes /\ LadderClimbs /\ CeilingServes /\ StopServes /\ RowServes /\ FilesServe
    /\ L!StopIsNotFailure /\ L!DiskIsNotMilder

LEMMA LevelsAre ==
    Len(Levels) \in Nat /\ \A k \in 1..Len(Levels) : k \in Nat \ {0} /\ Levels[k] \in Nat \ {0}
BY LadderBounds DEF L!LadderAssumption

LEMMA TriedTyped ==
    ASSUME LadderTypes, NEW p \in L!Tried
    PROVE  p = <<p[1], p[2]>> /\ p[1] \in Nat \ {0} /\ p[2] \in 1..Len(Levels)
BY DEF LadderTypes, L!Tried, L!At

LEMMA StopsAreTried ==
    ASSUME LadderTypes
    PROVE  L!Stops \subseteq L!Tried /\ L!Limits \subseteq L!Tried /\ L!Blemished \subseteq L!Tried
BY DEF LadderTypes, L!Stops, L!Limits, L!Blemished, L!Tried

LEMMA SomeEnvironment == L!Environments # {}
<1>1. Len(Envs) \in Nat \ {0}
  BY LadderBounds DEF L!LadderAssumption
<1>2. 1 \in 1..Len(Envs)
  BY <1>1
<1>3. \E e : e \in {Envs[k] : k \in 1..Len(Envs)}
  BY <1>2
<1>4. QED
  BY <1>3 DEF L!Environments

LEMMA LadderStarts == L!Init => LadderInv
<1> SUFFICES ASSUME L!Init PROVE LadderInv
  OBVIOUS
<1>1. L!Tried = {} /\ L!Limits = {} /\ L!Blemished = {} /\ lmet = {} /\ L!Stops = {}
  BY DEF L!Init, L!Tried, L!Limits, L!Blemished, L!Stops
<1>2. LadderTypes
  <2>1. IsFiniteSet(L!Tried) /\ lmet \subseteq L!Tried
    BY <1>1, FS_EmptySet
  <2>2. /\ phase = "preflight" /\ iteration = 1 /\ level = 1 /\ inARow = 0 /\ ceiling = 0
        /\ runs = {}
    BY DEF L!Init
  <2>3. \A r \in runs : r.iteration \in Nat \ {0} /\ r.level \in 1..Len(Levels)
    BY <2>2
  <2>4. QED
    BY <2>1, <2>2, <2>3 DEF LadderTypes
<1>3. LadderClimbs /\ CeilingServes
  BY <1>1 DEF L!Init, LadderClimbs, CeilingServes, L!CeilingHolds
<1>4. StopServes /\ RowServes /\ L!StopIsNotFailure
  <2>1. stop = L!Nowhere /\ inARow = 0 /\ runs = {}
    BY DEF L!Init
  <2>2. QED
    BY <1>1, <2>1 DEF StopServes, RowServes, L!StopIsNotFailure
<1>5. FilesServe /\ L!DiskIsNotMilder
  BY DEF L!Init, FilesServe, L!DiskIsNotMilder
<1>6. QED
  BY <1>2, <1>3, <1>4, <1>5 DEF LadderInv

\* What only depends on the runs.
LEMMA SameRuns ==
    ASSUME UNCHANGED runs
    PROVE  /\ L!Tried' = L!Tried /\ L!Limits' = L!Limits /\ L!Blemished' = L!Blemished
           /\ (UNCHANGED lmet => L!Stops' = L!Stops)
           /\ (UNCHANGED stop => L!Stopped' = L!Stopped)
BY DEF L!Stopped, L!Known, L!Nowhere, L!Tried, L!Limits, L!Blemished, L!Stops, L!Refused, L!At

\* The ladder moves on without a run, and nothing else changes.
LEMMA ClimbStep ==
    ASSUME LadderInv, L!Preflight \/ L!Climb
    PROVE  LadderInv'
<1>1. /\ UNCHANGED <<runs, aborted, evidence, inARow, ceiling, stop, lmet>>
      /\ phase \in {"preflight", "climb"} /\ phase' \in {"climb", "run", "cleanup", "done"}
      /\ phase' = "done" => L!Preflight
  BY DEF L!Preflight, L!Climb
<1>2. /\ iteration' \in Nat \ {0} /\ level' \in Nat \ {0}
      /\ phase' = "run" => level' = level /\ level \in 1..Len(Levels) /\ ~L!Skipped
  <2>1. CASE L!Preflight
    BY <2>1 DEF L!Preflight, L!place, LadderInv, LadderTypes
  <2>2. CASE L!Climb
    BY <2>2, LevelsAre DEF L!Climb, L!place, LadderInv, LadderTypes
  <2>3. QED
    BY <2>1, <2>2
<1>3. L!Tried' = L!Tried /\ L!Limits' = L!Limits /\ L!Blemished' = L!Blemished /\ L!Stops' = L!Stops
  BY <1>1, SameRuns
<1>4. \A p \in L!Tried : L!Before(p, Rung) /\ L!Before(p, Rung)'
  <2>1. SUFFICES ASSUME NEW p \in L!Tried PROVE L!Before(p, Rung) /\ L!Before(p, Rung')
    BY DEF L!Before, Rung
  <2>2. L!Before(p, Rung)
    BY <1>1, <2>1 DEF LadderInv, LadderClimbs
  <2>3. p[1] \in Nat /\ p[2] \in 1..Len(Levels)
    BY <2>1, TriedTyped DEF LadderInv
  <2>4. \/ iteration' = iteration /\ level' \in {level, level + 1}
        \/ iteration' = iteration + 1
    BY DEF L!Preflight, L!Climb, L!place
  <2>5. QED
    BY <2>2, <2>3, <2>4 DEF L!Before, Rung, LadderInv, LadderTypes
<1>5. LadderTypes'
  BY <1>1, <1>2, <1>3 DEF LadderInv, LadderTypes
<1>6. LadderClimbs'
  BY <1>1, <1>3, <1>4 DEF LadderInv, LadderTypes, LadderClimbs
<1>7. CeilingServes'
  <2>1. \A p \in L!Limits' \ lmet' : ceiling' # 0 /\ ceiling' <= Levels[p[2]]
    BY <1>1, <1>3 DEF LadderInv, CeilingServes
  <2>2. phase' \in {"run", "judge"} => ceiling' = 0 \/ Levels[level'] < ceiling'
    BY <1>1, <1>2, LevelsAre DEF L!Skipped, LadderInv, LadderTypes
  <2>3. L!CeilingHolds'
    BY <1>1, <1>3 DEF LadderInv, CeilingServes, L!CeilingHolds, L!Before
  <2>4. QED
    BY <2>1, <2>2, <2>3 DEF CeilingServes
<1>8. StopServes'
  <2>1. L!Stops \subseteq L!Tried
    BY StopsAreTried DEF LadderInv
  <2>2. stop = L!Nowhere => L!Stops = {}
    BY <1>4, <2>1 DEF LadderInv, StopServes
  <2>3. QED
    BY <1>1, <1>3, <2>2 DEF LadderInv, StopServes
<1>9. RowServes'
  <2>1. L!Blemished \subseteq L!Tried
    BY StopsAreTried DEF LadderInv
  <2>2. QED
    BY <1>1, <1>3, <1>4, <2>1 DEF LadderInv, RowServes
<1>10. L!StopIsNotFailure'
  <2>1. CASE phase' # "done"
    BY <2>1 DEF L!StopIsNotFailure
  <2>2. CASE phase' = "done"
    <3>1. runs' = {}
      BY <1>1, <2>2 DEF L!Preflight, LadderInv, LadderTypes
    <3>2. QED
      BY <3>1 DEF L!StopIsNotFailure
  <2>3. QED
    BY <2>1, <2>2
<1>11. FilesServe'
  <2>1. L!Stopped' = L!Stopped /\ \A r : L!File(r)' = L!File(r)
    BY <1>1, SameRuns DEF L!File, L!Known, L!At
  <2>2. QED
    BY <1>1, <2>1 DEF LadderInv, FilesServe, L!OwnFiles
<1>12. L!DiskIsNotMilder'
  BY <1>1 DEF L!Preflight, LadderInv, LadderTypes, L!DiskIsNotMilder
<1>13. QED
  BY <1>5, <1>6, <1>7, <1>8, <1>9, <1>10, <1>11, <1>12 DEF LadderInv

\* The runs of a level: one for every environment.
LEMMA LevelRuns ==
    ASSUME LadderInv, L!RunLevel
    PROVE  /\ phase = "run" /\ phase' = "judge"
           /\ UNCHANGED <<iteration, level, aborted, inARow, ceiling, stop, lmet>>
           /\ \E new : /\ runs' = runs \cup new /\ new # {}
                       /\ \A r \in new : r.iteration = iteration /\ r.level = level
                       /\ \A r \in new : r.failure # "" => L!File(r) \in evidence'
                       /\ \A x \in evidence \ evidence' : \E r \in new : x = L!File(r)
<1> DEFINE Runs(outcome) == {[iteration |-> iteration, level |-> level, env |-> e,
                              failure |-> outcome[e]] : e \in L!Environments}
<1>1. PICK outcome \in [L!Environments -> {""} \cup L!Failures] :
         /\ runs' = runs \cup Runs(outcome)
         /\ evidence' = (evidence \ {L!File(r) : r \in Runs(outcome)})
                           \cup {L!File(r) : r \in {x \in Runs(outcome) : x.failure # ""}}
  BY DEF L!RunLevel
<1> DEFINE new == Runs(outcome)
<1>2. PICK a \in L!Environments : TRUE
  BY SomeEnvironment
<1>3. new # {} /\ \A r \in new : r.iteration = iteration /\ r.level = level
  <2>1. [iteration |-> iteration, level |-> level, env |-> a, failure |-> outcome[a]] \in new
    BY <1>2
  <2>2. ASSUME NEW r \in new PROVE r.iteration = iteration /\ r.level = level
    <3>1. PICK e \in L!Environments :
             r = [iteration |-> iteration, level |-> level, env |-> e, failure |-> outcome[e]]
      BY <2>2
    <3>2. QED
      BY <3>1
  <2>3. QED
    BY <2>1, <2>2
<1> HIDE DEF Runs
<1>4. /\ \A r \in new : r.failure # "" => L!File(r) \in evidence'
      /\ \A x \in evidence \ evidence' : \E r \in new : x = L!File(r)
  BY <1>1
<1>5. QED
  BY <1>1, <1>3, <1>4 DEF L!RunLevel, L!place

LEMMA RunsGrow ==
    ASSUME LadderInv, L!RunLevel
    PROVE  /\ L!Tried' = L!Tried \cup {Rung}
           /\ Rung \notin L!Tried
           /\ L!Limits \subseteq L!Limits' /\ L!Limits' \subseteq L!Limits \cup {Rung}
           /\ L!Blemished \subseteq L!Blemished'
           /\ \A r \in runs' : r.iteration \in Nat \ {0} /\ r.level \in 1..Len(Levels)
<1>1. PICK new : /\ runs' = runs \cup new /\ new # {}
                 /\ \A r \in new : r.iteration = iteration /\ r.level = level
  BY LevelRuns
<1>2. /\ \A r \in new : L!At(r) = Rung
      /\ iteration \in Nat \ {0} /\ level \in 1..Len(Levels)
  BY <1>1, LevelRuns DEF L!At, Rung, LadderInv, LadderTypes
<1>3. \A p \in L!Tried : L!Before(p, Rung) /\ p # Rung
  <2>1. SUFFICES ASSUME NEW p \in L!Tried PROVE L!Before(p, Rung) /\ p # Rung
    OBVIOUS
  <2>2. L!Before(p, Rung)
    BY LevelRuns DEF LadderInv, LadderClimbs
  <2>3. p[1] \in Nat /\ p[2] \in Nat
    BY TriedTyped DEF LadderInv
  <2>4. QED
    BY <1>2, <2>2, <2>3 DEF L!Before, Rung
<1>4. L!Tried' = L!Tried \cup {Rung}
  BY <1>1, <1>2 DEF L!Tried, L!At
<1>5. \A r \in runs : L!At(r) \in L!Tried
  BY DEF L!Tried
<1>6. \A p \in L!Tried : L!Refused(p)' <=> L!Refused(p)
  BY <1>1, <1>2, <1>3 DEF L!Refused, L!At
<1>7. \A p \in L!Tried : ~L!Before(Rung, p)
  <2>1. SUFFICES ASSUME NEW p \in L!Tried PROVE ~L!Before(Rung, p)
    OBVIOUS
  <2>2. p[1] \in Nat /\ p[2] \in Nat /\ L!Before(p, Rung)
    BY <1>3, TriedTyped DEF LadderInv
  <2>3. QED
    BY <1>2, <2>2 DEF L!Before, Rung
<1>8. \A p \in L!Tried : p \in L!Limits' <=> p \in L!Limits
  <2>1. SUFFICES ASSUME NEW p \in L!Tried PROVE p \in L!Limits' <=> p \in L!Limits
    OBVIOUS
  <2>2. (\E r \in runs : L!Before(L!At(r), p) /\ r.failure = "")
        <=> (\E r \in runs' : L!Before(L!At(r), p) /\ r.failure = "")
    BY <1>1, <1>2, <1>7
  <2>3. p \in L!Limits' <=> L!Refused(p)' /\ \E r \in runs' : L!Before(L!At(r), p) /\ r.failure = ""
    BY <1>4 DEF L!Limits, L!At, L!Before
  <2>4. QED
    BY <1>6, <2>2, <2>3 DEF L!Limits
<1>9. L!Limits' \subseteq L!Tried' /\ L!Limits \subseteq L!Tried
  BY DEF L!Limits
<1>10. L!Blemished \subseteq L!Blemished'
  BY <1>1 DEF L!Blemished, L!At
<1>11. \A r \in runs' : r.iteration \in Nat \ {0} /\ r.level \in 1..Len(Levels)
  BY <1>1, <1>2 DEF LadderInv, LadderTypes
<1>12. QED
  BY <1>3, <1>4, <1>8, <1>9, <1>10, <1>11

\* The artifacts of the runs of a level replace no other's.
LEMMA RunFiles ==
    ASSUME LadderInv, L!RunLevel
    PROVE  FilesServe'
<1>1. PICK new : /\ runs' = runs \cup new
                 /\ \A r \in new : r.iteration = iteration /\ r.level = level
                 /\ \A r \in new : r.failure # "" => L!File(r) \in evidence'
                 /\ \A x \in evidence \ evidence' : \E r \in new : x = L!File(r)
  BY LevelRuns
<1>2. /\ phase = "run" /\ phase' = "judge" /\ aborted' = aborted
      /\ level \in 1..Len(Levels) /\ aborted = {}
  BY LevelRuns DEF LadderInv, LadderTypes, FilesServe
<1>3. ASSUME L!OwnFiles, NEW r \in runs, r.failure # ""
      PROVE  L!File(r) \in evidence'
  <2>1. L!File(r) \in evidence
    BY <1>2, <1>3 DEF LadderInv, FilesServe
  <2>2. ASSUME NEW x \in new, L!File(r) = L!File(x) PROVE FALSE
    <3>1. L!Known(L!At(r)) = L!Known(L!At(x))
      BY <2>2 DEF L!File
    <3>2. r.iteration = iteration /\ Levels[r.level] = Levels[level]
      BY <1>1, <2>2, <3>1 DEF L!Known, L!At
    <3>3. r.level \in 1..Len(Levels)
      BY DEF LadderInv, LadderTypes
    <3>4. L!At(r) = Rung
      BY <1>2, <1>3, <3>2, <3>3 DEF L!OwnFiles, L!At, Rung
    <3>5. L!At(r) \in L!Tried
      BY DEF L!Tried
    <3>6. QED
      BY <3>4, <3>5, RunsGrow
  <2>3. QED
    BY <1>1, <2>1, <2>2
<1>4. \A x : L!File(x)' = L!File(x)
  BY DEF L!File, L!Known, L!At
<1>5. QED
  BY <1>1, <1>2, <1>3, <1>4 DEF FilesServe, L!OwnFiles

LEMMA RunLevelStep ==
    ASSUME LadderInv, L!RunLevel
    PROVE  LadderInv'
<1>1. /\ phase = "run" /\ phase' = "judge"
      /\ UNCHANGED <<iteration, level, aborted, inARow, ceiling, stop, lmet>>
  BY LevelRuns
<1>2. Rung' = Rung
  BY <1>1 DEF Rung
<1>3. /\ L!Tried' = L!Tried \cup {Rung} /\ Rung \notin L!Tried
      /\ L!Limits \subseteq L!Limits' /\ L!Limits' \subseteq L!Limits \cup {Rung}
      /\ L!Blemished \subseteq L!Blemished'
      /\ \A r \in runs' : r.iteration \in Nat \ {0} /\ r.level \in 1..Len(Levels)
  BY RunsGrow
<1>4. \A p : L!Before(p, Rung)' <=> L!Before(p, Rung)
  BY <1>2 DEF L!Before
<1>5. LadderTypes'
  <2>1. IsFiniteSet(L!Tried')
    BY <1>3, FS_AddElement DEF LadderInv, LadderTypes
  <2>2. QED
    BY <1>1, <1>3, <2>1 DEF LadderInv, LadderTypes
<1>6. LadderClimbs'
  <2>1. \A p \in L!Tried : L!Before(p, Rung)
    BY <1>1 DEF LadderInv, LadderClimbs
  <2>2. \A p \in lmet : L!Before(p, Rung)
    BY DEF LadderInv, LadderClimbs
  <2>3. QED
    BY <1>1, <1>2, <1>3, <1>4, <2>1, <2>2 DEF LadderClimbs
<1>7. \A p \in L!Limits \ lmet : ceiling # 0 /\ ceiling <= Levels[p[2]]
  BY <1>1 DEF LadderInv, CeilingServes
<1>8. ceiling = 0 \/ Levels[level] < ceiling
  BY <1>1 DEF LadderInv, CeilingServes
<1>9. L!CeilingHolds'
  <2>1. SUFFICES ASSUME NEW p \in L!Limits' \ lmet, NEW q \in L!Tried', L!Before(p, q)
                 PROVE  Levels[q[2]] < Levels[p[2]]
    BY <1>1 DEF L!CeilingHolds, L!Before
  <2>2. L!Limits \subseteq L!Tried /\ L!CeilingHolds
    BY StopsAreTried DEF LadderInv, CeilingServes
  <2>3. /\ iteration \in Nat /\ level \in 1..Len(Levels) /\ Rung = <<iteration, level>>
        /\ ceiling \in Nat
    BY <1>1 DEF LadderInv, LadderTypes, Rung
  <2>4. \A a \in L!Tried : a[1] \in Nat /\ a[2] \in 1..Len(Levels) /\ L!Before(a, Rung)
    BY <1>1, TriedTyped DEF LadderInv, LadderClimbs
  <2>5. CASE p = Rung
    <3>1. q \in L!Tried \cup {Rung}
      BY <1>3, <2>1
    <3>2. ~L!Before(Rung, Rung) /\ \A a \in L!Tried : ~L!Before(Rung, a)
      BY <2>3, <2>4 DEF L!Before
    <3>3. QED
      BY <2>1, <2>5, <3>1, <3>2
  <2>6. CASE p # Rung /\ q \in L!Tried
    BY <1>3, <2>1, <2>2, <2>6 DEF L!CeilingHolds
  <2>7. CASE p # Rung /\ q = Rung
    <3>1. ceiling # 0 /\ ceiling <= Levels[p[2]] /\ p[2] \in 1..Len(Levels)
      BY <1>3, <1>7, <2>1, <2>2, <2>4, <2>7
    <3>2. Levels[level] < ceiling /\ q[2] = level
      BY <1>8, <2>3, <2>7, <3>1
    <3>3. QED
      BY <2>3, <3>1, <3>2, LevelsAre
  <2>8. QED
    BY <1>3, <2>1, <2>5, <2>6, <2>7
<1>10. CeilingServes'
  BY <1>1, <1>2, <1>3, <1>7, <1>8, <1>9 DEF CeilingServes
<1>11. L!Stops \subseteq L!Stops' /\ L!Stops' \subseteq L!Stops \cup {Rung}
  BY <1>1, <1>3 DEF L!Stops
<1>12. StopServes'
  <2>1. ~L!Before(Rung, Rung)
    BY DEF L!Before, Rung, LadderInv, LadderTypes
  <2>2. QED
    BY <1>1, <1>4, <1>11, <2>1 DEF LadderInv, StopServes, L!Nowhere
<1>13. RowServes'
  BY <1>1, <1>3, <1>4 DEF LadderInv, RowServes
<1>14. L!StopIsNotFailure'
  BY <1>1 DEF L!StopIsNotFailure
<1>15. FilesServe' /\ L!DiskIsNotMilder'
  BY <1>1, RunFiles DEF L!DiskIsNotMilder
<1>16. QED
  BY <1>5, <1>6, <1>10, <1>12, <1>13, <1>14, <1>15 DEF LadderInv

\* The level that is judged: what its runs say.
LEMMA JudgedLevel ==
    ASSUME LadderInv, phase = "judge"
    PROVE  /\ level \in 1..Len(Levels) /\ Rung \in L!Tried /\ Rung = L!place
           /\ Rung \in L!Limits <=> L!AllFailed("admission") /\ L!EarlierCompleted
           /\ L!AllFailed("transport") => Rung \in L!Blemished /\ Rung \notin L!Limits
<1>1. level \in 1..Len(Levels) /\ Rung \in L!Tried /\ Rung = L!place
  BY DEF LadderInv, LadderTypes, LadderClimbs, Rung, L!place
<1>2. PICK r \in runs : L!At(r) = Rung
  BY <1>1 DEF L!Tried
<1>3. r \in L!Latest
  BY <1>1, <1>2 DEF L!Latest
<1>4. L!Refused(Rung) <=> L!AllFailed("admission")
  BY <1>1 DEF L!Refused, L!AllFailed, L!Latest
<1>5. \A s \in runs : L!Before(L!At(s), Rung) <=> s \notin L!Latest
  <2>1. SUFFICES ASSUME NEW s \in runs PROVE L!Before(L!At(s), Rung) <=> s \notin L!Latest
    OBVIOUS
  <2>2. L!At(s) \in L!Tried
    BY DEF L!Tried
  <2>3. ~L!Before(Rung, Rung)
    BY DEF L!Before, Rung, LadderInv, LadderTypes
  <2>4. L!Before(L!At(s), Rung) \/ L!At(s) = Rung
    BY <2>2 DEF LadderInv, LadderClimbs
  <2>5. QED
    BY <1>1, <2>3, <2>4 DEF L!Latest
<1>6. Rung \in L!Limits <=> L!AllFailed("admission") /\ L!EarlierCompleted
  BY <1>1, <1>4, <1>5 DEF L!Limits, L!EarlierCompleted
<1>7. ASSUME L!AllFailed("transport") PROVE Rung \in L!Blemished /\ Rung \notin L!Limits
  <2>1. r.failure = "transport"
    BY <1>3, <1>7 DEF L!AllFailed
  <2>2. Rung \in L!Blemished
    BY <1>2, <2>1 DEF L!Blemished
  <2>3. ~L!Refused(Rung)
    BY <1>2, <2>1 DEF L!Refused
  <2>4. QED
    BY <2>2, <2>3 DEF L!Limits
<1>8. QED
  BY <1>1, <1>6, <1>7

\* What Judge does to the ceiling, the stop reason and the stops.
LEMMA Verdicts ==
    ASSUME LadderInv, L!Judge
    PROVE  \/ stop' = L!Here("host") /\ lmet' = lmet \cup {Rung} /\ UNCHANGED ceiling
           \/ Rung \notin L!Limits /\ UNCHANGED <<stop, ceiling, lmet>>
           \/ /\ Rung \in L!Limits /\ UNCHANGED lmet
              /\ ceiling' \in Nat \ {0}
              /\ ceiling' <= Levels[level] /\ (ceiling # 0 => ceiling' <= ceiling)
              /\ stop' = IF stop = L!Nowhere THEN L!Here("session_admission_limit") ELSE stop
<1>1. phase = "judge"
  BY DEF L!Judge
<1>2. /\ level \in 1..Len(Levels) /\ Rung = L!place
      /\ Rung \in L!Limits <=> L!AllFailed("admission") /\ L!EarlierCompleted
      /\ L!AllFailed("transport") => Rung \notin L!Limits
  BY <1>1, JudgedLevel
<1>3. CASE inARow' >= 2 /\ UNCHANGED <<stop, ceiling, lmet>>
  <2>1. L!AllFailed("transport")
    BY <1>3 DEF L!Judge
  <2>2. QED
    BY <1>2, <1>3, <2>1
<1>4. CASE stop' = L!Here("host") /\ lmet' = lmet \cup {L!place} /\ UNCHANGED ceiling
  BY <1>2, <1>4
<1>5. CASE L!AdmissionLimit /\ UNCHANGED lmet
  <2>1. CASE Rung \in L!Limits
    <3>1. /\ ceiling' = (IF ceiling = 0 \/ Levels[level] < ceiling THEN Levels[level] ELSE ceiling)
          /\ stop' = IF stop = L!Nowhere THEN L!Here("session_admission_limit") ELSE stop
      BY <1>2, <1>5, <2>1 DEF L!AdmissionLimit
    <3>2. ceiling \in Nat /\ Levels[level] \in Nat \ {0}
      BY <1>2, LevelsAre DEF LadderInv, LadderTypes
    <3>3. /\ ceiling' \in Nat \ {0}
          /\ ceiling' <= Levels[level] /\ (ceiling # 0 => ceiling' <= ceiling)
      BY <3>1, <3>2
    <3>4. QED
      BY <1>5, <2>1, <3>1, <3>3
  <2>2. CASE Rung \notin L!Limits
    BY <1>2, <1>5, <2>2 DEF L!AdmissionLimit
  <2>3. QED
    BY <2>1, <2>2
<1>6. QED
  BY <1>3, <1>4, <1>5 DEF L!Judge

LEMMA JudgeLevelStep ==
    ASSUME LadderInv, L!Judge
    PROVE  LadderInv'
<1>1. /\ phase = "judge" /\ phase' = "climb" /\ level' = level + 1
      /\ inARow' = (IF L!AllFailed("transport") THEN inARow + 1 ELSE 0)
      /\ UNCHANGED <<iteration, runs, aborted, evidence>>
  BY DEF L!Judge
<1>2. /\ level \in 1..Len(Levels) /\ Rung \in L!Tried
      /\ L!AllFailed("transport") => Rung \in L!Blemished /\ Rung \notin L!Limits
  BY <1>1, JudgedLevel
<1>3. L!Tried' = L!Tried /\ L!Limits' = L!Limits /\ L!Blemished' = L!Blemished
  BY <1>1, SameRuns
<1>4. \A p \in L!Tried : L!Before(p, Rung)'
  <2>1. SUFFICES ASSUME NEW p \in L!Tried PROVE L!Before(p, Rung')
    BY DEF L!Before, Rung
  <2>2. L!Before(p, Rung) \/ p = Rung
    BY <2>1 DEF LadderInv, LadderClimbs
  <2>3. p[1] \in Nat /\ p[2] \in 1..Len(Levels) /\ iteration \in Nat
    BY <2>1, TriedTyped DEF LadderInv, LadderTypes
  <2>4. QED
    BY <1>1, <1>2, <2>2, <2>3 DEF L!Before, Rung
<1>5. lmet' = lmet \/ lmet' = lmet \cup {Rung}
  BY Verdicts
<1>6. ceiling' \in Nat /\ inARow' \in Nat
  BY <1>1, Verdicts DEF LadderInv, LadderTypes
<1>7. LadderTypes'
  <2>1. lmet' \subseteq L!Tried
    BY <1>2, <1>5 DEF LadderInv, LadderTypes
  <2>2. level' \in Nat \ {0}
    BY <1>1, <1>2
  <2>3. QED
    BY <1>1, <1>3, <1>6, <2>1, <2>2 DEF LadderInv, LadderTypes
<1>8. LadderClimbs'
  BY <1>1, <1>2, <1>3, <1>4, <1>5 DEF LadderInv, LadderTypes, LadderClimbs
<1>9. L!Limits \subseteq L!Tried /\ L!Blemished \subseteq L!Tried
  BY StopsAreTried DEF LadderInv
<1>10. \A p \in L!Limits \ lmet' : ceiling' # 0 /\ ceiling' <= Levels[p[2]]
  <2>1. SUFFICES ASSUME NEW p \in L!Limits \ lmet'
                 PROVE  ceiling' # 0 /\ ceiling' <= Levels[p[2]]
    OBVIOUS
  <2>2. p \notin lmet /\ Levels[p[2]] \in Nat /\ Levels[level] \in Nat /\ ceiling \in Nat
    BY <1>2, <1>5, <1>9, <2>1, TriedTyped, LevelsAre DEF LadderInv, LadderTypes
  <2>3. CASE p = Rung
    <3>1. Rung \in L!Limits /\ ~(lmet' = lmet \cup {Rung})
      BY <2>1, <2>3
    <3>2. ceiling' \in Nat \ {0} /\ ceiling' <= Levels[level]
      BY <3>1, Verdicts
    <3>3. p[2] = level
      BY <2>3 DEF Rung
    <3>4. QED
      BY <3>2, <3>3
  <2>4. CASE p # Rung
    <3>1. ceiling # 0 /\ ceiling <= Levels[p[2]]
      BY <2>1, <2>2, <2>4 DEF LadderInv, CeilingServes
    <3>2. ceiling' # 0 /\ ceiling' <= ceiling
      BY <2>2, <3>1, Verdicts
    <3>3. QED
      BY <1>6, <2>2, <3>1, <3>2
  <2>5. QED
    BY <2>3, <2>4
<1>11. CeilingServes'
  <2>1. L!CeilingHolds'
    BY <1>3, <1>5 DEF LadderInv, CeilingServes, L!CeilingHolds, L!Before
  <2>2. QED
    BY <1>1, <1>3, <1>10, <2>1 DEF CeilingServes
<1>12. L!Stops' = L!Limits \cup lmet' /\ L!Stops \subseteq L!Stops'
  BY <1>3, <1>5 DEF L!Stops
<1>13. StopServes'
  <2>1. CASE stop' = L!Here("host") /\ lmet' = lmet \cup {Rung}
    <3>1. stop' # L!Nowhere /\ <<stop'.iteration, stop'.level>> = Rung
      BY <2>1 DEF L!Here, L!Nowhere, Rung
    <3>2. QED
      BY <1>12, <2>1, <3>1 DEF StopServes, L!Nowhere
  <2>2. CASE Rung \notin L!Limits /\ UNCHANGED <<stop, ceiling, lmet>>
    <3>1. ASSUME stop = L!Nowhere PROVE L!Stops' = {}
      <4>1. \A p \in L!Stops : p \in L!Tried /\ p # Rung
        <5>1. ~L!Before(Rung, Rung)
          BY DEF L!Before, Rung, LadderInv, LadderTypes
        <5>2. Rung \notin lmet
          BY <5>1 DEF LadderInv, LadderClimbs
        <5>3. QED
          BY <2>2, <5>2, StopsAreTried DEF LadderInv, L!Stops
      <4>2. \A p \in L!Stops : L!Before(p, Rung)
        BY <4>1 DEF LadderInv, LadderClimbs
      <4>3. L!Stops = {}
        BY <3>1, <4>2 DEF LadderInv, StopServes
      <4>4. QED
        BY <1>12, <2>2, <4>3 DEF L!Stops
    <3>2. QED
      BY <1>12, <2>2, <3>1 DEF LadderInv, StopServes, L!Nowhere
  <2>3. CASE /\ Rung \in L!Limits /\ UNCHANGED lmet
             /\ stop' = IF stop = L!Nowhere THEN L!Here("session_admission_limit") ELSE stop
    <3>1. CASE stop = L!Nowhere
      <4>1. stop' # L!Nowhere /\ <<stop'.iteration, stop'.level>> = Rung
        BY <2>3, <3>1 DEF L!Here, L!Nowhere, Rung
      <4>2. QED
        BY <1>12, <2>3, <4>1 DEF StopServes, L!Nowhere
    <3>2. CASE stop # L!Nowhere
      BY <1>12, <2>3, <3>2 DEF LadderInv, StopServes, L!Nowhere
    <3>3. QED
      BY <3>1, <3>2
  <2>4. QED
    BY <2>1, <2>2, <2>3, Verdicts
<1>14. RowServes'
  <2>1. CASE L!AllFailed("transport")
    <3>1. Rung \in L!Blemished
      BY <1>2, <2>1
    <3>2. inARow + 1 >= 2 => \E p \in L!Blemished : p # Rung
      <4>1. ~L!Before(Rung, Rung)
        BY DEF L!Before, Rung, LadderInv, LadderTypes
      <4>2. inARow + 1 >= 2 => inARow >= 1
        BY DEF LadderInv, LadderTypes
      <4>3. QED
        BY <4>1, <4>2 DEF LadderInv, RowServes
    <3>3. \E p \in L!Blemished : L!Before(p, Rung)'
      BY <1>4, <1>9, <3>1
    <3>4. QED
      BY <1>1, <1>3, <2>1, <3>1, <3>2, <3>3 DEF RowServes
  <2>2. CASE ~L!AllFailed("transport")
    BY <1>1, <2>2 DEF RowServes
  <2>3. QED
    BY <2>1, <2>2
<1>15. L!StopIsNotFailure'
  BY <1>1 DEF L!StopIsNotFailure
<1>16. FilesServe' /\ L!DiskIsNotMilder'
  <2>1. aborted = {} /\ \A r : L!File(r)' = L!File(r)
    BY <1>1 DEF LadderInv, FilesServe, L!File, L!Known, L!At
  <2>2. QED
    BY <1>1, <2>1 DEF LadderInv, FilesServe, L!OwnFiles, L!DiskIsNotMilder
<1>17. QED
  BY <1>7, <1>8, <1>11, <1>13, <1>14, <1>15, <1>16 DEF LadderInv

\* A run that is reclassified, whatever becomes of its file.
LEMMA ReclassifyStep ==
    ASSUME LadderInv, NEW r \in runs, L!Reclassify(r)
    PROVE  LadderInv'
<1>1. /\ phase = "cleanup" /\ r \in L!Stopped /\ aborted' = aborted \cup {r}
      /\ evidence' = evidence \/ evidence' = evidence \ {L!File(r)}
      /\ UNCHANGED <<phase, iteration, level, runs, inARow, ceiling, stop, lmet, result>>
  BY DEF L!Reclassify, L!place
<1>2. /\ L!Tried' = L!Tried /\ L!Limits' = L!Limits /\ L!Blemished' = L!Blemished
      /\ L!Stops' = L!Stops /\ L!Stopped' = L!Stopped
  BY <1>1, SameRuns
<1>3. Rung' = Rung /\ \A p : L!Before(p, Rung)' <=> L!Before(p, Rung)
  BY <1>1 DEF Rung, L!Before
<1>4. LadderTypes' /\ LadderClimbs'
  BY <1>1, <1>2, <1>3 DEF LadderInv, LadderTypes, LadderClimbs
<1>5. CeilingServes'
  <2>1. L!CeilingHolds'
    BY <1>1, <1>2 DEF LadderInv, CeilingServes, L!CeilingHolds, L!Before
  <2>2. QED
    BY <1>1, <1>2, <2>1 DEF LadderInv, CeilingServes
<1>6. StopServes' /\ RowServes'
  BY <1>1, <1>2, <1>3 DEF LadderInv, StopServes, RowServes, L!Nowhere
<1>7. FilesServe'
  <2>1. ASSUME L!OwnFiles, NEW x \in runs, x.failure # ""
        PROVE  L!File(x) \in evidence' \/ x \in L!Stopped
    <3>1. CASE L!File(x) = L!File(r)
      <4>1. L!Known(L!At(x)) = L!Known(L!At(r))
        BY <3>1 DEF L!File
      <4>2. QED
        BY <1>1, <2>1, <4>1 DEF L!Stopped
    <3>2. CASE L!File(x) # L!File(r)
      BY <1>1, <2>1, <3>2 DEF LadderInv, FilesServe
    <3>3. QED
      BY <3>1, <3>2
  <2>2. aborted' \subseteq L!Stopped
    BY <1>1 DEF LadderInv, FilesServe
  <2>3. \A x : L!File(x)' = L!File(x)
    BY DEF L!File, L!Known, L!At
  <2>4. QED
    BY <1>1, <1>2, <2>1, <2>2, <2>3 DEF FilesServe, L!OwnFiles
<1>8. L!StopIsNotFailure' /\ L!DiskIsNotMilder'
  BY <1>1 DEF L!StopIsNotFailure, L!DiskIsNotMilder
<1>9. QED
  BY <1>4, <1>5, <1>6, <1>7, <1>8 DEF LadderInv

LEMMA ConcludeStep ==
    ASSUME LadderInv, L!Conclude
    PROVE  LadderInv'
<1>1. /\ phase = "cleanup" /\ phase' = "done"
      /\ UNCHANGED <<iteration, level, runs, aborted, evidence, inARow, ceiling, stop, lmet>>
      /\ result'.status = IF inARow >= 2 \/ \E r \in runs : r.failure # "" /\ r \notin L!Stopped
                          THEN "FAILED" ELSE "COMPLETED"
  <2>1. L!Stopped = aborted
    BY DEF L!Conclude, LadderInv, FilesServe
  <2>2. QED
    BY <2>1 DEF L!Conclude, L!Failed, L!place
<1>2. /\ L!Tried' = L!Tried /\ L!Limits' = L!Limits /\ L!Blemished' = L!Blemished
      /\ L!Stops' = L!Stops
  BY <1>1, SameRuns
<1>3. Rung' = Rung /\ \A p : L!Before(p, Rung)' <=> L!Before(p, Rung)
  BY <1>1 DEF Rung, L!Before
<1>4. LadderTypes' /\ LadderClimbs'
  BY <1>1, <1>2, <1>3 DEF LadderInv, LadderTypes, LadderClimbs
<1>5. CeilingServes'
  <2>1. L!CeilingHolds'
    BY <1>1, <1>2 DEF LadderInv, CeilingServes, L!CeilingHolds, L!Before
  <2>2. QED
    BY <1>1, <1>2, <2>1 DEF LadderInv, CeilingServes
<1>6. StopServes' /\ RowServes'
  BY <1>1, <1>2, <1>3 DEF LadderInv, StopServes, RowServes, L!Nowhere
<1>7. \A r \in runs : r.failure # "" => L!At(r) \in L!Blemished
  BY DEF L!Blemished
<1>8. L!Stops = {} => stop = L!Nowhere
  BY DEF LadderInv, StopServes
<1>9. \A p \in L!Stops : L!Before(p, Rung)
  BY <1>1, StopsAreTried DEF LadderInv, LadderClimbs
<1>10. ASSUME result'.status = "COMPLETED"
       PROVE  \A p \in L!Blemished : \E q \in L!Stops : L!Known(p) = L!Known(q)
  <2>1. SUFFICES ASSUME NEW r \in runs, r.failure # ""
                 PROVE  \E q \in L!Stops : L!Known(L!At(r)) = L!Known(q)
    BY DEF L!Blemished
  <2>2. r \in L!Stopped
    BY <1>1, <1>10, <2>1
  <2>3. stop # L!Nowhere /\ L!Known(L!At(r)) = L!Known(<<stop.iteration, stop.level>>)
    BY <2>2 DEF L!Stopped
  <2>4. QED
    BY <2>3 DEF LadderInv, StopServes
<1>11. ASSUME L!Blemished \subseteq L!Stops, Cardinality(L!Stops) = 1
       PROVE  result'.status = "COMPLETED"
  <2>1. IsFiniteSet(L!Stops)
    BY StopsAreTried, FS_Subset DEF LadderInv, LadderTypes
  <2>2. PICK p : L!Stops = {p}
    BY <1>11, <2>1, FS_Singleton
  <2>3. <<stop.iteration, stop.level>> = p
    BY <1>9, <2>2 DEF LadderInv, StopServes
  <2>4. ~(inARow >= 2)
    BY <1>11, <2>2 DEF LadderInv, RowServes
  <2>5. ASSUME NEW r \in runs, r.failure # "" PROVE r \in L!Stopped
    <3>1. L!At(r) = p
      BY <1>7, <1>11, <2>2, <2>5
    <3>2. stop # L!Nowhere
      BY <1>9, <2>2 DEF LadderInv, StopServes
    <3>3. QED
      BY <2>3, <2>5, <3>1, <3>2 DEF L!Stopped
  <2>6. QED
    BY <1>1, <2>4, <2>5
<1>12. L!StopIsNotFailure'
  BY <1>2, <1>10, <1>11, LadderSize DEF L!StopIsNotFailure, L!Known
<1>13. L!Stopped' = L!Stopped /\ \A r : L!File(r)' = L!File(r)
  BY <1>1, SameRuns DEF L!File, L!Known, L!At
<1>14. FilesServe'
  BY <1>1, <1>13 DEF LadderInv, FilesServe, L!OwnFiles
<1>15. L!DiskIsNotMilder'
  <2>1. SUFFICES ASSUME L!OwnFiles, evidence = {}, ~(inARow >= 2)
                 PROVE  result'.status = "COMPLETED"
    BY <1>1 DEF L!DiskIsNotMilder, L!OwnFiles
  <2>2. \A r \in runs : r.failure # "" => r \in L!Stopped
    BY <2>1 DEF LadderInv, FilesServe
  <2>3. QED
    BY <1>1, <2>1, <2>2
<1>16. QED
  BY <1>4, <1>5, <1>6, <1>12, <1>14, <1>15 DEF LadderInv

LEMMA LadderKeeps == LadderInv /\ [L!Next]_(L!vars) => LadderInv'
<1> SUFFICES ASSUME LadderInv, [L!Next]_(L!vars) PROVE LadderInv'
  OBVIOUS
<1>1. CASE L!Next
  BY <1>1, ClimbStep, RunLevelStep, JudgeLevelStep, ReclassifyStep, ConcludeStep DEF L!Next
<1>2. CASE UNCHANGED L!vars
  <2>1. UNCHANGED <<phase, iteration, level, runs, aborted, evidence, inARow, ceiling, stop,
                    lmet, result>>
    BY <1>2 DEF L!vars
  <2>2. /\ L!Tried' = L!Tried /\ L!Limits' = L!Limits /\ L!Blemished' = L!Blemished
        /\ L!Stops' = L!Stops
    BY <2>1, SameRuns
  <2>3. Rung' = Rung /\ \A p : L!Before(p, Rung)' <=> L!Before(p, Rung)
    BY <2>1 DEF Rung, L!Before
  <2>4. LadderTypes' /\ LadderClimbs'
    BY <2>1, <2>2, <2>3 DEF LadderInv, LadderTypes, LadderClimbs
  <2>5. CeilingServes'
    <3>1. L!CeilingHolds'
      BY <2>1, <2>2 DEF LadderInv, CeilingServes, L!CeilingHolds, L!Before
    <3>2. QED
      BY <2>1, <2>2, <2>3, <3>1 DEF LadderInv, CeilingServes
  <2>6. StopServes' /\ RowServes'
    BY <2>1, <2>2, <2>3 DEF LadderInv, StopServes, RowServes, L!Nowhere
  <2>7. L!StopIsNotFailure' /\ L!DiskIsNotMilder'
    BY <2>1, <2>2 DEF LadderInv, L!StopIsNotFailure, L!DiskIsNotMilder, L!OwnFiles, L!Known
  <2>8. FilesServe'
    <3>1. L!Stopped' = L!Stopped /\ \A r : L!File(r)' = L!File(r)
      BY <2>1, SameRuns DEF L!File, L!Known, L!At
    <3>2. QED
      BY <2>1, <3>1 DEF LadderInv, FilesServe, L!OwnFiles
  <2>9. QED
    BY <2>4, <2>5, <2>6, <2>7, <2>8 DEF LadderInv
<1>3. QED
  BY <1>1, <1>2

\* A phase reports the journeys that its sessions played and ends before its
\* errors are a storm; a ladder never climbs again to a level that admitted
\* nobody, calls COMPLETED only what failed at no other level than its limits,
\* and never looks better on the disk than it was judged, though what cannot be
\* written there is passed over (benchmark/executor.py).
THEOREM BenchmarksStayHonest == P!Spec /\ L!Spec => []BenchmarksAreHonest
<1>1. PhaseInv /\ LadderInv => BenchmarksAreHonest
  BY PhaseIsHonest DEF BenchmarksAreHonest, L!VerdictIsHonest, LadderInv, CeilingServes
<1>2. P!Spec => []PhaseInv
  BY PhaseStarts, PhaseKeeps, PTL DEF P!Spec
<1>3. L!Spec => []LadderInv
  BY LadderStarts, LadderKeeps, PTL DEF L!Spec
<1>4. QED
  BY <1>1, <1>2, <1>3, PTL

-----------------------------------------------------------------------------
(* Synthetic replays (control/services/capture_synthesis_service.py and    *)
(* synthetic_plan_service.py).                                             *)

LEMMA WorkSize == \A Group : W!Cardinality(Group) = Cardinality(Group)
BY DEF W!Cardinality, Cardinality

JobPlaces == {"none", "start", "acquire", "refused", "synthesize", "read", "open", "write", "create",
              "launch", "release", "report", "end"}
Holding == {"synthesize", "read", "open", "write", "create", "launch", "release"}
JobSays == {"none", "queued", "running", "done", "error"}
RunPlaces == {"none", "queued", "verified", "reading", "success", "failed"}
Writers == Jobs \cup {Nobody}
TrailFile == [writer : Writers, rows : Writers, whole : BOOLEAN]
JobType == [status : JobSays, at : JobPlaces,
            file : {"audit", "combined"}, rows : Writers]
RunOf == [at : RunPlaces, hint : Writers, read : SUBSET TrailFile]

WorkTypes ==
    /\ trail \in [{"audit", "combined"} -> TrailFile]
    /\ dataset \in Writers
    /\ job \in [Jobs -> JobType]
    /\ jrun \in [Jobs -> RunOf]
    /\ pool \in Nat
    /\ DOMAIN pipeline = Pipelines

\* What a job has told at each of its steps, and whether it has a run.
Tells(here, says, ran) ==
    /\ here \in {"none", "start", "acquire", "refused", "synthesize", "read", "open", "write",
                 "create"} => ran = "none"
    /\ here \in {"launch", "report"} => ran # "none"
    /\ here \in {"acquire", "synthesize", "read", "open", "write", "create", "launch", "report"} =>
          says = "running"
    /\ here = "release" => says \in {"running", "error"} /\ ((says = "running") = (ran # "none"))
    /\ here = "end" => says \in {"done", "error"} /\ ((says = "done") = (ran # "none"))

JobTells(j) == Tells(job[j].at, job[j].status, jrun[j].at)

\* A job whose files another one would write over.
Busy(j) ==
    \/ job[j].at \in {"read", "open", "write", "create", "launch"}
    \/ jrun[j].at \in {"queued", "verified", "reading"}

\* A job that met no other is alone while its files matter, and they are its own.
JobIsAlone(j) ==
    /\ Busy(j) => \A k \in Jobs : Busy(k) => k = j
    /\ job[j].at = "read" => dataset = j
    /\ job[j].at \in {"open", "write", "create", "launch"} => job[j].rows = j
    /\ job[j].file = "audit" =>
          /\ job[j].at = "write" => trail["audit"].writer = j /\ trail["audit"].rows = j
          /\ job[j].at \in {"create", "launch"} \/ jrun[j].at \in {"queued", "verified", "reading"} =>
                trail["audit"] = W!Own(j)
          /\ jrun[j].at # "none" => jrun[j].read \subseteq {W!Own(j)}

\* Until a pipeline has begun to lose connections, none is lost.
PoolIsWhole ==
    /\ IsFiniteSet(W!Holders)
    /\ (\A p \in Pipelines : pipeline[p].at \in {"none", "acquire"}) =>
          pool + Cardinality(W!Holders) = PoolSize

WorkInv ==
    /\ WorkTypes
    /\ \A j \in Jobs : JobTells(j)
    /\ \A j \in Jobs \ jmet : JobIsAlone(j)
    /\ PoolIsWhole

LEMMA WorkStarts == W!Init => WorkInv
<1> SUFFICES ASSUME W!Init PROVE WorkInv
  OBVIOUS
<1>1. WorkTypes
  <2>1. pool \in Nat
    BY WorkBounds DEF W!Init, W!ReplayAssumption
  <2>2. W!Missing \in TrailFile /\ W!NoRun \in RunOf
    BY DEF W!Missing, W!NoRun, TrailFile, RunOf, Writers, RunPlaces
  <2>3. QED
    BY <2>1, <2>2 DEF W!Init, W!Names, WorkTypes, JobType, JobSays, JobPlaces, Writers
<1>2. \A j \in Jobs : job[j].at = "none" /\ jrun[j].at = "none"
  BY DEF W!Init, W!NoRun
<1>3. W!Holders = {}
  BY <1>2 DEF W!Holders
<1>4. PoolIsWhole
  <2>1. IsFiniteSet(W!Holders) /\ Cardinality(W!Holders) = 0
    BY <1>3, FS_EmptySet
  <2>2. pool = PoolSize /\ PoolSize \in Nat
    BY WorkBounds DEF W!Init, W!ReplayAssumption
  <2>3. QED
    BY <2>1, <2>2 DEF PoolIsWhole
<1>5. QED
  BY <1>1, <1>2, <1>4 DEF WorkInv, JobTells, Tells, JobIsAlone, Busy

\* The connections that are free or held, whatever a job does with one.
LEMMA PoolStep ==
    ASSUME WorkInv, NEW j \in Jobs, NEW x \in JobType, job' = [job EXCEPT ![j] = x],
           UNCHANGED pipeline,
           \/ /\ pool' = pool
              /\ j \in W!Holders <=> x.at \in Holding
           \/ /\ pool' = pool - 1 /\ j \notin W!Holders
              /\ x.at \in Holding
           \/ /\ pool' = pool + 1 /\ j \in W!Holders
              /\ x.at \notin Holding
    PROVE  PoolIsWhole'
<1>1. /\ job'[j] = x /\ \A k \in Jobs : k # j => job'[k] = job[k]
      /\ pool \in Nat /\ IsFiniteSet(W!Holders)
      /\ Cardinality(W!Holders) \in Nat
  BY FS_CardinalityType DEF WorkInv, WorkTypes, PoolIsWhole
<1>2. W!Holders = {k \in Jobs : job[k].at \in Holding}
      /\ W!Holders' = {k \in Jobs : job'[k].at \in Holding}
  <2>1. \A k \in Jobs : job[k].at \in JobPlaces /\ job'[k].at \in JobPlaces
    BY <1>1 DEF WorkInv, WorkTypes, JobType
  <2>2. QED
    BY <2>1 DEF W!Holders, Holding, JobPlaces
<1>9. PoolSize \in Nat
  BY WorkBounds DEF W!ReplayAssumption
<1>3. CASE /\ pool' = pool
           /\ j \in W!Holders <=> x.at \in Holding
  <2>1. W!Holders' = W!Holders
    BY <1>1, <1>2, <1>3
  <2>2. QED
    BY <1>3, <2>1 DEF WorkInv, PoolIsWhole
<1>4. CASE /\ pool' = pool - 1 /\ j \notin W!Holders
           /\ x.at \in Holding
  <2>1. W!Holders' = W!Holders \cup {j}
    BY <1>1, <1>2, <1>4
  <2>2. IsFiniteSet(W!Holders') /\ Cardinality(W!Holders') = Cardinality(W!Holders) + 1
    BY <1>1, <1>4, <2>1, FS_AddElement
  <2>3. QED
    BY <1>9, <1>1, <1>4, <2>2 DEF WorkInv, PoolIsWhole
<1>5. CASE /\ pool' = pool + 1 /\ j \in W!Holders
           /\ x.at \notin Holding
  <2>1. W!Holders' = W!Holders \ {j}
    BY <1>1, <1>2, <1>5
  <2>2. IsFiniteSet(W!Holders') /\ Cardinality(W!Holders') = Cardinality(W!Holders) - 1
    BY <1>1, <1>5, <2>1, FS_RemoveElement
  <2>3. QED
    BY <1>9, <1>1, <1>5, <2>2 DEF WorkInv, PoolIsWhole
<1>6. QED
  BY <1>3, <1>4, <1>5

\* A job goes on, and says what it said.
LEMMA GotoSays ==
    ASSUME WorkInv, NEW j \in Jobs, NEW spot, W!Goto(j, spot)
    PROVE  job' = [job EXCEPT ![j] = [job[j] EXCEPT !.status = job[j].status, !.at = spot]]
<1>1. job[j] \in JobType
  BY DEF WorkInv, WorkTypes
<1>2. [job[j] EXCEPT !.status = job[j].status, !.at = spot] = [job[j] EXCEPT !.at = spot]
  BY <1>1 DEF JobType
<1>3. QED
  BY <1>1, <1>2 DEF W!Goto

\* A step of a job that leaves the files, and takes it to no place where files
\* of its own matter.
LEMMA QuietJobStep ==
    ASSUME WorkInv, NEW j \in Jobs, NEW spot \in JobPlaces, NEW says \in JobSays,
           job' = [job EXCEPT ![j] = [job[j] EXCEPT !.status = says, !.at = spot]],
           spot \notin {"read", "open", "write", "create", "launch"},
           Tells(spot, says, jrun[j].at),
           UNCHANGED <<dataset, trail, jrun, jmet, pipeline>>,
           \/ pool' = pool /\ (job[j].at \in Holding <=> spot \in Holding)
           \/ pool' = pool - 1 /\ pool > 0 /\ job[j].at \notin Holding /\ spot \in Holding
           \/ pool' = pool + 1 /\ job[j].at \in Holding /\ spot \notin Holding
    PROVE  WorkInv'
<1> DEFINE x == [job[j] EXCEPT !.status = says, !.at = spot]
<1>1. /\ x \in JobType /\ x.at = spot /\ x.status = says
      /\ x.file = job[j].file /\ x.rows = job[j].rows
  BY DEF WorkInv, WorkTypes, JobType
<1>2. job' = [job EXCEPT ![j] = x]
  OBVIOUS
<1> HIDE DEF x
<1>3. job'[j] = x /\ \A k \in Jobs : k # j => job'[k] = job[k]
  BY <1>2 DEF WorkInv, WorkTypes
<1>4. j \in W!Holders <=> job[j].at \in Holding
  <2>1. job[j].at \in JobPlaces
    BY DEF WorkInv, WorkTypes, JobType
  <2>2. QED
    BY <2>1 DEF W!Holders, Holding, JobPlaces
<1>5. PoolIsWhole'
  <2>1. UNCHANGED pipeline
    OBVIOUS
  <2>2. QED
    BY <1>1, <1>2, <1>4, <2>1, PoolStep
<1>6. pool' \in Nat
  BY DEF WorkInv, WorkTypes
<1>7. WorkTypes'
  BY <1>1, <1>2, <1>6 DEF WorkInv, WorkTypes
<1>8. \A k \in Jobs : JobTells(k)'
  <2>1. ASSUME NEW k \in Jobs, k # j PROVE JobTells(k)'
    BY <1>3, <2>1 DEF WorkInv, JobTells
  <2>2. JobTells(j)'
    BY <1>1, <1>3 DEF JobTells
  <2>3. QED
    BY <2>1, <2>2
<1>9. \A k \in Jobs : Busy(k)' => Busy(k)
  BY <1>1, <1>3 DEF Busy
<1>10. ASSUME NEW k \in Jobs \ jmet' PROVE JobIsAlone(k)'
  <2>1. JobIsAlone(k) /\ k \in Jobs
    BY <1>10 DEF WorkInv
  <2>2. /\ job'[k].file = job[k].file /\ job'[k].rows = job[k].rows
        /\ job'[k].at \in {"read", "open", "write", "create", "launch"} => job'[k].at = job[k].at
    BY <1>1, <1>3, <2>1
  <2>3. QED
    BY <1>9, <2>1, <2>2 DEF JobIsAlone, W!Own
<1>11. QED
  BY <1>5, <1>7, <1>8, <1>10 DEF WorkInv

LEMMA QuietJob ==
    ASSUME WorkInv, NEW j \in Jobs,
           \/ W!Post(j) \/ W!Begin(j) \/ W!Acquire(j) \/ W!Raise(j) \/ W!Launch(j)
           \/ W!Release(j) \/ W!Report(j)
    PROVE  WorkInv'
<1>1. UNCHANGED <<dataset, trail, jrun, jmet, pipeline>>
  BY DEF W!Post, W!Begin, W!Acquire, W!Raise, W!Launch, W!Release, W!Report, W!Work
<1>2. Tells(job[j].at, job[j].status, jrun[j].at) /\ job[j].status \in JobSays
  BY DEF WorkInv, WorkTypes, JobType, JobTells
<1>3. PICK spot \in {"start", "acquire", "refused", "synthesize", "release", "report", "end"},
           says \in JobSays :
         /\ job' = [job EXCEPT ![j] = [job[j] EXCEPT !.status = says, !.at = spot]]
         /\ Tells(spot, says, jrun[j].at)
         /\ \/ pool' = pool /\ (job[j].at \in Holding <=> spot \in Holding)
            \/ pool' = pool - 1 /\ pool > 0 /\ job[j].at \notin Holding /\ spot \in Holding
            \/ pool' = pool + 1 /\ job[j].at \in Holding /\ spot \notin Holding
  <2>1. CASE W!Post(j)
    <3>1. job' = [job EXCEPT ![j] = [job[j] EXCEPT !.status = "queued", !.at = "start"]]
      BY <2>1 DEF W!Post
    <3>2. "queued" \in JobSays /\ pool' = pool /\ Tells("start", "queued", jrun[j].at)
          /\ job[j].at \notin Holding /\ "start" \notin Holding
      BY <1>2, <2>1 DEF W!Post, W!At, Tells, JobSays, Holding
    <3>3. QED
      BY <3>1, <3>2
  <2>2. CASE W!Begin(j)
    <3>1. job' = [job EXCEPT ![j] = [job[j] EXCEPT !.status = "running", !.at = "acquire"]]
      BY <2>2 DEF W!Begin
    <3>2. "running" \in JobSays /\ pool' = pool /\ Tells("acquire", "running", jrun[j].at)
          /\ job[j].at \notin Holding /\ "acquire" \notin Holding
      BY <1>2, <2>2 DEF W!Begin, W!At, Tells, JobSays, Holding
    <3>3. QED
      BY <3>1, <3>2
  <2>3. CASE W!Acquire(j)
    <3>1. job[j].at = "acquire" /\ job[j].at \notin Holding
      BY <2>3 DEF W!Acquire, W!At, Holding
    <3>2. CASE pool > 0
      <4>1. pool' = pool - 1 /\ W!Goto(j, "synthesize")
        BY <2>3, <3>2 DEF W!Acquire
      <4>2. Tells("synthesize", job[j].status, jrun[j].at) /\ "synthesize" \in Holding
        BY <1>2, <3>1 DEF Tells, Holding
      <4>3. QED
        BY <1>2, <3>1, <3>2, <4>1, <4>2, GotoSays
    <3>3. CASE ~(pool > 0)
      <4>1. pool' = pool /\ W!Goto(j, "refused")
        BY <2>3, <3>3 DEF W!Acquire
      <4>2. Tells("refused", job[j].status, jrun[j].at) /\ "refused" \notin Holding
        BY <1>2, <3>1 DEF Tells, Holding
      <4>3. QED
        BY <1>2, <3>1, <4>1, <4>2, GotoSays
    <3>4. QED
      BY <3>2, <3>3
  <2>4. CASE W!Raise(j)
    <3>1. job' = [job EXCEPT ![j] = [job[j] EXCEPT !.status = "error", !.at = "release"]]
      BY <2>4 DEF W!Raise
    <3>2. "error" \in JobSays /\ pool' = pool /\ Tells("release", "error", jrun[j].at)
          /\ job[j].at \in Holding /\ "release" \in Holding
      BY <1>2, <2>4 DEF W!Raise, W!At, Tells, JobSays, Holding
    <3>3. QED
      BY <3>1, <3>2
  <2>5. CASE W!Launch(j)
    <3>1. W!Goto(j, "release") /\ pool' = pool /\ job[j].at = "launch"
      BY <2>5 DEF W!Launch, W!At
    <3>2. Tells("release", job[j].status, jrun[j].at)
          /\ job[j].at \in Holding /\ "release" \in Holding
      BY <1>2, <3>1 DEF Tells, Holding
    <3>3. QED
      BY <1>2, <3>1, <3>2, GotoSays
  <2>6. CASE W!Release(j)
    <3>1. job[j].at = "release" /\ pool' = pool + 1 /\ job[j].at \in Holding
      BY <2>6 DEF W!Release, W!At, Holding
    <3>2. PICK spot \in {"report", "end"} :
             W!Goto(j, spot) /\ spot = IF job[j].status = "error" THEN "end" ELSE "report"
      BY <2>6 DEF W!Release
    <3>3. Tells(spot, job[j].status, jrun[j].at) /\ spot \notin Holding
      BY <1>2, <3>1, <3>2 DEF Tells, Holding
    <3>4. QED
      BY <1>2, <3>1, <3>2, <3>3, GotoSays
  <2>7. CASE W!Report(j)
    <3>1. job' = [job EXCEPT ![j] = [job[j] EXCEPT !.status = "done", !.at = "end"]]
      BY <2>7 DEF W!Report
    <3>2. "done" \in JobSays /\ pool' = pool /\ Tells("end", "done", jrun[j].at)
          /\ job[j].at \notin Holding /\ "end" \notin Holding
      BY <1>2, <2>7 DEF W!Report, W!At, Tells, JobSays, Holding
    <3>3. QED
      BY <3>1, <3>2
  <2>8. QED
    BY <2>1, <2>2, <2>3, <2>4, <2>5, <2>6, <2>7
<1>4. spot \in JobPlaces /\ spot \notin {"read", "open", "write", "create", "launch"}
  BY DEF JobPlaces
<1>5. QED
  BY <1>1, <1>3, <1>4, QuietJobStep

\* A job that is at work on its files, and those it met.
LEMMA MeetsOthers ==
    ASSUME WorkInv, NEW j \in Jobs, W!Meet(j)
    PROVE  /\ jmet \subseteq jmet'
           /\ \A k \in Jobs : k # j /\ Busy(k) => k \in jmet' /\ j \in jmet'
<1>1. W!Others(j) = {k \in Jobs \ {j} : Busy(k)}
  <2>1. \A k \in Jobs : k \in W!Active <=> jrun[k].at \in {"queued", "verified", "reading"}
    BY DEF W!Active
  <2>2. QED
    BY <2>1 DEF W!Others, Busy
<1>2. QED
  BY <1>1 DEF W!Meet

LEMMA SynthesizeStep ==
    ASSUME WorkInv, NEW j \in Jobs, W!Synthesize(j)
    PROVE  WorkInv'
<1> DEFINE x == [job[j] EXCEPT !.at = "read", !.file = IF parts = 1 THEN "audit" ELSE "combined"]
<1>1. /\ x \in JobType /\ x.at = "read" /\ x.status = job[j].status /\ job[j].at = "synthesize"
  BY DEF W!Synthesize, W!At, WorkInv, WorkTypes, JobType, JobPlaces
<1>2. /\ job' = [job EXCEPT ![j] = x] /\ dataset' = j
      /\ UNCHANGED <<trail, jrun, pipeline, pool>>
  BY DEF W!Synthesize, W!Work
<1> HIDE DEF x
<1>3. job'[j] = x /\ \A k \in Jobs : k # j => job'[k] = job[k]
  BY <1>2 DEF WorkInv, WorkTypes
<1>4. /\ jmet \subseteq jmet'
      /\ \A k \in Jobs : k # j /\ Busy(k) => k \in jmet' /\ j \in jmet'
  BY MeetsOthers DEF W!Synthesize
<1>5. PoolIsWhole'
  <2>1. j \in W!Holders /\ x.at \in Holding
    BY <1>1 DEF W!Holders, Holding
  <2>2. QED
    BY <1>1, <1>2, <2>1, PoolStep
<1>6. WorkTypes'
  BY <1>1, <1>2 DEF WorkInv, WorkTypes, Writers
<1>7. Tells(job[j].at, job[j].status, jrun[j].at)
  BY DEF WorkInv, JobTells
<1>8. \A k \in Jobs : JobTells(k)'
  <2>1. ASSUME NEW k \in Jobs, k # j PROVE JobTells(k)'
    BY <1>2, <1>3, <2>1 DEF WorkInv, JobTells
  <2>2. JobTells(j)'
    BY <1>1, <1>2, <1>3, <1>7 DEF JobTells, Tells
  <2>3. QED
    BY <2>1, <2>2
<1>9. \A k \in Jobs : k # j => (Busy(k)' <=> Busy(k))
  BY <1>2, <1>3 DEF Busy
<1>10. ASSUME NEW k \in Jobs \ jmet', k # j PROVE JobIsAlone(k)'
  <2>1. JobIsAlone(k) /\ ~Busy(k) /\ ~Busy(k)' /\ job'[k] = job[k]
    BY <1>3, <1>4, <1>9, <1>10 DEF WorkInv
  <2>2. job'[k].at \notin {"read", "open", "write", "create", "launch"}
    BY <2>1 DEF Busy
  <2>3. QED
    BY <1>2, <2>1, <2>2 DEF JobIsAlone, Busy, W!Own
<1>11. ASSUME j \notin jmet' PROVE JobIsAlone(j)'
  <2>1. \A k \in Jobs : Busy(k)' => k = j
    BY <1>4, <1>9, <1>11
  <2>2. jrun'[j].at = "none"
    BY <1>1, <1>2, <1>7 DEF Tells
  <2>3. QED
    BY <1>1, <1>2, <1>3, <2>1, <2>2 DEF JobIsAlone
<1>12. QED
  BY <1>5, <1>6, <1>8, <1>10, <1>11 DEF WorkInv

\* A step of a job that is at work on its files: nobody else's matter then.
LEMMA FileStep ==
    ASSUME WorkInv, NEW j \in Jobs, NEW x \in JobType, job' = [job EXCEPT ![j] = x],
           job[j].at \in {"read", "open", "write"}, x.at \in {"open", "write", "create"},
           x.status = job[j].status, x.file = job[j].file,
           trail' \in [{"audit", "combined"} -> TrailFile],
           UNCHANGED <<dataset, jrun, pipeline, pool>>, jmet \subseteq jmet',
           j \notin jmet' =>
               /\ x.rows = j
               /\ x.at = "write" /\ x.file = "audit" =>
                     trail'["audit"].writer = j /\ trail'["audit"].rows = j
               /\ x.at = "create" /\ x.file = "audit" => trail'["audit"] = W!Own(j)
    PROVE  WorkInv'
<1>1. job'[j] = x /\ \A k \in Jobs : k # j => job'[k] = job[k]
  BY DEF WorkInv, WorkTypes
<1>2. PoolIsWhole'
  <2>1. j \in W!Holders /\ x.at \in Holding
    BY DEF W!Holders, Holding
  <2>2. pool' = pool /\ UNCHANGED pipeline
    OBVIOUS
  <2>3. QED
    BY <2>1, <2>2, PoolStep
<1>3. WorkTypes'
  BY DEF WorkInv, WorkTypes
<1>4. Tells(job[j].at, job[j].status, jrun[j].at)
  BY DEF WorkInv, JobTells
<1>5. \A k \in Jobs : JobTells(k)'
  <2>1. ASSUME NEW k \in Jobs, k # j PROVE JobTells(k)'
    BY <1>1, <2>1 DEF WorkInv, JobTells
  <2>2. JobTells(j)'
    BY <1>1, <1>4 DEF JobTells, Tells
  <2>3. QED
    BY <2>1, <2>2
<1>6. Busy(j) /\ \A k \in Jobs : Busy(k)' <=> Busy(k)
  BY <1>1 DEF Busy
<1>7. ASSUME NEW k \in Jobs \ jmet', k # j PROVE JobIsAlone(k)'
  <2>1. JobIsAlone(k) /\ ~Busy(k) /\ ~Busy(k)' /\ job'[k] = job[k]
    BY <1>1, <1>6, <1>7 DEF WorkInv, JobIsAlone
  <2>2. job'[k].at \notin {"read", "open", "write", "create", "launch"}
    BY <2>1 DEF Busy
  <2>3. QED
    BY <2>1, <2>2 DEF JobIsAlone, Busy, W!Own
<1>8. ASSUME j \notin jmet' PROVE JobIsAlone(j)'
  <2>1. \A k \in Jobs : Busy(k)' => k = j
    BY <1>6, <1>8 DEF WorkInv, JobIsAlone
  <2>2. jrun'[j].at = "none"
    BY <1>4 DEF Tells
  <2>3. QED
    BY <1>1, <1>8, <2>1, <2>2 DEF JobIsAlone
<1>9. QED
  BY <1>2, <1>3, <1>5, <1>7, <1>8 DEF WorkInv

LEMMA ReadDatasetStep ==
    ASSUME WorkInv, NEW j \in Jobs, W!ReadDataset(j)
    PROVE  WorkInv'
<1> DEFINE x == [job[j] EXCEPT !.at = "open", !.rows = dataset]
<1>1. /\ x \in JobType /\ x.at = "open" /\ x.status = job[j].status /\ x.file = job[j].file
      /\ x.rows = dataset /\ job[j].at = "read"
  BY DEF W!ReadDataset, W!At, WorkInv, WorkTypes, JobType, JobPlaces
<1>2. /\ job' = [job EXCEPT ![j] = x]
      /\ UNCHANGED <<dataset, trail, jrun, pipeline, pool, jmet>>
  BY DEF W!ReadDataset, W!Work
<1> HIDE DEF x
<1>3. trail' \in [{"audit", "combined"} -> TrailFile]
  BY <1>2 DEF WorkInv, WorkTypes
<1>4. j \notin jmet' => x.rows = j
  BY <1>1, <1>2 DEF WorkInv, JobIsAlone
<1>5. QED
  BY <1>1, <1>2, <1>3, <1>4, FileStep

LEMMA OpenTrailStep ==
    ASSUME WorkInv, NEW j \in Jobs, W!OpenTrail(j)
    PROVE  WorkInv'
<1> DEFINE x == [job[j] EXCEPT !.at = "write"]
           y == [writer |-> j, rows |-> job[j].rows, whole |-> FALSE]
<1>1. /\ x \in JobType /\ x.at = "write" /\ x.status = job[j].status /\ x.file = job[j].file
      /\ x.rows = job[j].rows /\ job[j].at = "open" /\ job[j].file \in {"audit", "combined"}
  BY DEF W!OpenTrail, W!At, WorkInv, WorkTypes, JobType, JobPlaces
<1>2. y \in TrailFile /\ y.writer = j /\ y.rows = job[j].rows
  BY DEF TrailFile, Writers, WorkInv, WorkTypes, JobType
<1>3. /\ job' = [job EXCEPT ![j] = x] /\ trail' = [trail EXCEPT ![job[j].file] = y]
      /\ UNCHANGED <<dataset, jrun, pipeline, pool>>
  BY DEF W!OpenTrail, W!Work, W!Goto
<1> HIDE DEF x, y
<1>4. trail' \in [{"audit", "combined"} -> TrailFile]
      /\ (job[j].file = "audit" => trail'["audit"] = y)
  BY <1>1, <1>2, <1>3 DEF WorkInv, WorkTypes
<1>5. jmet \subseteq jmet'
  BY MeetsOthers DEF W!OpenTrail
<1>6. j \notin jmet' => job[j].rows = j
  BY <1>1, <1>5 DEF WorkInv, JobIsAlone
<1>7. QED
  BY <1>1, <1>2, <1>3, <1>4, <1>5, <1>6, FileStep

LEMMA WriteTrailStep ==
    ASSUME WorkInv, NEW j \in Jobs, W!WriteTrail(j)
    PROVE  WorkInv'
<1> DEFINE x == [job[j] EXCEPT !.at = "create"]
           y == [trail[job[j].file] EXCEPT !.whole = (trail[job[j].file].writer = j)]
<1>1. /\ x \in JobType /\ x.at = "create" /\ x.status = job[j].status /\ x.file = job[j].file
      /\ x.rows = job[j].rows /\ job[j].at = "write" /\ job[j].file \in {"audit", "combined"}
  BY DEF W!WriteTrail, W!At, WorkInv, WorkTypes, JobType, JobPlaces
<1>2. /\ y \in TrailFile
      /\ trail[job[j].file].writer = j /\ trail[job[j].file].rows = j => y = W!Own(j)
  <2>1. trail[job[j].file] \in TrailFile
    BY <1>1 DEF WorkInv, WorkTypes
  <2>2. PICK own \in BOOLEAN : own = (trail[job[j].file].writer = j)
    OBVIOUS
  <2>3. y = [trail[job[j].file] EXCEPT !.whole = own]
    BY <2>2
  <2>4. [trail[job[j].file] EXCEPT !.whole = own] \in TrailFile
    BY <2>1 DEF TrailFile
  <2>5. ASSUME trail[job[j].file].writer = j, trail[job[j].file].rows = j PROVE y = W!Own(j)
    <3>1. own = TRUE
      BY <2>2, <2>5
    <3>2. y = [trail[job[j].file] EXCEPT !.whole = TRUE]
      BY <2>3, <3>1
    <3>3. \A w : [trail[job[j].file] EXCEPT !.whole = w] = [writer |-> j, rows |-> j, whole |-> w]
      BY <2>1, <2>5 DEF TrailFile
    <3>4. QED
      BY <3>2, <3>3, Zenon DEF W!Own
  <2>6. QED
    BY <2>3, <2>4, <2>5
<1>3. /\ job' = [job EXCEPT ![j] = x] /\ trail' = [trail EXCEPT ![job[j].file] = y]
      /\ UNCHANGED <<dataset, jrun, pipeline, pool, jmet>>
  BY DEF W!WriteTrail, W!Work, W!Goto
<1> HIDE DEF x, y
<1>4. trail' \in [{"audit", "combined"} -> TrailFile]
      /\ (job[j].file = "audit" => trail'["audit"] = y)
  BY <1>1, <1>2, <1>3 DEF WorkInv, WorkTypes
<1>5. j \notin jmet' => job[j].rows = j /\ (job[j].file = "audit" => trail'["audit"] = W!Own(j))
  BY <1>1, <1>2, <1>3, <1>4 DEF WorkInv, JobIsAlone
<1>6. QED
  BY <1>1, <1>3, <1>4, <1>5, FileStep

LEMMA CreateStep ==
    ASSUME WorkInv, NEW j \in Jobs, W!Create(j)
    PROVE  WorkInv'
<1> DEFINE x == [job[j] EXCEPT !.at = "launch"]
           y == [at |-> "queued", hint |-> W!Hint, read |-> {}]
<1>1. /\ x \in JobType /\ x.at = "launch" /\ x.status = job[j].status /\ x.file = job[j].file
      /\ x.rows = job[j].rows /\ job[j].at = "create"
  BY DEF W!Create, W!At, WorkInv, WorkTypes, JobType, JobPlaces
<1>2. y \in RunOf /\ y.at = "queued" /\ y.read = {}
  <2>1. trail["audit"] \in TrailFile
    BY DEF WorkInv, WorkTypes
  <2>2. W!Hint \in Writers
    BY <2>1 DEF W!Hint, W!Audit, TrailFile, Writers
  <2>3. QED
    BY <2>2 DEF RunOf, RunPlaces
<1>3. /\ job' = [job EXCEPT ![j] = x] /\ jrun' = [jrun EXCEPT ![j] = y]
      /\ UNCHANGED <<dataset, trail, pipeline, pool, jmet>>
  BY DEF W!Create, W!Goto
<1> HIDE DEF x, y
<1>4. /\ job'[j] = x /\ jrun'[j] = y
      /\ \A k \in Jobs : k # j => job'[k] = job[k] /\ jrun'[k] = jrun[k]
  BY <1>3 DEF WorkInv, WorkTypes
<1>5. PoolIsWhole'
  <2>1. j \in W!Holders /\ x.at \in Holding
    BY <1>1 DEF W!Holders, Holding
  <2>2. QED
    BY <1>1, <1>3, <2>1, PoolStep
<1>6. WorkTypes'
  BY <1>1, <1>2, <1>3 DEF WorkInv, WorkTypes
<1>7. Tells(job[j].at, job[j].status, jrun[j].at)
  BY DEF WorkInv, JobTells
<1>8. \A k \in Jobs : JobTells(k)'
  <2>1. ASSUME NEW k \in Jobs, k # j PROVE JobTells(k)'
    BY <1>4, <2>1 DEF WorkInv, JobTells
  <2>2. JobTells(j)'
    BY <1>1, <1>2, <1>4, <1>7 DEF JobTells, Tells
  <2>3. QED
    BY <2>1, <2>2
<1>9. Busy(j) /\ \A k \in Jobs : Busy(k)' <=> Busy(k)
  BY <1>1, <1>2, <1>4 DEF Busy
<1>10. ASSUME NEW k \in Jobs \ jmet', k # j PROVE JobIsAlone(k)'
  <2>1. /\ JobIsAlone(k) /\ ~Busy(k) /\ ~Busy(k)' /\ job'[k] = job[k] /\ jrun'[k] = jrun[k]
    BY <1>3, <1>4, <1>9, <1>10 DEF WorkInv, JobIsAlone
  <2>2. job'[k].at \notin {"read", "open", "write", "create", "launch"}
    BY <2>1 DEF Busy
  <2>3. QED
    BY <2>1, <2>2 DEF JobIsAlone, Busy, W!Own
<1>11. ASSUME j \notin jmet' PROVE JobIsAlone(j)'
  <2>1. JobIsAlone(j)
    BY <1>3, <1>11 DEF WorkInv
  <2>2. \A k \in Jobs : Busy(k)' => k = j
    BY <1>9, <2>1 DEF JobIsAlone
  <2>3. QED
    BY <1>1, <1>2, <1>3, <1>4, <2>1, <2>2 DEF JobIsAlone, W!Own
<1>12. QED
  BY <1>5, <1>6, <1>8, <1>10, <1>11 DEF WorkInv

\* The run of a job: it stays where it is in the trail, or reads more of it.
LEMMA RunStep ==
    ASSUME WorkInv, NEW j \in Jobs, W!Run(j)
    PROVE  WorkInv'
<1>1. UNCHANGED <<dataset, trail, job, pipeline, pool, jmet>>
  BY DEF W!Run, W!Verify, W!Read, W!Fail, W!Base
<1>2. trail["audit"] \in TrailFile /\ jrun[j] \in RunOf
  BY DEF WorkInv, WorkTypes
<1>3. PICK y \in RunOf :
         /\ jrun' = [jrun EXCEPT ![j] = y]
         /\ jrun[j].at \in {"queued", "verified", "reading"} /\ y.at \notin {"none", "queued"}
         /\ y.read \subseteq jrun[j].read \cup {trail["audit"]}
  <2>1. CASE W!Verify(j) \/ W!Fail(j)
    <3>1. PICK spot \in {"verified", "failed"} :
             /\ jrun' = [jrun EXCEPT ![j] = [jrun[j] EXCEPT !.at = spot]]
             /\ jrun[j].at \in {"queued", "verified", "reading"}
      BY <2>1 DEF W!Verify, W!Fail, W!RunTo
    <3>2. /\ [jrun[j] EXCEPT !.at = spot] \in RunOf /\ [jrun[j] EXCEPT !.at = spot].at = spot
          /\ [jrun[j] EXCEPT !.at = spot].read = jrun[j].read
      BY <1>2 DEF RunOf, RunPlaces
    <3>3. QED
      BY <3>1, <3>2
  <2>2. CASE W!Read(j)
    <3>1. PICK spot \in {"reading", "success"}, what \in {{trail["audit"]}, jrun[j].read \cup {trail["audit"]}} :
             /\ jrun' = [jrun EXCEPT ![j] = [jrun[j] EXCEPT !.at = spot, !.read = what]]
             /\ jrun[j].at \in {"queued", "verified", "reading"}
      BY <2>2 DEF W!Read, W!Audit
    <3>2. what \in SUBSET TrailFile /\ what \subseteq jrun[j].read \cup {trail["audit"]}
      BY <1>2, <3>1 DEF RunOf
    <3>3. /\ [jrun[j] EXCEPT !.at = spot, !.read = what] \in RunOf
          /\ [jrun[j] EXCEPT !.at = spot, !.read = what].at = spot
          /\ [jrun[j] EXCEPT !.at = spot, !.read = what].read = what
      BY <1>2, <3>2 DEF RunOf, RunPlaces
    <3>4. QED
      BY <3>1, <3>2, <3>3
  <2>3. QED
    BY <2>1, <2>2 DEF W!Run
<1>4. /\ jrun'[j] = y /\ \A k \in Jobs : k # j => jrun'[k] = jrun[k]
  BY <1>3 DEF WorkInv, WorkTypes
<1>5. WorkTypes'
  BY <1>1, <1>3 DEF WorkInv, WorkTypes
<1>6. PoolIsWhole'
  BY <1>1 DEF WorkInv, PoolIsWhole, W!Holders
<1>7. \A k \in Jobs : JobTells(k)'
  <2>1. ASSUME NEW k \in Jobs PROVE (jrun'[k].at = "none") = (jrun[k].at = "none")
    BY <1>3, <1>4, <2>1
  <2>2. ASSUME NEW k \in Jobs PROVE JobTells(k)'
    <3>1. Tells(job[k].at, job[k].status, jrun[k].at)
      BY <2>2 DEF WorkInv, JobTells
    <3>2. QED
      BY <1>1, <2>1, <2>2, <3>1 DEF JobTells, Tells
  <2>3. QED
    BY <2>2
<1>8. Busy(j) /\ \A k \in Jobs : Busy(k)' => Busy(k)
  BY <1>1, <1>3, <1>4 DEF Busy
<1>9. ASSUME NEW k \in Jobs \ jmet', k # j PROVE JobIsAlone(k)'
  <2>1. JobIsAlone(k) /\ jrun'[k] = jrun[k]
    BY <1>1, <1>4, <1>9 DEF WorkInv
  <2>2. QED
    BY <1>1, <1>8, <2>1 DEF JobIsAlone, W!Own
<1>10. ASSUME j \notin jmet' PROVE JobIsAlone(j)'
  <2>1. JobIsAlone(j)
    BY <1>1, <1>10 DEF WorkInv
  <2>2. \A k \in Jobs : Busy(k)' => k = j
    BY <1>8, <2>1 DEF JobIsAlone
  <2>3. job[j].file = "audit" => trail["audit"] = W!Own(j) /\ y.read \subseteq {W!Own(j)}
    BY <1>3, <2>1 DEF JobIsAlone
  <2>4. QED
    BY <1>1, <1>4, <2>1, <2>2, <2>3 DEF JobIsAlone, W!Own
<1>11. QED
  BY <1>5, <1>6, <1>7, <1>9, <1>10 DEF WorkInv

\* A pipeline loses no connection before it begins to analyse.
LEMMA PipelineStep ==
    ASSUME WorkInv, NEW p \in Pipelines, W!Pipeline(p)
    PROVE  WorkInv'
<1>1. UNCHANGED <<dataset, trail, job, jrun, jmet>>
  BY DEF W!Pipeline, W!CreateRow, W!Take, W!Progress, W!Analyse, W!AnalyseRaises, W!Mark,
     W!MarkFailed, W!Rest
<1>2. pool' \in Nat
  BY DEF W!Pipeline, W!CreateRow, W!Take, W!Progress, W!Analyse, W!AnalyseRaises, W!Mark,
     W!MarkFailed, WorkInv, WorkTypes
<1>3. DOMAIN pipeline' = Pipelines
  BY DEF W!Pipeline, W!CreateRow, W!Take, W!Progress, W!Analyse, W!AnalyseRaises, W!Mark,
     W!MarkFailed, W!PipelineTo, WorkInv, WorkTypes
<1>4. WorkTypes'
  BY <1>1, <1>2, <1>3 DEF WorkInv, WorkTypes
<1>5. (\A q \in Pipelines : pipeline'[q].at \in {"none", "acquire"}) =>
         pool' = pool /\ \A q \in Pipelines : pipeline[q].at \in {"none", "acquire"}
  <2>1. CASE W!CreateRow(p)
    <3>1. /\ pool' = pool /\ pipeline[p].at = "none"
          /\ \A q \in Pipelines : q # p => pipeline'[q] = pipeline[q]
      BY <2>1 DEF W!CreateRow, W!PipelineAt, W!PipelineTo, WorkInv, WorkTypes
    <3>2. QED
      BY <3>1
  <2>2. CASE \/ W!Take(p) \/ W!Progress(p) \/ W!Analyse(p) \/ W!AnalyseRaises(p) \/ W!Mark(p)
             \/ W!MarkFailed(p)
    <3>1. pipeline'[p].at \notin {"none", "acquire"}
      BY <2>2 DEF W!Take, W!Progress, W!Analyse, W!AnalyseRaises, W!Mark, W!MarkFailed,
         W!PipelineAt, W!PipelineTo, WorkInv, WorkTypes
    <3>2. QED
      BY <3>1
  <2>3. QED
    BY <2>1, <2>2 DEF W!Pipeline
<1>6. PoolIsWhole'
  <2>1. W!Holders' = W!Holders
    BY <1>1 DEF W!Holders
  <2>2. QED
    BY <1>5, <2>1 DEF WorkInv, PoolIsWhole
<1>7. QED
  BY <1>1, <1>4, <1>6 DEF WorkInv, JobTells, JobIsAlone, Busy, W!Own

LEMMA WorkKeeps == WorkInv /\ [W!Next]_(W!vars) => WorkInv'
<1> SUFFICES ASSUME WorkInv, [W!Next]_(W!vars) PROVE WorkInv'
  OBVIOUS
<1>1. CASE W!Rotate \/ UNCHANGED W!vars
  <2>1. UNCHANGED <<dataset, trail, job, jrun, pool, pipeline, jmet>>
    BY <1>1 DEF W!Rotate, W!vars
  <2>2. QED
    BY <2>1 DEF WorkInv, WorkTypes, JobTells, JobIsAlone, Busy, W!Own, PoolIsWhole, W!Holders
<1>2. ASSUME NEW j \in Jobs, W!Job(j) PROVE WorkInv'
  BY <1>2, QuietJob, SynthesizeStep, ReadDatasetStep, OpenTrailStep, WriteTrailStep, CreateStep
     DEF W!Job
<1>3. QED
  BY <1>1, <1>2, RunStep, PipelineStep DEF W!Next

LEMMA WorkIsSound == WorkInv => W!JobsAreSound
<1> SUFFICES ASSUME WorkInv PROVE W!JobsAreSound
  OBVIOUS
<1>1. W!AloneIsOwn
  BY DEF WorkInv, JobIsAlone, W!AloneIsOwn
<1>2. W!JobsReport
  BY DEF WorkInv, JobTells, Tells, W!JobsReport, W!At
<1>3. W!ConnectionsReturn
  BY WorkSize DEF WorkInv, PoolIsWhole, W!ConnectionsReturn
<1>4. QED
  BY <1>1, <1>2, <1>3 DEF W!JobsAreSound

-----------------------------------------------------------------------------
(* Schedules (synthetic/scheduler.py and synthetic/stress_runner.py).      *)

LEMMA ScheduleSize == \A Group : H!Cardinality(Group) = Cardinality(Group)
BY DEF H!Cardinality, Cardinality

StressRun == [began : SUBSET SeededSessions, ended : SUBSET SeededSessions,
              joined : SUBSET SeededSessions, completed : Nat, failed : Nat]
ScheduleRow == [run : Nat, completed : Nat, failed : Nat, regression : BOOLEAN]
LoopType == [pc : {"off", "check", "sleep", "run", "stamp"}, run : Nat]

ScheduleTypes ==
    /\ loop \in [Loops -> LoopType]
    /\ due \in BOOLEAN /\ restarted \in BOOLEAN /\ elapsed \in Nat
    /\ sruns \in Seq(StressRun)
    /\ rows \in Seq(ScheduleRow)
    /\ \A k \in 1..Len(rows) : rows[k].run \in 1..Len(sruns)
    /\ \A l \in Loops : loop[l].pc = "run" => loop[l].run \in 1..Len(sruns)

\* While one loop is at work, it writes a row only after the interval has gone
\* by, which it takes note of before it looks again.
LoopIsAlone ==
    ~restarted =>
        /\ \A l, m \in Loops : loop[l].pc # "off" /\ loop[m].pc # "off" => l = m
        /\ \A l \in Loops : loop[l].pc \in {"run", "stamp"} => due
        /\ Len(rows) <= elapsed + 1
        /\ due /\ (\A l \in Loops : loop[l].pc # "stamp") => Len(rows) <= elapsed

\* A run counts every session that ended, once.
Counted(r) == IsFiniteSet(r.ended) /\ r.completed + r.failed <= Cardinality(r.ended)

ScheduleInv ==
    /\ ScheduleTypes
    /\ LoopIsAlone
    /\ \A r \in 1..Len(sruns) : Counted(sruns[r])
    /\ \A k \in 1..Len(rows) :
          rows[k].completed + rows[k].failed <= Cardinality(sruns[rows[k].run].ended)
    /\ H!RegressionsAreChained

LEMMA ScheduleStarts == H!Init => ScheduleInv
<1> SUFFICES ASSUME H!Init PROVE ScheduleInv
  OBVIOUS
<1>1. /\ loop = [l \in Loops |-> H!Off] /\ due = TRUE /\ restarted = FALSE /\ elapsed = 0
      /\ sruns = <<>> /\ rows = <<>>
  BY DEF H!Init
<1>2. Len(sruns) = 0 /\ Len(rows) = 0 /\ sruns \in Seq(StressRun) /\ rows \in Seq(ScheduleRow)
  BY <1>1
<1>3. H!Off \in LoopType /\ H!Off.pc = "off"
  BY DEF H!Off, LoopType
<1>4. ScheduleTypes
  <2>1. loop \in [Loops -> LoopType] /\ \A l \in Loops : loop[l].pc = "off"
    BY <1>1, <1>3
  <2>2. due \in BOOLEAN /\ restarted \in BOOLEAN /\ elapsed \in Nat
    BY <1>1
  <2>3. QED
    BY <1>2, <2>1, <2>2 DEF ScheduleTypes
<1>5. LoopIsAlone
  BY <1>1, <1>2, <1>3 DEF LoopIsAlone
<1>6. H!RegressionsAreChained
  BY <1>1 DEF H!RegressionsAreChained
<1>7. QED
  BY <1>2, <1>4, <1>5, <1>6 DEF ScheduleInv

\* A step that leaves the runs and the rows.
LEMMA LoopingStep ==
    ASSUME ScheduleInv, ScheduleTypes', LoopIsAlone', UNCHANGED <<sruns, rows>>
    PROVE  ScheduleInv'
<1>1. H!RegressionsAreChained'
  BY DEF ScheduleInv, H!RegressionsAreChained, H!Worse
<1>2. QED
  BY <1>1 DEF ScheduleInv, Counted

LEMMA SchedulerStep ==
    ASSUME ScheduleInv, H!Start \/ H!Stop \/ H!Elapse
    PROVE  ScheduleInv'
<1>1. CASE H!Start
  <2>1. PICK l \in Loops : loop[l].pc = "off" /\ loop' = [loop EXCEPT ![l].pc = "check"]
    BY <1>1 DEF H!Start, H!At
  <2>2. /\ restarted' = (restarted \/ \E m \in Loops : loop[m].pc # "off")
        /\ UNCHANGED <<due, elapsed, sruns, rows>>
    BY <1>1 DEF H!Start
  <2>3. loop' \in [Loops -> LoopType] /\ loop'[l].pc = "check"
        /\ \A m \in Loops : m # l => loop'[m] = loop[m]
    BY <2>1 DEF ScheduleInv, ScheduleTypes, LoopType
  <2>4. ScheduleTypes'
    BY <2>2, <2>3 DEF ScheduleInv, ScheduleTypes
  <2>5. LoopIsAlone'
    <3>1. SUFFICES ASSUME ~restarted' PROVE LoopIsAlone'
      BY DEF LoopIsAlone
    <3>2. ~restarted /\ \A m \in Loops : loop[m].pc = "off"
      BY <2>2, <3>1 DEF ScheduleInv, ScheduleTypes
    <3>3. \A m \in Loops : loop'[m].pc # "off" => m = l
      BY <2>3, <3>2
    <3>4. \A m \in Loops : loop'[m].pc \notin {"run", "stamp"} /\ loop[m].pc # "stamp"
      BY <2>3, <3>2
    <3>5. QED
      BY <2>2, <3>2, <3>3, <3>4 DEF ScheduleInv, LoopIsAlone
  <2>6. QED
    BY <2>2, <2>4, <2>5, LoopingStep
<1>2. CASE H!Stop
  <2>1. UNCHANGED <<loop, due, elapsed, sruns, rows, restarted>>
    BY <1>2 DEF H!Stop
  <2>2. ScheduleTypes' /\ LoopIsAlone'
    BY <2>1 DEF ScheduleInv, ScheduleTypes, LoopIsAlone
  <2>3. QED
    BY <2>1, <2>2, LoopingStep
<1>3. CASE H!Elapse
  <2>1. /\ due = FALSE /\ due' = TRUE /\ elapsed' = elapsed + 1
        /\ UNCHANGED <<loop, sruns, rows, restarted>>
    BY <1>3 DEF H!Elapse, ScheduleInv, ScheduleTypes
  <2>2. ScheduleTypes'
    BY <2>1 DEF ScheduleInv, ScheduleTypes
  <2>3. LoopIsAlone'
    <3>1. Len(rows) \in Nat /\ elapsed \in Nat
      BY DEF ScheduleInv, ScheduleTypes
    <3>2. QED
      BY <2>1, <3>1 DEF ScheduleInv, LoopIsAlone
  <2>4. QED
    BY <2>1, <2>2, <2>3, LoopingStep
<1>4. QED
  BY <1>1, <1>2, <1>3

\* A loop takes a step, without a row.
LEMMA LoopStep ==
    ASSUME ScheduleInv, NEW l \in Loops, NEW y \in LoopType, loop' = [loop EXCEPT ![l] = y],
           loop[l].pc # "off", y.pc # "stamp",
           y.pc = "run" => due' /\ y.run \in 1..Len(sruns'),
           due' \in BOOLEAN, due' => due /\ loop[l].pc # "stamp",
           due' # due => loop[l].pc = "stamp",
           UNCHANGED <<elapsed, rows, restarted>>,
           \/ sruns' = sruns
           \/ sruns' = Append(sruns, H!Fresh)
    PROVE  ScheduleInv'
<1>1. /\ loop'[l] = y /\ \A m \in Loops : m # l => loop'[m] = loop[m]
      /\ loop' \in [Loops -> LoopType]
  BY DEF ScheduleInv, ScheduleTypes
<1>2. H!Fresh \in StressRun /\ Counted(H!Fresh)
  <2>1. H!Fresh \in StressRun /\ H!Fresh.ended = {} /\ H!Fresh.completed = 0 /\ H!Fresh.failed = 0
    BY DEF H!Fresh, StressRun
  <2>2. IsFiniteSet({}) /\ Cardinality({}) = 0
    BY FS_EmptySet
  <2>3. QED
    BY <2>1, <2>2 DEF Counted
<1>3. /\ sruns' \in Seq(StressRun) /\ Len(sruns') >= Len(sruns)
      /\ \A r \in 1..Len(sruns) : sruns'[r] = sruns[r]
      /\ \A r \in 1..Len(sruns') : Counted(sruns'[r])
  <2>1. CASE sruns' = sruns
    BY <2>1 DEF ScheduleInv, ScheduleTypes
  <2>2. CASE sruns' = Append(sruns, H!Fresh)
    <3>1. /\ sruns' \in Seq(StressRun) /\ Len(sruns') = Len(sruns) + 1
          /\ \A r \in 1..Len(sruns) : sruns'[r] = sruns[r]
          /\ sruns'[Len(sruns) + 1] = H!Fresh
          /\ Len(sruns) \in Nat
      BY <1>2, <2>2 DEF ScheduleInv, ScheduleTypes
    <3>2. \A r \in 1..Len(sruns') : r \in 1..Len(sruns) \/ r = Len(sruns) + 1
      BY <3>1
    <3>3. \A r \in 1..Len(sruns') : Counted(sruns'[r])
      BY <1>2, <3>1, <3>2 DEF ScheduleInv
    <3>4. QED
      BY <3>1, <3>3
  <2>3. QED
    BY <2>1, <2>2
<1>4. Len(sruns) \in Nat /\ Len(sruns') \in Nat /\ 1..Len(sruns) \subseteq 1..Len(sruns')
  BY <1>3 DEF ScheduleInv, ScheduleTypes
<1>5. ScheduleTypes'
  BY <1>1, <1>3, <1>4 DEF ScheduleInv, ScheduleTypes
<1>6. LoopIsAlone'
  <2>1. SUFFICES ASSUME ~restarted PROVE LoopIsAlone'
    BY DEF LoopIsAlone
  <2>2. /\ \A k, m \in Loops : loop[k].pc # "off" /\ loop[m].pc # "off" => k = m
        /\ \A m \in Loops : loop[m].pc \in {"run", "stamp"} => due
        /\ Len(rows) <= elapsed + 1
        /\ due /\ (\A m \in Loops : loop[m].pc # "stamp") => Len(rows) <= elapsed
    BY <2>1 DEF ScheduleInv, LoopIsAlone
  <2>3. \A m \in Loops : m # l => loop[m].pc = "off" /\ loop'[m].pc = "off"
    BY <1>1, <2>2
  <2>4. \A k, m \in Loops : loop'[k].pc # "off" /\ loop'[m].pc # "off" => k = m
    BY <2>3
  <2>5. \A m \in Loops : loop'[m].pc \in {"run", "stamp"} => due'
    BY <1>1, <2>3
  <2>6. due' => Len(rows) <= elapsed
    BY <2>2, <2>3
  <2>7. QED
    BY <2>2, <2>4, <2>5, <2>6 DEF LoopIsAlone
<1>7. H!RegressionsAreChained'
  BY DEF ScheduleInv, H!RegressionsAreChained, H!Worse
<1>8. \A k \in 1..Len(rows') :
         rows'[k].completed + rows'[k].failed <= Cardinality(sruns'[rows'[k].run].ended)
  BY <1>3 DEF ScheduleInv, ScheduleTypes
<1>9. QED
  BY <1>3, <1>5, <1>6, <1>7, <1>8 DEF ScheduleInv

LEMMA CheckStep ==
    ASSUME ScheduleInv, NEW l \in Loops, H!Check(l)
    PROVE  ScheduleInv'
<1>1. /\ loop[l] \in LoopType /\ loop[l].pc = "check"
      /\ UNCHANGED <<due, elapsed, rows, restarted>> /\ due' \in BOOLEAN
  BY DEF H!Check, ScheduleInv, ScheduleTypes
<1>2. PICK y \in LoopType :
         /\ loop' = [loop EXCEPT ![l] = y] /\ y.pc \in {"off", "run", "sleep"}
         /\ y.pc = "run" => due /\ y.run \in 1..Len(sruns')
         /\ sruns' = sruns \/ sruns' = Append(sruns, H!Fresh)
  <2>1. CASE ~running
    <3>1. H!Off \in LoopType /\ H!Off.pc = "off"
      BY DEF H!Off, LoopType
    <3>2. QED
      BY <2>1, <3>1 DEF H!Check
  <2>2. CASE running /\ due /\ Len(sruns) < MaxRuns
    <3>1. /\ sruns' = Append(sruns, H!Fresh)
          /\ loop' = [loop EXCEPT ![l] = [pc |-> "run", run |-> Len(sruns) + 1]]
      BY <2>2 DEF H!Check
    <3>2. Len(sruns) \in Nat /\ Len(sruns') = Len(sruns) + 1
      BY <3>1 DEF ScheduleInv, ScheduleTypes
    <3>3. /\ [pc |-> "run", run |-> Len(sruns) + 1] \in LoopType
          /\ Len(sruns) + 1 \in 1..Len(sruns')
      BY <3>2 DEF LoopType
    <3>4. QED
      BY <2>2, <3>1, <3>3
  <2>3. CASE running /\ ~(due /\ Len(sruns) < MaxRuns)
    <3>1. loop' = [loop EXCEPT ![l] = [loop[l] EXCEPT !.pc = "sleep"]] /\ sruns' = sruns
      BY <2>3 DEF H!Check, H!At
    <3>2. /\ [loop[l] EXCEPT !.pc = "sleep"] \in LoopType
          /\ [loop[l] EXCEPT !.pc = "sleep"].pc = "sleep"
      BY <1>1 DEF LoopType
    <3>3. QED
      BY <3>1, <3>2
  <2>4. QED
    BY <2>1, <2>2, <2>3
<1>3. QED
  BY <1>1, <1>2, LoopStep

LEMMA SleepStep ==
    ASSUME ScheduleInv, NEW l \in Loops, H!Wake(l) \/ H!RunRaises(l) \/ H!Stamp(l)
    PROVE  ScheduleInv'
<1>1. loop[l] \in LoopType
  BY DEF ScheduleInv, ScheduleTypes
<1>2. PICK spot \in {"check", "sleep"} : loop' = [loop EXCEPT ![l] = [loop[l] EXCEPT !.pc = spot]]
  BY DEF H!Wake, H!RunRaises, H!Stamp, H!At
<1>3. /\ loop[l].pc # "off" /\ UNCHANGED <<elapsed, sruns, rows, restarted>>
      /\ due' \in BOOLEAN /\ (due' => due /\ loop[l].pc # "stamp")
      /\ due' # due => loop[l].pc = "stamp"
  <2>1. loop[l].pc # "off" /\ UNCHANGED <<elapsed, sruns, rows, restarted>>
    BY DEF H!Wake, H!RunRaises, H!Stamp
  <2>2. CASE H!Wake(l) \/ H!RunRaises(l)
    <3>1. due' = due /\ loop[l].pc # "stamp" /\ due \in BOOLEAN
      BY <2>2 DEF H!Wake, H!RunRaises, ScheduleInv, ScheduleTypes
    <3>2. QED
      BY <2>1, <3>1
  <2>3. CASE H!Stamp(l)
    <3>1. due' = FALSE /\ loop[l].pc = "stamp"
      BY <2>3 DEF H!Stamp
    <3>2. QED
      BY <2>1, <3>1
  <2>4. QED
    BY <2>2, <2>3
<1>4. [loop[l] EXCEPT !.pc = spot] \in LoopType /\ [loop[l] EXCEPT !.pc = spot].pc = spot
  BY <1>1 DEF LoopType
<1>5. QED
  BY <1>2, <1>3, <1>4, LoopStep

\* A run changes, and counts what ended in it.
LEMMA RunChanges ==
    ASSUME ScheduleInv, NEW r \in 1..Len(sruns), NEW x \in StressRun,
           sruns' = [sruns EXCEPT ![r] = x], Counted(x), sruns[r].ended \subseteq x.ended,
           UNCHANGED <<loop, due, elapsed, rows, restarted>>
    PROVE  ScheduleInv'
<1>1. /\ sruns' \in Seq(StressRun) /\ Len(sruns') = Len(sruns) /\ sruns'[r] = x
      /\ \A q \in 1..Len(sruns) : q # r => sruns'[q] = sruns[q]
  BY ExceptSeq DEF ScheduleInv, ScheduleTypes
<1>2. ScheduleTypes' /\ LoopIsAlone'
  BY <1>1 DEF ScheduleInv, ScheduleTypes, LoopIsAlone
<1>3. \A q \in 1..Len(sruns') : Counted(sruns'[q])
  BY <1>1 DEF ScheduleInv
<1>4. \A q \in 1..Len(sruns) : Cardinality(sruns[q].ended) <= Cardinality(sruns'[q].ended)
                               /\ Cardinality(sruns[q].ended) \in Nat
                               /\ Cardinality(sruns'[q].ended) \in Nat
  <2>1. SUFFICES ASSUME NEW q \in 1..Len(sruns)
                 PROVE  /\ Cardinality(sruns[q].ended) <= Cardinality(sruns'[q].ended)
                        /\ Cardinality(sruns[q].ended) \in Nat
                        /\ Cardinality(sruns'[q].ended) \in Nat
    OBVIOUS
  <2>2. IsFiniteSet(sruns[q].ended) /\ IsFiniteSet(sruns'[q].ended)
    BY <1>1, <1>3 DEF ScheduleInv, Counted
  <2>3. sruns[q].ended \subseteq sruns'[q].ended
    BY <1>1
  <2>4. QED
    BY <2>2, <2>3, FS_Subset, FS_CardinalityType
<1>5. \A k \in 1..Len(rows') :
         rows'[k].completed + rows'[k].failed <= Cardinality(sruns'[rows'[k].run].ended)
  <2>1. SUFFICES ASSUME NEW k \in 1..Len(rows)
                 PROVE  rows[k].completed + rows[k].failed <= Cardinality(sruns'[rows[k].run].ended)
    OBVIOUS
  <2>2. rows[k] \in ScheduleRow /\ rows[k].run \in 1..Len(sruns)
    BY DEF ScheduleInv, ScheduleTypes
  <2>3. rows[k].completed + rows[k].failed <= Cardinality(sruns[rows[k].run].ended)
    BY DEF ScheduleInv
  <2>4. rows[k].completed \in Nat /\ rows[k].failed \in Nat
    BY <2>2 DEF ScheduleRow
  <2>5. PICK a \in Nat, b \in Nat : a = rows[k].completed /\ b = rows[k].failed
    BY <2>4
  <2>6. PICK m \in Nat, n \in Nat :
           /\ m = Cardinality(sruns[rows[k].run].ended) /\ n = Cardinality(sruns'[rows[k].run].ended)
           /\ m <= n
    BY <1>4, <2>2
  <2>7. a + b <= m
    BY <2>3, <2>5, <2>6
  <2>8. a + b <= n
    BY <2>6, <2>7
  <2>9. QED
    BY <2>5, <2>6, <2>8
<1>6. H!RegressionsAreChained'
  BY DEF ScheduleInv, H!RegressionsAreChained, H!Worse
<1>7. QED
  BY <1>2, <1>3, <1>5, <1>6 DEF ScheduleInv

LEMMA SessionsStep ==
    ASSUME ScheduleInv, NEW l \in Loops, NEW s \in SeededSessions, H!Begin(l, s) \/ H!Join(l, s)
    PROVE  ScheduleInv'
<1>1. loop[l].pc = "run" /\ UNCHANGED <<loop, due, elapsed, rows, restarted>>
  BY DEF H!Begin, H!Join
<1>2. loop[l].run \in 1..Len(sruns)
  BY <1>1 DEF ScheduleInv, ScheduleTypes
<1>3. PICK r \in 1..Len(sruns) : r = loop[l].run
  BY <1>2
<1>4. sruns[r] \in StressRun /\ Counted(sruns[r])
  BY ElementOfSeq DEF ScheduleInv, ScheduleTypes
<1>5. CASE H!Begin(l, s)
  <2>1. sruns' = [sruns EXCEPT ![r] = [sruns[r] EXCEPT !.began = @ \cup {s}]]
    BY <1>3, <1>5 DEF H!Begin
  <2>2. /\ [sruns[r] EXCEPT !.began = @ \cup {s}] \in StressRun
        /\ [sruns[r] EXCEPT !.began = @ \cup {s}].ended = sruns[r].ended
        /\ [sruns[r] EXCEPT !.began = @ \cup {s}].completed = sruns[r].completed
        /\ [sruns[r] EXCEPT !.began = @ \cup {s}].failed = sruns[r].failed
    BY <1>4 DEF StressRun
  <2>3. Counted([sruns[r] EXCEPT !.began = @ \cup {s}])
    BY <1>4, <2>2 DEF Counted
  <2>4. QED
    BY <1>1, <2>1, <2>2, <2>3, RunChanges
<1>6. CASE H!Join(l, s)
  <2>1. sruns' = [sruns EXCEPT ![r] = [sruns[r] EXCEPT !.joined = @ \cup {s}]]
    BY <1>3, <1>6 DEF H!Join
  <2>2. /\ [sruns[r] EXCEPT !.joined = @ \cup {s}] \in StressRun
        /\ [sruns[r] EXCEPT !.joined = @ \cup {s}].ended = sruns[r].ended
        /\ [sruns[r] EXCEPT !.joined = @ \cup {s}].completed = sruns[r].completed
        /\ [sruns[r] EXCEPT !.joined = @ \cup {s}].failed = sruns[r].failed
    BY <1>4 DEF StressRun
  <2>3. Counted([sruns[r] EXCEPT !.joined = @ \cup {s}])
    BY <1>4, <2>2 DEF Counted
  <2>4. QED
    BY <1>1, <2>1, <2>2, <2>3, RunChanges
<1>7. QED
  BY <1>5, <1>6

\* A session is counted once, as one that succeeded or as one that failed.
LEMMA CountAdds ==
    ASSUME NEW x \in StressRun, NEW ok \in BOOLEAN
    PROVE  /\ H!Count(x, ok) \in StressRun /\ H!Count(x, ok).ended = x.ended
           /\ H!Count(x, ok).completed + H!Count(x, ok).failed = x.completed + x.failed + 1
<1>1. x.completed \in Nat /\ x.failed \in Nat
  BY DEF StressRun
<1>2. PICK c \in Nat, f \in Nat :
         /\ c = (IF ok THEN x.completed + 1 ELSE x.completed)
         /\ f = (IF ok THEN x.failed ELSE x.failed + 1)
  BY <1>1
<1>3. H!Count(x, ok) = [x EXCEPT !.completed = c, !.failed = f]
  BY <1>2 DEF H!Count
<1>4. c + f = x.completed + x.failed + 1
  BY <1>1, <1>2
<1>6. /\ [x EXCEPT !.completed = c, !.failed = f] \in StressRun
      /\ [x EXCEPT !.completed = c, !.failed = f].ended = x.ended
      /\ [x EXCEPT !.completed = c, !.failed = f].completed = c
      /\ [x EXCEPT !.completed = c, !.failed = f].failed = f
  BY <1>2 DEF StressRun
<1>7. /\ H!Count(x, ok) \in StressRun /\ H!Count(x, ok).ended = x.ended
      /\ H!Count(x, ok).completed = c /\ H!Count(x, ok).failed = f
  BY <1>3, <1>6, Zenon
<1>8. H!Count(x, ok).completed + H!Count(x, ok).failed = c + f
  BY <1>7, Zenon
<1>9. QED
  BY <1>4, <1>7, <1>8, Zenon

\* A session that ends is counted at most once.
LEMMA EndSessionStep ==
    ASSUME ScheduleInv, NEW r, NEW s \in SeededSessions, H!EndSession(r, s)
    PROVE  ScheduleInv'
<1>1. /\ r \in 1..Len(sruns) /\ s \notin sruns[r].ended
      /\ UNCHANGED <<loop, due, elapsed, rows, restarted>>
  BY DEF H!EndSession, ScheduleInv, ScheduleTypes
<1>2. sruns[r] \in StressRun /\ Counted(sruns[r])
  BY <1>1, ElementOfSeq DEF ScheduleInv, ScheduleTypes
<1>3. /\ IsFiniteSet(sruns[r].ended \cup {s})
      /\ Cardinality(sruns[r].ended \cup {s}) = Cardinality(sruns[r].ended) + 1
      /\ Cardinality(sruns[r].ended) \in Nat
  BY <1>1, <1>2, FS_AddElement, FS_CardinalityType DEF Counted
<1>4. sruns[r].completed \in Nat /\ sruns[r].failed \in Nat
  BY <1>2 DEF StressRun
<1>5. PICK y \in StressRun :
         /\ y.ended = sruns[r].ended
         /\ y.completed + y.failed <= sruns[r].completed + sruns[r].failed + 1
         /\ sruns' = [sruns EXCEPT ![r] = [y EXCEPT !.ended = @ \cup {s}]]
  <2>1. CASE sruns' = [sruns EXCEPT ![r].ended = @ \cup {s}]
    <3>1. sruns' = [sruns EXCEPT ![r] = [sruns[r] EXCEPT !.ended = @ \cup {s}]]
      BY <2>1
    <3>2. sruns[r].completed + sruns[r].failed <= sruns[r].completed + sruns[r].failed + 1
      BY <1>4
    <3>3. QED
      BY <1>2, <3>1, <3>2
  <2>2. ASSUME NEW ok \in BOOLEAN,
               sruns' = [sruns EXCEPT ![r] = [H!Count(sruns[r], ok) EXCEPT !.ended = @ \cup {s}]]
        PROVE  \E y \in StressRun :
                  /\ y.ended = sruns[r].ended
                  /\ y.completed + y.failed <= sruns[r].completed + sruns[r].failed + 1
                  /\ sruns' = [sruns EXCEPT ![r] = [y EXCEPT !.ended = @ \cup {s}]]
    <3>1. /\ H!Count(sruns[r], ok) \in StressRun /\ H!Count(sruns[r], ok).ended = sruns[r].ended
          /\ H!Count(sruns[r], ok).completed + H!Count(sruns[r], ok).failed
                = sruns[r].completed + sruns[r].failed + 1
      BY <1>2, CountAdds
    <3>2. sruns[r].completed + sruns[r].failed + 1 <= sruns[r].completed + sruns[r].failed + 1
      BY <1>4
    <3>3. QED
      BY <2>2, <3>1, <3>2
  <2>3. QED
    BY <2>1, <2>2 DEF H!EndSession
<1> DEFINE x == [y EXCEPT !.ended = @ \cup {s}]
<1>6. x \in StressRun /\ x.ended = sruns[r].ended \cup {s} /\ x.completed = y.completed
      /\ x.failed = y.failed
  BY <1>5 DEF StressRun
<1>7. sruns' = [sruns EXCEPT ![r] = x]
  BY <1>5
<1> HIDE DEF x
<1>8. Counted(x)
  <2>1. y.completed \in Nat /\ y.failed \in Nat
    BY DEF StressRun
  <2>2. sruns[r].completed + sruns[r].failed <= Cardinality(sruns[r].ended)
    BY <1>2 DEF Counted
  <2>3. y.completed + y.failed <= Cardinality(sruns[r].ended) + 1
    BY <1>3, <1>4, <1>5, <2>1, <2>2
  <2>4. QED
    BY <1>3, <1>6, <2>3 DEF Counted
<1>9. sruns[r].ended \subseteq x.ended
  BY <1>6
<1>10. QED
  BY <1>1, <1>6, <1>7, <1>8, <1>9, RunChanges

\* The row of a run, and its comparison with the row before.
LEMMA SaveRowStep ==
    ASSUME ScheduleInv, NEW l \in Loops, H!Save(l)
    PROVE  ScheduleInv'
<1>1. /\ loop[l].pc = "run" /\ loop[l] \in LoopType /\ loop[l].run \in 1..Len(sruns)
      /\ UNCHANGED <<due, elapsed, sruns, restarted>>
  BY DEF H!Save, ScheduleInv, ScheduleTypes
<1>2. PICK r \in 1..Len(sruns) : r = loop[l].run
  BY <1>1
<1> DEFINE row == [run |-> r, completed |-> sruns[r].completed, failed |-> sruns[r].failed]
           new == [run |-> r, completed |-> row.completed, failed |-> row.failed,
                   regression |-> H!Regresses(row, r)]
<1>3. /\ rows' = Append(rows, new)
      /\ loop' = [loop EXCEPT ![l] = [loop[l] EXCEPT !.pc = "stamp"]]
  BY <1>2 DEF H!Save, H!At
<1>4. sruns[r] \in StressRun /\ Counted(sruns[r])
  BY <1>2, ElementOfSeq DEF ScheduleInv, ScheduleTypes
<1>5. /\ H!Regresses(row, r) \in BOOLEAN
      /\ new \in ScheduleRow /\ new.run = r /\ new.completed = sruns[r].completed
      /\ new.failed = sruns[r].failed
      /\ new.regression = H!Regresses(row, r)
  <2>1. H!Regresses(row, r) \in BOOLEAN
    BY DEF H!Regresses
  <2>2. sruns[r].completed \in Nat /\ sruns[r].failed \in Nat /\ r \in Nat
    BY <1>4 DEF StressRun
  <2>3. QED
    BY <2>1, <2>2 DEF ScheduleRow
<1>6. \A old : H!Worse(row, old) = H!Worse(new, old)
  BY <1>5 DEF H!Worse
<1>7. H!Regresses(row, r) =
         (Len(rows) >= 1 /\ H!Worse(new, rows[Len(rows)]))
  <2>1. Len(rows) \in Nat /\ DOMAIN rows = 1..Len(rows)
    BY DEF ScheduleInv, ScheduleTypes
  <2>2. \A k : k \in H!Previous(r) <=> k = Len(rows) /\ Len(rows) >= 1
    BY <2>1 DEF H!Previous
  <2>3. QED
    BY <1>6, <2>2 DEF H!Regresses
<1> HIDE DEF new, row
<1>8. /\ rows' \in Seq(ScheduleRow) /\ Len(rows') = Len(rows) + 1 /\ Len(rows) \in Nat
      /\ \A k \in 1..Len(rows) : rows'[k] = rows[k]
      /\ rows'[Len(rows) + 1] = new
  BY <1>3, <1>5 DEF ScheduleInv, ScheduleTypes
<1>9. \A k \in 1..Len(rows') : k \in 1..Len(rows) \/ k = Len(rows) + 1
  BY <1>8
<1>10. /\ loop' \in [Loops -> LoopType] /\ loop'[l].pc = "stamp"
       /\ \A m \in Loops : m # l => loop'[m] = loop[m]
  BY <1>1, <1>3 DEF ScheduleInv, ScheduleTypes, LoopType
<1>11. ScheduleTypes'
  <2>1. \A k \in 1..Len(rows') : rows'[k].run \in 1..Len(sruns)
    BY <1>5, <1>8, <1>9 DEF ScheduleInv, ScheduleTypes
  <2>2. QED
    BY <1>1, <1>8, <1>10, <2>1 DEF ScheduleInv, ScheduleTypes
<1>12. LoopIsAlone'
  <2>1. SUFFICES ASSUME ~restarted PROVE LoopIsAlone'
    BY <1>1 DEF LoopIsAlone
  <2>2. /\ \A k, m \in Loops : loop[k].pc # "off" /\ loop[m].pc # "off" => k = m
        /\ due
        /\ due /\ (\A m \in Loops : loop[m].pc # "stamp") => Len(rows) <= elapsed
    BY <1>1, <2>1 DEF ScheduleInv, LoopIsAlone
  <2>3. \A m \in Loops : m # l => loop[m].pc = "off" /\ loop'[m].pc = "off"
    BY <1>1, <1>10, <2>2
  <2>4. Len(rows) <= elapsed
    BY <1>1, <2>2, <2>3
  <2>5. Len(rows') <= elapsed + 1
    BY <1>8, <2>4 DEF ScheduleInv, ScheduleTypes
  <2>6. \A k, m \in Loops : loop'[k].pc # "off" /\ loop'[m].pc # "off" => k = m
    BY <2>3
  <2>7. QED
    BY <1>1, <1>10, <2>2, <2>5, <2>6 DEF LoopIsAlone
<1>13. \A k \in 1..Len(rows') :
         rows'[k].completed + rows'[k].failed <= Cardinality(sruns[rows'[k].run].ended)
  BY <1>4, <1>5, <1>8, <1>9 DEF ScheduleInv, Counted
<1>14. H!RegressionsAreChained'
  <2>1. DOMAIN rows = 1..Len(rows) /\ DOMAIN rows' = 1..Len(rows')
    BY <1>8 DEF ScheduleInv, ScheduleTypes
  <2>2. ASSUME NEW k \in 1..Len(rows')
        PROVE  rows'[k].regression
                  = (k > 1 /\ H!Worse(rows'[k], rows'[k - 1]))
    <3>1. CASE k \in 1..Len(rows)
      <4>1. rows'[k] = rows[k] /\ (k > 1 => rows'[k - 1] = rows[k - 1])
        BY <1>8, <3>1
      <4>2. rows[k].regression
               = (k > 1 /\ H!Worse(rows[k], rows[k - 1]))
        BY <2>1, <3>1 DEF ScheduleInv, H!RegressionsAreChained
      <4>3. QED
        BY <4>1, <4>2
    <3>2. CASE k = Len(rows) + 1
      <4>1. rows'[k] = new /\ (k > 1 <=> Len(rows) >= 1) /\ k - 1 = Len(rows)
        BY <1>8, <3>2
      <4>2. Len(rows) >= 1 => rows'[k - 1] = rows[Len(rows)]
        BY <1>8, <4>1
      <4>3. QED
        BY <1>5, <1>7, <4>1, <4>2
    <3>3. QED
      BY <1>9, <2>2, <3>1, <3>2
  <2>3. QED
    BY <2>1, <2>2 DEF H!RegressionsAreChained, H!Worse
<1>15. \A q \in 1..Len(sruns') : Counted(sruns'[q])
  BY <1>1 DEF ScheduleInv
<1>16. QED
  BY <1>1, <1>11, <1>12, <1>13, <1>14, <1>15 DEF ScheduleInv

LEMMA ScheduleKeeps == ScheduleInv /\ [H!Next]_(H!vars) => ScheduleInv'
<1> SUFFICES ASSUME ScheduleInv, [H!Next]_(H!vars) PROVE ScheduleInv'
  OBVIOUS
<1>1. CASE UNCHANGED H!vars
  <2>1. UNCHANGED <<loop, due, elapsed, sruns, rows, restarted>>
    BY <1>1 DEF H!vars
  <2>2. ScheduleTypes' /\ LoopIsAlone'
    BY <2>1 DEF ScheduleInv, ScheduleTypes, LoopIsAlone
  <2>3. QED
    BY <2>1, <2>2, LoopingStep
<1>2. QED
  BY <1>1, SchedulerStep, CheckStep, SleepStep, SaveRowStep, SessionsStep, EndSessionStep
     DEF H!Next

LEMMA SchedulesKept == ScheduleInv => H!SchedulesAreKept
<1> SUFFICES ASSUME ScheduleInv PROVE H!SchedulesAreKept
  OBVIOUS
<1>1. H!RunsAreSpaced
  <2>1. SUFFICES ASSUME ~restarted
                 PROVE  Cardinality({l \in Loops : loop[l].pc # "off"}) <= 1
    BY ScheduleSize DEF ScheduleInv, LoopIsAlone, H!RunsAreSpaced
  <2> DEFINE working == {l \in Loops : loop[l].pc # "off"}
  <2>2. \A l, m \in working : l = m
    BY <2>1 DEF ScheduleInv, LoopIsAlone
  <2>3. working = {} \/ \E l : working = {l}
    BY <2>2
  <2>4. Cardinality({}) = 0 /\ \A l : Cardinality({l}) = 1
    BY FS_EmptySet, FS_Singleton
  <2>5. Cardinality(working) \in {0, 1}
    <3> HIDE DEF working
    <3> QED
      BY <2>3, <2>4
  <2>6. QED
    BY <2>5
<1>2. H!RowsAreCounted
  <2>1. \A k \in 1..Len(rows) :
           rows[k].completed + rows[k].failed <= H!Cardinality(sruns[rows[k].run].ended)
    BY ScheduleSize DEF ScheduleInv
  <2>2. DOMAIN rows = 1..Len(rows)
    BY DEF ScheduleInv, ScheduleTypes
  <2> QED
    BY <2>1, <2>2 DEF ScheduleInv, ScheduleTypes, H!RowsAreCounted
<1>3. QED
  BY <1>1, <1>2 DEF ScheduleInv, H!SchedulesAreKept

\* A synthetic replay that ran alone replayed its own trail, a job that is over
\* has told how it ended, and its connections are back; a schedule runs once in an
\* interval unless it was restarted, and its rows count each session once and are
\* compared in the order of their writing
\* (control/services/capture_synthesis_service.py, synthetic/scheduler.py and
\* synthetic/stress_runner.py).
THEOREM SyntheticWorkStaysSound == W!Spec /\ H!Spec => []SyntheticWorkIsSound
<1>1. (turn = "work" => W!JobsAreSound) /\ (turn = "schedules" => H!SchedulesAreKept)
         => SyntheticWorkIsSound
  BY DEF SyntheticWorkIsSound
<1>2. WorkInv /\ ScheduleInv => SyntheticWorkIsSound
  BY <1>1, WorkIsSound, SchedulesKept
<1>3. W!Spec => []WorkInv
  BY WorkStarts, WorkKeeps, PTL DEF W!Spec
<1>4. H!Spec => []ScheduleInv
  BY ScheduleStarts, ScheduleKeeps, PTL DEF H!Spec
<1>5. QED
  BY <1>2, <1>3, <1>4, PTL

-----------------------------------------------------------------------------
(* Journeys over ssh (benchmark/adapters.py, SSHReplayAdapter).            *)

LEMMA JourneySize == \A Group : J!Cardinality(Group) = Cardinality(Group)
BY DEF J!Cardinality, Cardinality

StepKind == {"text", "sig", "cut", "none"}
Piece == Nat \X {"blank", "part", "whole", "wrong"}
SampleType == [checked : BOOLEAN, kind : {"", "text", "sig"}, diverges : BOOLEAN, lag : BOOLEAN,
               skew : BOOLEAN, success : BOOLEAN, truth : Piece]
Reasons == {"", "no engine", "timeout", "closed", "io", "no answer", "unchecked"}
LogEntry == [step : Nat, checked : BOOLEAN, reason : Reasons]

JourneyTypes ==
    /\ kinds \in Seq(StepKind)
    /\ mirrors \in BOOLEAN
    /\ pending \in Seq(Piece) /\ tail \in Seq(Piece) /\ engine \in Piece
    /\ jpc \in {"login", "unstarted", "step", "demote", "query", "end"}
    /\ jsamples \in Seq(SampleType)
    /\ jlog \in Seq(LogEntry)
    /\ attempt \in Nat

\* A journey has steps and asks for no metrics, or it is the query.
QueryIsAlone ==
    /\ kinds = <<>> => jpc \in {"query", "end"}
    /\ jpc = "query" => kinds = <<>> /\ metrics.available /\ tail = <<>> /\ engine = J!Blank
    /\ kinds # <<>> => attempt = 0 /\ metrics.available

\* How far the journey is.
Accounted ==
    /\ jpc \in {"login", "unstarted"} => jsamples = <<>>
    /\ jpc \in {"login", "unstarted", "step"} => incompletions = {} /\ Len(jsamples) < Len(kinds)
    /\ jpc \in {"demote", "end"} /\ kinds # <<>> =>
          \/ incompletions = {} /\ Len(jsamples) = Len(kinds)
          \/ incompletions = {[executed |-> Len(jsamples), skipped |-> Len(kinds) - Len(jsamples)]}
    /\ Len(jsamples) <= Len(kinds)
    /\ \A k \in 1..Len(jlog) :
          /\ jlog[k].step \in 1..Len(jsamples) /\ kinds[jlog[k].step] # "none"
          /\ jlog[k].checked = (jlog[k].reason = "")
    /\ \A i \in 1..Len(jsamples) : kinds[i] # "none" => \E k \in 1..Len(jlog) : jlog[k].step = i

\* A sample as it was taken, before anything is taken back.
Taken(i, sample) ==
    /\ ~sample.skew
    /\ sample.lag => sample.truth \in J!Neighbours(i)
    /\ sample.checked /\ sample.truth[2] = "wrong" => sample.diverges

AllTaken == \A i \in 1..Len(jsamples) : Taken(i, jsamples[i])

JourneyInv ==
    /\ JourneyTypes
    /\ QueryIsAlone
    /\ Accounted
    /\ jpc # "end" => AllTaken
    /\ J!MirrorIsTrue /\ J!DemotionsAreProved /\ J!WrongPathIsReported /\ J!MetricsAreWhole

\* What is shown after more was read is the last of all that was read.
LEMMA FedInTurn ==
    ASSUME NEW a \in Seq(Piece), NEW b \in Seq(Piece), NEW start \in Piece
    PROVE  /\ J!Fed(start, a) \in Piece
           /\ J!Fed(J!Fed(start, a), b) = J!Fed(start, a \o b)
<1>1. J!Fed(start, a) \in Piece
  <2>1. CASE a = <<>>
    BY <2>1 DEF J!Fed
  <2>2. CASE a # <<>>
    <3>1. Len(a) \in 1..Len(a)
      BY <2>2
    <3>2. QED
      BY <2>2, <3>1 DEF J!Fed, J!Last
  <2>3. QED
    BY <2>1, <2>2
<1>2. CASE b = <<>>
  <2>1. a \o b = a
    BY <1>2
  <2>2. \A q : J!Fed(q, b) = q
    BY <1>2 DEF J!Fed
  <2>3. QED
    BY <1>1, <2>1, <2>2
<1>3. CASE b # <<>>
  <2>1. /\ a \o b # <<>> /\ Len(a \o b) = Len(a) + Len(b) /\ Len(b) \in Nat \ {0}
        /\ Len(a) \in Nat
    BY <1>3
  <2>2. (a \o b)[Len(a \o b)] = b[Len(b)]
    BY <2>1
  <2>3. QED
    BY <1>1, <1>3, <2>1, <2>2 DEF J!Fed, J!Last
<1>4. QED
  BY <1>1, <1>2, <1>3

LEMMA JourneyStarts == J!Init => JourneyInv
<1> SUFFICES ASSUME J!Init PROVE JourneyInv
  OBVIOUS
<1>1. /\ kinds \in Journeys /\ mirrors \in BOOLEAN /\ pending \in J!Answers(0)
      /\ tail = <<>> /\ engine = <<0, "blank">> /\ jsamples = <<>> /\ jlog = <<>>
      /\ incompletions = {} /\ attempt = 0
      /\ metrics = [available |-> TRUE, rows |-> 0, whole |-> TRUE]
      /\ jpc = (IF kinds = <<>> THEN "query" ELSE "login")
  BY DEF J!Init, J!Blank
<1>2. kinds \in Seq(StepKind)
  BY <1>1, JourneyBounds DEF J!JourneyAssumption, StepKind
<1>3. pending \in Seq(Piece)
  <2>1. J!Whole(0) \in Piece /\ <<0, "part">> \in Piece
    BY DEF J!Whole, Piece
  <2>2. <<J!Whole(0)>> \in Seq(Piece) /\ << <<0, "part">>, J!Whole(0)>> \in Seq(Piece)
    BY <2>1
  <2>3. QED
    BY <1>1, <2>2 DEF J!Answers
<1>4. Len(jsamples) = 0 /\ Len(jlog) = 0 /\ jsamples \in Seq(SampleType) /\ jlog \in Seq(LogEntry)
  BY <1>1
<1>5. JourneyTypes
  BY <1>1, <1>2, <1>3, <1>4 DEF JourneyTypes, Piece
<1>6. QueryIsAlone
  BY <1>1 DEF QueryIsAlone, J!Blank
<1>7. Accounted
  <2>1. kinds # <<>> => Len(kinds) > 0
    BY <1>2
  <2>2. Len(kinds) \in Nat
    BY <1>2
  <2>3. QED
    BY <1>1, <1>4, <2>1, <2>2 DEF Accounted
<1>8. J!MirrorIsTrue /\ J!DemotionsAreProved /\ J!WrongPathIsReported /\ J!MetricsAreWhole
  BY <1>1 DEF J!MirrorIsTrue, J!DemotionsAreProved, J!WrongPathIsReported, J!MetricsAreWhole, J!Over
<1>9. QED
  BY <1>4, <1>5, <1>6, <1>7, <1>8 DEF JourneyInv, AllTaken

LEMMA LoginStep == ASSUME JourneyInv, J!Login PROVE JourneyInv'
<1>1. PICK n \in 1..Len(pending) :
         /\ tail' = SubSeq(pending, 1, n)
         /\ pending' = SubSeq(pending, n + 1, Len(pending))
         /\ engine' = IF mirrors THEN J!Fed(J!Blank, tail') ELSE engine
  BY DEF J!Login
<1>2. /\ jpc = "login" /\ jpc' = "step"
      /\ UNCHANGED <<kinds, wrong, mirrors, jsamples, jlog, incompletions, attempt, metrics>>
  BY DEF J!Login
<1>3. tail' \in Seq(Piece) /\ pending' \in Seq(Piece)
  <2>1. pending \in Seq(Piece) /\ Len(pending) \in Nat /\ n \in Nat /\ n <= Len(pending)
    BY DEF JourneyInv, JourneyTypes
  <2>2. SubSeq(pending, 1, n) \in Seq(Piece)
    BY <2>1
  <2>3. SubSeq(pending, n + 1, Len(pending)) \in Seq(Piece)
    BY <2>1
  <2>4. QED
    BY <1>1, <2>2, <2>3
<1>4. J!Blank \in Piece
  BY DEF J!Blank, Piece
<1>5. engine' \in Piece
  BY <1>1, <1>3, <1>4, FedInTurn DEF JourneyInv, JourneyTypes
<1>6. JourneyTypes'
  BY <1>2, <1>3, <1>5 DEF JourneyInv, JourneyTypes
<1>7. QueryIsAlone' /\ Accounted'
  BY <1>2 DEF JourneyInv, QueryIsAlone, Accounted
<1>8. J!MirrorIsTrue'
  BY <1>1, <1>2 DEF J!MirrorIsTrue
<1>9. J!DemotionsAreProved' /\ J!WrongPathIsReported' /\ J!MetricsAreWhole'
  BY <1>2 DEF JourneyInv, QueryIsAlone, J!DemotionsAreProved, J!WrongPathIsReported,
              J!MetricsAreWhole, J!Over
<1>10. AllTaken'
  BY <1>2 DEF JourneyInv, AllTaken, Taken, J!Neighbours
<1>11. QED
  BY <1>6, <1>7, <1>8, <1>9, <1>10 DEF JourneyInv

LEMMA LoginFailsStep == ASSUME JourneyInv, J!LoginFails PROVE JourneyInv'
<1>1. /\ jpc = "login" /\ jpc' = "unstarted"
      /\ UNCHANGED <<kinds, wrong, mirrors, pending, tail, engine, jsamples, jlog, incompletions,
                     attempt, metrics>>
  BY DEF J!LoginFails
<1>2. JourneyTypes' /\ QueryIsAlone' /\ Accounted'
  BY <1>1 DEF JourneyInv, JourneyTypes, QueryIsAlone, Accounted
<1>3. J!MirrorIsTrue' /\ J!DemotionsAreProved' /\ J!WrongPathIsReported' /\ J!MetricsAreWhole'
  BY <1>1 DEF JourneyInv, QueryIsAlone, J!MirrorIsTrue, J!DemotionsAreProved,
              J!WrongPathIsReported, J!MetricsAreWhole, J!Over
<1>4. AllTaken'
  BY <1>1 DEF JourneyInv, AllTaken, Taken, J!Neighbours
<1>5. QED
  BY <1>2, <1>3, <1>4 DEF JourneyInv

\* The sample of a step: what it says is so, and the reason it is not checked.
LEMMA SampleIsTaken ==
    ASSUME JourneyTypes, NEW i \in 1..Len(kinds), NEW view \in Piece, NEW reading \in Seq(Piece),
           NEW how \in {"stable", "timeout", "closed", "io"}
    PROVE  /\ J!Sample(i, view, reading, how) \in SampleType
           /\ Taken(i, J!Sample(i, view, reading, how))
           /\ J!Reason(i, J!Sample(i, view, reading, how), reading, how) \in Reasons
           /\ J!Sample(i, view, reading, how).checked
                = (J!Reason(i, J!Sample(i, view, reading, how), reading, how) = "")
<1> DEFINE sig == J!SigExpected(i) /\ reading # <<>> /\ how = "stable" /\ mirrors
           truth == IF kinds[i] = "text" THEN engine ELSE view
           diverges == J!TextDiverges(i) \/ (sig /\ view # J!Expected(i))
           sample == J!Sample(i, view, reading, how)
<1>1. sample = [checked |-> J!TextChecked(i) \/ sig,
                kind |-> IF J!TextChecked(i) THEN "text" ELSE IF sig THEN "sig" ELSE "",
                diverges |-> diverges, lag |-> J!TextLags(i), skew |-> FALSE,
                success |-> how = "stable", truth |-> truth]
  BY DEF J!Sample
<1>2. truth \in Piece
  BY DEF JourneyTypes
<1>3. /\ sig \in BOOLEAN /\ diverges \in BOOLEAN /\ J!TextChecked(i) \in BOOLEAN
      /\ J!TextLags(i) \in BOOLEAN
  BY DEF J!TextChecked, J!TextLags, J!TextDiverges, J!SigExpected
<1>4. J!TextLags(i) => truth \in J!Neighbours(i)
  BY DEF J!TextLags, J!TextChecked
<1>5. J!TextChecked(i) \/ sig => (truth[2] = "wrong" => diverges)
  <2>1. SUFFICES ASSUME truth[2] = "wrong", J!TextChecked(i) \/ sig PROVE diverges
    OBVIOUS
  <2>2. \A m : <<m, "whole">>[2] # "wrong" /\ <<m, "part">>[2] # "wrong"
    OBVIOUS
  <2>3. CASE J!TextChecked(i)
    <3>1. truth = engine
      BY <2>3 DEF J!TextChecked
    <3>2. engine # <<i - 1, "whole">>
      BY <2>1, <2>2, <3>1
    <3>3. engine \notin J!Neighbours(i)
      BY <2>1, <2>2, <3>1 DEF J!Neighbours
    <3>4. QED
      BY <2>3, <3>2, <3>3 DEF J!TextDiverges
  <2>4. CASE sig
    <3>1. kinds[i] \in {"sig", "cut"}
      BY <2>4 DEF J!SigExpected
    <3>2. truth = view
      BY <3>1
    <3>3. view # J!Expected(i)
      BY <2>1, <2>2, <3>2 DEF J!Expected
    <3>4. QED
      BY <2>4, <3>3
  <2>5. QED
    BY <2>1, <2>3, <2>4
<1> HIDE DEF sig, truth, diverges, sample
<1>6. sample \in SampleType /\ ~sample.skew /\ sample.lag = J!TextLags(i) /\ sample.truth = truth
      /\ sample.checked = (J!TextChecked(i) \/ sig) /\ sample.diverges = diverges
  BY <1>1, <1>2, <1>3 DEF SampleType
<1>7. Taken(i, sample)
  BY <1>4, <1>5, <1>6 DEF Taken
<1>8. /\ J!Reason(i, sample, reading, how) \in Reasons
      /\ sample.checked = (J!Reason(i, sample, reading, how) = "")
  <2>1. CASE sample.checked
    <3>1. J!Reason(i, sample, reading, how) = ""
      BY <2>1 DEF J!Reason
    <3>2. (J!Reason(i, sample, reading, how) = "") = TRUE /\ sample.checked = TRUE
      BY <1>6, <2>1, <3>1 DEF SampleType
    <3>3. sample.checked = (J!Reason(i, sample, reading, how) = "")
      BY <3>2, Zenon
    <3>4. QED
      BY <3>1, <3>3 DEF Reasons
  <2>2. CASE ~sample.checked
    <3>1. J!Reason(i, sample, reading, how)
             \in {"no engine", "timeout", "closed", "io", "no answer", "unchecked"}
      BY <2>2 DEF J!Reason
    <3>2. (J!Reason(i, sample, reading, how) = "") = FALSE
      BY <3>1
    <3>3. sample.checked = FALSE
      BY <1>6, <2>2 DEF SampleType
    <3>4. sample.checked = (J!Reason(i, sample, reading, how) = "")
      BY <3>2, <3>3, Zenon
    <3>5. J!Reason(i, sample, reading, how) \in Reasons
      BY <3>1 DEF Reasons
    <3>6. QED
      BY <3>4, <3>5, Zenon
  <2>3. sample.checked \in BOOLEAN
    BY <1>6 DEF SampleType
  <2>4. QED
    BY <2>1, <2>2, <2>3
<1>9. QED
  BY <1>6, <1>7, <1>8 DEF sample

LEMMA StepStep == ASSUME JourneyInv, J!Step PROVE JourneyInv'
<1> DEFINE here == Len(jsamples) + 1
<1>1. /\ jpc = "step" /\ here \in 1..Len(kinds)
      /\ UNCHANGED <<kinds, wrong, mirrors, attempt, metrics>>
  BY DEF J!Step, J!At, J!Steps, JourneyInv, JourneyTypes
<1>2. PICK how \in {"stable", "timeout"} \cup J!Dead, answer \in J!Answers(here) :
         LET arriving == IF how = "io" THEN <<>> ELSE pending \o answer
         IN \E n \in (CASE how = "io" -> {0} [] how = "closed" -> {Len(arriving)}
                        [] OTHER -> 0..Len(arriving)) :
            LET reading == SubSeq(arriving, 1, n)
                view == IF mirrors THEN J!Fed(engine, reading) ELSE engine
                sample == J!Sample(here, view, reading, how)
            IN  /\ pending' = SubSeq(arriving, n + 1, Len(arriving))
                /\ tail' = tail \o reading
                /\ engine' = view
                /\ jsamples' = Append(jsamples, sample)
                /\ jlog' = IF kinds[here] = "none" THEN jlog
                           ELSE Append(jlog, [step |-> here, checked |-> sample.checked,
                                              reason |-> J!Reason(here, sample, reading, how)])
                /\ incompletions' =
                      IF how \in J!Dead /\ here < Len(kinds)
                      THEN incompletions \cup {[executed |-> here, skipped |-> Len(kinds) - here]}
                      ELSE incompletions
                /\ jpc' = IF J!GoesOn(here, how) THEN "step" ELSE "demote"
  BY Zenon DEF J!Step, J!At
<1> DEFINE arriving == IF how = "io" THEN <<>> ELSE pending \o answer
<1>3. PICK n \in (CASE how = "io" -> {0} [] how = "closed" -> {Len(arriving)}
                    [] OTHER -> 0..Len(arriving)) :
         LET reading == SubSeq(arriving, 1, n)
             view == IF mirrors THEN J!Fed(engine, reading) ELSE engine
             sample == J!Sample(here, view, reading, how)
         IN  /\ pending' = SubSeq(arriving, n + 1, Len(arriving))
             /\ tail' = tail \o reading
             /\ engine' = view
             /\ jsamples' = Append(jsamples, sample)
             /\ jlog' = IF kinds[here] = "none" THEN jlog
                        ELSE Append(jlog, [step |-> here, checked |-> sample.checked,
                                           reason |-> J!Reason(here, sample, reading, how)])
             /\ incompletions' =
                   IF how \in J!Dead /\ here < Len(kinds)
                   THEN incompletions \cup {[executed |-> here, skipped |-> Len(kinds) - here]}
                   ELSE incompletions
             /\ jpc' = IF J!GoesOn(here, how) THEN "step" ELSE "demote"
  BY <1>2
<1> DEFINE reading == SubSeq(arriving, 1, n)
           view == IF mirrors THEN J!Fed(engine, reading) ELSE engine
           sample == J!Sample(here, view, reading, how)
           reason == J!Reason(here, sample, reading, how)
<1>4. /\ pending' = SubSeq(arriving, n + 1, Len(arriving))
      /\ tail' = tail \o reading
      /\ engine' = view
      /\ jsamples' = Append(jsamples, sample)
      /\ jlog' = IF kinds[here] = "none" THEN jlog
                 ELSE Append(jlog, [step |-> here, checked |-> sample.checked, reason |-> reason])
      /\ incompletions' =
            IF how \in J!Dead /\ here < Len(kinds)
            THEN incompletions \cup {[executed |-> here, skipped |-> Len(kinds) - here]}
            ELSE incompletions
      /\ jpc' = IF J!GoesOn(here, how) THEN "step" ELSE "demote"
  BY <1>3
<1>5. JourneyTypes /\ QueryIsAlone /\ Accounted /\ Len(jsamples) \in Nat /\ Len(kinds) \in Nat
      /\ Len(jlog) \in Nat
  BY DEF JourneyInv, JourneyTypes
<1> here = Len(jsamples) + 1 /\ here \in Nat
  BY <1>5
<1> how \in {"stable", "timeout", "closed", "io"}
  BY <1>2 DEF J!Dead
<1> HIDE DEF here
<1>6. arriving \in Seq(Piece)
  <2>1. J!Whole(here) \in Piece /\ <<here, "part">> \in Piece
    BY <1>5 DEF J!Whole, Piece
  <2>2. <<J!Whole(here)>> \in Seq(Piece) /\ << <<here, "part">>, J!Whole(here)>> \in Seq(Piece)
    BY <2>1
  <2>3. answer \in Seq(Piece)
    BY <1>2, <2>2 DEF J!Answers
  <2>4. QED
    BY <1>5, <2>3 DEF JourneyTypes
<1> HIDE DEF arriving
<1>7. n \in 0..Len(arriving) /\ Len(arriving) \in Nat
  <2>1. Len(arriving) \in Nat
    BY <1>6
  <2>2. CASE how = "io"
    BY <2>1, <2>2
  <2>3. CASE how = "closed"
    BY <2>1, <2>3
  <2>4. CASE how \notin {"io", "closed"}
    BY <2>1, <2>4
  <2>5. QED
    BY <2>1, <2>2, <2>3, <2>4
<1>8. reading \in Seq(Piece) /\ pending' \in Seq(Piece)
  <2>1. SubSeq(arriving, 1, n) \in Seq(Piece)
    BY <1>6, <1>7
  <2>2. SubSeq(arriving, n + 1, Len(arriving)) \in Seq(Piece)
    BY <1>6, <1>7
  <2>3. QED
    BY <1>4, <2>1, <2>2
<1> HIDE DEF reading
<1>9. view \in Piece
  BY <1>5, <1>8, FedInTurn DEF JourneyTypes
<1> HIDE DEF view
<1>10. /\ sample \in SampleType /\ Taken(here, sample)
       /\ reason \in Reasons /\ sample.checked = (reason = "")
  BY <1>1, <1>2, <1>5, <1>8, <1>9, SampleIsTaken, ZenonT(60)
<1> HIDE DEF sample, reason
<1>11. /\ jsamples' \in Seq(SampleType) /\ Len(jsamples') = here
       /\ jsamples'[here] = sample
       /\ \A i \in 1..Len(jsamples) : jsamples'[i] = jsamples[i]
  <2>1. jsamples' = Append(jsamples, sample) /\ jsamples \in Seq(SampleType)
    BY <1>4, <1>5 DEF JourneyTypes
  <2>2. \A x \in SampleType :
           /\ Append(jsamples, x) \in Seq(SampleType)
           /\ Len(Append(jsamples, x)) = Len(jsamples) + 1
           /\ \A i \in 1..Len(jsamples) : Append(jsamples, x)[i] = jsamples[i]
           /\ Append(jsamples, x)[Len(jsamples) + 1] = x
    BY <2>1, AppendProperties
  <2>3. here = Len(jsamples) + 1
    OBVIOUS
  <2>4. QED
    BY <1>10, <2>1, <2>2, <2>3
<1>12. tail' \in Seq(Piece)
  BY <1>4, <1>5, <1>8 DEF JourneyTypes
<1> DEFINE entry == [step |-> here, checked |-> sample.checked, reason |-> reason]
<1>13. entry \in LogEntry /\ entry.step = here /\ entry.checked = (entry.reason = "")
  <2>1. sample.checked \in BOOLEAN /\ here \in Nat
    BY <1>5, <1>10 DEF SampleType
  <2>2. entry \in LogEntry
    BY <1>10, <2>1 DEF LogEntry
  <2>3. entry.step = here /\ entry.checked = sample.checked /\ entry.reason = reason
    OBVIOUS
  <2>4. QED
    BY <1>10, <2>2, <2>3
<1>14. jlog' = (IF kinds[here] = "none" THEN jlog ELSE Append(jlog, entry))
  BY <1>4
<1> HIDE DEF entry
<1>15. /\ jlog' \in Seq(LogEntry) /\ Len(jlog') \in Nat /\ Len(jlog) <= Len(jlog')
       /\ \A k \in 1..Len(jlog) : jlog'[k] = jlog[k]
       /\ \A k \in 1..Len(jlog') : k \in 1..Len(jlog) \/ (jlog'[k] = entry /\ kinds[here] # "none")
       /\ kinds[here] # "none" => \E k \in 1..Len(jlog') : jlog'[k] = entry
  <2>1. CASE kinds[here] = "none"
    BY <1>5, <1>14, <2>1 DEF JourneyTypes
  <2>2. CASE kinds[here] # "none"
    <3>1. /\ jlog' = Append(jlog, entry) /\ jlog \in Seq(LogEntry)
      BY <1>5, <1>14, <2>2 DEF JourneyTypes
    <3>2. /\ jlog' \in Seq(LogEntry) /\ Len(jlog') = Len(jlog) + 1
          /\ \A k \in 1..Len(jlog) : jlog'[k] = jlog[k]
          /\ jlog'[Len(jlog) + 1] = entry
      <4>1. \A x \in LogEntry :
               /\ Append(jlog, x) \in Seq(LogEntry)
               /\ Len(Append(jlog, x)) = Len(jlog) + 1
               /\ \A k \in 1..Len(jlog) : Append(jlog, x)[k] = jlog[k]
               /\ Append(jlog, x)[Len(jlog) + 1] = x
        BY <3>1, AppendProperties
      <4>2. QED
        BY <1>13, <3>1, <4>1
    <3>3. QED
      BY <1>5, <2>2, <3>2
  <2>3. QED
    BY <2>1, <2>2
<1>16. JourneyTypes'
  <2>1. engine' \in Piece /\ jpc' \in {"step", "demote"}
    BY <1>4, <1>9
  <2>2. QED
    BY <1>1, <1>5, <1>8, <1>11, <1>12, <1>15, <2>1 DEF JourneyTypes
<1>17. QueryIsAlone'
  BY <1>1, <1>4, <1>5 DEF QueryIsAlone
<1>18. Accounted'
  <2>1. /\ jpc' = "step" => incompletions' = {} /\ here < Len(kinds)
        /\ jpc' = "demote" =>
              \/ incompletions' = {} /\ here = Len(kinds)
              \/ incompletions' = {[executed |-> here, skipped |-> Len(kinds) - here]}
        /\ jpc' \in {"step", "demote"}
    <3>1. incompletions = {} /\ here <= Len(kinds)
      <4>1. incompletions = {}
        BY <1>1, <1>5 DEF Accounted
      <4>2. QED
        BY <1>1, <1>5, <4>1
    <3>2. CASE J!GoesOn(here, how)
      <4>1. how \notin J!Dead /\ here < Len(kinds) /\ jpc' = "step"
        BY <1>4, <3>2 DEF J!GoesOn
      <4>2. QED
        BY <1>4, <3>1, <4>1
    <3>3. CASE ~J!GoesOn(here, how) /\ here < Len(kinds)
      <4>1. how \in J!Dead /\ jpc' = "demote"
        BY <1>4, <3>3 DEF J!GoesOn
      <4>2. incompletions' = {[executed |-> here, skipped |-> Len(kinds) - here]}
        BY <1>4, <3>1, <3>3, <4>1
      <4>3. QED
        BY <4>1, <4>2
    <3>4. CASE here = Len(kinds)
      <4>1. jpc' = "demote" /\ incompletions' = incompletions
        BY <1>4, <1>5, <3>4 DEF J!GoesOn
      <4>2. QED
        BY <3>1, <3>4, <4>1
    <3>5. QED
      BY <1>5, <3>1, <3>2, <3>3, <3>4
  <2>2. \A k \in 1..Len(jlog') :
           /\ jlog'[k].step \in 1..here /\ kinds[jlog'[k].step] # "none"
           /\ jlog'[k].checked = (jlog'[k].reason = "")
    <3>1. TAKE k \in 1..Len(jlog')
    <3>2. CASE k \in 1..Len(jlog)
      <4>1. /\ jlog[k].step \in 1..Len(jsamples) /\ kinds[jlog[k].step] # "none"
            /\ jlog[k].checked = (jlog[k].reason = "")
        BY <1>5, <3>2 DEF Accounted
      <4>2. jlog'[k] = jlog[k] /\ 1..Len(jsamples) \subseteq 1..here
        BY <1>5, <1>15, <3>2
      <4>3. QED
        BY <4>1, <4>2, Zenon
    <3>3. CASE jlog'[k] = entry /\ kinds[here] # "none"
      <4>1. here \in 1..here
        BY <1>5
      <4>2. QED
        BY <1>13, <3>3, <4>1, Zenon
    <3>4. QED
      BY <1>15, <3>2, <3>3
  <2>3. \A i \in 1..here : kinds[i] # "none" => \E k \in 1..Len(jlog') : jlog'[k].step = i
    <3>1. TAKE i \in 1..here
    <3>2. CASE i \in 1..Len(jsamples)
      <4>1. kinds[i] # "none" => \E k \in 1..Len(jlog) : jlog[k].step = i
        BY <1>5, <3>2 DEF Accounted
      <4>2. \A k \in 1..Len(jlog) : k \in 1..Len(jlog') /\ jlog'[k] = jlog[k]
        BY <1>5, <1>15
      <4>3. QED
        BY <4>1, <4>2
    <3>3. CASE i = here
      BY <1>13, <1>15, <3>3
    <3>4. QED
      BY <1>5, <3>2, <3>3
  <2>4. Len(jsamples') = here /\ kinds' = kinds /\ here <= Len(kinds)
        /\ here \in Nat /\ here # 0 /\ Len(kinds) \in Nat
    BY <1>1, <1>5, <1>11
  <2> HIDE DEF here
  <2>5. (jpc \in {"login", "unstarted"} => jsamples = <<>>)'
    BY <2>1
  <2>6. (jpc \in {"login", "unstarted", "step"} => incompletions = {} /\ Len(jsamples) < Len(kinds))'
    BY <2>1, <2>4
  <2>7. (jpc \in {"demote", "end"} /\ kinds # <<>>
           => \/ incompletions = {} /\ Len(jsamples) = Len(kinds)
              \/ incompletions = {[executed |-> Len(jsamples),
                                   skipped |-> Len(kinds) - Len(jsamples)]})'
    BY <2>1, <2>4
  <2>8. (Len(jsamples) <= Len(kinds))'
    BY <2>4
  <2>9. (\A k \in 1..Len(jlog) :
           /\ jlog[k].step \in 1..Len(jsamples) /\ kinds[jlog[k].step] # "none"
           /\ jlog[k].checked = (jlog[k].reason = ""))'
    BY <2>2, <2>4
  <2>10. (\A i \in 1..Len(jsamples) :
            kinds[i] # "none" => \E k \in 1..Len(jlog) : jlog[k].step = i)'
    BY <2>3, <2>4
  <2>11. QED
    BY <2>5, <2>6, <2>7, <2>8, <2>9, <2>10 DEF Accounted
<1>19. AllTaken'
  <2>1. \A i \in 1..Len(jsamples') : Taken(i, jsamples'[i])
    <3>1. TAKE i \in 1..Len(jsamples')
    <3>2. i \in 1..Len(jsamples) \/ i = here
      BY <1>5, <1>11
    <3>3. \A k \in 1..Len(jsamples) : Taken(k, jsamples[k])
      BY <1>1 DEF JourneyInv, AllTaken
    <3>4. QED
      BY <1>10, <1>11, <3>2, <3>3
  <2>2. QED
    BY <1>1, <2>1 DEF AllTaken, Taken, J!Neighbours
<1>20. J!MirrorIsTrue'
  <2>1. SUFFICES ASSUME mirrors PROVE engine' = J!Fed(J!Blank, tail')
    BY <1>1 DEF J!MirrorIsTrue
  <2>2. engine = J!Fed(J!Blank, tail)
    BY <1>1, <2>1 DEF JourneyInv, J!MirrorIsTrue
  <2>3. J!Blank \in Piece /\ tail \in Seq(Piece)
    BY <1>5 DEF J!Blank, Piece, JourneyTypes
  <2>4. view = J!Fed(engine, reading)
    BY <2>1 DEF view
  <2>5. QED
    BY <1>4, <1>8, <2>2, <2>3, <2>4, FedInTurn
<1>21. J!DemotionsAreProved' /\ J!WrongPathIsReported' /\ J!MetricsAreWhole'
  <2>1. jpc' \in {"step", "demote"}
    BY <1>4
  <2>2. kinds # <<>>
    BY <1>1, <1>5 DEF QueryIsAlone
  <2>3. QED
    BY <1>1, <1>5, <2>1, <2>2 DEF QueryIsAlone, J!DemotionsAreProved, J!WrongPathIsReported,
                                 J!MetricsAreWhole, J!Over
<1>22. QED
  BY <1>16, <1>17, <1>18, <1>19, <1>20, <1>21 DEF JourneyInv

\* What the two rules leave as it is, and when they take a divergence back.
LEMMA SkewedSamples ==
    ASSUME NEW s \in Seq(SampleType)
    PROVE  /\ J!Skewed(s) \in Seq(SampleType) /\ Len(J!Skewed(s)) = Len(s)
           /\ \A i \in 1..Len(s) :
                 /\ J!Skewed(s)[i].checked = s[i].checked /\ J!Skewed(s)[i].lag = s[i].lag
                 /\ J!Skewed(s)[i].truth = s[i].truth
                 /\ J!Skewed(s)[i].diverges => s[i].diverges
                 /\ \/ J!Skewed(s)[i].skew = s[i].skew /\ J!Skewed(s)[i].diverges = s[i].diverges
                    \/ i < Len(s) /\ s[i + 1].checked /\ ~s[i + 1].diverges
<1> DEFINE n == Len(s)
           demoted(i) == i < n /\ s[i].diverges /\ s[i].kind = "sig"
                         /\ s[i + 1].checked /\ ~s[i + 1].diverges
           after(i) == IF demoted(i) THEN [s[i] EXCEPT !.diverges = FALSE, !.skew = TRUE] ELSE s[i]
<1>1. J!Skewed(s) = [i \in 1..n |-> after(i)] /\ n \in Nat
  BY DEF J!Skewed
<1>2. \A x \in SampleType :
         /\ [x EXCEPT !.diverges = FALSE, !.skew = TRUE] \in SampleType
         /\ [x EXCEPT !.diverges = FALSE, !.skew = TRUE].checked = x.checked
         /\ [x EXCEPT !.diverges = FALSE, !.skew = TRUE].lag = x.lag
         /\ [x EXCEPT !.diverges = FALSE, !.skew = TRUE].truth = x.truth
         /\ ~[x EXCEPT !.diverges = FALSE, !.skew = TRUE].diverges
  BY DEF SampleType
<1>3. \A i \in 1..n : s[i] \in SampleType
  OBVIOUS
<1>4. \A i \in 1..n :
         /\ after(i) \in SampleType /\ after(i).checked = s[i].checked /\ after(i).lag = s[i].lag
         /\ after(i).truth = s[i].truth /\ (after(i).diverges => s[i].diverges)
         /\ after(i) = s[i] \/ demoted(i)
  BY <1>2, <1>3, Zenon
<1>5. \A i \in 1..n : demoted(i) => i < n /\ s[i + 1].checked /\ ~s[i + 1].diverges
  OBVIOUS
<1> HIDE DEF after, demoted
<1>6. J!Skewed(s) \in Seq(SampleType) /\ Len(J!Skewed(s)) = n
  BY <1>1, <1>4
<1>7. \A i \in 1..n : J!Skewed(s)[i] = after(i)
  BY <1>1
<1>8. QED
  BY <1>4, <1>5, <1>6, <1>7

LEMMA LaggedSamples ==
    ASSUME NEW s \in Seq(SampleType)
    PROVE  /\ J!Lagged(s) \in Seq(SampleType) /\ Len(J!Lagged(s)) = Len(s)
           /\ \A i \in 1..Len(s) :
                 /\ J!Lagged(s)[i].checked = s[i].checked /\ J!Lagged(s)[i].skew = s[i].skew
                 /\ J!Lagged(s)[i].truth = s[i].truth
                 /\ J!Lagged(s)[i].diverges => s[i].diverges
                 /\ \/ J!Lagged(s)[i].lag = s[i].lag /\ J!Lagged(s)[i].diverges = s[i].diverges
                    \/ \E j \in (i + 1)..Len(s) : s[j].checked /\ ~s[j].diverges
<1> DEFINE n == Len(s)
           demoted(i) == s[i].diverges /\ s[i].kind = "text"
                         /\ \E j \in J!NextChecked(s, i) : ~s[j].diverges
           after(i) == IF demoted(i) THEN [s[i] EXCEPT !.diverges = FALSE, !.lag = TRUE] ELSE s[i]
<1>1. J!Lagged(s) = [i \in 1..n |-> after(i)] /\ n \in Nat
  BY DEF J!Lagged
<1>2. \A x \in SampleType :
         /\ [x EXCEPT !.diverges = FALSE, !.lag = TRUE] \in SampleType
         /\ [x EXCEPT !.diverges = FALSE, !.lag = TRUE].checked = x.checked
         /\ [x EXCEPT !.diverges = FALSE, !.lag = TRUE].skew = x.skew
         /\ [x EXCEPT !.diverges = FALSE, !.lag = TRUE].truth = x.truth
         /\ ~[x EXCEPT !.diverges = FALSE, !.lag = TRUE].diverges
  BY DEF SampleType
<1>3. \A i \in 1..n : s[i] \in SampleType
  OBVIOUS
<1>4. \A i \in 1..n :
         /\ after(i) \in SampleType /\ after(i).checked = s[i].checked /\ after(i).skew = s[i].skew
         /\ after(i).truth = s[i].truth /\ (after(i).diverges => s[i].diverges)
         /\ after(i) = s[i] \/ demoted(i)
  BY <1>2, <1>3, Zenon
<1>5. \A i \in 1..n : demoted(i) => \E j \in (i + 1)..n : s[j].checked /\ ~s[j].diverges
  BY DEF J!NextChecked
<1> HIDE DEF after, demoted
<1>6. J!Lagged(s) \in Seq(SampleType) /\ Len(J!Lagged(s)) = n
  BY <1>1, <1>4
<1>7. \A i \in 1..n : J!Lagged(s)[i] = after(i)
  BY <1>1
<1>8. QED
  BY <1>4, <1>5, <1>6, <1>7

LEMMA DemoteStep == ASSUME JourneyInv, J!Demote PROVE JourneyInv'
<1> DEFINE once == J!Skewed(jsamples)
           twice == J!Lagged(once)
<1>1. /\ jpc = "demote" /\ jpc' = "end" /\ jsamples' = twice
      /\ UNCHANGED <<kinds, wrong, mirrors, pending, tail, engine, jlog, incompletions, attempt,
                     metrics>>
  BY DEF J!Demote
<1>2. /\ JourneyTypes /\ QueryIsAlone /\ Accounted /\ kinds # <<>>
      /\ \A i \in 1..Len(jsamples) : Taken(i, jsamples[i])
  BY <1>1 DEF JourneyInv, QueryIsAlone, AllTaken
<1>3. /\ once \in Seq(SampleType) /\ Len(once) = Len(jsamples)
      /\ \A i \in 1..Len(jsamples) :
            /\ once[i].checked = jsamples[i].checked /\ once[i].lag = jsamples[i].lag
            /\ once[i].truth = jsamples[i].truth
            /\ once[i].diverges => jsamples[i].diverges
            /\ \/ once[i].skew = jsamples[i].skew /\ once[i].diverges = jsamples[i].diverges
               \/ i < Len(jsamples) /\ jsamples[i + 1].checked /\ ~jsamples[i + 1].diverges
  BY <1>2, SkewedSamples DEF JourneyTypes
<1> HIDE DEF once
<1>4. /\ twice \in Seq(SampleType) /\ Len(twice) = Len(jsamples)
      /\ \A i \in 1..Len(jsamples) :
            /\ twice[i].checked = once[i].checked /\ twice[i].skew = once[i].skew
            /\ twice[i].truth = once[i].truth
            /\ twice[i].diverges => once[i].diverges
            /\ \/ twice[i].lag = once[i].lag /\ twice[i].diverges = once[i].diverges
               \/ \E j \in (i + 1)..Len(jsamples) : once[j].checked /\ ~once[j].diverges
  BY <1>3, LaggedSamples
<1> HIDE DEF twice
<1>5. JourneyTypes' /\ QueryIsAlone'
  BY <1>1, <1>2, <1>4 DEF JourneyTypes, QueryIsAlone
<1>6. Accounted'
  <2>1. Len(jsamples') = Len(jsamples) /\ jpc' = "end" /\ jpc = "demote"
    BY <1>1, <1>4
  <2>2. UNCHANGED <<kinds, jlog, incompletions>>
    BY <1>1
  <2> HIDE DEF twice, once
  <2>3. QED
    BY <1>2, <2>1, <2>2 DEF Accounted
<1>7. J!MirrorIsTrue' /\ J!MetricsAreWhole'
  BY <1>1, <1>2 DEF JourneyInv, QueryIsAlone, J!MirrorIsTrue, J!MetricsAreWhole
<1>8. Len(jsamples) \in Nat /\ DOMAIN jsamples' = 1..Len(jsamples)
  BY <1>1, <1>2, <1>4 DEF JourneyTypes
\* A sample that a rule took back, or is the last verified one.
<1>9. ASSUME NEW i \in 1..Len(jsamples)
      PROVE  \/ /\ twice[i].lag = jsamples[i].lag /\ twice[i].skew = jsamples[i].skew
                /\ twice[i].diverges = jsamples[i].diverges
             \/ \E j \in (i + 1)..Len(jsamples) : twice[j].checked /\ ~twice[j].diverges
  <2>1. CASE i < Len(jsamples) /\ jsamples[i + 1].checked /\ ~jsamples[i + 1].diverges
    <3>1. i + 1 \in 1..Len(jsamples) /\ i + 1 \in (i + 1)..Len(jsamples)
      BY <1>8, <2>1
    <3>2. twice[i + 1].checked /\ ~twice[i + 1].diverges
      BY <1>3, <1>4, <2>1, <3>1
    <3>3. QED
      BY <3>1, <3>2
  <2>2. CASE \E j \in (i + 1)..Len(jsamples) : once[j].checked /\ ~once[j].diverges
    <3>1. PICK j \in (i + 1)..Len(jsamples) : once[j].checked /\ ~once[j].diverges
      BY <2>2
    <3>2. j \in 1..Len(jsamples)
      BY <1>8, <3>1
    <3>3. QED
      BY <1>4, <3>1, <3>2
  <2>3. CASE /\ once[i].skew = jsamples[i].skew /\ once[i].diverges = jsamples[i].diverges
             /\ twice[i].lag = once[i].lag /\ twice[i].diverges = once[i].diverges
    BY <1>3, <1>4, <2>3
  <2>4. QED
    BY <1>3, <1>4, <2>1, <2>2, <2>3
<1>10. \A i \in 1..Len(jsamples) :
          twice[i].checked = jsamples[i].checked /\ twice[i].truth = jsamples[i].truth
  BY <1>3, <1>4
<1>11. J!DemotionsAreProved'
  <2>1. SUFFICES ASSUME NEW i \in 1..Len(jsamples),
                        twice[i].skew \/ (twice[i].lag /\ twice[i].truth \notin J!Neighbours(i))
                 PROVE  \E j \in (i + 1)..Len(jsamples) : twice[j].checked /\ ~twice[j].diverges
    BY <1>1, <1>4, <1>8 DEF J!DemotionsAreProved, J!Neighbours
  <2>2. ~(jsamples[i].skew \/ (jsamples[i].lag /\ jsamples[i].truth \notin J!Neighbours(i)))
    BY <1>2 DEF Taken
  <2>3. QED
    BY <1>9, <1>10, <2>1, <2>2
<1>12. J!WrongPathIsReported'
  <2>1. SUFFICES ASSUME NEW i \in 1..Len(jsamples),
                        twice[i].checked, twice[i].truth[2] = "wrong",
                        \A j \in (i + 1)..Len(jsamples) : ~twice[j].checked
                 PROVE  twice[i].diverges
    BY <1>1, <1>4, <1>8 DEF J!WrongPathIsReported
  <2>2. jsamples[i].checked /\ jsamples[i].truth[2] = "wrong"
    BY <1>10, <2>1
  <2>3. jsamples[i].diverges
    BY <1>2, <2>2 DEF Taken
  <2>4. QED
    BY <1>9, <2>1, <2>3
<1>13. QED
  BY <1>1, <1>5, <1>6, <1>7, <1>11, <1>12 DEF JourneyInv

\* The rows of an answer that has its last line are all there are.
LEMMA WholeAnswer ==
    ASSUME NEW kept \in 0..(MaxRows + 1),
           J!Contains(SubSeq(J!Lines(MaxRows), 1, kept), "done")
    PROVE  Cardinality({i \in DOMAIN SubSeq(J!Lines(MaxRows), 1, kept) :
                          SubSeq(J!Lines(MaxRows), 1, kept)[i] = "row"}) = MaxRows
<1> USE JourneyBounds DEF J!JourneyAssumption
<1> DEFINE all == J!Lines(MaxRows)  some == SubSeq(all, 1, kept)
<1>1. /\ all \in Seq({"row", "done"}) /\ Len(all) = MaxRows + 1
      /\ \A i \in 1..MaxRows : all[i] = "row"
      /\ all[MaxRows + 1] = "done"
  <2> DEFINE rowLines == [i \in 1..MaxRows |-> "row"]
  <2>1. /\ rowLines \in Seq({"row", "done"}) /\ Len(rowLines) = MaxRows
        /\ \A i \in 1..MaxRows : rowLines[i] = "row"
    OBVIOUS
  <2> HIDE DEF rowLines
  <2>2. all = rowLines \o <<"done">>
    BY DEF J!Lines, rowLines
  <2>3. <<"done">> \in Seq({"row", "done"}) /\ Len(<<"done">>) = 1 /\ <<"done">>[1] = "done"
    OBVIOUS
  <2> HIDE DEF all
  <2>4. QED
    BY <2>1, <2>2, <2>3
<1> J!Contains(some, "done")
  OBVIOUS
<1> HIDE DEF all
<1>2. /\ some \in Seq({"row", "done"}) /\ Len(some) = kept
      /\ \A i \in 1..kept : some[i] = all[i]
  BY <1>1
<1>3. PICK k \in 1..kept : some[k] = "done"
  BY <1>2 DEF J!Contains
<1>4. k = MaxRows + 1 /\ kept = MaxRows + 1
  BY <1>1, <1>2, <1>3
<1>5. {i \in DOMAIN some : some[i] = "row"} = 1..MaxRows
  <2>1. DOMAIN some = 1..(MaxRows + 1)
    BY <1>2, <1>4
  <2>2. \A i \in 1..(MaxRows + 1) : some[i] = "row" <=> i \in 1..MaxRows
    BY <1>1, <1>2, <1>4
  <2>3. QED
    BY <2>1, <2>2
<1>6. Cardinality(1..MaxRows) = MaxRows
  <2>1. MaxRows >= 1 => Cardinality(1..MaxRows) = MaxRows - 1 + 1
    BY FS_Interval
  <2>2. MaxRows = 0 => 1..MaxRows = {}
    OBVIOUS
  <2>3. QED
    BY <2>1, <2>2, FS_EmptySet
<1>7. QED
  BY <1>5, <1>6 DEF all, some

LEMMA QueryStep == ASSUME JourneyInv, J!Query PROVE JourneyInv'
<1> USE JourneyBounds DEF J!JourneyAssumption
<1>1. /\ jpc = "query" /\ kinds = <<>> /\ metrics.available
      /\ UNCHANGED <<kinds, wrong, mirrors, pending, tail, engine, jsamples, jlog, incompletions>>
  BY DEF J!Query, JourneyInv, QueryIsAlone
<1>2. attempt' = attempt + 1 /\ jpc' \in {"query", "end"}
      /\ (jpc' = "query" => metrics' = metrics)
  BY <1>1 DEF J!Query, J!Fail
<1>3. J!MetricsAreWhole'
  <2>1. CASE J!Fail
    BY <1>1, <2>1 DEF J!Fail, J!MetricsAreWhole
  <2>2. CASE \E kept \in 0..(MaxRows + 1) :
                LET lines == SubSeq(J!Lines(MaxRows), 1, kept)
                IN  metrics' = [available |-> TRUE,
                                rows |-> J!Cardinality({i \in DOMAIN lines : lines[i] = "row"}),
                                whole |-> J!Contains(lines, "done")]
    <3>1. PICK kept \in 0..(MaxRows + 1) :
                LET lines == SubSeq(J!Lines(MaxRows), 1, kept)
                IN  metrics' = [available |-> TRUE,
                                rows |-> J!Cardinality({i \in DOMAIN lines : lines[i] = "row"}),
                                whole |-> J!Contains(lines, "done")]
      BY <2>2
    <3> DEFINE lines == SubSeq(J!Lines(MaxRows), 1, kept)
               count == J!Cardinality({i \in DOMAIN lines : lines[i] = "row"})
               done == J!Contains(lines, "done")
    <3>2. metrics' = [available |-> TRUE, rows |-> count, whole |-> done]
      BY <3>1
    <3>3. done => count = MaxRows
      BY WholeAnswer, JourneySize
    <3> HIDE DEF count, done
    <3>4. metrics'.available /\ metrics'.rows = count /\ (metrics'.whole = done)
      BY <3>2
    <3>5. QED
      BY <3>3, <3>4, Zenon DEF J!MetricsAreWhole
  <2>3. QED
    BY <2>1, <2>2 DEF J!Query
<1>4. JourneyTypes' /\ QueryIsAlone' /\ Accounted'
  <2>1. JourneyTypes'
    BY <1>1, <1>2 DEF JourneyInv, JourneyTypes
  <2>2. QueryIsAlone'
    BY <1>1, <1>2 DEF JourneyInv, QueryIsAlone
  <2>3. Accounted'
    BY <1>1, <1>2 DEF JourneyInv, Accounted
  <2>4. QED
    BY <2>1, <2>2, <2>3
<1>5. J!MirrorIsTrue' /\ J!DemotionsAreProved' /\ J!WrongPathIsReported'
  <2>1. ~J!Over'
    BY <1>1 DEF J!Over
  <2>2. J!MirrorIsTrue'
    BY <1>1, <1>2 DEF JourneyInv, QueryIsAlone, J!MirrorIsTrue, J!Fed
  <2>3. QED
    BY <2>1, <2>2 DEF J!DemotionsAreProved, J!WrongPathIsReported
<1>6. AllTaken'
  BY <1>1 DEF JourneyInv, AllTaken, Taken, J!Neighbours
<1>7. QED
  BY <1>3, <1>4, <1>5, <1>6 DEF JourneyInv

LEMMA JourneyKeeps == JourneyInv /\ [J!Next]_(J!vars) => JourneyInv'
<1> SUFFICES ASSUME JourneyInv, [J!Next]_(J!vars) PROVE JourneyInv'
  OBVIOUS
<1>1. CASE UNCHANGED J!vars
  BY <1>1 DEF J!vars, J!journey, JourneyInv, JourneyTypes, QueryIsAlone, Accounted, AllTaken, Taken,
       J!Neighbours, J!MirrorIsTrue, J!DemotionsAreProved, J!WrongPathIsReported,
       J!MetricsAreWhole, J!Over
<1>2. QED
  BY <1>1, LoginStep, LoginFailsStep, StepStep, DemoteStep, QueryStep DEF J!Next

LEMMA JourneyAccounts == JourneyInv => J!JourneyIsAccountedFor
<1> SUFFICES ASSUME JourneyInv, J!Over PROVE J!JourneyIsAccountedFor
  BY DEF J!JourneyIsAccountedFor
<1>1. Accounted /\ JourneyTypes /\ jpc = "end" /\ kinds # <<>>
  BY DEF JourneyInv, J!Over
<1>2. /\ Len(jsamples) \in Nat /\ Len(kinds) \in Nat
      /\ DOMAIN jlog = 1..Len(jlog) /\ DOMAIN jsamples = 1..Len(jsamples)
  BY <1>1 DEF JourneyTypes
<1>3. \A x \in incompletions : x.executed = Len(jsamples) /\ x.executed + x.skipped = Len(kinds)
  <2>1. \A x \in incompletions :
           x = [executed |-> Len(jsamples), skipped |-> Len(kinds) - Len(jsamples)]
    BY <1>1 DEF Accounted
  <2>2. \A m, n \in Nat : m + (n - m) = n
    OBVIOUS
  <2>3. QED
    BY <1>2, <2>1, <2>2
<1>4. incompletions = {} => Len(jsamples) = Len(kinds)
  BY <1>1 DEF Accounted
<1>5. {jlog[k].step : k \in DOMAIN jlog} = {i \in DOMAIN jsamples : kinds[i] # "none"}
  <2>1. \A k \in DOMAIN jlog : jlog[k].step \in DOMAIN jsamples /\ kinds[jlog[k].step] # "none"
    BY <1>1, <1>2 DEF Accounted
  <2>2. \A i \in DOMAIN jsamples : kinds[i] # "none" => \E k \in DOMAIN jlog : jlog[k].step = i
    BY <1>1, <1>2 DEF Accounted
  <2>3. QED
    BY <2>1, <2>2
<1>6. \A k \in DOMAIN jlog : jlog[k].checked = (jlog[k].reason = "")
  BY <1>1, <1>2 DEF Accounted
<1>7. QED
  BY <1>3, <1>4, <1>5, <1>6, Zenon DEF J!JourneyIsAccountedFor

\* Whatever the application answers and whenever it is read: every step of a
\* journey is sampled or counted as skipped, and logged with a reason if it was
\* not verified; what was taken back was followed by a verified step that was met;
\* an application on another path at the last checkpoint is reported; and metrics
\* confirmed by their last line are all there are
\* (benchmark/adapters.py, SSHReplayAdapter).
THEOREM JourneyStaysHonest == J!Spec => []JourneyIsHonest
<1>1. JourneyInv => JourneyIsHonest
  BY JourneyAccounts DEF JourneyInv, JourneyIsHonest, J!JourneyIsHonest
<1>2. QED
  BY <1>1, JourneyStarts, JourneyKeeps, PTL DEF J!Spec

=============================================================================
