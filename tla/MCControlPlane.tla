-------------------------- MODULE MCControlPlane ---------------------------
(***************************************************************************)
(* What the control plane does with its connections, those to its database *)
(* and those of its users, with its captures, its benchmarks, its synthetic*)
(* replays and its schedules, for TLC.  These parts share no state, so one *)
(* run takes them in turn: turn is drawn once, the part it names begins and*)
(* moves, and the variables of the others keep a value nothing reads.      *)
(***************************************************************************)
EXTENDS ConnectionPool, Sequences, TLC

CONSTANTS Handlers, MaxBoots,  \* requests served at once; bound: starts of the server
          MaxCaptures,         \* CaptureLifecycle
          Users, JourneySteps, ErrorCap, FailedPasses, MaxPasses, \* BenchmarkPhase
          Envs, Levels, Iterations,                  \* BenchmarkLadder
          MaxFailedRuns,                             \* bound: runs of a ladder that fail
          Experiments, Runners, MaxRequests,         \* BenchmarkSupervisor
          Jobs, Pipelines, Nobody, PoolSize, WorkFaults, \* SyntheticReplay
          Clients, MaxConnections, Casters,          \* ControlServer
          Addresses, MaxAdmitted, Window, MaxKeys, MaxTime, \* RateLimiter
          Journeys, MaxAttempts, MaxRows,            \* BenchmarkJourney
          Loops, SeededSessions, MaxRuns, Intervals  \* Schedules

VARIABLES turn,
          gateway, captures, recorded, session, process, cboots, cpc, crequest,
          sampler, runtime, coverlapped,
          at, late, fatal, errors, complete, cuts, before, got, strikes, transport,
          passes, whole,
          phase, iteration, level, runs, aborted, evidence, inARow, ceiling, stop,
          lmet, result,
          status, disk, run, samples, compared, request, thread, registry,
          cancelled, served, boots, overlapped, met, lost,
          parts, dataset, trail, job, jrun, pool, pipeline, jmet,
          conn, slots, detached, leaked, mine, wire, slow, caster, current, server,
          time, hits, admitted,
          kinds, wrong, mirrors, pending, tail, engine, jpc, jsamples, jlog,
          incompletions, attempt, metrics,
          running, loop, due, elapsed, sruns, rows, restarted

ofPool == <<free, created, inUse, pc, hand>>
ofCapture == <<gateway, captures, recorded, session, process, cboots, cpc, crequest,
               sampler, runtime, coverlapped>>
ofPhase == <<at, late, fatal, errors, complete, cuts, before, got, strikes,
             transport, passes, whole>>
ofLadder == <<phase, iteration, level, runs, aborted, evidence, inARow, ceiling,
              stop, lmet, result>>
ofSupervisor == <<status, disk, run, samples, compared, request, thread, registry,
                  cancelled, served, boots, overlapped, met, lost>>
ofWork == <<parts, dataset, trail, job, jrun, pool, pipeline, jmet>>
ofServer == <<conn, slots, detached, leaked, mine, wire, slow, caster, current, server>>
ofLimiter == <<time, hits, admitted>>
ofJourney == <<kinds, wrong, mirrors, pending, tail, engine, jpc, jsamples, jlog,
               incompletions, attempt, metrics>>
ofSchedules == <<running, loop, due, elapsed, sruns, rows, restarted>>

MCEnvs == <<"a", "b">>
MCLevels == <<1, 2>>
MCJourneys ==
    {<<>>, <<"text", "text", "text">>, <<"cut", "sig", "text">>, <<"text", "cut", "sig">>,
     <<"text", "none", "text">>}

C == INSTANCE CaptureLifecycle WITH pc <- cpc, boots <- cboots, request <- crequest,
        overlapped <- coverlapped
P == INSTANCE BenchmarkPhase
L == INSTANCE BenchmarkLadder WITH met <- lmet
S == INSTANCE BenchmarkSupervisor WITH Threads <- Runners
W == INSTANCE SyntheticReplay WITH run <- jrun, met <- jmet, Faults <- WorkFaults
N == INSTANCE ControlServer WITH Conns <- Clients
A == INSTANCE RateLimiter WITH Keys <- Addresses, MaxRequests <- MaxAdmitted
J == INSTANCE BenchmarkJourney WITH Rows <- MaxRows, pc <- jpc,
        samples <- jsamples, log <- jlog
H == INSTANCE Schedules WITH Sessions <- SeededSessions, runs <- sruns

ASSUME CaptureBounds == C!CaptureAssumption
ASSUME PhaseBounds == P!PhaseAssumption
ASSUME LadderBounds == L!LadderAssumption
ASSUME SupervisorBounds == S!SupervisorAssumption
ASSUME WorkBounds == W!ReplayAssumption
ASSUME ServerBounds == N!ServerAssumption
ASSUME LimiterBounds == A!LimiterAssumption
ASSUME ScheduleBounds == H!ScheduleAssumption
ASSUME JourneyBounds == J!JourneyAssumption

Parts == {"pool", "capture", "phase", "ladder", "supervisor", "work", "server", "limiter",
          "journey", "schedules"}
\* The configuration lets the parts share the names that are interchangeable.
Swap == Permutations(Handlers)

MCInit ==
    /\ turn \in Parts
    /\ IF turn = "pool" THEN Init
       ELSE /\ free = {} /\ created = 0 /\ inUse = {}
            /\ pc = [t \in Threads |-> "out"] /\ hand = [t \in Threads |-> None]
    /\ IF turn = "capture" THEN C!Init
       ELSE /\ gateway = 0 /\ recorded = 0 /\ session = 0 /\ process = 0
            /\ cboots = 0 /\ cpc = 0 /\ crequest = 0 /\ sampler = 0 /\ runtime = 0
            /\ coverlapped = 0 /\ captures = <<>>
    /\ IF turn = "phase" THEN P!Init
       ELSE /\ at = 0 /\ late = 0 /\ fatal = 0 /\ errors = 0 /\ complete = 0
            /\ cuts = 0 /\ before = 0 /\ got = 0 /\ strikes = 0 /\ transport = 0
            /\ passes = 0 /\ whole = 0
    /\ IF turn = "ladder" THEN L!Init
       ELSE /\ phase = 0 /\ iteration = 0 /\ level = 0 /\ runs = 0 /\ aborted = 0
            /\ evidence = 0 /\ inARow = 0 /\ ceiling = 0 /\ stop = 0 /\ lmet = 0
            /\ result = 0
    /\ IF turn = "supervisor" THEN S!Init
       ELSE /\ status = 0 /\ disk = 0 /\ run = 0 /\ samples = 0 /\ compared = 0
            /\ request = 0 /\ thread = 0 /\ registry = 0 /\ cancelled = 0
            /\ served = 0 /\ boots = 0 /\ overlapped = 0 /\ met = 0 /\ lost = 0
    /\ IF turn = "work" THEN W!Init
       ELSE /\ parts = 0 /\ dataset = 0 /\ trail = 0 /\ job = 0 /\ jrun = 0
            /\ pool = 0 /\ pipeline = 0 /\ jmet = 0
    /\ IF turn = "server" THEN N!Init
       ELSE /\ conn = 0 /\ slots = 0 /\ detached = 0 /\ leaked = 0 /\ mine = 0
            /\ wire = 0 /\ slow = 0 /\ caster = 0 /\ current = 0 /\ server = 0
    /\ IF turn = "limiter" THEN A!Init
       ELSE /\ time = 0 /\ hits = 0 /\ admitted = 0
    /\ IF turn = "journey" THEN J!Init
       ELSE /\ kinds = 0 /\ wrong = 0 /\ mirrors = 0 /\ pending = 0 /\ tail = 0
            /\ engine = 0 /\ jpc = 0 /\ jsamples = 0 /\ jlog = 0 /\ incompletions = 0
            /\ attempt = 0 /\ metrics = 0
    /\ IF turn = "schedules" THEN H!Init
       ELSE /\ running = 0 /\ loop = 0 /\ due = 0 /\ elapsed = 0 /\ sruns = 0
            /\ rows = 0 /\ restarted = 0

MCNext ==
    /\ UNCHANGED turn
    /\ \/ /\ turn = "pool"
          /\ UNCHANGED <<ofCapture, ofPhase, ofLadder, ofSupervisor,
                         ofWork, ofServer, ofLimiter, ofJourney, ofSchedules>>
          /\ Next
       \/ /\ turn = "capture"
          /\ UNCHANGED <<ofPool, ofPhase, ofLadder, ofSupervisor,
                         ofWork, ofServer, ofLimiter, ofJourney, ofSchedules>>
          /\ C!Next
       \/ /\ turn = "phase"
          /\ UNCHANGED <<ofPool, ofCapture, ofLadder, ofSupervisor,
                         ofWork, ofServer, ofLimiter, ofJourney, ofSchedules>>
          /\ P!Next
       \/ /\ turn = "ladder"
          /\ UNCHANGED <<ofPool, ofCapture, ofPhase, ofSupervisor,
                         ofWork, ofServer, ofLimiter, ofJourney, ofSchedules>>
          /\ L!Next
          /\ Cardinality({r \in runs' : r.failure # ""}) <= MaxFailedRuns
       \/ /\ turn = "supervisor"
          /\ UNCHANGED <<ofPool, ofCapture, ofPhase, ofLadder,
                         ofWork, ofServer, ofLimiter, ofJourney, ofSchedules>>
          /\ S!Next
       \/ /\ turn = "work"
          /\ UNCHANGED <<ofPool, ofCapture, ofPhase, ofLadder,
                         ofSupervisor, ofServer, ofLimiter, ofJourney, ofSchedules>>
          /\ W!Next
       \/ /\ turn = "server"
          /\ UNCHANGED <<ofPool, ofCapture, ofPhase, ofLadder,
                         ofSupervisor, ofWork, ofLimiter, ofJourney, ofSchedules>>
          /\ N!Next
       \/ /\ turn = "limiter"
          /\ UNCHANGED <<ofPool, ofCapture, ofPhase, ofLadder,
                         ofSupervisor, ofWork, ofServer, ofJourney, ofSchedules>>
          /\ A!Next
       \/ /\ turn = "journey"
          /\ UNCHANGED <<ofPool, ofCapture, ofPhase, ofLadder,
                         ofSupervisor, ofWork, ofServer, ofLimiter, ofSchedules>>
          /\ J!Next
       \/ /\ turn = "schedules"
          /\ UNCHANGED <<ofPool, ofCapture, ofPhase, ofLadder,
                         ofSupervisor, ofWork, ofServer, ofLimiter, ofJourney>>
          /\ H!Next

MCSpec == MCInit /\ [][MCNext]_<<turn, ofPool, ofCapture, ofPhase, ofLadder, ofSupervisor,
                               ofWork, ofServer, ofLimiter, ofJourney, ofSchedules>>

-----------------------------------------------------------------------------
\* The properties of the parts, by the names the configuration needs: a part
\* is looked at in its turn.
CapturesFollowGateway == turn = "capture" => C!CapturesFollowGateway
FinishedIsFinal == C!FinishedIsFinal
BenchmarksAreHonest ==
    /\ turn = "phase" => P!PhaseIsHonest
    /\ turn = "ladder" => L!VerdictIsHonest
JourneyIsHonest == turn = "journey" => J!JourneyIsHonest
ExecutionsAreTracked == turn = "supervisor" => S!ExecutionsAreTracked
SyntheticWorkIsSound ==
    /\ turn = "work" => W!JobsAreSound
    /\ turn = "schedules" => H!SchedulesAreKept
ConnectionsAreBounded ==
    /\ turn = "server" => N!ServerIsSound
    /\ turn = "limiter" => A!LimitHolds

=============================================================================
