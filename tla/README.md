# TLA+ models of the R2 gateway

Models, model checking and proofs of the parts of `src/gateway` that keep state
other people rely on: the signed audit trail and what is made of it, the replay
of trails against a target, the terminal sessions on either side, and the
control plane with its captures, benchmarks, synthetic work and connections.
`PROJECT.json` lists the components, the runs, the mutants, the lines of source
behind every definition, the hazards and the findings.

## The system

| Component | State it keeps | Interacts with | What is hard |
|---|---|---|---|
| Audit writer `audit_writer.py` | `audit-*.jsonl`, manifests, `audit.state`; per process a cached checkpoint and a descriptor | daemon, gateway; other processes through files and `flock` | crash or I/O error between two writes, stale caches, torn lines |
| Verifier `verifier.py` | none | reads what writers left | accepting exactly the whole chains |
| Capture daemon, audit client `capture_daemon.py`, `audit_client.py` | a queue and a thread per capture; a connection per client | sockets, audit writer | submit against close, failed batches, late answers, resends |
| Terminal gateway `gateway.py` | one session: PTY, child, screen | user, child, audit log | signals between steps, output after the death of the child |
| Terminal engine `dakota_terminal/` | cells, cursor, parser | gateway, replay, pages | output cut anywhere, resizes, diffs |
| Run lifecycle `runner.py`, `run_service.py`, `run_routes.py` | rows of runs, registry of threads | executors, database | check-then-act over autocommitted statements |
| Executors and adaptive policy `replay_control/` | sessions, pool, `stop_all`, batches | run control by callbacks, target hosts | stop, pause, fail-fast; never batching over a barrier |
| Comparison `replay_compare.py`, `deterministic.py`, `replay_failures.py` | none | executors | what a screen that differs is taken for |
| Trail replay `replay.py` | sessions, observed trails | target hosts, evidence | a recorder that fails once |
| Evidence bundle `evidence_bundle.py` | a directory of copies and hashes | observed trails, runs | a trail copied while it is written |
| Session pages, capture index `session_replay_service.py`, `session_index_cache.py` | windows, index, saved engine states | growing logs | caches that must not show |
| Capture lifecycle `capture_service.py`, `gateway_state_service.py` | capture rows, gateway switch | daemon, gateway sessions | two active captures, boot reconciliation |
| Benchmarks `benchmark/`, `benchmark_service.py` | ladders, phases, journeys, rows | target hosts, database | a limit against a broken start, cancel against the end |
| Synthetic replay, trail, schedules `synthetic/`, `capture_synthesis_service.py` | jobs, datasets, trails, schedules | runs, pool, files | jobs of one capture share their files |
| Pool, limiter, server, web sockets `db/connection.py`, `rate_limit.py`, `server.py`, `websocket_support.py` | connections, windows, slots, broadcasters | every request | bounds and hand-overs |
| Compliance, window of a run, synthesis of data, source analysis, reports, UI, Tcl | | | sequential transformation, queries, rendering |

What makes the modelled ones correct: the trail is one chain, append-only, and
holds whatever was confirmed; the daemon writes each request once, in order of
arrival, and answers it; a run that says "running" is being run by somebody, a
cancel takes effect, one run per trail and target is active; an executor says
truly what became of its sessions and lets nothing out after its end; what a
page, a bundle, a verdict or a synthetic trail says is true of what it was made
from; nothing that is counted or bounded leaks.

## Modules

| Module | What it is |
|---|---|
| `AuditLog` | the promise: an append-only sequence of events; a batch is confirmed when it is the tail |
| `AuditWriter` | the writers of one directory, step by step |
| `AuditVerifier` | `verify_log` and `verify_manifests` as folds over the files |
| `AuditWriterInv`, `AuditWriterProofs` | inductive invariants of `AuditWriter`; theorems, and that it implements `AuditLog` |
| `CaptureDaemon`, `CaptureDaemonProofs` | clients, connections, queue, writer thread and shutdown of one capture; theorems |
| `RunLifecycle`, `RunLifecycleProofs` | requests, runner threads and rows of the runs of one trail; theorems |
| `ReplayPhase` | the promise of an executor to the thread of its run |
| `ReplayExecutors` | the three executors with their pools |
| `AdaptiveReplay` | batches of one session, evidence, plan and shadow tracker |
| `SignatureWait` | the wait for an expected screen |
| `Divergence` | what a screen that differs is taken for |
| `TrailReplay` | the replay without control and the recorder of what it printed |
| `TerminalGateway`, `TerminalEngine` | a recorded session; its screen |
| `SessionsProofs` | theorems about `ReplayExecutors` and `TerminalGateway` |
| `SessionWindow`, `CaptureIndex` | a session served in windows; the index of a growing capture |
| `SyntheticTrail`, `SyntheticReplay`, `Schedules` | how a session becomes synthetic; the jobs around it; runs that are due |
| `Evidence` | export and verification of a bundle |
| `ScreensProofs` | theorems about `SignatureWait`, `TrailReplay`, `AdaptiveReplay` and `CaptureIndex` |
| `RecordsProofs` | theorems about rotation in `AuditWriter`, and about `Evidence` |
| `CaptureLifecycle` | switch, captures, sampler, boot |
| `BenchmarkPhase`, `BenchmarkLadder`, `BenchmarkJourney`, `BenchmarkSupervisor` | a timed phase; the ladder of levels; one journey; the requests and rows around them |
| `ConnectionPool` | connections to the database |
| `ControlServer`, `RateLimiter` | slots, web sockets, broadcasters; windows of addresses |
| `ControlPlaneProofs` | theorems about `CaptureLifecycle`, `ConnectionPool`, `ControlServer` and `RateLimiter` |
| `BenchmarkProofs` | theorems about `BenchmarkSupervisor`, `BenchmarkPhase`, `BenchmarkLadder`, `SyntheticReplay`, `Schedules` and `BenchmarkJourney` |
| `MC...` | instances for TLC |

Modules that share no state are checked by one run: the `MC` module instantiates
them beside each other, `turn` is drawn once, the part it names begins and moves,
and the variables of the others keep a value nothing reads. Nothing is lost by it, since a step of one part
changes no variable of another, and the sum of the state spaces is explored
instead of their product. Parts that do interact are one module: clients with
daemon (`CaptureDaemon`), requests with threads and rows (`RunLifecycle`), jobs
with runs and pool (`SyntheticReplay`), gateway sessions with captures
(`CaptureLifecycle`), slots with web sockets (`ControlServer`).

### AuditWriter, AuditVerifier

One process is one writer with its cache `memSt`, the text `raw` of `audit.state`
it stands for, and its descriptor `fh`. `append_many` is `Begin` (lock,
`_ensure_state_locked`, sign in memory), then for each line `OpenLog`, `Rotate`,
`OpenLog` again and `WriteLine`, then `Save`. Between any two of these a crash or
an error may fall (`Crash`, `IoFails`, `SaveFails`); `Reject` is a batch with an
invalid event. The lock makes one writer at a time do this, so `holder`, `pc`,
`pending` and `batch` belong to the call and not to the writer.

A hash is a fresh number, a file the sequence of its lines, the order of file
names the order of numbers. Times are one bit per file, `fresher`: its mtime is
later than that of `audit.state`, which is all `_heal_state_from_log` asks. With
the fault `tick` the bit may be missing after a write. Buffered lines a crash
loses are lines never written; `buffered` counts the lines of the call that are
not flushed yet, and `CloseLog` is the close of a full part in the middle of a
batch, which passes over a failing flush (`audit_writer.py:286-291`, 302): with
the fault `io` any number of them may be lost there while the batch goes on. A failing save leaves the old `audit.state`: the
code writes another file and renames it. `CheckChain` is the pass of the verifier
over all files, `CheckManifests` the comparison of the statistics; forged
signatures are outside the model, so recomputing hash and HMAC agrees.

### CaptureDaemon

One capture. A client has one request in progress (`AuditClient._lock`), `conn`
names its connection and grows with each reconnection. Handlers are indexed by
connection. A request is one item, whatever the number of its events;
`append_many` of a batch is one step that writes all, none, or with an I/O
error some first part, which is what `AuditWriter` shows of it. `MayRead` is the
Python rule that a buffered socket file that timed out raises on every later
read. The stages of `stopping` are those of `run_daemon`: asked, closing (cache
closed), joining (writer closed, sentinel queued), closed (AuditWriter closed).
`writer` is the one the handlers share, with its `_closed` and that of its
AuditWriter. `Dispatch` creates it for the first request, and would create
another for a connection that outlives `close_all` if `CacheOpen`, the check of
line 243, were not there. A `Join` that gave up leaves a thread with a batch, and
its `append_many` then raises.

### RunLifecycle

All runs have the same trail and target, hence the same fingerprint; others do
not interact. Connections are in autocommit, so every statement is a step: a
start is `CheckStart`, `MarkStarted`, `CheckThread`, `Register`; a creation is
`Create` or `Retry`, then `Evaluate`; a deletion `CheckDelete`, `Delete`. A
thread goes through `Load`, `Mark`, `Verify`, `Attach`, then polls the status
(`Poll`) while the executor replays, which is one phase that ends by `Finish`,
by `Abort` (what `check` raised) or by `Break` (another exception), then
`Recheck`, `WriteResult` and `End`. Statements about a row that is gone change
nothing or raise. The registry entry of a thread that ended counts as none,
because the code asks `is_alive`. `unserved` is a history variable, used by
properties only. Errors of the database itself (locked, full) are left out.

### ReplayExecutors, AdaptiveReplay, SignatureWait, Divergence, TrailReplay

`ReplayExecutors` has a session per worker, the pool, the lock of the shared
control and the thread that submits, waits, stops and shuts down; what an event
is, is chosen when it comes up. What it calls in between is in modules of its
own, which share nothing with it but the outcome: `AdaptiveReplay` is the worker's
batching of one session beside the plan and the shadow tracker, written as
functions of the trail; `SignatureWait` is one wait on a clock of units, reading
one piece of output in a turn; `Divergence` builds a screen from the recorded one
by changes it knows (`done`) and follows the code's decisions over lines of
words. `TrailReplay` is the other way to replay, a session after the other or in
the global order, with the recorder of every session.

### TerminalGateway, TerminalEngine

The gateway is one loop: a piece of input or output is what one read returns, the
screen is how many pieces it shows, and signals set flags between any two steps.
The engine is a pure function of bytes that is run twice: once in pieces cut
anywhere (`whole`) and once byte by byte (`bytes`), with a player that only gets
the diffs.

### SessionWindow, CaptureIndex, Evidence

A screen is the set of events that made it, so that a cached one can be compared
with the one a full reading gives. In `CaptureIndex` a line is two units long and
a file with an odd size ends inside a line. In `Evidence` a trail is a number of
lines, whether the last one is torn, and what its manifest names; the row of the
run is what its two times say, which the replay goes on writing: a finished run
that is started again keeps its old end behind its new start (`runner.py:300`). An
export may fall anywhere in this, since nothing looks at the status.

### SyntheticTrail, SyntheticReplay, Schedules

`SyntheticTrail` goes through the steps of the builder: find where the system
starts, cut, enter it anew, substitute. Keys are symbols, an output is the one
thing the detection finds in it. `SyntheticReplay` has the jobs of one capture
with the files and connections they share; a trail is who wrote it, whose rows it
has and whether it is whole. `Schedules` has loops, a run with a thread per
session, begun in the order of the sessions, and rows whose rates are compared
as exact fractions. The empty row of a schedule whose journey is missing is left
out.

### CaptureLifecycle, BenchmarkPhase, BenchmarkLadder, BenchmarkJourney, BenchmarkSupervisor

`CaptureLifecycle` takes a request statement by statement, as `RunLifecycle` does:
the switch, start, stop and the `DELETE` of a capture, whose row is then
"deleted" and whose id no other capture gets. A phase is workers with sessions
until a deadline; a pass adds an error sample for every step that fails, since a
step that times out does not end the journey. The ladder is the loop over levels,
environments and iterations with the outcome of a run as a choice, and at its end
the runs of the level that stopped it, reclassified one after the other in memory
and then on disk, where a failing write is passed over (`Reclassify`). A journey
is the steps of one session with its checkpoints, and the supervisor the requests
and the thread that write the rows of an experiment.

### ConnectionPool, ControlServer, RateLimiter

In the pool a thread may be anywhere between the queue and the two fields under
the lock. The server has a thread for every connection and a slot for every short
one; a web socket gives its slot back. The limiter counts time in half seconds so
that rounding shows.

## Runs

| Run | Parts | Shows |
|---|---|---|
| `records` | one writer with a growing log; two writers that rotate, with the verifier; the engine; a synthetic trail; an evidence bundle | chain, durability, checkpoint, cache and the refinement of `AuditLog`; `verify_log` accepts exactly whole chains; screens, trails and bundles are true to what they were made from |
| `daemon_faults` | one client, two requests, every fault, one restart | what was confirmed is logged, answers are not mixed up, nothing is written after the close, neither by a thread the join gave up on nor by a writer made anew |
| `services` | two clients, unsignable events, shutdown; one run, two requests and two threads, every fault | written once, in order; everybody is answered, a shutdown ends, a cancel ends the replay, a running run is replayed |
| `run_lifecycle` | two runs, two requests and two threads at once, restart, an exception nobody handles | running runs are served, one active run |
| `sessions` | the executors; a gateway session | results are true, sessions are quiet soon after a stop, refinement of `ReplayPhase`, records are true, all end |
| `screens` | windows, index, wait, batches, divergences, trail replay | caches do not show, a wait answers for the screen it leaves, batches keep the trail, a divergence is not rated away, a replay is recorded without holes |
| `control_plane` | pool, captures, phase, ladder, journey, supervisor, synthetic jobs, schedules, server, limiter | bounds, hand-overs and verdicts of each |
| `writer_shared`, `run_cancel`, `session_seek`, `synthetic_trail`, `terminal_tab` | the smallest instance that shows it | findings, violated |

A fault that is switched off in a passing run is one whose effect a violated run
or a finding shows, or that multiplies states without touching the property. The
part "one" of `records` has one process and no rotation because with two
processes, or with a rotation before a crash, the chain does break, and because an I/O error
in the close of a full part loses confirmed lines (Findings); the part
"rotation" has two processes and every fault and shows that the reader sees it,
and with no fault (`calm`) that nothing breaks. The daemon part of `services` has
no I/O error because of a finding, and no crash or timeout because resends are
allowed to write twice.

Bounds. Two batches of two lines are enough for a failure inside a batch, after
it, and for the batch that follows; six signatures give three such calls. Two
processes are enough for one to be stale about the other. The client needs two
requests so that a late answer to the first can meet the second; `MaxDrain` is 2
so that the queue outlives a drain. Two requests at a time are what a
check-then-act race needs, two threads what a doubled run needs, two runs what
the index on the fingerprint needs. A session of three events has an event before
and after a batch of two; two sessions are what stop and fail-fast need. Windows
are near a file boundary, a wait has three pieces and time for a settle, a grace
and a pause. Three threads on a pool of two make somebody wait; two iterations
are what a ladder needs to judge one by the other, and with two levels and two
environments `MaxFailedRuns`, four of its eight runs, lets a whole level fail in
both iterations, or two levels in one; a journey of two steps and a cap of two
errors make one pass reach the cap; five journeys of up to three steps have every
kind of checkpoint beside a compared text; three attempts are the code's
own number for metrics.

Symmetry is used for processes, threads, requests and connections, which no
action tells apart, and in no run with liveness. Deadlock is not checked where
the system may stop: a client has a last request, a session ends, every run may
be created and deleted.

Fairness. `CaptureDaemon!FairSpec`: each handler, the writer thread and the
shutdown run when they can; the threads are plain Python threads without
priorities. Nothing is assumed of clients. `RunLifecycle!FairSpec`: requests
that began and threads go on; executors call `check` at every event and every
50 ms of a wait, so polls happen; `Finish` and `Break` are not fair, since a
replay takes as long as its trail. `ReplayExecutors!FairSpec`: the main thread and
each worker; a run that stays paused is not asked to end. `TerminalGateway`: the
loop, and a child that reads what it is given, without which a write to the PTY
blocks.

## Findings

Violated runs:

1. `writer_shared`: after a failure of one process the cache of another is taken
   as current, and `seq_global` is given twice. `audit_writer.py:37-40`, 154.
2. `run_cancel`: a cancel after `check_now` ends as success. `runner.py:600-607`.
3. `session_seek`: lines read by seeking are kept by their offset alone.
   `session_index_cache.py:185`, 207.
4. `synthetic_trail`: the synthetic trail of a rotated capture is never replayed
   and its run succeeds. `synthetic_trail.py:23-25`.
5. `terminal_tab`: a TAB goes to whichever stop the set yields first.
   `engine.py:199`, against `tests/fixtures/terminal_vectors/tab.json`.

Seen while modelling; the models contain them and the properties allow them, or
no run states them:

- Audit. A confirmed event is appended to a torn piece of a line: with the fault
  `torn` `AckedDurable` does not hold (`audit_writer.py:268`). The daemon repeats
  item by item an `append_many` that raised after writing, so an event may be
  written twice (`capture_daemon.py:203-204`). A confirmed event is lost when the
  flush in the close of a full part fails: `_close_log_locked` swallows it
  (`audit_writer.py:286-291`), `_maybe_rotate_locked` goes on (302), and
  `append_many` flushes the next part, saves and returns, although a failure in
  the middle of writing is to raise (37-40). TLC finds it in the part "one" with
  `RotateLines` 1 and the fault `io`: `AckedDurable` fails.
- Runs. A run is visible, and can be started, before its compliance is set
  (`run_service.py:309`; `README.md:336` of the repository). `start_run_async` looks
  for a living thread and registers without a lock (`runner.py:214`). An audit
  line without the fields of an event leaves its run "running" for ever, which
  `RunningIsServed` records as an exception; a run over a directory that is gone,
  as the retry of a synthetic run is, ends as success.
- Trail replay. When `_ssh_argv` raises or `Popen` fails after `openpty` both ends
  of the PTY stay open (`replay.py:235-252`, 285-295). A recorder that was disabled
  keeps its `observed_seq` at the last good line, and failures point there.
- Divergences. `LoadTestParams` has no `synthetic_explained_fast_exit`
  (`executors.py:784-810`), so the switch that `deterministic.py:145-160` documents
  is dead in the concurrent executor. An event with only the old `screen_sig`
  asks for a comparison (`replay_compare.py:29-44`) but by text alone. A refusal
  shown on an extra line is rated low. A wait that was never quiet returns a
  mismatch even if the last comparison matches.
- Benchmarks. An answer with host metrics that lost its last line is taken as
  whole (`adapters.py:933-939`); a divergence of text is taken back by the lag rule
  although the text at 768-772 says never; the second of two preamble anchors in
  one piece of output is lost (line 422). Several admission limits end as FAILED.
  "memória e evidência não podem divergir" (`executor.py:680-683`), but
  `_persist_run_status` passes over a missing file and a failing write (456-465):
  the disk then says FAILED of a run that memory calls ABORTED, and a later
  comparison is harsher than the verdict. Milder it is never, as long as no level
  is asked for twice, which is `DiskIsNotMilder`.
- Synthetic work. A key that breaks a value off is not tried as the beginning of
  one (`synthetic_trail.py:499-500`, against the comment at 476), and keys sent to
  a wrapper may be sent twice (268-296). A pipeline loses a connection when an
  `UPDATE` raises (`synthetic_plan_service.py:472-507`, 527). A schedule stopped and
  started while its loop sleeps runs twice; `alert_threshold_pct` is read from a
  row that has no such column (`scheduler.py:216-221`).
- Evidence. A run whose directory holds no trail has no gap, and its bundle is
  invalid from birth (`evidence_bundle.py:214-243`, 521). So is the bundle of a
  finished run that was started again: `runner.py:300` writes a new start beside
  the old end, the export has no look at the status, and check 3 of the verifier
  (485-492) finds an end before the start.
- Connections. A thread that cannot start keeps its slot (`server.py:392`); a pong
  may be written into a frame that is half sent (`websocket_support.py:84-107`); a
  web socket that upgrades while the server closes creates a broadcaster nobody
  stops (`websocket_support.py:286`, against 293-299).

## Proofs

The theorems hold for every value of the constants that the named assumptions of
the modules allow: any number of processes, connections, sessions, threads and
events, any trails, journeys, loads and levels. The assumptions say what the code
gives: the levels of a ladder are in any order but each asks for a session, and an
experiment has an environment; the events of a trail have times. Each comes from an inductive invariant that TLC checked on a small
instance before it was proved.

| Module | Theorems | Invariant behind them |
|---|---|---|
| `AuditWriterProofs` | `TypeCorrect`, `AckedEventsSurvive`, `CheckpointNeverAhead`, `ChainSurvives`; `WriterImplementsLog`, `CachesAreCurrent` | `DurableInv`, `OneWriterInv`, `LogInv` |
| `RecordsProofs` | `RotationStaysClean`; `EvidenceKeepsStanding` | `CalmInv`; `EvidenceInv` |
| `CaptureDaemonProofs` | `DaemonTypes`, `WhatIsConfirmedIsLogged`, `AnswersAreNotMistaken`, `AtMostOnce`, `ClosedStaysClosed` | `DaemonInv`, `WholeInv` |
| `RunLifecycleProofs` | `LifecycleTypes`, `OneActiveAtATime`, `RunningRunsAreServed` | `LifecycleInv` |
| `SessionsProofs` | `ExecutorsTypes`, `ResultsHold`, `StopIsQuiet`, `ExecutorsImplementPhase`; `RecordHolds` | `ExecutorsInv`; `GatewayInv` |
| `ScreensProofs` | `WaitStaysSound`; `ReplayStaysFaithful`; `TrailStaysWhole`; `IndexStaysSound` | `WaitInv`; `ReplayInv`; `BatchInv`; `IndexInv` |
| `ControlPlaneProofs` | `CapturesStayWithGateway`, `FinishedStaysFinished`; `PoolSound`; `ServerStaysSound` | `CaptureInv`; `IInv`; `ServerInv`, `LimiterInv` |
| `BenchmarkProofs` | `ExecutionsStayTracked`; `BenchmarksStayHonest`; `SyntheticWorkStaysSound`; `JourneyStaysHonest` | `ExecutionInv`; `PhaseInv`, `LadderInv`; `WorkInv`, `ScheduleInv`; `JourneyInv` |

**Audit writer.** `AckedEventsSurvive` and `CheckpointNeverAhead` need no lock
discipline, only `NothingDropped`: no line is torn, and no part is closed with an
I/O error, that is, either nothing rotates or nothing raises one. `DurableInv` says
that a batch in flight is where its writer will look for it (`BatchOK`,
`TargetOK`). Without either half of the condition the property is false
(Findings). `ChainSurvives`, `CachesAreCurrent` and the
refinement of `AuditLog` assume `OneProcess`: one process, no rotation, no torn
line, no two writes within one mtime. Two processes break the chain
(`writer_shared`), and so does rotation before a crash. `OneWriterInv` says that all
lines are in the newest file and that checkpoint, cache, descriptor and pending
lines each are at its tail, or known to be behind it. The map to `AuditLog` is
the sequence of hashes of the files put one after the other; `LogInv` adds that
a batch being written is the tail of it.

**Rotation.** `RotationStaysClean` is about any number of processes that rotate the
parts under each other while nothing fails. `CalmInv` says where the log stands at
rest (`AtRest`: `audit.state` is the end of the newest part with lines, whatever
empty part was begun behind it), what a process that holds the lock has done of
its batch at each place (`InCall`), that a closed part is as its manifest says
(`FilesKept`), and that a cache is the state that its text stands for
(`CacheKept`), so that one whose text differs is read anew. The chain alone is not inductive:
the first line of a part links to the last line of the part before it that has
any, and which that is depends on the files the process has just begun.

**Capture daemon.** `DaemonInv` follows a request from its client over the wire, the
handler, the queue and the batch into the log and back: a connection that may
still be read carries one request (`TurnsOK`), which is in one place at a time
(`PlacesOK`), what is answered "ok" is in the log (`AnswersTrue`), and a connection
its process has broken is used no more (`DeadQuiet`). `ClosedStaysClosed` rests on
`SealedOK`: past the shutdown of the writers the one that a thread may still write
with is sealed, and no handler replaces it, whatever connections are still served. `AtMostOnce`
assumes that the log raises no I/O error after it has written; with `"io"` the
item by item repetition writes an event twice (Findings).

**Run lifecycle.** `LifecycleInv` says which thread or request answers for each run
(`AllServed`), that the registry names threads that exist (`RegistryOK`) and that
the unique index of fingerprints is kept by every write (`OneActive`).

**Replay executors.** `ExecutorsInv` has a part for each session (how far it is, what
it was reported as, what it may still write once the stop is set) and one for the
thread of the run (which sessions it has passed on, why it leaves). `Hand` is what
makes `QuietSoon` inductive: `late[s] + Hand(s) <= 2`. The map to `ReplayPhase` counts
the events that are out; a session step lets it grow or stay, no step of the
thread of the run changes it, and after the end no session moves.

**Terminal gateway.** `GatewayInv` puts the counters of the log beside what passed:
they differ by one only in the step between the two (`InputOK`, `OutputOK`) or
after a session that left there; `ScreenOK` ties the clock of the screen to the
screens that stood still.

**Waits.** `WaitInv` adds to the promise that what is left to read comes no later
than the last print and the pauses let it (`PiecesAreRead`), which bounds when the
screen settles, and of the comparison kept from an earlier turn, that it was of a
quiet screen and still is of this one while nothing was read (`ComparisonsHold`):
that is why skipping the comparison is sound.

**Trail replay.** The order of the events is a permutation for any trail
(`PlanTogether`, by counting the events ahead of each), in which one session after
the other has its events side by side: without that, the session that a step
closes might have an event to come (`OpenedInTurn`). `Earned` is the promise for
the events behind the place. `Kept` says of each recorder that it has the start,
one line for each piece and an end only if it still records: one line less, and
it is disabled for good.

**Adaptive batches.** `BatchInv` takes the writes with the open batch behind them as
one list of rows: what the rows carry is in order, and is what has bytes up to here
but for what was skipped (`AllCarried`). `BatchIsOpen` says why a batch may still
grow: nothing that ends one came since its first key, and none is open after a wait
that converged, which is why the pacing such a wait leaves out is never that of a
key inside a batch. What the plan and the shadow tracker make of the same trail are
folds over it and stay with TLC.

**Capture index.** `IndexInv` says that an index in the cache, in the hands of a
request or in an answer is exact as far as it goes (`ExactSoFar`), while the files
grow under it, and where a request has got: the files behind it are indexed up to the
last whole line they had when it listed them (`Going`). That is what lets an answer
be no older than its request (`WasAnswered`), also when it came by way of an index
that another request stored in between.

**Evidence.** `EvidenceInv` follows the export, a trail after the other: what has
been copied is judged as it was copied (`CopiesAreJudged`), and the list of hashes
is of what was built (`ListedAsBuilt`), the row of the run with it, while the
replay writes on and the run may end or be started again.

**Benchmarks.** `ExecutionInv` ties a row that says RUNNING to the registry and to
one thread (`RegistryHolds`, `RunningIsServed`), and marks the executions nobody
overlapped (`AloneIsClean`). `PhaseInv` counts the workers that are about to add an
error or to say how a journey ended, so that the figures are bounds at every
step. `LadderInv` carries what the loop over levels may rely on at each point of it
(`CeilingServes`, `StopServes`, `RowServes`), and that a failed run says so on the
disk unless it is one of those reclassified (`FilesServe`). `JourneyInv` keeps account of the steps beside the samples and the log
(`Accounted`) and of what a sample is before anything is taken back (`AllTaken`); at
the end two rules take divergences back, from the last step to the first.

**Synthetic work.** `WorkInv` says what each job has told at each place (`JobTells`),
that the files of a job that met no other are its own (`JobIsAlone`), and counts
the connections (`PoolIsWhole`). `ScheduleInv` counts the sessions of each run
apart from the rows (`Counted`) and, until a restart, allows one loop
(`LoopIsAlone`).

**Control plane.** `CaptureInv` follows a boot, which runs alone (`BootOK`), and a
request that nobody met (`AloneOK`): `Facts` lists what such a request has read
and still holds at each place, up to the status that was looked up before an
insert. `FinishedIsFinal` needs no such assumption; it is about the status, for an
overlapping stop may replace the counts and the time of the end. `ServerInv`: `SlotsOK` counts
slots as sets of connections and marks who gave one back, `ListsOK` adds that whoever
a broadcaster is about to drop is slow already, `FramesOK` that it sends to one
client at a time. `LimiterInv` relates the count of an address to everything it
was ever admitted: since its window began just the count, in the window before
at most `max_requests`, and for a forgotten address at most that in the last
window; two windows in the time of one follow by splitting the stretch.

Only model-checked: liveness (`EveryItemAnswered`, `ShutdownEnds`,
`CancelEndsReplay`, `RunningIsReplayed`, `SessionsEnd`), which needs fairness and
`ENABLED`; and what folds, filters or flattens a sequence, which needs induction
over data: `ArrivalOrder`, `ReaderAgrees` (the verifier is a fold over the files),
`ScreensFollow` and `TrailIsFaithful` (a screen is what its bytes add up to),
`DivergencesAreRated`, of `BatchingIsSound` the part that compares plan, worker and
tracker (`PlansAgree`; the theorem is about the other, `BatchesKeepTheTrail`), and of
`ReadingIsSound` the windows (`CachesAreInvisible`; the theorem is about the index,
`IndexIsSound`).

## Not modelled

- The selection of the events of a run, the rating of compliance, batch
  generation of synthetic data, source analysis and assessment: functions of
  finished files, without state of their own.
- Queries, reports, rendering, the user interface and the Tcl samples.
- The routes of the control plane beyond those that change runs, captures,
  benchmarks and jobs.
- Errors of the database itself; the environment of child processes; forged
  signatures.
