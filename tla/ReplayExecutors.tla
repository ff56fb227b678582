-------------------------- MODULE ReplayExecutors --------------------------
(***************************************************************************)
(* The executors of a replay run (replay_control/executors.py): one thread *)
(* over all sessions ("strict-global"), a pool that stops at the first     *)
(* error ("parallel"), and a pool with ramp-up, batches and a shared       *)
(* stop_all ("concurrent").  All call check of _RunControlState as they go.*)
(*                                                                         *)
(* What an event is, is chosen when it comes up; times are left out, so a  *)
(* pacing sleep may or may not meet a change of status.  A run that was    *)
(* deleted raises from check as a cancelled one does.                      *)
(***************************************************************************)
EXTENDS Naturals, Sequences, FiniteSets

CONSTANTS NumSessions,  \* sessions of the trail, in the order they are submitted
          MaxWorkers,   \* bound: concurrency
          Long, Short,  \* bound: events of a session, and of the first one
          Modes,        \* the executors of this instance
          Faults,       \* what may go wrong in this instance
          None          \* nobody

FaultKinds == {"mismatch",  \* a screen is not the expected one
               "odd",       \* an exception that is not ReplayError
               "pause", "cancel"}

ASSUME ExecutorsAssumption ==
    /\ NumSessions \in Nat \ {0}
    /\ MaxWorkers \in Nat \ {0}
    /\ Long \in Nat /\ Short \in 0..Long
    /\ Modes \subseteq {"strict-global", "parallel", "concurrent"}
    /\ Faults \subseteq FaultKinds
    /\ None \notin 1..NumSessions

VARIABLES
    params,  \* the executor and what its params say of mismatches
    seen,    \* what check read last
    stop,    \* stop_all["flag"], or the Event of the parallel executor
    reason,  \* stop_all["err"]
    lock,    \* the session that keeps stop_lock from one step to the next
    sess,    \* sess[s]: where the session is
    told,    \* told[s]: the calls of on_session_result
    main,    \* the thread of the run
    late     \* history: late[s] is how often s wrote since the stop

vars == <<params, seen, stop, reason, lock, sess, told, main, late>>

Sessions == 1..NumSessions
Events(s) == IF s = 1 THEN Short ELSE Long

\* load_params; the other executors read only what they say of inputs, and a
\* concurrency of one means the parallel one (runner.py).
Params == {p \in [mode : Modes, workers : 1..MaxWorkers, adaptive : BOOLEAN,
                  onCheckpoint : {"continue", "fail-fast"},
                  onInput : {"fail-fast", "skip", "send-anyway"}] :
              /\ p.mode # "concurrent" => p.onCheckpoint = "continue" /\ ~p.adaptive
              /\ p.mode = "strict-global" => p.workers = 1
              /\ p.mode = "concurrent" => p.workers > 1}

Strict == params.mode = "strict-global"
Parallel == params.mode = "parallel"
Concurrent == params.mode = "concurrent"
FailFast == params.onCheckpoint = "fail-fast"

\* at: events left behind; batch: events in pending, not written yet; then:
\* where a flush leads; err: the error the session met.
Fresh == [pc |-> "new", at |-> 0, batch |-> 0, then |-> "next", err |-> "none"]

Ended == {"done", "raised", "gone"}
Waiting == {"new", "queued", "dropped"} \cup Ended

\* check returns or raises; while the run is paused it does neither.
Go == seen = "go"
Raises == seen = "cancel"

Goto(s, pc) == sess' = [sess EXCEPT ![s].pc = pc]
Behind(s, pc) == sess' = [sess EXCEPT ![s].pc = pc, ![s].at = @ + 1]
Tell(s, result) == told' = [told EXCEPT ![s] = Append(@, result)]

\* An exception leaves the session; its future keeps it.
Raise(s, err) == sess' = [sess EXCEPT ![s].pc = "raised", ![s].err = err]

\* A ReplayError makes a session of the concurrent executor a failed one,
\* which stops the others when the params say so; elsewhere it is raised.
Fail(s, err) ==
    IF Concurrent
    THEN /\ sess' = [sess EXCEPT ![s].pc = IF FailFast THEN "alarm" ELSE "done", ![s].err = err]
         /\ Tell(s, "failed")
    ELSE Raise(s, err) /\ UNCHANGED told

Bound(n) == IF n > 3 THEN 3 ELSE n

Wrote(s) ==
    late' = [late EXCEPT ![s] = IF stop THEN Bound(@ + 1) ELSE 0]

-----------------------------------------------------------------------------
(* The control of the run.                                                 *)

\* _poll reads the status of the run, which requests change as they like (the
\* module RunLifecycle); a cancel that was read is not read again.
Poll ==
    /\ seen # "cancel"
    /\ seen' \in {"go"} \cup (Faults \cap {"pause", "cancel"})
    /\ seen' # seen
    /\ main.pc # "ended"
    /\ UNCHANGED <<params, stop, reason, lock, sess, told, main, late>>

-----------------------------------------------------------------------------
(* A session: worker, run_session, or the loop of strict-global.           *)

Running == {s \in Sessions : sess[s].pc \notin Waiting}

\* The pool serves its queue in order; a cancelled item is thrown away.
Take(s) ==
    /\ sess[s].pc \in {"queued", "dropped"}
    /\ \A o \in 1..(s - 1) : sess[o].pc \notin {"queued", "dropped"}
    /\ Cardinality(Running) < params.workers
    /\ Goto(s, IF sess[s].pc = "dropped" THEN "gone"
               ELSE IF Concurrent THEN "begin" ELSE "open")
    /\ UNCHANGED <<params, seen, stop, reason, lock, told, main, late>>

Begin(s) ==
    /\ sess[s].pc = "begin"
    /\ \/ Go /\ Goto(s, "admit") /\ UNCHANGED told
       \/ Raises /\ Fail(s, "cancelled")
    /\ UNCHANGED <<params, seen, stop, reason, lock, main, late>>

\* A session whose turn comes after the stop is not replayed.
Admit(s) ==
    /\ sess[s].pc = "admit"
    /\ lock = None
    /\ \/ stop /\ Goto(s, "done") /\ Tell(s, "skipped")
       \/ ~stop /\ Goto(s, "open") /\ UNCHANGED told
    /\ UNCHANGED <<params, seen, stop, reason, lock, main, late>>

\* The target session and the automatic entry, which swallows what check
\* raises.
Open(s) ==
    /\ sess[s].pc = "open"
    /\ \/ Goto(s, "next")
       \/ "odd" \in Faults /\ Raise(s, "odd")
    /\ UNCHANGED <<params, seen, stop, reason, lock, told, main, late>>

\* The end of the trail: what is pending goes out.
AtEnd(s) ==
    /\ sess[s].pc = "next"
    /\ sess[s].at = Events(s)
    /\ IF sess[s].batch > 0
       THEN sess' = [sess EXCEPT ![s].pc = "flush", ![s].then = "success"] /\ UNCHANGED told
       ELSE /\ Goto(s, IF Strict THEN "drain" ELSE "done")
            /\ IF Concurrent THEN Tell(s, "success") ELSE UNCHANGED told
    /\ UNCHANGED <<params, seen, stop, reason, lock, main, late>>

\* What the next event is.  Only the concurrent executor batches: it opens a
\* batch, adds to it, or closes it and opens the next; everything but a
\* batchable input closes the batch first.
Event(s) ==
    \/ Concurrent /\ params.adaptive /\ sess[s].batch > 0
       /\ sess' = [sess EXCEPT ![s].pc = "next", ![s].at = @ + 1, ![s].batch = @ + 1]
    \/ \E kind \in {"input", "compared", "checkpoint"}
                  \cup (IF Concurrent /\ params.adaptive THEN {"batch"} ELSE {}) :
          IF sess[s].batch > 0
          THEN sess' = [sess EXCEPT ![s].pc = "flush", ![s].then = kind]
          ELSE Goto(s, kind)

\* The head of the loop: check, before the stop is looked at (concurrent),
\* after it (parallel), or alone (strict-global).
Check(s) ==
    /\ \/ sess[s].pc = "next" /\ ~Parallel /\ sess[s].at < Events(s)
       \/ sess[s].pc = "check"
    /\ \/ Go /\ Concurrent /\ Goto(s, "guard") /\ UNCHANGED told
       \/ Go /\ ~Concurrent /\ Event(s) /\ UNCHANGED told
       \/ Raises /\ Fail(s, "cancelled")
    /\ UNCHANGED <<params, seen, stop, reason, lock, main, late>>

\* As if the stop were not looked at.
GuardBlind(s) ==
    /\ sess[s].pc = "guard"
    /\ lock = None
    /\ Event(s)
    /\ UNCHANGED <<params, seen, stop, reason, lock, told, main, late>>

\* stop_all: with a batch pending the lock is kept until it is out.
Guard(s) ==
    /\ sess[s].pc = "guard"
    /\ lock = None
    /\ \/ ~stop /\ Event(s) /\ UNCHANGED <<lock, told>>
       \/ stop /\ sess[s].batch = 0 /\ Goto(s, "done") /\ Tell(s, "stopped") /\ UNCHANGED lock
       \/ stop /\ sess[s].batch > 0 /\ lock' = s /\ UNCHANGED told
          /\ sess' = [sess EXCEPT ![s].pc = "flush", ![s].then = "stopped"]
    /\ UNCHANGED <<params, seen, stop, reason, main, late>>

GuardParallel(s) ==
    /\ Parallel
    /\ sess[s].pc = "next"
    /\ sess[s].at < Events(s)
    /\ Goto(s, IF stop THEN "done" ELSE "check")
    /\ UNCHANGED <<params, seen, stop, reason, lock, told, main, late>>

\* flush_pending: check, then one write of the whole batch, or none.
Flush(s) ==
    /\ sess[s].pc = "flush"
    /\ \/ /\ Go
          /\ Wrote(s)
          /\ LET then == sess[s].then
                 over == then \in {"stopped", "success"}
             IN /\ sess' = [sess EXCEPT ![s].pc = IF over THEN "done" ELSE then,
                                        ![s].batch = 0, ![s].then = "next"]
                /\ IF over THEN Tell(s, then) ELSE UNCHANGED told
       \/ Raises /\ Fail(s, "cancelled") /\ UNCHANGED late
    /\ lock' = IF lock = s THEN None ELSE lock
    /\ UNCHANGED <<params, seen, stop, reason, main>>

\* The first input of a batch waits for its time as any other.
Batch(s) ==
    /\ sess[s].pc = "batch"
    /\ \/ /\ sess' = [sess EXCEPT ![s].pc = "next", ![s].at = @ + 1, ![s].batch = 1]
          /\ UNCHANGED told
       \/ Raises /\ Fail(s, "cancelled")
    /\ UNCHANGED <<params, seen, stop, reason, lock, main, late>>

\* An input that is not compared, or one without bytes, as the marker of a
\* wait: the pacing sleep, if there is one, may meet a cancel.
Input(s) ==
    /\ sess[s].pc = "input"
    /\ \/ Goto(s, "write") /\ UNCHANGED told
       \/ Behind(s, "next") /\ UNCHANGED told
       \/ Concurrent /\ Raises /\ Fail(s, "cancelled")
    /\ UNCHANGED <<params, seen, stop, reason, lock, main, late>>

\* _should_apply_deterministic_input.
Differs(s) ==
    CASE params.onInput = "skip"        -> Behind(s, "next") /\ UNCHANGED told
      [] params.onInput = "send-anyway" -> Goto(s, "write") /\ UNCHANGED told
      [] OTHER -> Fail(s, "mismatch")

\* The comparison of an input: it waits for the screen and calls check as it
\* waits.  strict-global takes any ReplayError for a mismatch.
Compare(s) ==
    /\ sess[s].pc = "compared"
    /\ \/ Go /\ Goto(s, "write") /\ UNCHANGED told
       \/ Go /\ "mismatch" \in Faults /\ Differs(s)
       \/ Raises /\ Strict /\ Differs(s)
       \/ Raises /\ ~Strict /\ Fail(s, "cancelled")
    /\ UNCHANGED <<params, seen, stop, reason, lock, main, late>>

\* The write of an input, and its progress.
Write(s) ==
    /\ sess[s].pc = "write"
    /\ \/ Wrote(s) /\ Behind(s, "next")
       \/ "odd" \in Faults /\ Raise(s, "odd") /\ UNCHANGED late
    /\ UNCHANGED <<params, seen, stop, reason, lock, told, main>>

\* A checkpoint that fails ends the session; strict-global goes on when the
\* params say so, whatever was raised.  One that is not compared passes.
Checkpoint(s) ==
    /\ sess[s].pc = "checkpoint"
    /\ LET lenient == Strict /\ params.onInput = "send-anyway"
       IN \/ Behind(s, "next") /\ UNCHANGED told
          \/ /\ Go
             /\ "mismatch" \in Faults
             /\ IF lenient THEN Behind(s, "next") /\ UNCHANGED told ELSE Fail(s, "mismatch")
          \/ /\ Raises
             /\ IF lenient THEN Behind(s, "next") /\ UNCHANGED told ELSE Fail(s, "cancelled")
    /\ UNCHANGED <<params, seen, stop, reason, lock, main, late>>

\* A failed session stops the others.
Alarm(s) ==
    /\ sess[s].pc = "alarm"
    /\ lock = None
    /\ stop' = TRUE
    /\ reason' = sess[s].err
    /\ Goto(s, "done")
    /\ UNCHANGED <<params, seen, lock, told, main, late>>

\* strict-global reads what the sessions still print.
Drain(s) ==
    /\ sess[s].pc = "drain"
    /\ \/ Go /\ Goto(s, "done")
       \/ Raises /\ Raise(s, "cancelled")
    /\ UNCHANGED <<params, seen, stop, reason, lock, told, main, late>>

\* What the three loops share.
Replay(s) == AtEnd(s) \/ Check(s) \/ Input(s) \/ Compare(s) \/ Write(s) \/ Checkpoint(s)

StrictGlobal(s) == Strict /\ (Open(s) \/ Replay(s) \/ Drain(s))

RunSession(s) == Parallel /\ (Take(s) \/ Open(s) \/ GuardParallel(s) \/ Replay(s))

Worker(s) ==
    /\ Concurrent
    /\ \/ Take(s) \/ Begin(s) \/ Admit(s) \/ Open(s)
       \/ Guard(s) \/ Flush(s) \/ Batch(s) \/ Replay(s) \/ Alarm(s)

Session(s) == StrictGlobal(s) \/ RunSession(s) \/ Worker(s)

-----------------------------------------------------------------------------
(* The thread of the run.                                                  *)

MainTo(pc) == main' = [main EXCEPT !.pc = pc]
Quit(err) == main' = [main EXCEPT !.pc = "shutdown", !.error = err]

\* strict-global has no pool: the thread is its one session.  The parallel
\* executor submits all sessions at once.
Launch ==
    /\ main.pc = "start"
    /\ \/ Strict /\ sess' = [sess EXCEPT ![1].pc = "open"] /\ MainTo("wait")
       \/ Parallel /\ sess' = [s \in Sessions |-> [Fresh EXCEPT !.pc = "queued"]] /\ MainTo("join")
       \/ Concurrent /\ MainTo("submit") /\ UNCHANGED sess
    /\ UNCHANGED <<params, seen, stop, reason, lock, told, late>>

\* Ramp-up: check, then the stop, then the next session is submitted or
\* skipped.
Submit ==
    /\ main.pc = "submit"
    /\ \/ main.next > NumSessions /\ MainTo("join")
       \/ main.next <= NumSessions /\ Go /\ MainTo("offer")
       \/ main.next <= NumSessions /\ Raises /\ MainTo("stop")
    /\ UNCHANGED <<params, seen, stop, reason, lock, sess, told, late>>

Offer ==
    /\ main.pc = "offer"
    /\ lock = None
    /\ IF stop THEN Tell(main.next, "skipped") /\ UNCHANGED sess
       ELSE Goto(main.next, "queued") /\ UNCHANGED told
    /\ main' = [main EXCEPT !.pc = "submit", !.next = @ + 1]
    /\ UNCHANGED <<params, seen, stop, reason, lock, late>>

Submitted == {s \in Sessions : sess[s].pc # "new"}
Finished == \A s \in Submitted : sess[s].pc \in Ended

\* cancel of the futures that have not begun.
DropQueued == [s \in Sessions |->
    IF sess[s].pc = "queued" THEN [sess[s] EXCEPT !.pc = "dropped"] ELSE sess[s]]

\* The wait for the futures: check ...
JoinCheck ==
    /\ main.pc = "join"
    /\ \/ Go /\ MainTo("wait") /\ UNCHANGED <<stop, sess>>
       \/ Raises /\ Concurrent /\ MainTo("stop") /\ UNCHANGED <<stop, sess>>
       \/ Raises /\ Parallel /\ Quit("cancelled") /\ stop' = TRUE /\ sess' = DropQueued
    /\ UNCHANGED <<params, seen, reason, lock, told, late>>

Unread == {s \in Sessions : sess[s].pc = "raised" /\ (Parallel => main.error = "none")}
Cancelled == {s \in Sessions : Parallel /\ sess[s].pc = "gone"}

\* ... then the exceptions of those that ended.  The first error stops the
\* sessions of the parallel executor; the concurrent one leaves at an
\* exception it does not expect, without a stop.
JoinRaised ==
    /\ main.pc = "wait"
    /\ \E s \in Unread :
          \/ Parallel /\ main' = [main EXCEPT !.error = sess[s].err]
                      /\ stop' = TRUE /\ sess' = DropQueued
          \/ ~Parallel /\ Quit(sess[s].err) /\ UNCHANGED <<stop, sess>>
    /\ UNCHANGED <<params, seen, reason, lock, told, late>>

\* The result of a future that was cancelled is an exception of its own.
JoinCancelled ==
    /\ main.pc = "wait"
    /\ Cancelled # {}
    /\ Quit("lost")
    /\ stop' = TRUE
    /\ sess' = DropQueued
    /\ UNCHANGED <<params, seen, reason, lock, told, late>>

\* Nothing to read: once more, unless all have ended.
JoinAgain ==
    /\ main.pc = "wait"
    /\ Unread \cup Cancelled = {}
    /\ Strict => Finished
    /\ MainTo(IF Finished THEN "shutdown" ELSE "join")
    /\ UNCHANGED <<params, seen, stop, reason, lock, sess, told, late>>

\* except ReplayError: the stop, then the futures one by one.
StopAll ==
    /\ main.pc = "stop"
    /\ lock = None
    /\ stop' = TRUE
    /\ reason' = IF reason = "none" THEN "cancelled" ELSE reason
    /\ main' = [pc |-> "cancel", next |-> 1, error |-> "cancelled"]
    /\ UNCHANGED <<params, seen, lock, sess, told, late>>

\* As if the answer of Future.cancel were not looked at.
CancelFutureAnyway ==
    /\ main.pc = "cancel"
    /\ main.next <= NumSessions
    /\ Tell(main.next, "skipped")
    /\ main' = [main EXCEPT !.next = @ + 1]
    /\ UNCHANGED <<params, seen, stop, reason, lock, sess, late>>

CancelFuture ==
    /\ main.pc = "cancel"
    /\ main.next <= NumSessions
    /\ IF sess[main.next].pc = "queued"
       THEN Goto(main.next, "dropped") /\ Tell(main.next, "skipped")
       ELSE UNCHANGED <<sess, told>>
    /\ main' = [main EXCEPT !.next = @ + 1]
    /\ UNCHANGED <<params, seen, stop, reason, lock, late>>

CancelledAll ==
    /\ main.pc = "cancel"
    /\ main.next > NumSessions
    /\ MainTo("shutdown")
    /\ UNCHANGED <<params, seen, stop, reason, lock, sess, told, late>>

\* As if the pool were left with wait=False.
ShutdownAtOnce ==
    /\ main.pc = "shutdown"
    /\ MainTo("ended")
    /\ UNCHANGED <<params, seen, stop, reason, lock, sess, told, late>>

\* pool.shutdown(wait=True), then what is raised, if anything.
Shutdown ==
    /\ main.pc = "shutdown"
    /\ Finished
    /\ main' = [main EXCEPT !.pc = "ended",
                            !.error = IF @ = "none" /\ Concurrent /\ stop /\ FailFast
                                      THEN reason ELSE @]
    /\ UNCHANGED <<params, seen, stop, reason, lock, sess, told, late>>

Main ==
    \/ Launch \/ Submit \/ Offer
    \/ JoinCheck \/ JoinRaised \/ JoinCancelled \/ JoinAgain
    \/ StopAll \/ CancelFuture \/ CancelledAll \/ Shutdown

-----------------------------------------------------------------------------
Init ==
    /\ params \in Params
    /\ seen = "go"
    /\ stop = FALSE /\ reason = "none" /\ lock = None
    /\ sess = [s \in Sessions |-> Fresh]
    /\ told = [s \in Sessions |-> <<>>]
    /\ main = [pc |-> "start", next |-> 1, error |-> "none"]
    /\ late = [s \in Sessions |-> 0]

Next ==
    \/ Poll
    \/ Main
    \/ \E s \in Sessions : Session(s)

Spec == Init /\ [][Next]_vars

\* Threads run; the comparison of a screen ends by its timeout.
FairSpec ==
    /\ Spec
    /\ WF_vars(Main)
    /\ \A s \in Sessions : WF_vars(Session(s))

-----------------------------------------------------------------------------
(* Properties.                                                             *)

\* The variables keep their types.
TypeOK ==
    /\ params \in Params
    /\ seen \in {"go", "pause", "cancel"}
    /\ stop \in BOOLEAN
    /\ reason \in {"none", "cancelled", "mismatch"}
    /\ lock \in Sessions \cup {None}
    /\ sess \in [Sessions ->
          [pc : {"new", "queued", "dropped", "gone", "begin", "admit", "open", "next", "check",
                 "guard", "flush", "batch", "input", "compared", "checkpoint", "write", "alarm",
                 "drain", "done", "raised"},
           at : 0..Long, batch : 0..Long,
           then : {"next", "batch", "input", "compared", "checkpoint", "success", "stopped"},
           err : {"none", "cancelled", "mismatch", "odd"}]]
    /\ told \in [Sessions -> Seq({"success", "failed", "skipped", "stopped"})]
    /\ main \in [pc : {"start", "submit", "offer", "join", "wait", "stop", "cancel",
                       "shutdown", "ended"},
                 next : 1..(NumSessions + 1),
                 error : {"none", "cancelled", "mismatch", "odd", "lost"}]
    /\ late \in [Sessions -> 0..3]

\* on_session_result is called once for every session of the concurrent
\* executor, by its worker or by the thread that cancels it, never by both;
\* but for a session that was never submitted, because a cancel ended the
\* ramp-up, and one whose worker met an unexpected exception.
ReportedOnce ==
    \A s \in Sessions :
        /\ Len(told[s]) <= 1
        /\ main.pc = "ended" /\ Concurrent /\ told[s] = <<>> =>
              (sess[s].pc = "new" /\ main.error = "cancelled") \/ sess[s].err = "odd"

\* An executor that returns has replayed every event of every session, except
\* for sessions it reported as failed: neither a stop nor a cancel nor a batch
\* left behind may look like a success (runner.py reads only sessions_failed).
ReturnIsComplete ==
    main.pc = "ended" /\ main.error = "none" =>
        \A s \in Sessions :
            \/ sess[s].pc = "done" /\ sess[s].at = Events(s) /\ sess[s].batch = 0
            \/ Concurrent /\ told[s] = <<"failed">>
            \/ Strict /\ s # 1

\* What an executor reports of its sessions is what became of them.
ResultsAreTrue == ReportedOnce /\ ReturnIsComplete

\* Once stop_all is set a session writes what it has in hand and no more: the
\* batch and the one event behind it.
QuietSoon == \A s \in Sessions : late[s] <= 2

Phase == INSTANCE ReplayPhase WITH
    outcome <- IF main.pc # "ended" THEN "replaying"
               ELSE IF main.error = "none" THEN "returned"
               ELSE IF main.error = "cancelled" THEN "cancelled" ELSE "failed",
    progress <- Cardinality({e \in Sessions \X (1..Long) :
                            e[2] <= sess[e[1]].at - sess[e[1]].batch})

\* The thread of the run waits for every worker before it goes on: as the
\* replay phase of a run, an executor gets no event out after its end.
ImplementsReplayPhase == Phase!Spec

\* An executor comes to its end once the run is not paused any more: however
\* sessions wait for each other, for the lock, the pool or the control.
Ends == <>[](seen # "pause") => <>(main.pc = "ended")

=============================================================================
