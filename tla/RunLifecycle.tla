---------------------------- MODULE RunLifecycle ----------------------------
(***************************************************************************)
(* The life of replay runs of one trail on one target: the requests of the *)
(* control plane (control/services/run_service.py and run_routes.py), the  *)
(* thread Runner starts for a run (replay_control/runner.py) and the row   *)
(* of the run in the database (replay_run_state.py, db/schema.py).         *)
(*                                                                         *)
(* Every SQL statement commits by itself, so a request is several steps    *)
(* and so is a thread.  The executors are one phase here: they call check  *)
(* as they go, then finish or raise.                                       *)
(***************************************************************************)
EXTENDS Naturals, FiniteSets

CONSTANTS MaxRuns,   \* bound: runs ever created, all of one fingerprint
          None,      \* no thread
          Threads,   \* bound: runner threads alive at once
          Handlers,  \* bound: requests in progress at once
          Ops,       \* the requests of this instance
          Faults     \* what may go wrong in this instance

AllOps == {"create", "retry", "start", "pause", "resume", "cancel", "delete"}

FaultKinds == {"reject",    \* the target's policy rejects the trail
               "invalid",   \* verify_log raises VerificationError
               "odd",       \* verify_log raises something else
               "replay",    \* the executor raises
               "sessions",  \* the executor ends, some sessions failed
               "restart"}   \* the control plane is restarted

ASSUME LifecycleAssumption ==
    /\ MaxRuns \in Nat
    /\ None \notin Threads
    /\ Ops \subseteq AllOps
    /\ Faults \subseteq FaultKinds

VARIABLES
    status,    \* status[r]: the column, "none" before the row, "gone" after it
    rejected,  \* the runs whose compliance_status blocks them
    parent,    \* parent[r]: parent_run_id, 0 for none
    registry,  \* registry[r]: Runner._threads[r] while it is alive
    thread,    \* thread[t]: the run of t, where it is, what it last read
    request,   \* request[h]: the run of h's request and where it is
    unserved   \* history: runs left running with nobody to run them

row == <<status, rejected, parent>>
vars == <<row, registry, thread, request, unserved>>

Active == {"queued", "running", "paused"}
Terminal == {"success", "failed", "cancelled"}

\* Ids are given in order and never twice (AUTOINCREMENT).
Runs == 1..MaxRuns
NewRun(r) == status[r] = "none" /\ \A o \in 1..(r - 1) : status[o] # "none"

Free == [run |-> 0, pc |-> "free", seen |-> "go"]
Idle == [run |-> 0, pc |-> "idle"]

Exists(r) == status[r] \in Active \cup Terminal

\* As if only the runs that execute were in the index.
NoConflictRunning(r) == \A o \in Runs \ {r} : status[o] # "running"

\* The partial UNIQUE index on run_fingerprint lets r become active.
NoConflict(r) == \A o \in Runs \ {r} : status[o] \notin Active

\* UPDATE ... SET status: no row, no change; the index may refuse it.
MaySet(r, s) == Exists(r) /\ (s \in Active => NoConflict(r))

\* A run that stops running, or is made running anew, is no longer unserved.
SetStatus(r, s) ==
    /\ status' = [status EXCEPT ![r] = s]
    /\ unserved' = unserved \ {r}

Goto(h, pc, r) == request' = [request EXCEPT ![h] = [run |-> r, pc |-> pc]]
Done(h) == request' = [request EXCEPT ![h] = Idle]

-----------------------------------------------------------------------------
(* Requests.                                                               *)

\* create_run inserts the row; the default of compliance_status admits it.
Insert(h, p) ==
    /\ \E r \in Runs :
          /\ NewRun(r)
          /\ NoConflict(r)
          /\ SetStatus(r, "queued")
          /\ parent' = [parent EXCEPT ![r] = p]
          /\ Goto(h, "evaluate", r)
    /\ UNCHANGED <<rejected, registry, thread>>

Create(h) ==
    /\ "create" \in Ops
    /\ request[h] = Idle
    /\ Insert(h, 0)

\* retry_run: a new run of the same trail that names its parent.
Retry(h) ==
    /\ "retry" \in Ops
    /\ request[h] = Idle
    /\ \E p \in Runs : Exists(p) /\ Insert(h, p)

\* set_run_compliance, a statement of its own.
Evaluate(h) ==
    /\ request[h].pc = "evaluate"
    /\ \/ UNCHANGED rejected
       \/ /\ "reject" \in Faults
          /\ Exists(request[h].run)
          /\ rejected' = rejected \cup {request[h].run}
    /\ Done(h)
    /\ UNCHANGED <<status, parent, registry, thread, unserved>>

\* start: refused when the policy rejected the run.
CheckStart(h) ==
    /\ "start" \in Ops
    /\ request[h] = Idle
    /\ \E r \in Runs :
          /\ Exists(r)
          /\ r \notin rejected
          /\ Goto(h, "start", r)
    /\ UNCHANGED <<row, registry, thread, unserved>>

\* start: only a queued run is marked, but a thread is asked for in any case;
\* the event of a run that is gone raises.
MarkStarted(h) ==
    /\ request[h].pc = "start"
    /\ LET r == request[h].run
       IN /\ IF status[r] = "queued" THEN SetStatus(r, "running")
             ELSE UNCHANGED <<status, unserved>>
          /\ IF Exists(r) THEN Goto(h, "spawn", r) ELSE Done(h)
    /\ UNCHANGED <<rejected, parent, registry, thread>>

\* pause and cancel set the status, whatever it is.
Pause(h) ==
    /\ "pause" \in Ops
    /\ request[h] = Idle
    /\ \E r \in Runs : MaySet(r, "paused") /\ SetStatus(r, "paused")
    /\ UNCHANGED <<rejected, parent, registry, thread, request>>

Cancel(h) ==
    /\ "cancel" \in Ops
    /\ request[h] = Idle
    /\ \E r \in Runs : MaySet(r, "cancelled") /\ SetStatus(r, "cancelled")
    /\ UNCHANGED <<rejected, parent, registry, thread, request>>

\* resume sets the status, whatever it is, then asks for a thread.
Resume(h) ==
    /\ "resume" \in Ops
    /\ request[h] = Idle
    /\ \E r \in Runs :
          /\ MaySet(r, "running")
          /\ SetStatus(r, "running")
          /\ Goto(h, "spawn", r)
    /\ UNCHANGED <<rejected, parent, registry, thread>>

Alive(r) == registry[r] # None

LeftRunning(r) == IF status[r] = "running" THEN unserved \cup {r} ELSE unserved

\* start_run_async: is there a thread?  One that has only its cleanup left
\* counts, and nothing then runs a run that was just made running.
CheckThread(h) ==
    /\ request[h].pc = "spawn"
    /\ LET r == request[h].run
       IN IF Alive(r)
          THEN /\ Done(h)
               /\ unserved' = IF thread[registry[r]].pc = "cleanup"
                              THEN LeftRunning(r) ELSE unserved
          ELSE Goto(h, "register", r) /\ UNCHANGED unserved
    /\ UNCHANGED <<row, registry, thread>>

\* start_run_async: registers a thread and starts it.
Register(h) ==
    /\ request[h].pc = "register"
    /\ \E t \in Threads :
          LET r == request[h].run
          IN /\ thread[t] = Free
             /\ thread' = [thread EXCEPT ![t] = [run |-> r, pc |-> "load", seen |-> "go"]]
             /\ registry' = [registry EXCEPT ![r] = t]
             /\ unserved' = unserved \ {r}
    /\ Done(h)
    /\ UNCHANGED row

\* DELETE refuses runs that are running or queued, by a statement of its own.
Deletable(r) == Exists(r) /\ status[r] \notin {"running", "queued"}

CheckDelete(h) ==
    /\ "delete" \in Ops
    /\ request[h] = Idle
    /\ \E r \in Runs : Deletable(r) /\ Goto(h, "delete", r)
    /\ UNCHANGED <<row, registry, thread, unserved>>

\* The row goes with its events and failures, unless a retry names it.
Delete(h) ==
    /\ request[h].pc = "delete"
    /\ LET r == request[h].run
       IN IF \E o \in Runs : parent[o] = r
          THEN UNCHANGED <<row, unserved>>
          ELSE /\ SetStatus(r, "gone")
               /\ rejected' = rejected \ {r}
               /\ parent' = [parent EXCEPT ![r] = 0]
    /\ Done(h)
    /\ UNCHANGED <<registry, thread>>

-----------------------------------------------------------------------------
(* The thread of a run: Runner._run.                                       *)

Step(t, pc) == thread' = [thread EXCEPT ![t].pc = pc, ![t].seen = "go"]

\* As if a cancelled run went on like any other.
ReadOnlyPause(s) == CASE s = "gone" -> "gone" [] s = "paused" -> "pause" [] OTHER -> "go"

\* What a status means to check: any other than these lets the replay go on.
Read(s) ==
    CASE s = "cancelled" -> "cancel"
      [] s = "gone"      -> "gone"
      [] s = "paused"    -> "pause"
      [] OTHER           -> "go"

Now(t) == Read(status[thread[t].run])

\* The row is read once; only an active run that no policy rejects goes on.
Load(t) ==
    /\ thread[t].pc = "load"
    /\ LET r == thread[t].run
       IN Step(t, IF status[r] \notin Active THEN "cleanup"
                  ELSE IF r \in rejected THEN "fail" ELSE "mark")
    /\ UNCHANGED <<row, registry, request, unserved>>

\* The run is marked running, whatever became of it since it was read.  The
\* index, or the event of a run that is gone, may end the thread.
Mark(t) ==
    /\ thread[t].pc = "mark"
    /\ LET r == thread[t].run
       IN IF MaySet(r, "running")
          THEN SetStatus(r, "running") /\ Step(t, "verify")
          ELSE UNCHANGED <<status, unserved>> /\ Step(t, "cleanup")
    /\ UNCHANGED <<rejected, parent, registry, request>>

\* verify_log: only a VerificationError is handled.
Verify(t) ==
    /\ thread[t].pc = "verify"
    /\ \/ Step(t, "attach") /\ UNCHANGED unserved
       \/ "invalid" \in Faults /\ Step(t, "fail") /\ UNCHANGED unserved
       \/ /\ "odd" \in Faults
          /\ Step(t, "cleanup")
          /\ unserved' = LeftRunning(thread[t].run)
    /\ UNCHANGED <<row, registry, request>>

\* _RunControlState reads the status; a run that is gone ends the thread.
Attach(t) ==
    /\ thread[t].pc = "attach"
    /\ thread' = [thread EXCEPT ![t].pc = IF Now(t) = "gone" THEN "cleanup" ELSE "replay",
                               ![t].seen = IF Now(t) = "gone" THEN "go" ELSE Now(t)]
    /\ UNCHANGED <<row, registry, request, unserved>>

\* check: the status is read again.
Poll(t) ==
    /\ thread[t].pc = "replay"
    /\ Now(t) # thread[t].seen
    /\ thread' = [thread EXCEPT ![t].seen = Now(t)]
    /\ UNCHANGED <<row, registry, request, unserved>>

\* Where ReplayError, with the message check gave it, leads.
Raise(t, read) == Step(t, IF read = "cancel" THEN "cancel" ELSE "fail")

\* The executor raises what check told it.
Abort(t) ==
    /\ thread[t].pc = "replay"
    /\ thread[t].seen \in {"cancel", "gone"}
    /\ Raise(t, thread[t].seen)
    /\ UNCHANGED <<row, registry, request, unserved>>

\* The executor raises an error of its own, expected or not.
Break(t) ==
    /\ "replay" \in Faults
    /\ thread[t].pc = "replay"
    /\ thread[t].seen # "pause"
    /\ Step(t, "fail")
    /\ UNCHANGED <<row, registry, request, unserved>>

\* The executor ends; a session may have swallowed what check raised.  While
\* the run is paused check does not return.
Finish(t) ==
    /\ thread[t].pc = "replay"
    /\ thread[t].seen # "pause"
    /\ Step(t, "recheck")
    /\ UNCHANGED <<row, registry, request, unserved>>

\* check_now reads the status once more before the result is written.
Recheck(t) ==
    /\ thread[t].pc = "recheck"
    /\ \/ Now(t) \in {"cancel", "gone"} /\ Raise(t, Now(t))
       \/ Now(t) = "go" /\ Step(t, "final")
    /\ UNCHANGED <<row, registry, request, unserved>>

\* The result: success, or failed when some sessions failed.  No row, no
\* change: the event of a run that is gone raises.
WriteResult(t) ==
    /\ thread[t].pc \in {"final", "cancel", "fail"}
    /\ LET r == thread[t].run
           results == CASE thread[t].pc = "cancel" -> {"cancelled"}
                        [] thread[t].pc = "fail" -> {"failed"}
                        [] OTHER -> {"success"} \cup
                                    (IF "sessions" \in Faults THEN {"failed"} ELSE {})
       IN IF Exists(r) THEN \E s \in results : SetStatus(r, s)
          ELSE UNCHANGED <<status, unserved>>
    /\ Step(t, "cleanup")
    /\ UNCHANGED <<rejected, parent, registry, request>>

\* As if a thread that has ended still counted.
KeepRegistered(t) == registry

\* is_alive is false for a thread that has ended.
Unregister(t) == [r \in Runs |-> IF registry[r] = t THEN None ELSE registry[r]]

\* _cleanup_ephemeral_log_dir, then the thread is gone.
End(t) ==
    /\ thread[t].pc = "cleanup"
    /\ thread' = [thread EXCEPT ![t] = Free]
    /\ registry' = Unregister(t)
    /\ UNCHANGED <<row, request, unserved>>

-----------------------------------------------------------------------------
\* As interrupt_stale_captures: a word the column does not admit.
InterruptAsCapture(s) == IF s \in Active THEN "interrupted" ELSE s

\* interrupt_stale_runs.
Interrupt(s) == IF s \in Active THEN "failed" ELSE s

\* The process ends with its threads; the next one interrupts what it finds
\* active before it serves requests.
Restart ==
    /\ "restart" \in Faults
    /\ \E h \in Handlers, t \in Threads : request[h] # Idle \/ thread[t] # Free
    /\ status' = [r \in Runs |-> Interrupt(status[r])]
    /\ registry' = [r \in Runs |-> None]
    /\ thread' = [t \in Threads |-> Free]
    /\ request' = [h \in Handlers |-> Idle]
    /\ unserved' = {}
    /\ UNCHANGED <<rejected, parent>>

Init ==
    /\ status = [r \in Runs |-> "none"]
    /\ rejected = {}
    /\ parent = [r \in Runs |-> 0]
    /\ registry = [r \in Runs |-> None]
    /\ thread = [t \in Threads |-> Free]
    /\ request = [h \in Handlers |-> Idle]
    /\ unserved = {}

Arrive(h) ==
    \/ Create(h) \/ Retry(h)
    \/ CheckStart(h) \/ Resume(h)
    \/ Pause(h) \/ Cancel(h)
    \/ CheckDelete(h)

Handle(h) ==
    \/ Evaluate(h)
    \/ MarkStarted(h) \/ CheckThread(h) \/ Register(h)
    \/ Delete(h)

\* What the thread does whatever the length of the replay.
Advance(t) ==
    \/ Load(t) \/ Mark(t) \/ Verify(t) \/ Attach(t)
    \/ Poll(t) \/ Abort(t) \/ Recheck(t)
    \/ WriteResult(t) \/ End(t)

Run(t) == Advance(t) \/ Finish(t) \/ Break(t)

Next ==
    \/ \E h \in Handlers : Arrive(h) \/ Handle(h)
    \/ \E t \in Threads : Run(t)
    \/ Restart

Spec == Init /\ [][Next]_vars

\* Requests that have begun go on and so do threads, for which the executors
\* call check; nothing is assumed of how long a replay takes.
FairSpec ==
    /\ Spec
    /\ \A h \in Handlers : WF_vars(Handle(h))
    /\ \A t \in Threads : WF_vars(Advance(t))

-----------------------------------------------------------------------------
(* Properties.                                                             *)

\* The variables keep their types.
TypeOK ==
    /\ status \in [Runs -> Active \cup Terminal \cup {"none", "gone"}]
    /\ rejected \subseteq Runs
    /\ parent \in [Runs -> 0..MaxRuns]
    /\ registry \in [Runs -> Threads \cup {None}]
    /\ thread \in [Threads ->
          [run  : 0..MaxRuns,
           pc   : {"free", "load", "mark", "verify", "attach", "replay", "recheck",
                   "final", "cancel", "fail", "cleanup"},
           seen : {"go", "pause", "cancel", "gone"}]]
    /\ request \in [Handlers ->
          [run : 0..MaxRuns,
           pc  : {"idle", "evaluate", "start", "spawn", "register", "delete"}]]
    /\ unserved \subseteq Runs

\* A run that is "running" is being run, or a request is about to see to it.
\* The exceptions are the two that CheckThread and Verify record: a resume
\* that met a thread in its cleanup, and an exception of verify_log that the
\* thread does not handle (start_run_async, _run_inner).
RunningIsServed ==
    \A r \in Runs : status[r] = "running" /\ r \notin unserved =>
        \/ \E t \in Threads : thread[t].run = r
        \/ \E h \in Handlers : request[h].run = r /\ request[h].pc \in {"spawn", "register"}

\* Only one run of a trail and target is queued, running or paused, whatever
\* requests and threads write (replay_runs_fingerprint_unique).
OneActiveRun == Cardinality({r \in Runs : status[r] \in Active}) <= 1

\* Once a run is cancelled or deleted the threads that replay it come to an
\* end, unless somebody makes it active again (check, check_now).
CancelEndsReplay ==
    \A r \in Runs :
        status[r] \in {"cancelled", "gone"} ~>
            \/ status[r] \notin {"cancelled", "gone"}
            \/ \A t \in Threads : thread[t].run = r => thread[t].pc # "replay"

\* A run made running, by a start or a resume, comes to be replayed, with
\* check letting it pass: it is not left waiting for a thread or for a poll.
\* Or it is one that nobody runs, or it stops running before.
RunningIsReplayed ==
    \A r \in Runs :
        status[r] = "running" ~>
            \/ status[r] # "running" \/ r \in unserved
            \/ \E t \in Threads :
                  thread[t].run = r /\ thread[t].pc = "replay" /\ thread[t].seen = "go"

\* A cancelled run does not end as a success: the comment above check_now
\* says that reading the status there covers every way out of the executors.
CancelStands ==
    [][\A r \in Runs : status[r] = "cancelled" => status'[r] # "success"]_vars

=============================================================================
