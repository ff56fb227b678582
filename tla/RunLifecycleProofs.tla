------------------------- MODULE RunLifecycleProofs -------------------------
(***************************************************************************)
(* What holds of the life of replay runs for any number of runs, threads   *)
(* and requests, whatever fails and however often the process restarts.    *)
(***************************************************************************)
EXTENDS RunLifecycle, FiniteSetTheorems, TLAPS

-----------------------------------------------------------------------------
(* The inductive invariant.                                                *)

\* A thread and a request in progress have a run.
Assigned ==
    /\ \A t \in Threads : thread[t].pc # "free" => thread[t].run \in Runs
    /\ \A h \in Handlers : request[h].pc # "idle" => request[h].run \in Runs

\* The thread Runner knows of a run is one that has it.
RegistryOK ==
    \A r \in Runs : registry[r] # None =>
        /\ thread[registry[r]].run = r
        /\ thread[registry[r]].pc # "free"

\* The index on run_fingerprint.
OneActive ==
    \A r, o \in Runs : status[r] \in Active /\ status[o] \in Active => r = o

\* A thread with only its cleanup left serves nobody: it is this that the
\* steps of the others keep.
Serves(t, r) == thread[t].run = r /\ thread[t].pc \notin {"free", "cleanup"}
AsksFor(h, r) == request[h].run = r /\ request[h].pc \in {"spawn", "register"}

Served(r) == (\E t \in Threads : Serves(t, r)) \/ (\E h \in Handlers : AsksFor(h, r))

AllServed == \A r \in Runs : status[r] = "running" /\ r \notin unserved => Served(r)

LifecycleInv ==
    /\ TypeOK
    /\ Assigned
    /\ RegistryOK
    /\ OneActive
    /\ AllServed

USE LifecycleAssumption DEF Runs, Active, Terminal, Free, Idle

LEMMA AllStatuses ==
    ASSUME TypeOK, NEW r \in Runs,
           NEW s \in Active \cup Terminal \cup {"none", "gone"}, SetStatus(r, s)
    PROVE  /\ status' \in [Runs -> Active \cup Terminal \cup {"none", "gone"}]
           /\ unserved' \subseteq Runs
           /\ status'[r] = s /\ r \notin unserved'
           /\ \A o \in Runs : o # r => status'[o] = status[o]
           /\ \A o \in Runs : o # r => (o \in unserved' <=> o \in unserved)
BY DEF TypeOK, SetStatus

Places == {"free", "load", "mark", "verify", "attach", "replay", "recheck",
           "final", "cancel", "fail", "cleanup"}
Readings == {"go", "pause", "cancel", "gone"}
Stages == {"idle", "evaluate", "start", "spawn", "register", "delete"}

\* What a step of a thread, and what a request that goes on or is answered,
\* leave alone.
LEMMA ThreadMoves ==
    ASSUME TypeOK, NEW t \in Threads, NEW to \in Places, NEW read \in Readings,
           thread' = [thread EXCEPT ![t].pc = to, ![t].seen = read]
    PROVE  /\ thread' \in [Threads -> [run : 0..MaxRuns, pc : Places, seen : Readings]]
           /\ thread'[t].run = thread[t].run /\ thread'[t].pc = to
           /\ \A u \in Threads : u # t => thread'[u] = thread[u]
<1>1. thread \in [Threads -> [run : 0..MaxRuns, pc : Places, seen : Readings]]
  BY DEF TypeOK, Places, Readings
<1>2. QED
  BY <1>1

LEMMA StepMoves ==
    ASSUME TypeOK, NEW t \in Threads, NEW to \in Places, Step(t, to)
    PROVE  /\ thread' \in [Threads -> [run : 0..MaxRuns, pc : Places, seen : Readings]]
           /\ thread'[t].run = thread[t].run /\ thread'[t].pc = to
           /\ \A u \in Threads : u # t => thread'[u] = thread[u]
<1>1. "go" \in Readings
  BY DEF Readings
<1>2. QED
  BY <1>1, ThreadMoves DEF Step

LEMMA RequestMoves ==
    ASSUME TypeOK, NEW h \in Handlers, NEW r \in 0..MaxRuns, NEW to \in Stages,
           Goto(h, to, r) \/ (Done(h) /\ r = 0 /\ to = "idle")
    PROVE  /\ request' \in [Handlers -> [run : 0..MaxRuns, pc : Stages]]
           /\ request'[h].run = r /\ request'[h].pc = to
           /\ \A g \in Handlers : g # h => request'[g] = request[g]
<1>1. request \in [Handlers -> [run : 0..MaxRuns, pc : Stages]]
  BY DEF TypeOK, Stages
<1>2. request' = [request EXCEPT ![h] = [run |-> r, pc |-> to]]
  BY DEF Goto, Done
<1>3. QED
  BY <1>1, <1>2

\* What of the invariant a step of a thread keeps that writes no row: all of
\* it, unless it is the step into the cleanup.
LEMMA StepKeeps ==
    ASSUME LifecycleInv, NEW t \in Threads, NEW to \in Places \ {"free"},
           thread[t].pc # "free",
           \/ Step(t, to)
           \/ \E read \in Readings :
                 thread' = [thread EXCEPT ![t].pc = to, ![t].seen = read],
           UNCHANGED <<registry, request>>
    PROVE  /\ thread' \in [Threads -> [run : 0..MaxRuns, pc : Places,
                                       seen : Readings]]
           /\ Assigned' /\ RegistryOK'
           /\ \A r \in Runs :
                 r # thread[t].run \/ to # "cleanup" => (Served(r) => Served(r)')
           /\ to # "cleanup" => Served(thread[t].run)'
<1>1. /\ thread' \in [Threads -> [run : 0..MaxRuns, pc : Places,
                                  seen : Readings]]
      /\ thread'[t].run = thread[t].run /\ thread'[t].pc = to
      /\ \A u \in Threads : u # t => thread'[u] = thread[u]
  BY ThreadMoves, StepMoves DEF LifecycleInv
<1>2. Assigned'
  BY <1>1 DEF LifecycleInv, Assigned
<1>3. RegistryOK'
  <2>1. SUFFICES ASSUME NEW r \in Runs, registry[r] # None
                 PROVE  /\ thread'[registry[r]].run = r
                        /\ thread'[registry[r]].pc # "free"
    BY DEF RegistryOK
  <2>2. /\ registry[r] \in Threads
        /\ thread[registry[r]].run = r /\ thread[registry[r]].pc # "free"
    BY <2>1 DEF LifecycleInv, RegistryOK, TypeOK
  <2>3. QED
    BY <1>1, <2>2
<1>4. \A r \in Runs : r # thread[t].run \/ to # "cleanup" => (Served(r) => Served(r)')
  BY <1>1 DEF Served, Serves, AsksFor
<1>5. to # "cleanup" => Served(thread[t].run)'
  BY <1>1 DEF Served, Serves
<1>6. QED
  BY <1>1, <1>2, <1>3, <1>4, <1>5

\* The same for a request; one that asks for a thread goes on asking.
LEMMA GotoKeeps ==
    ASSUME LifecycleInv, NEW h \in Handlers, NEW r \in Runs, NEW to \in Stages,
           Goto(h, to, r) \/ (Done(h) /\ to = "idle"), UNCHANGED <<registry, thread>>
    PROVE  /\ request' \in [Handlers -> [run : 0..MaxRuns, pc : Stages]]
           /\ Assigned' /\ RegistryOK'
           /\ \A o \in Runs : o # request[h].run \/ request[h].pc \notin {"spawn", "register"}
                                 => (Served(o) => Served(o)')
           /\ to \in {"spawn", "register"} => Served(r)'
<1>1. PICK o \in 0..MaxRuns : (Goto(h, to, r) /\ o = r) \/ (Done(h) /\ o = 0 /\ to = "idle")
  <2>1. r \in 0..MaxRuns /\ 0 \in 0..MaxRuns
    OBVIOUS
  <2>2. CASE Goto(h, to, r)
    BY <2>1, <2>2
  <2>3. CASE Done(h) /\ to = "idle"
    BY <2>1, <2>3
  <2>4. QED
    BY <2>2, <2>3
<1>2. /\ request' \in [Handlers -> [run : 0..MaxRuns, pc : Stages]]
      /\ request'[h].run = o /\ request'[h].pc = to
      /\ \A g \in Handlers : g # h => request'[g] = request[g]
  BY <1>1, RequestMoves DEF LifecycleInv
<1>3. to # "idle" => o = r
  BY <1>1 DEF Done, Goto
<1>4. Assigned'
  BY <1>2, <1>3 DEF LifecycleInv, Assigned
<1>5. RegistryOK'
  BY DEF LifecycleInv, RegistryOK
<1>6. \A q \in Runs : q # request[h].run \/ request[h].pc \notin {"spawn", "register"}
                         => (Served(q) => Served(q)')
  BY <1>2 DEF Served, Serves, AsksFor
<1>7. to \in {"spawn", "register"} => Served(r)'
  BY <1>2, <1>3 DEF Served, AsksFor
<1>8. QED
  BY <1>2, <1>4, <1>5, <1>6, <1>7

\* Rows stay and so do those who serve.
LEMMA QuietKeeps ==
    ASSUME LifecycleInv, UNCHANGED status, unserved \subseteq unserved',
           \A r \in Runs : status[r] = "running" /\ r \notin unserved'
                              => (Served(r) => Served(r)')
    PROVE  OneActive' /\ AllServed'
BY DEF LifecycleInv, OneActive, AllServed

\* A row is written.
LEMMA WriteKeeps ==
    ASSUME LifecycleInv, NEW r \in Runs,
           NEW s \in Active \cup Terminal \cup {"none", "gone"}, SetStatus(r, s),
           s \in Active => NoConflict(r),
           \A o \in Runs : o # r => (Served(o) => Served(o)'),
           s = "running" => Served(r)'
    PROVE  OneActive' /\ AllServed'
<1>1. /\ status'[r] = s /\ r \notin unserved'
      /\ \A o \in Runs : o # r => status'[o] = status[o]
      /\ \A o \in Runs : o # r => (o \in unserved' <=> o \in unserved)
  BY AllStatuses DEF LifecycleInv
<1>2. OneActive'
  BY <1>1 DEF LifecycleInv, OneActive, NoConflict
<1>3. AllServed'
  BY <1>1 DEF LifecycleInv, AllServed
<1>4. QED
  BY <1>2, <1>3

\* Nobody's place is affected.
LEMMA NobodyMoves ==
    ASSUME LifecycleInv, UNCHANGED <<registry, thread, request>>
    PROVE  /\ Assigned' /\ RegistryOK'
           /\ \A r \in Runs : Served(r) => Served(r)'
BY DEF LifecycleInv, Assigned, RegistryOK, Served, Serves, AsksFor


LEMMA InsertStep ==
    ASSUME LifecycleInv, NEW h \in Handlers, NEW p \in 0..MaxRuns,
           request[h] = Idle, Insert(h, p)
    PROVE  LifecycleInv'
<1>1. PICK r \in Runs :
          /\ NoConflict(r) /\ SetStatus(r, "queued")
          /\ parent' = [parent EXCEPT ![r] = p]
          /\ Goto(h, "evaluate", r)
          /\ UNCHANGED <<rejected, registry, thread>>
  BY DEF Insert
<1>. request[h].pc = "idle" /\ "evaluate" \in Stages
  BY DEF Stages
<1>2. /\ request' \in [Handlers -> [run : 0..MaxRuns, pc : Stages]]
      /\ Assigned' /\ RegistryOK'
      /\ \A o \in Runs : Served(o) => Served(o)'
  BY <1>1, GotoKeeps DEF Goto, Done
<1>3. OneActive' /\ AllServed'
  BY <1>1, <1>2, WriteKeeps
<1>4. TypeOK'
  BY <1>1, <1>2, AllStatuses DEF LifecycleInv, TypeOK, Stages
<1>5. QED
  BY <1>2, <1>3, <1>4 DEF LifecycleInv

LEMMA CreateStep ==
    ASSUME LifecycleInv, NEW h \in Handlers, Create(h)
    PROVE  LifecycleInv'
BY InsertStep DEF Create

LEMMA RetryStep ==
    ASSUME LifecycleInv, NEW h \in Handlers, Retry(h)
    PROVE  LifecycleInv'
BY InsertStep DEF Retry

LEMMA EvaluateStep ==
    ASSUME LifecycleInv, NEW h \in Handlers, Evaluate(h)
    PROVE  LifecycleInv'
<1>1. /\ Done(h) /\ request[h].pc = "evaluate" /\ request[h].run \in Runs
      /\ rejected' \subseteq Runs
      /\ UNCHANGED <<status, parent, registry, thread, unserved>>
  BY DEF Evaluate, LifecycleInv, TypeOK, Assigned
<1>2. /\ request' \in [Handlers -> [run : 0..MaxRuns, pc : Stages]]
      /\ Assigned' /\ RegistryOK'
      /\ \A o \in Runs : Served(o) => Served(o)'
  BY <1>1, GotoKeeps DEF Stages, Goto, Done
<1>3. OneActive' /\ AllServed'
  BY <1>1, <1>2, QuietKeeps
<1>4. TypeOK'
  BY <1>1, <1>2 DEF LifecycleInv, TypeOK, Stages
<1>5. QED
  BY <1>2, <1>3, <1>4 DEF LifecycleInv

LEMMA CheckStartStep ==
    ASSUME LifecycleInv, NEW h \in Handlers, CheckStart(h)
    PROVE  LifecycleInv'
<1>1. PICK r \in Runs :
          /\ Goto(h, "start", r) /\ request[h] = Idle
          /\ UNCHANGED <<row, registry, thread, unserved>>
  BY DEF CheckStart
<1>. request[h].pc = "idle" /\ "start" \in Stages
  BY <1>1 DEF Stages
<1>2. /\ request' \in [Handlers -> [run : 0..MaxRuns, pc : Stages]]
      /\ Assigned' /\ RegistryOK'
      /\ \A o \in Runs : Served(o) => Served(o)'
  BY <1>1, GotoKeeps DEF Goto, Done
<1>3. OneActive' /\ AllServed'
  BY <1>1, <1>2, QuietKeeps DEF row
<1>4. TypeOK'
  BY <1>1, <1>2 DEF LifecycleInv, TypeOK, Stages, row
<1>5. QED
  BY <1>2, <1>3, <1>4 DEF LifecycleInv

LEMMA CheckDeleteStep ==
    ASSUME LifecycleInv, NEW h \in Handlers, CheckDelete(h)
    PROVE  LifecycleInv'
<1>1. PICK r \in Runs :
          /\ Goto(h, "delete", r) /\ request[h] = Idle
          /\ UNCHANGED <<row, registry, thread, unserved>>
  BY DEF CheckDelete
<1>. request[h].pc = "idle" /\ "delete" \in Stages
  BY <1>1 DEF Stages
<1>2. /\ request' \in [Handlers -> [run : 0..MaxRuns, pc : Stages]]
      /\ Assigned' /\ RegistryOK'
      /\ \A o \in Runs : Served(o) => Served(o)'
  BY <1>1, GotoKeeps DEF Goto, Done
<1>3. OneActive' /\ AllServed'
  BY <1>1, <1>2, QuietKeeps DEF row
<1>4. TypeOK'
  BY <1>1, <1>2 DEF LifecycleInv, TypeOK, Stages, row
<1>5. QED
  BY <1>2, <1>3, <1>4 DEF LifecycleInv

LEMMA MarkStartedStep ==
    ASSUME LifecycleInv, NEW h \in Handlers, MarkStarted(h)
    PROVE  LifecycleInv'
<1>1. PICK r \in Runs :
          /\ r = request[h].run /\ request[h].pc = "start"
          /\ UNCHANGED <<rejected, parent, registry, thread>>
  BY DEF MarkStarted, LifecycleInv, Assigned
<1>2. PICK to \in Stages :
          /\ to = IF Exists(r) THEN "spawn" ELSE "idle"
          /\ Goto(h, to, r) \/ (Done(h) /\ to = "idle")
  <2>1. "spawn" \in Stages /\ "idle" \in Stages
    BY DEF Stages
  <2>2. CASE Exists(r)
    BY <1>1, <2>1, <2>2 DEF MarkStarted, Goto
  <2>3. CASE ~Exists(r)
    BY <1>1, <2>1, <2>3 DEF MarkStarted
  <2>4. QED
    BY <2>2, <2>3
<1>3. /\ request' \in [Handlers -> [run : 0..MaxRuns, pc : Stages]]
      /\ Assigned' /\ RegistryOK'
      /\ \A o \in Runs : Served(o) => Served(o)'
      /\ to = "spawn" => Served(r)'
  BY <1>1, <1>2, GotoKeeps DEF Goto, Done
<1>4. CASE status[r] = "queued"
  <2>1. SetStatus(r, "running") /\ NoConflict(r) /\ to = "spawn"
    BY <1>1, <1>2, <1>4
       DEF MarkStarted, LifecycleInv, OneActive, NoConflict, Exists
  <2>2. OneActive' /\ AllServed'
    <3>1. \A o \in Runs : o # r => (Served(o) => Served(o)')
      BY <1>3
    <3>2. Served(r)'
      BY <1>3, <2>1
    <3>3. QED
      BY <2>1, <3>1, <3>2, WriteKeeps DEF SetStatus
  <2>3. TypeOK'
    BY <1>1, <1>3, <2>1, AllStatuses DEF LifecycleInv, TypeOK, Stages
  <2>4. QED
    BY <1>3, <2>2, <2>3 DEF LifecycleInv
<1>5. CASE status[r] # "queued"
  <2>1. UNCHANGED <<status, unserved>>
    BY <1>1, <1>5 DEF MarkStarted
  <2>2. OneActive' /\ AllServed'
    BY <1>3, <2>1, QuietKeeps
  <2>3. TypeOK'
    BY <1>1, <1>3, <2>1 DEF LifecycleInv, TypeOK, Stages
  <2>4. QED
    BY <1>3, <2>2, <2>3 DEF LifecycleInv
<1>6. QED
  BY <1>4, <1>5

LEMMA PauseStep ==
    ASSUME LifecycleInv, NEW h \in Handlers, Pause(h)
    PROVE  LifecycleInv'
<1>1. PICK r \in Runs :
          /\ MaySet(r, "paused") /\ SetStatus(r, "paused")
          /\ UNCHANGED <<rejected, parent, registry, thread, request>>
  BY DEF Pause
<1>2. Assigned' /\ RegistryOK' /\ \A o \in Runs : Served(o) => Served(o)'
  BY <1>1, NobodyMoves
<1>3. OneActive' /\ AllServed'
  BY <1>1, <1>2, WriteKeeps DEF MaySet
<1>4. TypeOK'
  BY <1>1, AllStatuses DEF LifecycleInv, TypeOK
<1>5. QED
  BY <1>2, <1>3, <1>4 DEF LifecycleInv

LEMMA CancelStep ==
    ASSUME LifecycleInv, NEW h \in Handlers, Cancel(h)
    PROVE  LifecycleInv'
<1>1. PICK r \in Runs :
          /\ MaySet(r, "cancelled") /\ SetStatus(r, "cancelled")
          /\ UNCHANGED <<rejected, parent, registry, thread, request>>
  BY DEF Cancel
<1>2. Assigned' /\ RegistryOK' /\ \A o \in Runs : Served(o) => Served(o)'
  BY <1>1, NobodyMoves
<1>3. OneActive' /\ AllServed'
  BY <1>1, <1>2, WriteKeeps DEF MaySet
<1>4. TypeOK'
  BY <1>1, AllStatuses DEF LifecycleInv, TypeOK
<1>5. QED
  BY <1>2, <1>3, <1>4 DEF LifecycleInv

LEMMA ResumeStep ==
    ASSUME LifecycleInv, NEW h \in Handlers, Resume(h)
    PROVE  LifecycleInv'
<1>1. PICK r \in Runs :
          /\ MaySet(r, "running") /\ SetStatus(r, "running")
          /\ Goto(h, "spawn", r) /\ request[h] = Idle
          /\ UNCHANGED <<rejected, parent, registry, thread>>
  BY DEF Resume
<1>. request[h].pc = "idle" /\ "spawn" \in Stages
  BY <1>1 DEF Stages
<1>2. /\ request' \in [Handlers -> [run : 0..MaxRuns, pc : Stages]]
      /\ Assigned' /\ RegistryOK'
      /\ \A o \in Runs : Served(o) => Served(o)'
      /\ Served(r)'
  BY <1>1, GotoKeeps DEF Goto, Done
<1>3. OneActive' /\ AllServed'
  BY <1>1, <1>2, WriteKeeps DEF MaySet
<1>4. TypeOK'
  BY <1>1, <1>2, AllStatuses DEF LifecycleInv, TypeOK, Stages
<1>5. QED
  BY <1>2, <1>3, <1>4 DEF LifecycleInv

LEMMA CheckThreadStep ==
    ASSUME LifecycleInv, NEW h \in Handlers, CheckThread(h)
    PROVE  LifecycleInv'
<1>1. PICK r \in Runs :
          /\ r = request[h].run /\ request[h].pc = "spawn"
          /\ UNCHANGED <<row, registry, thread>>
  BY DEF CheckThread, LifecycleInv, Assigned
<1>2. PICK to \in Stages :
          /\ to = IF Alive(r) THEN "idle" ELSE "register"
          /\ Goto(h, to, r) \/ (Done(h) /\ to = "idle")
  <2>1. "register" \in Stages /\ "idle" \in Stages
    BY DEF Stages
  <2>2. CASE Alive(r)
    BY <1>1, <2>1, <2>2 DEF CheckThread
  <2>3. CASE ~Alive(r)
    BY <1>1, <2>1, <2>3 DEF CheckThread, Goto
  <2>4. QED
    BY <2>2, <2>3
<1>3. /\ request' \in [Handlers -> [run : 0..MaxRuns, pc : Stages]]
      /\ Assigned' /\ RegistryOK'
      /\ \A o \in Runs : o # r => (Served(o) => Served(o)')
      /\ to = "register" => Served(r)'
  BY <1>1, <1>2, GotoKeeps DEF Goto, Done
<1>4. unserved \subseteq unserved' /\ unserved' \subseteq Runs
  BY <1>1, ZenonT(60) DEF CheckThread, LeftRunning, LifecycleInv, TypeOK
<1>5. status[r] = "running" /\ r \notin unserved' => Served(r)'
  <2>1. SUFFICES ASSUME status[r] = "running", r \notin unserved', Alive(r)
                 PROVE  Served(r)'
    BY <1>2, <1>3
  <2>2. /\ registry[r] \in Threads
        /\ thread[registry[r]].run = r /\ thread[registry[r]].pc # "free"
    BY <2>1 DEF Alive, LifecycleInv, TypeOK, RegistryOK
  <2>3. thread[registry[r]].pc # "cleanup"
    BY <1>1, <2>1 DEF CheckThread, LeftRunning
  <2>4. thread' = thread
    BY <1>1
  <2>5. Serves(registry[r], r)'
    BY <1>1, <2>2, <2>3, <2>4 DEF Serves
  <2>6. PICK t \in Threads : Serves(t, r)'
    <3>1. registry' = registry
      BY <1>1
    <3>2. QED
      BY <2>2, <2>5, <3>1
  <2>7. QED
    BY <2>6 DEF Served
<1>6. OneActive' /\ AllServed'
  <2>1. status' = status /\ \A o \in Runs :
            status[o] = "running" /\ o \notin unserved' => (Served(o) => Served(o)')
    <3>1. status' = status
      BY <1>1 DEF row
    <3>2. QED
      BY <1>3, <1>5, <3>1
  <2>2. QED
    BY <1>4, <2>1, QuietKeeps
<1>7. TypeOK'
  BY <1>1, <1>3, <1>4 DEF LifecycleInv, TypeOK, Stages, row
<1>8. QED
  BY <1>3, <1>6, <1>7 DEF LifecycleInv

LEMMA RegisterStep ==
    ASSUME LifecycleInv, NEW h \in Handlers, Register(h)
    PROVE  LifecycleInv'
<1>1. PICK t \in Threads :
          LET r == request[h].run
          IN  /\ request[h].pc = "register" /\ r \in Runs
              /\ thread[t] = Free
              /\ thread' = [thread EXCEPT ![t] = [run |-> r, pc |-> "load", seen |-> "go"]]
              /\ registry' = [registry EXCEPT ![r] = t]
              /\ unserved' = unserved \ {r}
              /\ Done(h)
              /\ UNCHANGED row
  BY DEF Register, LifecycleInv, Assigned
<1>2. PICK r \in Runs : r = request[h].run
  BY <1>1
<1>3. /\ request' \in [Handlers -> [run : 0..MaxRuns, pc : Stages]]
      /\ request'[h].pc = "idle"
      /\ \A g \in Handlers : g # h => request'[g] = request[g]
  BY <1>1, RequestMoves DEF LifecycleInv, Stages
<1>4. /\ thread' \in [Threads -> [run : 0..MaxRuns, pc : Places,
                                  seen : Readings]]
      /\ thread'[t].run = r /\ thread'[t].pc = "load" /\ thread[t].pc = "free"
      /\ \A u \in Threads : u # t => thread'[u] = thread[u]
      /\ registry' \in [Runs -> Threads \cup {None}]
      /\ registry'[r] = t
      /\ \A o \in Runs : o # r => registry'[o] = registry[o]
  BY <1>1, <1>2 DEF LifecycleInv, TypeOK, Places, Readings
<1>5. Assigned'
  BY <1>3, <1>4 DEF LifecycleInv, Assigned
<1>6. RegistryOK'
  <2>1. SUFFICES ASSUME NEW o \in Runs, registry'[o] # None
                 PROVE  /\ thread'[registry'[o]].run = o
                        /\ thread'[registry'[o]].pc # "free"
    BY DEF RegistryOK
  <2>2. CASE o = r
    BY <1>4, <2>2
  <2>3. CASE o # r
    <3>1. registry[o] # None /\ registry'[o] = registry[o] /\ registry[o] \in Threads
      BY <1>4, <2>1, <2>3 DEF LifecycleInv, TypeOK
    <3>2. thread[registry[o]].run = o /\ thread[registry[o]].pc # "free"
      BY <3>1 DEF LifecycleInv, RegistryOK
    <3>3. QED
      BY <1>4, <3>1, <3>2
  <2>4. QED
    BY <2>2, <2>3
<1>7. OneActive'
  BY <1>1 DEF LifecycleInv, OneActive, row
<1>8. AllServed'
  <2>1. SUFFICES ASSUME NEW o \in Runs, status[o] = "running", o \notin unserved'
                 PROVE  Served(o)'
    BY <1>1 DEF AllServed, row
  <2>2. CASE o = r
    BY <1>4, <2>2 DEF Served, Serves
  <2>3. CASE o # r
    <3>1. Served(o)
      BY <1>1, <1>2, <2>1, <2>3 DEF LifecycleInv, AllServed
    <3>2. QED
      BY <1>2, <1>3, <1>4, <2>3, <3>1, ZenonT(60) DEF Served, Serves, AsksFor
  <2>4. QED
    BY <2>2, <2>3
<1>9. TypeOK'
  BY <1>1, <1>3, <1>4 DEF LifecycleInv, TypeOK, Stages, Places, Readings, row
<1>10. QED
  BY <1>5, <1>6, <1>7, <1>8, <1>9 DEF LifecycleInv

LEMMA DeleteStep ==
    ASSUME LifecycleInv, NEW h \in Handlers, Delete(h)
    PROVE  LifecycleInv'
<1>1. /\ Done(h) /\ request[h].pc = "delete" /\ request[h].run \in Runs
      /\ UNCHANGED <<registry, thread>>
  BY DEF Delete, LifecycleInv, Assigned
<1>2. /\ request' \in [Handlers -> [run : 0..MaxRuns, pc : Stages]]
      /\ Assigned' /\ RegistryOK'
      /\ \A o \in Runs : Served(o) => Served(o)'
  BY <1>1, GotoKeeps DEF Stages, Goto, Done
<1>3. PICK r \in Runs : r = request[h].run
  BY <1>1
<1>4. CASE \E o \in Runs : parent[o] = r
  <2>1. UNCHANGED <<row, unserved>>
    BY <1>3, <1>4 DEF Delete
  <2>2. OneActive' /\ AllServed'
    BY <1>2, <2>1, QuietKeeps DEF row
  <2>3. TypeOK'
    BY <1>1, <1>2, <2>1 DEF LifecycleInv, TypeOK, Stages, row
  <2>4. QED
    BY <1>2, <2>2, <2>3 DEF LifecycleInv
<1>5. CASE ~ \E o \in Runs : parent[o] = r
  <2>1. /\ SetStatus(r, "gone") /\ rejected' = rejected \ {r}
        /\ parent' = [parent EXCEPT ![r] = 0]
    BY <1>3, <1>5 DEF Delete
  <2>2. OneActive' /\ AllServed'
    BY <1>2, <2>1, WriteKeeps
  <2>3. TypeOK'
    <3>1. /\ status' \in [Runs -> Active \cup Terminal \cup {"none", "gone"}]
          /\ unserved' \subseteq Runs
      BY <2>1, AllStatuses DEF LifecycleInv
    <3>2. parent' \in [Runs -> 0..MaxRuns] /\ rejected' \subseteq Runs
      BY <2>1 DEF LifecycleInv, TypeOK
    <3>3. QED
      BY <1>1, <1>2, <3>1, <3>2 DEF LifecycleInv, TypeOK, Stages
  <2>4. QED
    BY <1>2, <2>2, <2>3 DEF LifecycleInv
<1>6. QED
  BY <1>4, <1>5

LEMMA LoadStep ==
    ASSUME LifecycleInv, NEW t \in Threads, Load(t)
    PROVE  LifecycleInv'
<1>1. /\ \E to \in {"cleanup", "fail", "mark"} :
             Step(t, to) /\ (to = "cleanup" => status[thread[t].run] # "running")
      /\ thread[t].pc # "free" /\ thread[t].run \in Runs
      /\ UNCHANGED <<row, registry, request, unserved>>
  BY DEF Load, LifecycleInv, Assigned
<1>2. /\ thread' \in [Threads -> [run : 0..MaxRuns, pc : Places,
                                  seen : Readings]]
      /\ Assigned' /\ RegistryOK'
      /\ \A o \in Runs : status[o] = "running" /\ o \notin unserved'
                            => (Served(o) => Served(o)')
  BY <1>1, StepKeeps DEF Places, Readings
<1>3. OneActive' /\ AllServed'
  BY <1>1, <1>2, QuietKeeps DEF row
<1>4. TypeOK'
  BY <1>1, <1>2 DEF LifecycleInv, TypeOK, Places, Readings, row
<1>5. QED
  BY <1>2, <1>3, <1>4 DEF LifecycleInv

LEMMA MarkStep ==
    ASSUME LifecycleInv, NEW t \in Threads, Mark(t)
    PROVE  LifecycleInv'
<1>1. PICK r \in Runs :
          /\ r = thread[t].run /\ thread[t].pc = "mark"
          /\ IF MaySet(r, "running")
             THEN SetStatus(r, "running") /\ Step(t, "verify")
             ELSE UNCHANGED <<status, unserved>> /\ Step(t, "cleanup")
          /\ UNCHANGED <<rejected, parent, registry, request>>
  BY DEF Mark, LifecycleInv, Assigned
<1>2. CASE MaySet(r, "running")
  <2>1. /\ thread' \in [Threads -> [run : 0..MaxRuns, pc : Places,
                                    seen : Readings]]
        /\ Assigned' /\ RegistryOK'
        /\ \A o \in Runs : Served(o) => Served(o)'
        /\ Served(r)'
    <3>1. "verify" \in Places \ {"free"} /\ Step(t, "verify") /\ thread[t].pc # "free"
      BY <1>1, <1>2 DEF Places
    <3>2. QED
      BY <1>1, <3>1, StepKeeps, ZenonT(60) DEF Step
  <2>2. OneActive' /\ AllServed'
    BY <1>1, <1>2, <2>1, WriteKeeps DEF MaySet
  <2>3. TypeOK'
    BY <1>1, <1>2, <2>1, AllStatuses DEF LifecycleInv, TypeOK, Places, Readings
  <2>4. QED
    BY <2>1, <2>2, <2>3 DEF LifecycleInv
<1>3. CASE ~MaySet(r, "running")
  <2>1. status[r] # "running"
    BY <1>3 DEF MaySet, Exists, NoConflict, LifecycleInv, OneActive
  <2>2. /\ thread' \in [Threads -> [run : 0..MaxRuns, pc : Places,
                                    seen : Readings]]
        /\ Assigned' /\ RegistryOK'
        /\ \A o \in Runs : status[o] = "running" => (Served(o) => Served(o)')
    BY <1>1, <1>3, <2>1, StepKeeps DEF Places, Readings
  <2>3. OneActive' /\ AllServed'
    BY <1>1, <1>3, <2>2, QuietKeeps
  <2>4. TypeOK'
    BY <1>1, <1>3, <2>2 DEF LifecycleInv, TypeOK, Places, Readings
  <2>5. QED
    BY <2>2, <2>3, <2>4 DEF LifecycleInv
<1>4. QED
  BY <1>2, <1>3

LEMMA VerifyStep ==
    ASSUME LifecycleInv, NEW t \in Threads, Verify(t)
    PROVE  LifecycleInv'
<1>1. PICK to \in {"attach", "fail", "cleanup"} :
          /\ Step(t, to)
          /\ to = "cleanup" => unserved' = LeftRunning(thread[t].run)
          /\ to # "cleanup" => unserved' = unserved
          /\ thread[t].pc # "free" /\ thread[t].run \in Runs
          /\ UNCHANGED <<row, registry, request>>
  BY DEF Verify, LifecycleInv, Assigned
<1>2. /\ thread' \in [Threads -> [run : 0..MaxRuns, pc : Places, seen : Readings]]
      /\ Assigned' /\ RegistryOK'
      /\ \A o \in Runs :
            o # thread[t].run \/ to # "cleanup" => (Served(o) => Served(o)')
  <2>1. to \in Places \ {"free"}
    BY DEF Places
  <2>2. QED
    BY <1>1, <2>1, StepKeeps
<1>3. /\ unserved \subseteq unserved' /\ unserved' \subseteq Runs
      /\ to = "cleanup" /\ status[thread[t].run] = "running"
            => thread[t].run \in unserved'
  BY <1>1 DEF LeftRunning, LifecycleInv, TypeOK
<1>4. OneActive' /\ AllServed'
  BY <1>1, <1>2, <1>3, QuietKeeps DEF row
<1>5. TypeOK'
  BY <1>1, <1>2, <1>3 DEF LifecycleInv, TypeOK, Places, Readings, row
<1>6. QED
  BY <1>2, <1>4, <1>5 DEF LifecycleInv

LEMMA AttachStep ==
    ASSUME LifecycleInv, NEW t \in Threads, Attach(t)
    PROVE  LifecycleInv'
<1>1. /\ \E to \in {"cleanup", "replay"} :
             /\ \E read \in Readings :
                   thread' = [thread EXCEPT ![t].pc = to, ![t].seen = read]
             /\ to = "cleanup" => status[thread[t].run] # "running"
      /\ thread[t].pc # "free" /\ thread[t].run \in Runs
      /\ UNCHANGED <<row, registry, request, unserved>>
  BY DEF Attach, Now, Read, Readings, LifecycleInv, Assigned
<1>2. /\ thread' \in [Threads -> [run : 0..MaxRuns, pc : Places,
                                  seen : Readings]]
      /\ Assigned' /\ RegistryOK'
      /\ \A o \in Runs : status[o] = "running" /\ o \notin unserved'
                            => (Served(o) => Served(o)')
  BY <1>1, StepKeeps DEF Places, Readings
<1>3. OneActive' /\ AllServed'
  BY <1>1, <1>2, QuietKeeps DEF row
<1>4. TypeOK'
  BY <1>1, <1>2 DEF LifecycleInv, TypeOK, Places, Readings, row
<1>5. QED
  BY <1>2, <1>3, <1>4 DEF LifecycleInv

LEMMA PollStep ==
    ASSUME LifecycleInv, NEW t \in Threads, Poll(t)
    PROVE  LifecycleInv'
<1>1. /\ thread[t].pc = "replay" /\ thread[t].run \in Runs
      /\ thread' = [thread EXCEPT ![t].seen = Now(t)]
      /\ Now(t) \in Readings
      /\ UNCHANGED <<row, registry, request, unserved>>
  BY DEF Poll, Now, Read, Readings, LifecycleInv, Assigned
<1>2. thread' = [thread EXCEPT ![t].pc = "replay", ![t].seen = Now(t)]
  BY <1>1 DEF LifecycleInv, TypeOK
<1>3. /\ thread' \in [Threads -> [run : 0..MaxRuns, pc : Places,
                                  seen : Readings]]
      /\ Assigned' /\ RegistryOK'
      /\ \A o \in Runs : Served(o) => Served(o)'
  BY <1>1, <1>2, StepKeeps DEF Places, Readings
<1>4. OneActive' /\ AllServed'
  BY <1>1, <1>3, QuietKeeps DEF row
<1>5. TypeOK'
  BY <1>1, <1>3 DEF LifecycleInv, TypeOK, Places, Readings, row
<1>6. QED
  BY <1>3, <1>4, <1>5 DEF LifecycleInv

LEMMA AbortStep ==
    ASSUME LifecycleInv, NEW t \in Threads, Abort(t)
    PROVE  LifecycleInv'
<1>1. /\ \E to \in {"cancel", "fail"} : Step(t, to)
      /\ thread[t].pc # "free" /\ thread[t].run \in Runs
      /\ UNCHANGED <<row, registry, request, unserved>>
  BY DEF Abort, Raise, LifecycleInv, Assigned
<1>2. /\ thread' \in [Threads -> [run : 0..MaxRuns, pc : Places,
                                  seen : Readings]]
      /\ Assigned' /\ RegistryOK'
      /\ \A o \in Runs : status[o] = "running" /\ o \notin unserved'
                            => (Served(o) => Served(o)')
  BY <1>1, StepKeeps DEF Places, Readings
<1>3. OneActive' /\ AllServed'
  BY <1>1, <1>2, QuietKeeps DEF row
<1>4. TypeOK'
  BY <1>1, <1>2 DEF LifecycleInv, TypeOK, Places, Readings, row
<1>5. QED
  BY <1>2, <1>3, <1>4 DEF LifecycleInv

LEMMA BreakStep ==
    ASSUME LifecycleInv, NEW t \in Threads, Break(t)
    PROVE  LifecycleInv'
<1>1. /\ \E to \in {"fail"} : Step(t, to)
      /\ thread[t].pc # "free" /\ thread[t].run \in Runs
      /\ UNCHANGED <<row, registry, request, unserved>>
  BY DEF Break, LifecycleInv, Assigned
<1>2. /\ thread' \in [Threads -> [run : 0..MaxRuns, pc : Places,
                                  seen : Readings]]
      /\ Assigned' /\ RegistryOK'
      /\ \A o \in Runs : status[o] = "running" /\ o \notin unserved'
                            => (Served(o) => Served(o)')
  BY <1>1, StepKeeps DEF Places, Readings
<1>3. OneActive' /\ AllServed'
  BY <1>1, <1>2, QuietKeeps DEF row
<1>4. TypeOK'
  BY <1>1, <1>2 DEF LifecycleInv, TypeOK, Places, Readings, row
<1>5. QED
  BY <1>2, <1>3, <1>4 DEF LifecycleInv

LEMMA FinishStep ==
    ASSUME LifecycleInv, NEW t \in Threads, Finish(t)
    PROVE  LifecycleInv'
<1>1. /\ \E to \in {"recheck"} : Step(t, to)
      /\ thread[t].pc # "free" /\ thread[t].run \in Runs
      /\ UNCHANGED <<row, registry, request, unserved>>
  BY DEF Finish, LifecycleInv, Assigned
<1>2. /\ thread' \in [Threads -> [run : 0..MaxRuns, pc : Places,
                                  seen : Readings]]
      /\ Assigned' /\ RegistryOK'
      /\ \A o \in Runs : status[o] = "running" /\ o \notin unserved'
                            => (Served(o) => Served(o)')
  BY <1>1, StepKeeps DEF Places, Readings
<1>3. OneActive' /\ AllServed'
  BY <1>1, <1>2, QuietKeeps DEF row
<1>4. TypeOK'
  BY <1>1, <1>2 DEF LifecycleInv, TypeOK, Places, Readings, row
<1>5. QED
  BY <1>2, <1>3, <1>4 DEF LifecycleInv

LEMMA RecheckStep ==
    ASSUME LifecycleInv, NEW t \in Threads, Recheck(t)
    PROVE  LifecycleInv'
<1>1. /\ \E to \in {"cancel", "fail", "final"} : Step(t, to)
      /\ thread[t].pc # "free" /\ thread[t].run \in Runs
      /\ UNCHANGED <<row, registry, request, unserved>>
  BY DEF Recheck, Raise, LifecycleInv, Assigned
<1>2. /\ thread' \in [Threads -> [run : 0..MaxRuns, pc : Places,
                                  seen : Readings]]
      /\ Assigned' /\ RegistryOK'
      /\ \A o \in Runs : status[o] = "running" /\ o \notin unserved'
                            => (Served(o) => Served(o)')
  BY <1>1, StepKeeps DEF Places, Readings
<1>3. OneActive' /\ AllServed'
  BY <1>1, <1>2, QuietKeeps DEF row
<1>4. TypeOK'
  BY <1>1, <1>2 DEF LifecycleInv, TypeOK, Places, Readings, row
<1>5. QED
  BY <1>2, <1>3, <1>4 DEF LifecycleInv

LEMMA WriteResultStep ==
    ASSUME LifecycleInv, NEW t \in Threads, WriteResult(t)
    PROVE  LifecycleInv'
<1>1. PICK r \in Runs :
          /\ r = thread[t].run /\ thread[t].pc # "free" /\ Step(t, "cleanup")
          /\ IF Exists(r) THEN \E s \in Terminal : SetStatus(r, s)
             ELSE UNCHANGED <<status, unserved>>
          /\ UNCHANGED <<rejected, parent, registry, request>>
  BY DEF WriteResult, LifecycleInv, Assigned
<1>2. /\ thread' \in [Threads -> [run : 0..MaxRuns, pc : Places,
                                  seen : Readings]]
      /\ Assigned' /\ RegistryOK'
      /\ \A o \in Runs : o # r => (Served(o) => Served(o)')
  BY <1>1, StepKeeps DEF Places, Readings
<1>3. CASE Exists(r)
  <2>1. PICK s \in Terminal : SetStatus(r, s)
    BY <1>1, <1>3
  <2>2. s \notin Active /\ s # "running"
        /\ s \in Active \cup Terminal \cup {"none", "gone"}
    OBVIOUS
  <2>3. OneActive' /\ AllServed'
    BY <1>2, <2>1, <2>2, WriteKeeps
  <2>4. TypeOK'
    BY <1>1, <1>2, <2>1, <2>2, AllStatuses DEF LifecycleInv, TypeOK, Places, Readings
  <2>5. QED
    BY <1>2, <2>3, <2>4 DEF LifecycleInv
<1>4. CASE ~Exists(r)
  <2>1. UNCHANGED <<status, unserved>> /\ status[r] # "running"
    BY <1>1, <1>4 DEF Exists
  <2>2. OneActive' /\ AllServed'
    BY <1>2, <2>1, QuietKeeps
  <2>3. TypeOK'
    BY <1>1, <1>2, <2>1 DEF LifecycleInv, TypeOK, Places, Readings
  <2>4. QED
    BY <1>2, <2>2, <2>3 DEF LifecycleInv
<1>5. QED
  BY <1>3, <1>4

LEMMA EndStep ==
    ASSUME LifecycleInv, NEW t \in Threads, End(t)
    PROVE  LifecycleInv'
<1>1. TypeOK' /\ Assigned' /\ RegistryOK' /\ OneActive'
  BY DEF LifecycleInv, TypeOK, Assigned, RegistryOK, OneActive, End, Unregister, row
<1>2. AllServed'
  <2>1. /\ thread[t].pc = "cleanup" /\ \A u \in Threads : u # t => thread'[u] = thread[u]
        /\ UNCHANGED <<row, request, unserved>>
    BY DEF LifecycleInv, TypeOK, End
  <2>2. \A r \in Runs : Served(r) => Served(r)'
    BY <2>1 DEF Served, Serves, AsksFor
  <2>3. QED
    BY <2>1, <2>2 DEF LifecycleInv, AllServed, row
<1>3. QED
  BY <1>1, <1>2 DEF LifecycleInv

LEMMA RestartStep ==
    ASSUME LifecycleInv, Restart
    PROVE  LifecycleInv'
<1>1. \A r \in Runs : status'[r] \notin Active
  BY DEF Restart, Interrupt
<1>2. TypeOK'
  BY <1>1 DEF LifecycleInv, TypeOK, Restart, Interrupt
<1>3. Assigned' /\ RegistryOK'
  BY DEF Restart, Assigned, RegistryOK
<1>4. OneActive' /\ AllServed'
  BY <1>1 DEF OneActive, AllServed
<1>5. QED
  BY <1>2, <1>3, <1>4 DEF LifecycleInv

LEMMA LifecycleStep == LifecycleInv /\ [Next]_vars => LifecycleInv'
<1> SUFFICES ASSUME LifecycleInv, [Next]_vars PROVE LifecycleInv'
  OBVIOUS
<1>1. ASSUME NEW h \in Handlers, Arrive(h) PROVE LifecycleInv'
  BY <1>1, CreateStep, RetryStep, CheckStartStep, ResumeStep, PauseStep, CancelStep,
     CheckDeleteStep DEF Arrive
<1>2. ASSUME NEW h \in Handlers, Handle(h) PROVE LifecycleInv'
  BY <1>2, EvaluateStep, MarkStartedStep, CheckThreadStep, RegisterStep, DeleteStep
     DEF Handle
<1>3. ASSUME NEW t \in Threads, Run(t) PROVE LifecycleInv'
  BY <1>3, LoadStep, MarkStep, VerifyStep, AttachStep, PollStep, AbortStep, BreakStep,
     FinishStep, RecheckStep, WriteResultStep, EndStep DEF Run, Advance
<1>4. CASE UNCHANGED vars
  BY <1>4 DEF vars, row, LifecycleInv, TypeOK, Assigned, RegistryOK, OneActive,
              AllServed, Served, Serves, AsksFor
<1>5. QED
  BY <1>1, <1>2, <1>3, <1>4, RestartStep DEF Next

LEMMA LifecycleInit == Init => LifecycleInv
BY DEF Init, LifecycleInv, TypeOK, Assigned, RegistryOK, OneActive, AllServed

-----------------------------------------------------------------------------
(* The theorems.                                                           *)

\* The variables keep their types in every run of the control plane.
THEOREM LifecycleTypes == Spec => []TypeOK
<1>1. LifecycleInv => TypeOK
  BY DEF LifecycleInv
<1>2. QED
  BY <1>1, LifecycleInit, LifecycleStep, PTL DEF Spec

\* For any number of runs of a trail on a target, of requests and of threads,
\* with retries, deletes and restarts in between, one run at most is queued,
\* running or paused (replay_runs_fingerprint_unique, interrupt_stale_runs).
THEOREM OneActiveAtATime == Spec => []OneActiveRun
<1>1. LifecycleInv => OneActiveRun
  <2> SUFFICES ASSUME LifecycleInv PROVE OneActiveRun
    OBVIOUS
  <2> DEFINE active == {r \in Runs : status[r] \in Active}
  <2>1. CASE active = {}
    BY <2>1, FS_EmptySet DEF OneActiveRun
  <2>2. CASE active # {}
    <3>1. PICK r \in Runs : active = {r}
      BY <2>2 DEF LifecycleInv, OneActive
    <3>2. Cardinality(active) = 1
      BY <3>1, FS_Singleton
    <3>3. QED
      BY <3>2 DEF OneActiveRun
  <2>3. QED
    BY <2>1, <2>2
<1>2. QED
  BY <1>1, LifecycleInit, LifecycleStep, PTL DEF Spec

\* A run that is running has a thread, or a request that is about to ask for
\* one, unless it is one of the runs CheckThread and Verify record: however
\* starts, resumes, deletes, ends of threads and restarts interleave.
THEOREM RunningRunsAreServed == Spec => []RunningIsServed
<1>1. LifecycleInv => RunningIsServed
  BY DEF LifecycleInv, AllServed, Served, Serves, AsksFor, RunningIsServed
<1>2. QED
  BY <1>1, LifecycleInit, LifecycleStep, PTL DEF Spec

=============================================================================
