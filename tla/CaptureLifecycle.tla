-------------------------- MODULE CaptureLifecycle --------------------------
(***************************************************************************)
(* The gateway switch and the captures of the control plane: the requests  *)
(* that turn the gateway on and off and open, end and delete captures      *)
(* (gateway_routes.py, capture_routes.py, capture_service.py), the boot of *)
(* the server (server.py, runtime_supervision.py) and the terminal         *)
(* sessions that write into a capture.  The database is in autocommit: a   *)
(* step is one statement, and requests interleave between statements.      *)
(***************************************************************************)
EXTENDS Integers, Sequences, FiniteSets, FiniteSetsExt

CONSTANTS Handlers,
          MaxCaptures,  \* bound: captures there are when a request opens one
          MaxBoots      \* bound: starts of the server

CaptureAssumption ==
    MaxCaptures \in Nat \ {0} /\ MaxBoots \in Nat \ {0}

VARIABLES
    gateway,    \* gateway_state.active
    captures,   \* capture_sessions by id: the status, "deleted" when the row is gone
                \* (no other gets its id); whether its counts are not 0
    recorded,   \* the captures with something in their log_dir
    session,    \* the capture the terminal session that lives writes into, or 0
    process,    \* the server: "down", a stage of the boot, or "up"
    boots,
    pc,         \* where each request is
    request,    \* what each request is about: its operation and a capture
    sampler,    \* the capture the sampler of port 22 observes, or 0
    runtime,    \* the capture the runtime process the server knows writes into, or 0
    overlapped  \* history: since the boot two requests were in progress together

table == <<gateway, captures>>
helpers == <<sampler, runtime>>
server == <<process, boots, overlapped>>
vars == <<table, recorded, session, server, pc, request, helpers>>

Ids == DOMAIN captures
WithStatus(s) == {c \in Ids : captures[c].status = s}
Active == WithStatus("active")
Latest(cs) == IF cs = {} THEN 0 ELSE Max(cs)
Busy == {h \in Handlers : pc[h] # "idle"}

\* An UPDATE or a DELETE by id: a row that is gone is not found.
Set(c, status, counted) ==
    [captures EXCEPT ![c] = IF captures[c].status = "deleted" THEN captures[c]
                            ELSE [status |-> status, counted |-> counted]]

NoRequest == [op |-> "none", capture |-> 0]

Goto(h, place) == pc' = [pc EXCEPT ![h] = place]
About(h, c) == request' = [request EXCEPT ![h].capture = c]
Continue(h, place) ==
    /\ Goto(h, place)
    /\ request' = IF place = "idle" THEN [request EXCEPT ![h] = NoRequest] ELSE request

Operations == {"activate", "deactivate", "force", "start", "stop", "delete"}

Init ==
    /\ gateway = FALSE /\ captures = <<>>
    /\ recorded = {} /\ session = 0
    /\ process = "down" /\ boots = 0
    /\ pc = [h \in Handlers |-> "idle"]
    /\ request = [h \in Handlers |-> NoRequest]
    /\ sampler = 0 /\ runtime = 0
    /\ overlapped = FALSE

\* A request arrives; the thread of its handler runs it.
Begin(h) ==
    /\ process = "up" /\ pc[h] = "idle"
    /\ \E op \in Operations, c \in Ids \cup {0} :
          /\ (c # 0) = (op \in {"stop", "delete"})
          /\ request' = [request EXCEPT ![h] = [op |-> op, capture |-> c]]
          /\ Goto(h, CASE op = "activate" -> "activate"
                       [] op = "start" -> "state"
                       [] op = "stop" -> "read"
                       [] op = "delete" -> "find"
                       [] OTHER -> "check")
    /\ overlapped' = (overlapped \/ Busy # {})
    /\ UNCHANGED <<table, recorded, session, process, boots, helpers>>

----------------------------------------------------------------------------
\* activate_gateway, then the capture that is active or a new one.
Activate(h) ==
    /\ pc[h] = "activate" /\ Goto(h, "look")
    /\ gateway' = TRUE
    /\ UNCHANGED <<captures, recorded, session, server, request, helpers>>

Look(h) ==
    /\ pc[h] = "look"
    /\ About(h, Latest(Active))
    /\ Goto(h, IF Active = {} THEN "state" ELSE "sample")
    /\ UNCHANGED <<table, recorded, session, server, helpers>>

\* start_capture: the switch, the active capture, the INSERT.
ReadState(h) ==
    /\ pc[h] = "state"
    /\ Continue(h, IF gateway THEN "existing" ELSE "idle")
    /\ UNCHANGED <<table, recorded, session, server, helpers>>

ReadExisting(h) ==
    /\ pc[h] = "existing"
    /\ Continue(h, IF Active = {} THEN "insert" ELSE "idle")
    /\ UNCHANGED <<table, recorded, session, server, helpers>>

NewCapture(bound) ==
    /\ Len(captures) < bound
    /\ captures' = Append(captures, [status |-> "active", counted |-> FALSE])

Insert(h) ==
    /\ pc[h] = "insert"
    /\ NewCapture(MaxCaptures)
    /\ IF request[h].op = "activate"
       THEN Goto(h, "sample") /\ About(h, Len(captures) + 1)
       ELSE Continue(h, "idle")
    /\ UNCHANGED <<gateway, recorded, session, server, helpers>>

\* Port22CaptureSampler.start stops what it observed before.  The runtime
\* capture may be disabled.
Sample(h) ==
    /\ pc[h] = "sample"
    /\ sampler' = request[h].capture
    /\ \E place \in {"terminate", "idle"} : Continue(h, place)
    /\ UNCHANGED <<table, recorded, session, server, runtime>>

\* RuntimeContentCaptureRunner: a start first ends the process it knows.
Terminate(h) ==
    /\ pc[h] = "terminate"
    /\ runtime' = 0
    /\ Continue(h, IF request[h].op = "activate" THEN "spawn" ELSE "idle")
    /\ UNCHANGED <<table, recorded, session, server, sampler>>

Spawn(h) ==
    /\ pc[h] = "spawn" /\ Continue(h, "idle")
    /\ runtime' = request[h].capture
    /\ UNCHANGED <<table, recorded, session, server, sampler>>

----------------------------------------------------------------------------
\* The deactivation is refused while a capture is active, unless forced.
Check(h) ==
    /\ pc[h] = "check"
    /\ Continue(h, IF request[h].op = "force" THEN "ids"
                   ELSE IF Active = {} THEN "off" ELSE "idle")
    /\ UNCHANGED <<table, recorded, session, server, helpers>>

ReadIds(h) ==
    /\ pc[h] = "ids"
    /\ About(h, Latest(Active))
    /\ Goto(h, IF Active = {} THEN "off" ELSE "update")
    /\ UNCHANGED <<table, recorded, session, server, helpers>>

\* As if the UPDATE named the ids that were read and not the status.
InterruptAllById(h) ==
    /\ pc[h] = "update" /\ Goto(h, "off")
    /\ captures' = Set(request[h].capture, "interrupted", FALSE)
    /\ UNCHANGED <<gateway, recorded, session, server, request, helpers>>

\* The counts stay what they were.
InterruptAll(h) ==
    /\ pc[h] = "update" /\ Goto(h, "off")
    /\ captures' = [c \in Ids |-> IF c \in Active THEN [captures[c] EXCEPT !.status = "interrupted"]
                                  ELSE captures[c]]
    /\ UNCHANGED <<gateway, recorded, session, server, request, helpers>>

SwitchOff(h) ==
    /\ pc[h] = "off" /\ Goto(h, "unsample")
    /\ gateway' = FALSE
    /\ UNCHANGED <<captures, recorded, session, server, request, helpers>>

Unsample(h) ==
    /\ pc[h] = "unsample" /\ Goto(h, "terminate")
    /\ sampler' = 0
    /\ UNCHANGED <<table, recorded, session, server, request, runtime>>

----------------------------------------------------------------------------
\* stop_capture: the status, what is on disk, the UPDATE.
ReadStatus(h) ==
    /\ pc[h] = "read"
    /\ Continue(h, IF request[h].capture \in Active THEN "count" ELSE "idle")
    /\ UNCHANGED <<table, recorded, session, server, helpers>>

Count(h) ==
    /\ pc[h] = "count"
    /\ Goto(h, IF request[h].capture \in recorded THEN "finish some" ELSE "finish none")
    /\ UNCHANGED <<table, recorded, session, server, request, helpers>>

Finish(h) ==
    /\ pc[h] \in {"finish some", "finish none"} /\ Continue(h, "idle")
    /\ captures' = Set(request[h].capture, "finished", pc[h] = "finish some")
    /\ UNCHANGED <<gateway, recorded, session, server, helpers>>

----------------------------------------------------------------------------
\* DELETE of a capture: its status, then the statement by id.  The files in its
\* log_dir stay, and what runs on them.
Find(h) ==
    /\ pc[h] = "find"
    /\ Continue(h, IF captures[request[h].capture].status \in {"deleted", "active"}
                   THEN "idle" ELSE "delete")
    /\ UNCHANGED <<table, recorded, session, server, helpers>>

Delete(h) ==
    /\ pc[h] = "delete" /\ Continue(h, "idle")
    /\ captures' = Set(request[h].capture, "deleted", FALSE)
    /\ UNCHANGED <<gateway, recorded, session, server, helpers>>

----------------------------------------------------------------------------
\* The daemon gives a new session the latest active capture (audit_client
\* asks for it once); the session writes there until it ends.
SessionOpens ==
    /\ session = 0 /\ Active # {}
    /\ session' = Latest(Active)
    /\ UNCHANGED <<table, recorded, server, pc, request, helpers>>

SessionEnds ==
    /\ session # 0 /\ session' = 0
    /\ UNCHANGED <<table, recorded, server, pc, request, helpers>>

Writes ==
    /\ \E c \in {session, runtime} \ {0} : recorded' = recorded \cup {c}
    /\ UNCHANGED <<table, session, server, pc, request, helpers>>

----------------------------------------------------------------------------
\* A new process signals the capture-session processes it finds, which end
\* in their own time, interrupts what is active, and goes on with a capture
\* when the gateway is on.
Boot ==
    /\ process = "down" /\ boots < MaxBoots
    /\ process' = "interrupt" /\ boots' = boots + 1
    /\ UNCHANGED <<table, recorded, session, overlapped, pc, request, helpers>>

\* As if a capture with nothing in its log, which a boot may take up again
\* anyway, were left as it is.
InterruptRecorded ==
    /\ process = "interrupt"
    /\ IF Active \cap recorded = {}
       THEN process' = "ensure" /\ captures' = captures
       ELSE /\ captures' = Set(Min(Active \cap recorded), "interrupted", TRUE)
            /\ process' = process
    /\ UNCHANGED <<gateway, recorded, session, boots, overlapped, pc, request, helpers>>

\* interrupt_stale_captures goes from row to row.
InterruptStale ==
    /\ process = "interrupt"
    /\ IF Active = {}
       THEN process' = "ensure" /\ captures' = captures
       ELSE /\ captures' = Set(Min(Active), "interrupted", Min(Active) \in recorded)
            /\ process' = process
    /\ UNCHANGED <<gateway, recorded, session, boots, overlapped, pc, request, helpers>>

\* ensure_active_capture_for_gateway: the last interrupted capture when its
\* counts are 0, else a new one.  DAKOTA_GATEWAY_AUTO_ACTIVATE turns a gateway
\* that is off on.
Ensure ==
    /\ process = "ensure"
    /\ LET last == Latest(WithStatus("interrupted"))
           again == last # 0 /\ ~captures[last].counted
       IN CASE ~gateway ->
                 process' \in {"auto gateway", "attach"} /\ UNCHANGED captures
            [] gateway /\ Active # {} -> process' = "attach" /\ UNCHANGED captures
            [] gateway /\ Active = {} /\ again ->
                 /\ captures' = Set(last, "active", FALSE)
                 /\ process' = "attach"
            [] OTHER -> NewCapture(MaxCaptures + MaxBoots) /\ process' = "attach"
    /\ UNCHANGED <<gateway, recorded, session, boots, overlapped, pc, request, helpers>>

\* auto_activate_gateway: two statements.
AutoGateway ==
    /\ process = "auto gateway" /\ process' = "auto capture"
    /\ gateway' = TRUE
    /\ UNCHANGED <<captures, recorded, session, boots, overlapped, pc, request, helpers>>

AutoCapture ==
    /\ process = "auto capture" /\ process' = "attach"
    /\ NewCapture(MaxCaptures + MaxBoots)
    /\ UNCHANGED <<gateway, recorded, session, boots, overlapped, pc, request, helpers>>

Attach ==
    /\ process = "attach" /\ process' = "up"
    /\ sampler' = Latest(Active)
    /\ UNCHANGED <<table, recorded, session, boots, overlapped, pc, request, runtime>>

\* The process ends, with its threads and their memory.
Down ==
    /\ process # "down" /\ process' = "down"
    /\ pc' = [h \in Handlers |-> "idle"]
    /\ request' = [h \in Handlers |-> NoRequest]
    /\ sampler' = 0 /\ runtime' = 0
    /\ overlapped' = FALSE
    /\ UNCHANGED <<table, recorded, session, boots>>

Handle(h) ==
    Begin(h) \/ Activate(h) \/ Look(h) \/ ReadState(h) \/ ReadExisting(h) \/ Insert(h)
    \/ Sample(h) \/ Terminate(h) \/ Spawn(h) \/ Check(h) \/ ReadIds(h) \/ InterruptAll(h)
    \/ SwitchOff(h) \/ Unsample(h) \/ ReadStatus(h) \/ Count(h) \/ Finish(h)
    \/ Find(h) \/ Delete(h)

Start == Boot \/ InterruptStale \/ Ensure \/ AutoGateway \/ AutoCapture \/ Attach

Next == (\E h \in Handlers : Handle(h)) \/ SessionOpens \/ SessionEnds \/ Writes \/ Start \/ Down

Spec == Init /\ [][Next]_vars

----------------------------------------------------------------------------
\* Whatever the requests left when the server died, and wherever it died, at
\* the end of a boot exactly one capture is active when the gateway is on,
\* and none when it is off.
BootReconciles ==
    process = "attach" => Cardinality(Active) = IF gateway THEN 1 ELSE 0

\* A capture that an operator ended is never active or interrupted again, and
\* one that was deleted does not come back, whatever runs beside the request.
\* (What an overlapping stop counts may still replace the counts of the first.)
FinishedIsFinal ==
    [][\A c \in WithStatus("finished") \cup WithStatus("deleted") :
          captures'[c].status \in {captures[c].status, "deleted"}]_captures

\* start_capture has no lock: but as long as requests come one after the
\* other, one capture at most is active, and between requests a gateway that
\* is off has none, nor anything that still observes one.
DuplicatesNeedOverlap ==
    process = "up" /\ ~overlapped =>
        /\ Cardinality(Active) <= 1
        /\ Busy = {} /\ ~gateway => Active = {} /\ sampler = 0 /\ runtime = 0

\* After a boot and between requests the captures are as the gateway is.
CapturesFollowGateway == BootReconciles /\ DuplicatesNeedOverlap

=============================================================================
