--------------------------- MODULE CaptureDaemon ---------------------------
(***************************************************************************)
(* The capture daemon (dakota_gateway/capture_daemon.py) and its clients   *)
(* (dakota_gateway/audit_client.py) for one capture directory.  A client   *)
(* sends one request at a time and resends it once over a new connection;  *)
(* a handler thread per connection queues it and waits; one writer thread  *)
(* drains the queue into append_many.                                      *)
(*                                                                         *)
(* A request is one item: its events are written together, in order.  What *)
(* append_many does is what AuditWriter shows: it writes a whole batch,    *)
(* nothing of a batch it cannot sign, or some first part of it when an I/O *)
(* error or the end of the process interrupts it.                          *)
(***************************************************************************)
EXTENDS Naturals, Sequences, SequencesExt

CONSTANTS Clients,      \* capture sessions
          None,         \* no item
          Sentinel,     \* the None that close puts into the queue
          MaxDrain,     \* MAX_DRAIN_EVENTS
          Faults,       \* what may go wrong in this instance
          MaxRequests,  \* bound: requests of a client
          MaxBoots      \* bound: times the daemon is started again

FaultKinds == {"io",       \* append_many fails after writing part of a batch
               "bad",      \* a client sends events that cannot be signed
               "timeout",  \* a client waits no longer than its timeout
               "crash",    \* the daemon process dies
               "stop"}     \* the daemon is asked to stop

\* Every request reconnects at most once.
Conn == Clients \X (1..(MaxRequests + 1))
Item == [client : Clients, conn : Nat, req : Nat, valid : BOOLEAN]

ASSUME DaemonAssumption ==
    /\ None \notin Item /\ Sentinel \notin Item
    /\ MaxDrain \in Nat \ {0}
    /\ Faults \subseteq FaultKinds
    /\ MaxRequests \in Nat /\ MaxBoots \in Nat

VARIABLES
    req,        \* req[c]: the number of c's last request
    valid,      \* valid[c]: whether its events can be signed
    conn,       \* conn[c]: c's connection, 0 when it has none
    timedOut,   \* c's connection was read until a timeout
    cpc,        \* cpc[c]: "idle", or waiting on its "first" or "second" try
    inbox,      \* answers c has not read
    confirmed,  \* requests whose append_many returned in the client
    dead,       \* connections the end of the daemon process has broken
    sock,       \* items sent and not yet read by their handler
    serving,    \* serving[x]: what the handler of connection x does
    queue,      \* the queue of the writer thread
    thread,     \* where the writer thread is
    batch,      \* what it has drained
    writer,     \* the last _CaptureWriter: "none", "open", "closed", and "sealed" when
                \* its AuditWriter is closed too
    up,         \* the daemon process is there
    stopping,   \* how far run_daemon is with its shutdown
    boots,      \* times it was started again
    log         \* the items in the audit log, in order

client == <<req, valid, conn, timedOut, cpc, confirmed>>
wire == <<inbox, dead, sock>>
process == <<up, stopping, boots, writer>>
vars == <<client, wire, serving, queue, thread, batch, process, log>>

Rest == [phase |-> "idle", item |-> None]
ConnOf(i) == <<i.client, i.conn>>

-----------------------------------------------------------------------------
(* The client: AuditClient._request.                                       *)

Message(c, k, n, v) == [client |-> c, conn |-> k, req |-> n, valid |-> v]

\* append_many serialises the events and writes the line.  A connection whose
\* daemon is gone takes it nowhere; the read then fails.
Send(c, v) ==
    /\ cpc[c] = "idle"
    /\ conn[c] # 0
    /\ req[c] < MaxRequests
    /\ req' = [req EXCEPT ![c] = @ + 1]
    /\ valid' = [valid EXCEPT ![c] = v]
    /\ cpc' = [cpc EXCEPT ![c] = "first"]
    /\ sock' = IF <<c, conn[c]>> \in dead THEN sock
               ELSE sock \cup {Message(c, conn[c], req[c] + 1, v)}
    /\ UNCHANGED <<conn, timedOut, confirmed, inbox, dead,
                   serving, queue, thread, batch, process, log>>

\* After a failed reconnection there is no file to write to: every further
\* request raises at once.
SendNowhere(c) ==
    /\ cpc[c] = "idle"
    /\ conn[c] = 0
    /\ req[c] < MaxRequests
    /\ req' = [req EXCEPT ![c] = @ + 1]
    /\ UNCHANGED <<valid, conn, timedOut, cpc, confirmed, wire,
                   serving, queue, thread, batch, process, log>>

\* As if a file object could be read again after a timeout.
MayReadAgain(c) == TRUE

\* A file object that once timed out refuses every later read.
MayRead(c) == ~timedOut[c]

\* readline raises OSError, or returns nothing.
ReadFails(c) ==
    \/ ~MayRead(c)
    \/ /\ inbox[c] = {}
       /\ \/ <<c, conn[c]>> \in dead
          \/ "timeout" \in Faults

Accepting == up /\ stopping = "no"

\* As if the second try were followed by a third, a fourth ...
TryAgain == "first"

\* The try that follows the reconnection is the last.
LastTry == "second"

\* First failure: reconnect and send the same line again.
Retry(c) ==
    /\ cpc[c] = "first"
    /\ ReadFails(c)
    /\ Accepting
    /\ conn' = [conn EXCEPT ![c] = @ + 1]
    /\ timedOut' = [timedOut EXCEPT ![c] = FALSE]
    /\ cpc' = [cpc EXCEPT ![c] = LastTry]
    /\ inbox' = [inbox EXCEPT ![c] = {}]
    /\ sock' = sock \cup {Message(c, conn[c] + 1, req[c], valid[c])}
    /\ UNCHANGED <<req, valid, confirmed, dead,
                   serving, queue, thread, batch, process, log>>

\* The reconnection fails: the request raises and the connection is gone.
RetryRefused(c) ==
    /\ cpc[c] = "first"
    /\ ReadFails(c)
    /\ ~Accepting
    /\ conn' = [conn EXCEPT ![c] = 0]
    /\ timedOut' = [timedOut EXCEPT ![c] = FALSE]
    /\ cpc' = [cpc EXCEPT ![c] = "idle"]
    /\ inbox' = [inbox EXCEPT ![c] = {}]
    /\ UNCHANGED <<req, valid, confirmed, dead, sock,
                   serving, queue, thread, batch, process, log>>

\* Second failure: the request raises, the connection stays as it is.
GiveUp(c) ==
    /\ cpc[c] = "second"
    /\ ReadFails(c)
    /\ cpc' = [cpc EXCEPT ![c] = "idle"]
    /\ timedOut' = [timedOut EXCEPT ![c] = @ \/ <<c, conn[c]>> \notin dead]
    /\ UNCHANGED <<req, valid, conn, confirmed, wire,
                   serving, queue, thread, batch, process, log>>

\* An answer arrives in time; the client takes it for its last request's.
Receive(c) ==
    /\ cpc[c] # "idle"
    /\ MayRead(c)
    /\ \E answer \in inbox[c] :
          /\ inbox' = [inbox EXCEPT ![c] = @ \ {answer}]
          /\ confirmed' = IF answer.ok THEN confirmed \cup {<<c, req[c]>>} ELSE confirmed
    /\ cpc' = [cpc EXCEPT ![c] = "idle"]
    /\ UNCHANGED <<req, valid, conn, timedOut, dead, sock,
                   serving, queue, thread, batch, process, log>>

-----------------------------------------------------------------------------
(* The handler of a connection: _Handler, _WriterCache._get, submit.       *)

Become(x, phase, item) ==
    serving' = [serving EXCEPT ![x] = [phase |-> phase, item |-> item]]

\* As if _closed were not looked at: without it a connection that outlives the
\* shutdown made a writer again.
CacheAlwaysOpen == TRUE

\* Until close_all a writer that is not there is created; after it none is handed out.
CacheOpen == stopping \in {"no", "asked"}

\* The next line of the connection is read and its writer looked up; the
\* first one creates it, and so would one after close_all has dropped it.
Dispatch(x) ==
    /\ up
    /\ serving[x] = Rest
    /\ \E i \in sock :
          /\ ConnOf(i) = x
          /\ \A j \in sock : ConnOf(j) = x => i.req <= j.req
          /\ sock' = sock \ {i}
          /\ Become(x, IF CacheOpen THEN "submit" ELSE "error", i)
    /\ IF CacheOpen /\ thread \in {"none", "stopped"}
       THEN thread' = "get" /\ writer' = "open"
       ELSE UNCHANGED <<thread, writer>>
    /\ UNCHANGED <<client, inbox, dead, queue, batch, up, stopping, boots, log>>

WriterOpen == writer = "open"

\* submit: is the writer closed?
CheckOpen(x) ==
    /\ serving[x].phase = "submit"
    /\ Become(x, IF WriterOpen THEN "put" ELSE "error", serving[x].item)
    /\ UNCHANGED <<client, wire, queue, thread, batch, process, log>>

\* As if the last to come were the first served.
PutFirst(entry) == <<entry>> \o queue

Put(entry) == Append(queue, entry)

\* submit: the item goes into the queue and the handler waits for it.
Enqueue(x) ==
    /\ serving[x].phase = "put"
    /\ queue' = Put(serving[x].item)
    /\ Become(x, "waiting", serving[x].item)
    /\ UNCHANGED <<client, wire, thread, batch, process, log>>

\* The answer goes back, unless the client has closed this connection: then
\* the write fails and the handler ends with what it had not read.
Respond(x) ==
    /\ serving[x].phase \in {"ok", "error"}
    /\ Become(x, "idle", None)
    /\ IF x[2] = conn[x[1]]
       THEN /\ inbox' = [inbox EXCEPT ![x[1]] = @ \cup
                           {[req |-> serving[x].item.req, ok |-> serving[x].phase = "ok"]}]
            /\ UNCHANGED sock
       ELSE /\ sock' = {i \in sock : ConnOf(i) # x}
            /\ UNCHANGED inbox
    /\ UNCHANGED <<client, dead, queue, thread, batch, process, log>>

-----------------------------------------------------------------------------
(* The writer thread: _CaptureWriter._run and _write_batch.                *)

\* Blocks for the first item; the sentinel ends the thread.
Get ==
    /\ thread = "get"
    /\ queue # <<>>
    /\ queue' = Tail(queue)
    /\ \/ /\ Head(queue) = Sentinel
          /\ thread' = "stopped"
          /\ UNCHANGED batch
       \/ /\ Head(queue) # Sentinel
          /\ thread' = "drain"
          /\ batch' = <<Head(queue)>>
    /\ UNCHANGED <<client, wire, serving, process, log>>

\* As if a sentinel met while draining were consumed.
PutNothingBack == Tail(queue)

\* A sentinel met while draining goes to the back of the queue.
PutBack == Append(Tail(queue), Sentinel)

\* One more item without blocking, up to the limit.
Drain ==
    /\ thread = "drain"
    /\ \/ /\ Len(batch) >= MaxDrain \/ queue = <<>>
          /\ thread' = "write"
          /\ UNCHANGED <<queue, batch>>
       \/ /\ Len(batch) < MaxDrain
          /\ queue # <<>>
          /\ Head(queue) = Sentinel
          /\ thread' = "write"
          /\ queue' = PutBack
          /\ UNCHANGED batch
       \/ /\ Len(batch) < MaxDrain
          /\ queue # <<>>
          /\ Head(queue) # Sentinel
          /\ batch' = Append(batch, Head(queue))
          /\ queue' = Tail(queue)
          /\ UNCHANGED thread
    /\ UNCHANGED <<client, wire, serving, process, log>>

\* AuditWriter.append_many of items: all of them, or an exception.
AppendAll(items) ==
    /\ writer # "sealed"
    /\ \A i \in ToSet(items) : i.valid
    /\ log' = log \o items

\* As if every event were signed and written in turn.
AppendRaisesMidway(items) ==
    /\ \E i \in ToSet(items) : ~i.valid
    /\ \E n \in 0..Len(items) :
          /\ n < Len(items) /\ ~items[n + 1].valid
          /\ \A k \in 1..n : items[k].valid
          /\ log' = log \o SubSeq(items, 1, n)

AppendRaises(items) ==
    \/ /\ writer = "sealed" \/ \E i \in ToSet(items) : ~i.valid
       /\ UNCHANGED log
    \/ /\ "io" \in Faults
       /\ writer # "sealed"
       /\ \A i \in ToSet(items) : i.valid
       /\ \E n \in 0..Len(items) : log' = log \o SubSeq(items, 1, n)

\* As if an exception were answered like a result.
AnswerOk(items, phase) ==
    serving' = [x \in Conn |->
        IF serving[x].item \in ToSet(items)
        THEN [phase |-> "ok", item |-> serving[x].item]
        ELSE serving[x]]

\* As if only the item the drain began with were answered.
AnswerFirst(items, phase) ==
    serving' = [x \in Conn |->
        IF serving[x].item = items[1]
        THEN [phase |-> phase, item |-> serving[x].item]
        ELSE serving[x]]

\* set_result and set_error wake the handlers that wait for these items.
Answer(items, phase) ==
    serving' = [x \in Conn |->
        IF serving[x].item \in ToSet(items)
        THEN [phase |-> phase, item |-> serving[x].item]
        ELSE serving[x]]

\* The whole batch in one append_many.
WriteBatch ==
    /\ thread = "write"
    /\ \/ /\ AppendAll(batch)
          /\ Answer(batch, "ok")
          /\ thread' = "get"
          /\ batch' = <<>>
       \/ /\ AppendRaises(batch)
          /\ thread' = "fallback"
          /\ UNCHANGED <<serving, batch>>
    /\ UNCHANGED <<client, wire, queue, process>>

\* After an exception: the items one by one.
WriteItem ==
    /\ thread = "fallback"
    /\ LET item == SubSeq(batch, 1, 1)
       IN \/ AppendAll(item) /\ Answer(item, "ok")
          \/ AppendRaises(item) /\ Answer(item, "error")
    /\ batch' = Tail(batch)
    /\ thread' = IF Len(batch) = 1 THEN "get" ELSE "fallback"
    /\ UNCHANGED <<client, wire, queue, process>>

-----------------------------------------------------------------------------
(* The daemon process: run_daemon, close_all, crash and restart.           *)

\* SIGTERM: serve_forever returns, the listening socket is closed.
Stop ==
    /\ "stop" \in Faults
    /\ up
    /\ stopping = "no"
    /\ stopping' = "asked"
    /\ UNCHANGED <<client, wire, serving, queue, thread, batch, up, boots, writer, log>>

\* close_all takes the writers there are; no other is created.
CloseCache ==
    /\ up
    /\ stopping = "asked"
    /\ stopping' = IF thread = "none" THEN "closed" ELSE "closing"
    /\ UNCHANGED <<client, wire, serving, queue, thread, batch, up, boots, writer, log>>

\* _CaptureWriter.close: closed, and the sentinel behind what is queued.
CloseWriter ==
    /\ up
    /\ stopping = "closing"
    /\ stopping' = "joining"
    /\ writer' = "closed"
    /\ queue' = Put(Sentinel)
    /\ UNCHANGED <<client, wire, serving, thread, batch, up, boots, log>>

\* The join ends with the thread, or after 30 seconds; then the AuditWriter
\* is closed, between two append_many.
Join ==
    /\ up
    /\ stopping = "joining"
    /\ thread = "stopped" \/ "timeout" \in Faults
    /\ stopping' = "closed"
    /\ writer' = "sealed"
    /\ UNCHANGED <<client, wire, serving, queue, thread, batch, up, boots, log>>

\* Everything the process held is gone and its connections are broken.
ProcessEnds ==
    /\ up' = FALSE
    /\ dead' = dead \cup {<<c, conn[c]>> : c \in Clients}
    /\ sock' = {}
    /\ serving' = [x \in Conn |-> Rest]
    /\ queue' = <<>>
    /\ thread' = "none"
    /\ writer' = "none"
    /\ batch' = <<>>
    /\ UNCHANGED <<client, inbox, stopping, boots>>

Exit == up /\ stopping = "closed" /\ ProcessEnds /\ UNCHANGED log

\* A crash may cut an append_many short.
Crash ==
    /\ "crash" \in Faults
    /\ up
    /\ ProcessEnds
    /\ \/ UNCHANGED log
       \/ thread = "write" /\ writer # "sealed" /\ AppendRaises(batch)
       \/ thread = "fallback" /\ writer # "sealed" /\ AppendRaises(SubSeq(batch, 1, 1))

Boot ==
    /\ ~up
    /\ boots < MaxBoots
    /\ boots' = boots + 1
    /\ up' = TRUE
    /\ stopping' = "no"
    /\ UNCHANGED <<client, wire, serving, queue, thread, batch, writer, log>>

-----------------------------------------------------------------------------
Init ==
    /\ req = [c \in Clients |-> 0]
    /\ valid = [c \in Clients |-> TRUE]
    /\ conn = [c \in Clients |-> 1]
    /\ timedOut = [c \in Clients |-> FALSE]
    /\ cpc = [c \in Clients |-> "idle"]
    /\ inbox = [c \in Clients |-> {}]
    /\ confirmed = {}
    /\ dead = {}
    /\ sock = {}
    /\ serving = [x \in Conn |-> Rest]
    /\ queue = <<>>
    /\ thread = "none"
    /\ batch = <<>>
    /\ writer = "none"
    /\ up = TRUE
    /\ stopping = "no"
    /\ boots = 0
    /\ log = <<>>

Client(c) ==
    \/ \E v \in {TRUE} \cup (IF "bad" \in Faults THEN {FALSE} ELSE {}) : Send(c, v)
    \/ SendNowhere(c)
    \/ Retry(c)
    \/ RetryRefused(c)
    \/ GiveUp(c)
    \/ Receive(c)

Handler(x) == Dispatch(x) \/ CheckOpen(x) \/ Enqueue(x) \/ Respond(x)

Writer == Get \/ Drain \/ WriteBatch \/ WriteItem

Shutdown == CloseCache \/ CloseWriter \/ Join \/ Exit

Next ==
    \/ \E c \in Clients : Client(c)
    \/ \E x \in Conn : Handler(x)
    \/ Writer
    \/ Stop
    \/ Shutdown
    \/ Crash
    \/ Boot

Spec == Init /\ [][Next]_vars

\* The threads of the daemon run; nothing is assumed of clients or failures.
FairSpec ==
    /\ Spec
    /\ \A x \in Conn : WF_vars(Handler(x))
    /\ WF_vars(Writer)
    /\ WF_vars(Shutdown)

-----------------------------------------------------------------------------
(* Properties.                                                             *)

\* The variables keep their types.
TypeOK ==
    /\ req \in [Clients -> 0..MaxRequests]
    /\ valid \in [Clients -> BOOLEAN]
    /\ conn \in [Clients -> 0..(MaxRequests + 1)]
    /\ timedOut \in [Clients -> BOOLEAN]
    /\ cpc \in [Clients -> {"idle", "first", "second"}]
    /\ inbox \in [Clients -> SUBSET [req : Nat, ok : BOOLEAN]]
    /\ confirmed \subseteq Clients \X (1..MaxRequests)
    /\ dead \subseteq Clients \X (0..(MaxRequests + 1))
    /\ sock \subseteq Item
    /\ serving \in [Conn ->
          [phase : {"idle", "submit", "put", "waiting", "ok", "error"},
           item  : Item \cup {None}]]
    /\ queue \in Seq(Item \cup {Sentinel})
    /\ thread \in {"none", "get", "drain", "write", "fallback", "stopped"}
    /\ batch \in Seq(Item)
    /\ writer \in {"none", "open", "closed", "sealed"}
    /\ up \in BOOLEAN
    /\ stopping \in {"no", "asked", "closing", "joining", "closed"}
    /\ boots \in 0..MaxBoots
    /\ log \in Seq(Item)

Logged(c, n) == \E i \in ToSet(log) : i.client = c /\ i.req = n

\* What the client was told is recorded is in the log: through resends,
\* failed batches, crashes and restarts (_request, _write_batch).
ConfirmedIsLogged == \A r \in confirmed : Logged(r[1], r[2])

\* A client never takes the late answer to an earlier request for the answer
\* to its present one.
AnswersMatch ==
    \A c \in Clients :
        cpc[c] # "idle" /\ MayRead(c) => \A answer \in inbox[c] : answer.req = req[c]

\* One submission is written once: falling back to single items after a
\* failed batch repeats nothing (the comment in _write_batch).
WrittenOnce == \A k, m \in 1..Len(log) : log[k] = log[m] => k = m

\* A request answered with an error left nothing in the log: all or nothing
\* per request (append_many in the protocol of the module).
RefusedLeavesNothing ==
    \A x \in Conn :
        serving[x].phase = "error" => serving[x].item \notin ToSet(log)

\* All or nothing, and at most once, for every request.
AllOrNothing == WrittenOnce /\ RefusedLeavesNothing

\* The order of the log is the order of arrival in the queue: until the
\* process ends, no step loses an item that can be signed, overtakes one or
\* puts one in front of another (_run, _write_batch; the module's docstring).
Arrivals == SelectSeq(log \o batch \o queue, LAMBDA i : i # Sentinel /\ i.valid)

ArrivalOrder == [][up' => IsPrefix(Arrivals, Arrivals')]_vars

\* Once the shutdown has closed its writers nothing is written into a capture:
\* a join that timed out leaves a writer thread with a batch, and a handler that
\* is still alive may ask for a writer (_WriterCache._get, _CaptureWriter.close).
NoWriteAfterClose == [][stopping = "closed" \/ ~up => log' = log]_vars

\* A handler does not wait forever: its item is answered, or the process it
\* lives in ends.
EveryItemAnswered ==
    \A x \in Conn : serving[x].phase = "waiting" ~> serving[x].phase # "waiting"

\* A shutdown comes to its end without the timeout of the join.
ShutdownEnds == stopping # "no" ~> ~up

=============================================================================
