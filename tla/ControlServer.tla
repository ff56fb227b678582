---------------------------- MODULE ControlServer ----------------------------
(***************************************************************************)
(* The connections of the control server (control/server.py) and the       *)
(* broadcaster that pushes the status of the gateway to its web sockets    *)
(* (control/websocket_support.py).  Every connection has a thread; a short *)
(* one holds one of a bounded number of slots, a web socket gives its slot *)
(* back.  The broadcaster is one thread for all: it takes the list of its  *)
(* clients under a lock and sends outside of it.  While the server closes, *)
(* the threads of its connections go on.                                   *)
(***************************************************************************)
EXTENDS Naturals, FiniteSets

CONSTANTS Conns,          \* connections that are made
          MaxConnections, \* slots
          Casters         \* bound: broadcasters ever created, numbered from 1

ServerAssumption == MaxConnections \in Nat \ {0} /\ Casters \in Nat

VARIABLES conn,     \* conn[c]: where the connection and its thread are
          slots,    \* slots left in the semaphore
          detached, \* connections that gave their slot back
          leaked,   \* connections whose thread never started
          mine,     \* mine[c]: the broadcaster its handler holds
          wire,     \* wire[c]: the frames sent to it are whole, one is half sent, or mixed up
          slow,     \* clients that were given up
          caster,   \* caster[g]: a broadcaster and its thread
          current,  \* the singleton, 0 for none
          server    \* what server_close has done

vars == <<conn, slots, detached, leaked, mine, wire, slow, caster, current, server>>

Caster == 1..Casters
Unborn == [pc |-> "none", stop |-> FALSE, clients |-> {}, todo |-> {}, to |-> {}, dead |-> {}]

Init ==
    /\ conn = [c \in Conns |-> "new"]
    /\ slots = MaxConnections
    /\ detached = {} /\ leaked = {}
    /\ mine = [c \in Conns |-> 0]
    /\ wire = [c \in Conns |-> "whole"]
    /\ slow = {}
    /\ caster = [g \in Caster |-> Unborn]
    /\ current = 0
    /\ server = "serving"

-----------------------------------------------------------------------------
(* Connections: process_request and the thread of the handler.             *)

sockets == <<mine, wire, slow, caster, current>>

\* Without a slot the connection is answered 503 and closed.
Accept(c) ==
    /\ server = "serving" /\ conn[c] = "new"
    /\ \/ /\ slots > 0
          /\ slots' = slots - 1
          /\ conn' = [conn EXCEPT ![c] = "short"]
       \/ /\ slots = 0
          /\ conn' = [conn EXCEPT ![c] = "refused"]
          /\ UNCHANGED slots
    /\ UNCHANGED <<detached, leaked, sockets, server>>

\* The thread of an admitted connection cannot be started: the caller closes
\* the connection, the slot stays taken.
ThreadFails(c) ==
    /\ server = "serving" /\ conn[c] = "new" /\ slots > 0
    /\ slots' = slots - 1
    /\ conn' = [conn EXCEPT ![c] = "ended"]
    /\ leaked' = leaked \cup {c}
    /\ UNCHANGED <<detached, sockets, server>>

\* The finally of the thread: as if it did not look whether the slot is back.
EndThreadAnyway(c) ==
    /\ conn[c] \in {"short", "leaving"}
    /\ conn' = [conn EXCEPT ![c] = "ended"]
    /\ detached' = detached \ {c}
    /\ slots' = slots + 1
    /\ UNCHANGED <<leaked, sockets, server>>

EndThread(c) ==
    /\ conn[c] \in {"short", "leaving"}
    /\ conn' = [conn EXCEPT ![c] = "ended"]
    /\ detached' = detached \ {c}
    /\ slots' = IF c \in detached THEN slots ELSE slots + 1
    /\ UNCHANGED <<leaked, sockets, server>>

\* ws_handshake, then release_connection_slot.
Upgrade(c) ==
    /\ conn[c] = "short"
    /\ conn' = [conn EXCEPT ![c] = "upgraded"]
    /\ detached' = detached \cup {c}
    /\ slots' = slots + 1
    /\ UNCHANGED <<leaked, sockets, server>>

Newest == Cardinality({g \in Caster : caster[g].pc # "none"})

\* Whoever comes first creates the broadcaster and starts its thread.
GetBroadcaster(c) ==
    /\ conn[c] = "upgraded"
    /\ conn' = [conn EXCEPT ![c] = "joining"]
    /\ IF current # 0
       THEN mine' = [mine EXCEPT ![c] = current] /\ UNCHANGED <<caster, current>>
       ELSE /\ Newest < Casters
            /\ current' = Newest + 1
            /\ caster' = [caster EXCEPT ![Newest + 1].pc = "wait"]
            /\ mine' = [mine EXCEPT ![c] = Newest + 1]
    /\ UNCHANGED <<slots, detached, leaked, wire, slow, server>>

AddClient(c) ==
    /\ conn[c] = "joining"
    /\ conn' = [conn EXCEPT ![c] = "socket"]
    /\ caster' = [caster EXCEPT ![mine[c]].clients = @ \cup {c}]
    /\ UNCHANGED <<slots, detached, leaked, mine, wire, slow, current, server>>

\* A ping is answered by the thread of the handler, while the broadcaster may
\* be in the middle of a frame to the same client.
Pong(c) ==
    /\ conn[c] = "socket"
    /\ wire' = [wire EXCEPT ![c] = IF @ = "half" THEN "mixed" ELSE @]
    /\ UNCHANGED <<conn, slots, detached, leaked, mine, slow, caster, current, server>>

\* The client closes, or its socket fails.
RemoveClient(c) ==
    /\ conn[c] = "socket"
    /\ conn' = [conn EXCEPT ![c] = "leaving"]
    /\ caster' = [caster EXCEPT ![mine[c]].clients = @ \ {c}]
    /\ UNCHANGED <<slots, detached, leaked, mine, wire, slow, current, server>>

-----------------------------------------------------------------------------
(* The thread of a broadcaster.                                            *)

connections == <<conn, slots, detached, leaked, mine>>
Becomes(g, state) == caster' = [caster EXCEPT ![g] = state]

\* A round begins with the clients there are; if status_fn raises there is none.
Snapshot(g) ==
    /\ caster[g].pc = "wait" /\ ~caster[g].stop
    /\ Becomes(g, [caster[g] EXCEPT !.pc = "send", !.todo = caster[g].clients])
    /\ UNCHANGED <<connections, wire, slow, current, server>>

\* A client that reads gets the whole frame; one that does not may get its first
\* part, or nothing until the deadline.
Send(g) ==
    /\ caster[g].pc = "send" /\ caster[g].to = {}
    /\ \E c \in caster[g].todo :
           \/ /\ Becomes(g, [caster[g] EXCEPT !.todo = @ \ {c}])
              /\ UNCHANGED <<wire, slow>>
           \/ /\ Becomes(g, [caster[g] EXCEPT !.todo = @ \ {c}, !.dead = @ \cup {c}])
              /\ slow' = slow \cup {c}
              /\ UNCHANGED wire
           \/ /\ Becomes(g, [caster[g] EXCEPT !.todo = @ \ {c}, !.to = {c}])
              /\ wire' = [wire EXCEPT ![c] = IF @ = "whole" THEN "half" ELSE @]
              /\ UNCHANGED slow
    /\ UNCHANGED <<connections, current, server>>

\* It reads on in time, or the deadline passes and it is given up.
SendRest(g) ==
    /\ caster[g].pc = "send"
    /\ \E c \in caster[g].to :
           \/ /\ Becomes(g, [caster[g] EXCEPT !.to = {}])
              /\ wire' = [wire EXCEPT ![c] = IF @ = "half" THEN "whole" ELSE @]
              /\ UNCHANGED slow
           \/ /\ Becomes(g, [caster[g] EXCEPT !.to = {}, !.dead = @ \cup {c}])
              /\ slow' = slow \cup {c}
              /\ UNCHANGED wire
    /\ UNCHANGED <<connections, current, server>>

RemoveDead(g) ==
    /\ caster[g].pc = "send" /\ caster[g].todo = {} /\ caster[g].to = {}
    /\ Becomes(g, [caster[g] EXCEPT !.pc = "wait", !.clients = @ \ caster[g].dead, !.dead = {}])
    /\ UNCHANGED <<connections, wire, slow, current, server>>

EndLoop(g) ==
    /\ caster[g].pc = "wait" /\ caster[g].stop
    /\ Becomes(g, [caster[g] EXCEPT !.pc = "ended"])
    /\ UNCHANGED <<connections, wire, slow, current, server>>

-----------------------------------------------------------------------------
(* server_close: shutdown_broadcaster, and what follows it.                *)

Forget ==
    /\ server = "serving"
    /\ server' = "closing"
    /\ current' = 0
    /\ caster' = IF current = 0 THEN caster ELSE [caster EXCEPT ![current].stop = TRUE]
    /\ UNCHANGED <<connections, wire, slow>>

\* stop waits for the thread, but not for longer than five seconds.
Close ==
    /\ server = "closing"
    /\ server' = "closed"
    /\ UNCHANGED <<connections, wire, slow, caster, current>>

Next ==
    \/ \E c \in Conns :
          Accept(c) \/ ThreadFails(c) \/ EndThread(c) \/ Upgrade(c)
             \/ GetBroadcaster(c) \/ AddClient(c) \/ Pong(c) \/ RemoveClient(c)
    \/ \E g \in Caster : Snapshot(g) \/ Send(g) \/ SendRest(g) \/ RemoveDead(g) \/ EndLoop(g)
    \/ Forget \/ Close

Spec == Init /\ [][Next]_vars

-----------------------------------------------------------------------------
(* Properties.                                                             *)

Short == {c \in Conns : conn[c] = "short"}

\* A slot is free, held by a short connection, or lost to a thread that did not
\* start: upgrades and ends in any order neither free one twice nor keep one.
SlotsAreAccounted == slots + Cardinality(Short) + Cardinality(leaked) = MaxConnections

\* A web socket is on the list of its broadcaster until it goes or was given up,
\* and nobody else is on a list, whatever is removed while a round goes on.
ClientsAreListed ==
    \A c \in Conns :
        /\ conn[c] = "socket" => c \in caster[mine[c]].clients \cup slow
        /\ \A g \in Caster : c \in caster[g].clients => conn[c] = "socket" /\ mine[c] = g

\* A frame is half sent only while it is being sent or to a client given up.
FramesAreWhole ==
    \A c \in Conns : wire[c] = "half" => c \in slow \/ \E g \in Caster : c \in caster[g].to

\* There is one broadcaster that was not told to stop, and it is the current
\* one.  When the server is closing there is none, but for one that a web
\* socket created which was already on its way.
OneBroadcaster ==
    \A g \in Caster :
        /\ caster[g].pc \notin {"none", "ended"} /\ ~caster[g].stop => g = current
        /\ server # "serving" /\ g = current => \E c \in Conns : mine[c] = g

ServerIsSound == SlotsAreAccounted /\ ClientsAreListed /\ FramesAreWhole /\ OneBroadcaster

=============================================================================
