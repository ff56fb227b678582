---------------------------- MODULE SessionWindow ---------------------------
(***************************************************************************)
(* A captured session served in windows (prepare_session_replay_data of    *)
(* control/services/session_replay_service.py), from the whole log or by   *)
(* seeking with the index of session_index_cache.py, from its first event  *)
(* or from an engine state of replay_state_cache.py, while the log may     *)
(* grow.  A screen is the set of the events that made it, a sequence       *)
(* number the place of the event, and a capture signature the length the   *)
(* log had.  Lines of other sessions and of other types are left out, and  *)
(* so are checkpoints, but for the snapshots taken at them.                *)
(***************************************************************************)
EXTENDS Naturals, Sequences, FiniteSetsExt, SequencesExt

CONSTANTS Logs,        \* the logs explored
          Requests,    \* the offset, limit (0 for none) and stream of a request
          FullEvents,  \* MAX_FULL_REPLAY_EVENTS
          WindowLimit, \* DEFAULT_REPLAY_WINDOW_LIMIT
          Interval,    \* STATE_CACHE_INTERVAL
          Handlers,
          MaxServed    \* bound: requests served

\* Output that calls for a checkpoint; output that ends inside a character.
Kinds == {"start", "end", "in", "out", "redraw", "torn", "det"}
Out == {"out", "redraw", "torn"}
NoWindow == 0

VARIABLES events, \* the events of the session, present and to come
          cut,    \* those in the first audit file; the others are in the second
          now,    \* how many are written
          index,  \* index[s]: the events of the index stored under signature s, 0 for none
          states, \* the engine states stored
          asked,  \* asked[h]: the request h serves, with the signature and index it took
          answer, \* answer[h]: what h answered last
          served

vars == <<events, cut, now, index, states, asked, answer, served>>

NoRequest == [offset |-> 0, limit |-> NoWindow, stream |-> FALSE, sig |-> 0, index |-> 0]
NoAnswer == [request |-> NoRequest, to |-> 0, read |-> {}, payload |-> <<>>]

Init ==
    /\ events \in Logs
    /\ cut \in 1..Len(events)
    /\ now \in {Len(events) - 1, Len(events)} \ {0}
    /\ index = [s \in 1..Len(events) |-> 0]
    /\ states = {}
    /\ asked = [h \in Handlers |-> NoRequest]
    /\ answer = [h \in Handlers |-> NoAnswer]
    /\ served = 0

----------------------------------------------------------------------------
Positions(n, kinds) == {p \in 1..n : events[p] \in kinds}
Bytes(n) == SetToSortSeq(Positions(n, Out \cup {"in"}), <)
First(n, kind) == Min(Positions(n, {kind}) \cup {n + 1}) % (n + 1)
LastBefore(p, kind) == Max(Positions(p - 1, {kind}) \cup {0})

\* The metadata of the first session_start tell the geometry, so the output
\* need not be searched for it (_session_start_geometry_ok).
IndexUsable(n) == First(n, "start") # 0

\* Where a line is: its file, and its offset there.
File(p) == IF p <= cut THEN 1 ELSE 2
Offset(p) == IF p <= cut THEN p - 1 ELSE p - cut - 1

\* materialize_events: a file after the other, the lines under their offset,
\* then the lines of the positions asked for.
Line(p, asking) == Max({q \in asking : Offset(q) = Offset(p)})
Materialize(from, to) == [k \in 1..(to + 1 - from) |-> Line(from + k - 1, from..to)]

----------------------------------------------------------------------------
\* offset and limit, and what an unlimited request of a large session gets.
Window(r, total) ==
    IF r.limit # NoWindow THEN [start |-> r.offset, end |-> r.offset + r.limit]
    ELSE IF total > FullEvents THEN [start |-> 0, end |-> WindowLimit]
    ELSE [start |-> 0, end |-> NoWindow]

Within(w, k) == w.end = NoWindow \/ (w.start <= k /\ k < w.end)
Over(w, k) == w.end # NoWindow /\ k >= w.end

\* The ordinal of the last output before the window, from 0, or none.
BaseOut(n, w) ==
    LET before == {k \in 1..Len(Bytes(n)) : k <= w.start /\ events[Bytes(n)[k]] \in Out}
    IN IF w.end = NoWindow THEN 0 ELSE Max(before \cup {0})

Fresh == [shown |-> {}, torn |-> FALSE]

\* Where the loop is: the engine, the screen of the last snapshot of output
\* and the event it is of, the ordinal of the next "bytes" event; and what it
\* has produced.
Begin(n) ==
    [engine |-> Fresh, base |-> {}, baseSeq |-> 0, outs |-> 0, next |-> 0,
     items |-> <<>>, dets |-> <<>>, stored |-> {},
     start |-> First(n, "start"), end |-> First(n, "end")]

\* An event of the window is answered, with its diff if it is output.
Item(at, p, w, diff) ==
    IF Within(w, at.next) THEN Append(at.items, [at |-> p, diff |-> diff]) ELSE at.items

Diff(at, p) == [from |-> at.base, fromSeq |-> at.baseSeq, screen |-> at.engine.shown \cup {p}]

\* A state at every Interval, with the counters the resumed loop starts from.
Stored(at, r, enabled, resume) ==
    IF enabled /\ at.next % Interval = 0 /\ at.next # resume
    THEN {[sig |-> r.sig, next |-> at.next, engine |-> at.engine, outs |-> at.outs, baseSeq |-> at.baseSeq]}
    ELSE {}

\* Output feeds the engine; a snapshot is taken in the window, at a checkpoint
\* and just before the window.
Output(at, p, w, baseOut) ==
    LET snapshot == Within(w, at.next) \/ events[p] = "redraw" \/ at.outs = 0 \/ at.next + 1 = baseOut
    IN [at EXCEPT !.engine = [shown |-> @.shown \cup {p}, torn |-> events[p] = "torn"],
                  !.outs = @ + 1,
                  !.base = IF snapshot THEN at.engine.shown \cup {p} ELSE @,
                  !.baseSeq = IF snapshot THEN p ELSE @,
                  !.items = Item(at, p, w, Diff(at, p))]

\* Input alters no screen.
Input(at, p, w) == [at EXCEPT !.items = Item(at, p, w, <<>>)]

\* A deterministic input comes with the screen it was typed on: the last
\* snapshot, or the engine's where snapshots are left out.
Deterministic(at, p, w) ==
    LET screen == IF w.end = NoWindow THEN at.base ELSE at.engine.shown
    IN IF Within(w, at.next) THEN [at EXCEPT !.dets = Append(@, [at |-> p, screen |-> screen])] ELSE at

\* The end of the window ends the loop; the boundaries of the session, the
\* last of which empties the decoder; deterministic inputs and "bytes" events.
Handle(at, p, r, w, baseOut, enabled, resume) ==
    IF Over(w, at.next) THEN at
    ELSE CASE events[p] = "start" -> [at EXCEPT !.start = p]
           [] events[p] = "end" ->
                 [at EXCEPT !.end = p,
                            !.engine = [shown |-> IF @.torn THEN @.shown \cup {p} ELSE @.shown, torn |-> FALSE]]
           [] events[p] = "det" -> Deterministic(at, p, w)
           [] OTHER ->
                 LET moved == IF events[p] = "in" THEN Input(at, p, w) ELSE Output(at, p, w, baseOut)
                     after == [moved EXCEPT !.next = @ + 1]
                 IN [after EXCEPT !.stored = @ \cup Stored(after, r, enabled, resume)]

\* The nearest state at or before the window, of this signature (load_nearest_state).
Nearest(r, w) ==
    LET usable == {s \in states : s.sig = r.sig /\ s.next <= w.start}
    IN {s \in usable : \A t \in usable : t.next <= s.next}

\* As if the session boundaries skipped over were forgotten.
ResumedForgets(n, s) ==
    [Begin(n) EXCEPT !.engine = s.engine, !.base = s.engine.shown, !.baseSeq = s.baseSeq,
                     !.outs = s.outs, !.next = s.next]

\* The loop resumed from state s: the events before it only tell where the
\* session began and ended.
Resumed(n, s) ==
    LET from == Bytes(n)[s.next] + 1
    IN [Begin(n) EXCEPT !.engine = s.engine, !.base = s.engine.shown, !.baseSeq = s.baseSeq,
                        !.outs = s.outs, !.next = s.next,
                        !.start = IF LastBefore(from, "start") # 0 THEN LastBefore(from, "start") ELSE @,
                        !.end = IF LastBefore(from, "end") # 0 THEN LastBefore(from, "end") ELSE @]

\* The last event an indexed request materializes.
LastRead(n, w) ==
    IF Bytes(n) # <<>> /\ w.end # NoWindow /\ w.end <= Len(Bytes(n)) THEN Bytes(n)[w.end] ELSE n

\* The answer: a decoder no session_end has emptied is emptied for the final screen.
Payload(at, n, total) ==
    LET final == IF at.end = 0 /\ at.engine.torn THEN at.engine.shown \cup {n + 1} ELSE at.engine.shown
    IN [items |-> at.items, dets |-> at.dets, start |-> at.start, end |-> at.end,
        final |-> final, total |-> total, stored |-> at.stored]

\* What is answered from the first n events, with the state resumed from if
\* any, by seeking if indexed.
Serve(r, n, resume, indexed) ==
    LET total == Len(Bytes(n))
        w == Window(r, total)
        enabled == total > FullEvents \/ r.stream
        first == IF resume = {} THEN Begin(n) ELSE Resumed(n, CHOOSE s \in resume : TRUE)
        from == IF resume = {} THEN 1 ELSE Bytes(n)[first.next] + 1
        read == IF indexed THEN Materialize(from, LastRead(n, w)) ELSE [k \in 1..(n + 1 - from) |-> from + k - 1]
        last == FoldLeft(LAMBDA at, p : Handle(at, p, r, w, BaseOut(n, w), enabled, first.next), first, read)
    IN Payload(last, n, total)

----------------------------------------------------------------------------
\* The log grows, and its signature changes.
Grow ==
    /\ now < Len(events) /\ now' = now + 1
    /\ UNCHANGED <<events, cut, index, states, asked, answer, served>>

\* A request lists the files, computes the signature and looks for an index.
Ask(h) ==
    /\ asked[h] = NoRequest /\ served < MaxServed
    /\ \E r \in Requests :
          asked' = [asked EXCEPT ![h] = [offset |-> r.offset, limit |-> r.limit, stream |-> r.stream,
                                         sig |-> now, index |-> index[now]]]
    /\ answer' = [answer EXCEPT ![h] = NoAnswer]
    /\ served' = served + 1
    /\ UNCHANGED <<events, cut, now, index, states>>

\* ... and reads the events, stores an index of them for a large session or a
\* stream, resumes from the nearest state, and stores the states it comes by.
Answer(h) ==
    LET r == asked[h]
        indexed == r.index # 0 /\ IndexUsable(r.index)
        n == IF indexed THEN r.index ELSE now
        w == Window(r, Len(Bytes(n)))
        cached == Len(Bytes(n)) > FullEvents \/ r.stream
        resume == IF cached /\ w.start > 0 THEN Nearest(r, w) ELSE {}
        reply == Serve(r, n, resume, indexed)
    IN /\ r # NoRequest
       /\ index' = (IF ~indexed /\ cached THEN [index EXCEPT ![r.sig] = n] ELSE index)
       /\ states' = {s \in states : \A t \in reply.stored : <<s.sig, s.next>> # <<t.sig, t.next>>}
                       \cup reply.stored
       /\ answer' = [answer EXCEPT ![h] =
                       [request |-> r, to |-> n,
                        read |-> IF indexed
                                 THEN (IF resume = {} THEN 1
                                       ELSE Bytes(n)[(CHOOSE s \in resume : TRUE).next] + 1)..LastRead(n, w)
                                 ELSE {},
                        payload |-> reply]]
       /\ asked' = [asked EXCEPT ![h] = NoRequest]
       /\ UNCHANGED <<events, cut, now, served>>

Next == Grow \/ \E h \in Handlers : Ask(h) \/ Answer(h)

Spec == Init /\ [][Next]_vars

----------------------------------------------------------------------------
Answered == {answer[h] : h \in Handlers} \ {NoAnswer}
Collides(reading) == \E p, q \in reading : p # q /\ Offset(p) = Offset(q)

\* The same request without a cache.
Reference(a) == Serve(a.request, a.to, {}, FALSE)

\* The first output of a window comes with its screen; what its diff says it
\* starts from depends on where the loop was resumed, and is not compared.
Shows(items) ==
    LET anchor == Min({k \in DOMAIN items : items[k].diff # <<>>} \cup {Len(items) + 1})
    IN [k \in DOMAIN items |-> IF k = anchor THEN [at |-> items[k].at, screen |-> items[k].diff.screen]
                               ELSE items[k]]

\* Index and states are invisible: the answer is what the log alone gives, as
\* long as no two lines read have the same offset (the comment "Exceção
\* documentada de paridade" allows for checkpoints only).
CachesAreInvisible ==
    \A a \in Answered : ~Collides(a.read) =>
        LET alone == Reference(a)
        IN /\ Shows(a.payload.items) = Shows(alone.items)
           /\ a.payload.dets = alone.dets
           /\ <<a.payload.start, a.payload.end, a.payload.final, a.payload.total>>
                = <<alone.start, alone.end, alone.final, alone.total>>

\* A window read by seeking is the stream in order (materialize_events).
SeekIsStream ==
    \A a \in Answered :
        LET alone == Reference(a).items
        IN [k \in DOMAIN a.payload.items |-> a.payload.items[k].at] = [k \in DOMAIN alone |-> alone[k].at]

=============================================================================
