---------------------------- MODULE TrailReplay -----------------------------
(***************************************************************************)
(* The replay of a trail without control (dakota_gateway/replay.py): all   *)
(* events in their order over many sessions, or one session after the      *)
(* other; the sessions of the target, which print and end as they like; and*)
(* the recorder that keeps what each of them printed as a trail of its own.*)
(***************************************************************************)
EXTENDS Naturals, Sequences, SequencesExt, FiniteSets

CONSTANTS Trails,        \* sequences of [kind, session, wants]
          Ways,          \* [order, input, mismatch, observed], of ReplayConfig
          MaxPrinted     \* bound: what a session prints

ReplayAssumption == \A t \in Trails : Len(t) \in Nat /\ DOMAIN t = 1..Len(t)

VARIABLES plan, way,     \* the events in the order in which they are taken
          at, pc,        \* the place in the plan, and what is being done there
          terminal,      \* of every session: "none", "open", "gone" (its remote side ended); then
                         \* "closed" or, if it was gone, "buried"
          unread, printed,
          screen,        \* how much of it the screen has been fed
          recorder,      \* whether it still records, its lines, and how many its manifest names
          sent, met,     \* places of the inputs sent, of the screens that were as recorded
          failed         \* ReplayError, or a session that could not be opened

target == <<terminal, unread, printed>>
vars == <<plan, way, at, pc, target, screen, recorder, sent, met, failed>>

Names == {plan[i].session : i \in DOMAIN plan}

\* One session after the other takes them in the order in which they begin.
First(t, s) == CHOOSE p \in DOMAIN t : t[p].session = s /\ \A q \in 1..(p - 1) : t[q].session # s
Earlier(t, order, p, q) ==
    LET a == First(t, t[p].session)
        b == First(t, t[q].session)
    IN  IF order = "global" THEN p < q ELSE a < b \/ (a = b /\ p < q)
Plan(t, order) ==
    [i \in DOMAIN t |->
        t[CHOOSE p \in DOMAIN t : Cardinality({q \in DOMAIN t : Earlier(t, order, q, p)}) = i - 1]]

Event == plan[at]
Session == Event.session
LastOfSession == at = Len(plan) \/ plan[at + 1].session # Session

\* A trail holds every input twice, as it came and as a key with its screen:
\* the way says which of them is replayed.  Checkpoints belong to the first.
Types(e) == e.kind = (IF way.input = "deterministic" THEN "key" ELSE "in")
Compares(e) ==
    e.wants /\ e.kind = (IF way.input = "deterministic" THEN "key" ELSE "check")

Silent == [on |-> FALSE, lines |-> <<>>, manifest |-> 0]

Init ==
    /\ way \in Ways
    /\ \E t \in Trails : plan = Plan(t, way.order)
    /\ at = 1 /\ pc = "event"
    /\ terminal = [s \in Names |-> "none"]
    /\ unread = [s \in Names |-> 0]
    /\ printed = [s \in Names |-> 0]
    /\ screen = [s \in Names |-> 0]
    /\ recorder = [s \in Names |-> Silent]
    /\ sent = <<>> /\ met = {}
    /\ failed = FALSE

-----------------------------------------------------------------------------
(* The target, external.                                                   *)

Show(s) ==
    /\ terminal[s] = "open" /\ printed[s] < MaxPrinted
    /\ unread' = [unread EXCEPT ![s] = @ + 1]
    /\ printed' = [printed EXCEPT ![s] = @ + 1]
    /\ UNCHANGED <<plan, way, at, pc, terminal, screen, recorder, sent, met, failed>>

Die(s) ==
    /\ terminal[s] = "open"
    /\ terminal' = [terminal EXCEPT ![s] = "gone"]
    /\ UNCHANGED <<plan, way, at, pc, unread, printed, screen, recorder, sent, met, failed>>

-----------------------------------------------------------------------------
(* The recorder: the first line that cannot be written is the last tried.  *)

\* As if a failure only lost the line.
AppendOn(r, line) == {[r EXCEPT !.lines = Append(@, line)], r}

AppendLine(r, line) ==
    IF r.on THEN {[r EXCEPT !.lines = Append(@, line)], [r EXCEPT !.on = FALSE]} ELSE {r}

Recording == [Silent EXCEPT !.on = TRUE]
Begins == IF way.observed THEN AppendLine(Recording, "start") ELSE {Silent}

\* The manifests are written whether or not the last line was.
Ends(r) == {[x EXCEPT !.manifest = Len(x.lines), !.on = FALSE] : x \in AppendLine(r, "end")}

-----------------------------------------------------------------------------
(* An event.                                                               *)

MustOpen == terminal[Session] = "none" /\ (way.order # "global" \/ Types(Event) \/ Compares(Event))

Open ==
    /\ pc = "event" /\ at <= Len(plan) /\ MustOpen
    /\ terminal' = [terminal EXCEPT ![Session] = "open"]
    /\ \E r \in Begins : recorder' = [recorder EXCEPT ![Session] = r]
    /\ UNCHANGED <<plan, way, at, pc, unread, printed, screen, sent, met, failed>>

\* No target, no transport of that name, no process: the exception ends the
\* replay, and the others are closed.
OpenFails ==
    /\ pc = "event" /\ at <= Len(plan) /\ MustOpen
    /\ failed' = TRUE
    /\ pc' = "close"
    /\ UNCHANGED <<plan, way, at, target, screen, recorder, sent, met>>

\* One after the other, a session is drained and closed before the next.
Go == /\ at' = at + 1
      /\ pc' = IF at = Len(plan) \/ (way.order # "global" /\ LastOfSession) THEN "drain" ELSE "event"

Pass ==
    /\ pc = "event" /\ at <= Len(plan) /\ ~MustOpen
    /\ ~Types(Event) /\ ~Compares(Event)
    /\ Go
    /\ UNCHANGED <<plan, way, target, screen, recorder, sent, met, failed>>

Begin ==
    /\ pc = "event" /\ at <= Len(plan) /\ ~MustOpen
    /\ Types(Event) \/ Compares(Event)
    /\ pc' = IF Compares(Event) THEN "wait" ELSE "send"
    /\ UNCHANGED <<plan, way, at, target, screen, recorder, sent, met, failed>>

\* The wait for a key hears its own session only, that for a checkpoint all.
Hears(s) ==
    \/ pc = "wait" /\ (Event.kind = "check" \/ s = Session)
    \/ pc = "drain"

Read(s) ==
    /\ Hears(s) /\ terminal[s] \in {"open", "gone"} /\ unread[s] > 0
    /\ unread' = [unread EXCEPT ![s] = @ - 1]
    /\ screen' = [screen EXCEPT ![s] = @ + 1]
    /\ \E r \in AppendLine(recorder[s], "out") : recorder' = [recorder EXCEPT ![s] = r]
    /\ UNCHANGED <<plan, way, at, pc, terminal, printed, sent, met, failed>>

Meet ==
    /\ pc = "wait"
    /\ met' = met \cup {at}
    /\ IF Event.kind = "check" THEN Go ELSE pc' = "send" /\ UNCHANGED at
    /\ UNCHANGED <<plan, way, target, screen, recorder, sent, failed>>

Raises == Event.kind = "check" \/ way.mismatch = "fail-fast"

Miss ==
    /\ pc = "wait"
    /\ \/ Raises /\ pc' = "close" /\ failed' = TRUE /\ UNCHANGED at
       \/ ~Raises /\ way.mismatch = "skip" /\ Go /\ UNCHANGED failed
       \/ ~Raises /\ way.mismatch # "skip" /\ pc' = "send" /\ UNCHANGED <<at, failed>>
    /\ UNCHANGED <<plan, way, target, screen, recorder, sent, met>>

\* What is typed at a session that has ended is dropped.
Send ==
    /\ pc = "send"
    /\ sent' = IF terminal[Session] = "open" THEN Append(sent, at) ELSE sent
    /\ Go
    /\ UNCHANGED <<plan, way, target, screen, recorder, met, failed>>

-----------------------------------------------------------------------------
(* The end: what comes in a moment more is read, then the sessions closed. *)

StopDraining ==
    /\ pc = "drain"
    /\ pc' = "close"
    /\ UNCHANGED <<plan, way, at, target, screen, recorder, sent, met, failed>>

Close(s) ==
    /\ pc = "close" /\ terminal[s] \in {"open", "gone"}
    /\ terminal' = [terminal EXCEPT ![s] = IF @ = "open" THEN "closed" ELSE "buried"]
    /\ \E r \in Ends(recorder[s]) : recorder' = [recorder EXCEPT ![s] = r]
    /\ UNCHANGED <<plan, way, at, pc, unread, printed, screen, sent, met, failed>>

Closed ==
    /\ pc = "close" /\ \A s \in Names : terminal[s] \notin {"open", "gone"}
    /\ pc' = IF failed \/ at > Len(plan) THEN "done" ELSE "event"
    /\ UNCHANGED <<plan, way, at, target, screen, recorder, sent, met, failed>>

Next ==
    \/ Open \/ OpenFails \/ Pass \/ Begin \/ Meet \/ Miss \/ Send \/ StopDraining \/ Closed
    \/ \E s \in Names : Show(s) \/ Die(s) \/ Read(s) \/ Close(s)

Spec == Init /\ [][Next]_vars

-----------------------------------------------------------------------------
(* Properties.                                                             *)

\* The pieces in a trail: what is neither its start nor its end.
Outs(lines) == Len(lines) - (IF Contains(lines, "end") THEN 2 ELSE 1)

\* The trail of a session is what its screen was fed, from the start on and
\* without a hole; it has an end only when nothing of it is missing.
RecordHasNoHole ==
    \A s \in Names :
        LET lines == recorder[s].lines
            ended == Contains(lines, "end")
        IN  /\ \A k \in DOMAIN lines :
                   lines[k] = IF k = 1 THEN "start" ELSE IF ended /\ k = Len(lines) THEN "end"
                              ELSE "out"
            /\ lines # <<>> => Outs(lines) <= screen[s]
            /\ recorder[s].on \/ ended => lines # <<>> /\ Outs(lines) = screen[s]
            /\ ended => recorder[s].manifest = Len(lines)

Wanted == {p \in DOMAIN plan : Compares(plan[p])}

\* Nothing is sent after a screen that was not met, unless mismatches are let
\* pass; inputs go out in the order of the plan, each once.
SendsAreEarned ==
    /\ \A i \in DOMAIN sent : i > 1 => sent[i - 1] < sent[i]
    /\ way.mismatch = "fail-fast" =>
           \A i \in DOMAIN sent : \A p \in Wanted : p <= sent[i] => p \in met

\* A replay that ends well has sent every input of the way it took to a session
\* that still was there, and met every checkpoint; it leaves no session open.
EndIsWhole ==
    pc = "done" =>
        /\ \A s \in Names : terminal[s] \notin {"open", "gone"}
        /\ ~failed => {p \in Wanted : plan[p].kind = "check"} \subseteq met
        /\ ~failed /\ way.mismatch # "skip" =>
               \A p \in DOMAIN plan : Types(plan[p]) =>
                   p \in ToSet(sent) \/ terminal[plan[p].session] = "buried"

\* One after the other there is never more than one session.
OneAtATime ==
    way.order # "global" =>
        Cardinality({s \in Names : terminal[s] \in {"open", "gone"}}) <= 1

ReplayIsFaithful == RecordHasNoHole /\ SendsAreEarned /\ EndIsWhole /\ OneAtATime
=============================================================================
