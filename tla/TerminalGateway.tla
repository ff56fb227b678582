-------------------------- MODULE TerminalGateway --------------------------
(***************************************************************************)
(* TerminalGateway.run (gateway.py): one terminal session.  The gateway    *)
(* stands between the user and the child on the other side of a PTY,       *)
(* forwards what each says to the other and appends it to the audit log,   *)
(* with a checkpoint of the screen when the output pauses.  Signals come   *)
(* at any time.  A piece of input or output is what one read returns; the  *)
(* screen is the number of pieces it shows.                                *)
(***************************************************************************)
EXTENDS Integers, FiniteSets

CONSTANTS Quiet,                   \* checkpoint_quiet_ms, in turns of select
          InRoom, OutRoom,         \* what the PTY holds in each direction
          MaxTyped, MaxPrinted,    \* bounds: pieces
          MaxSignals               \* bound

GatewayAssumption ==
    /\ Quiet \in Nat \ {0} /\ InRoom \in Nat \ {0} /\ OutRoom \in Nat \ {0}
    /\ MaxTyped \in Nat /\ MaxPrinted \in Nat /\ MaxSignals \in Nat

VARIABLES
    mode,      \* "pty", or "batch" for a command without a terminal
    pc,
    typed,     \* pieces the user has typed and the gateway has not read
    open,      \* whether the user's side is open
    child,     \* "alive", "stubborn" (does not end on SIGTERM) or "dead"
    inbox,     \* pieces in the PTY for the child
    outbox,    \* pieces in the PTY from the child
    printed,   \* pieces the child has printed
    forwarded, \* pieces the child was given
    shown,     \* pieces written to the user
    logged,    \* events in the log: start, det(erministic_input), in, out, end
    broken,    \* whether the sink refuses every append
    todo,      \* the descriptors select returned that are still to be served
    leaving,   \* session_done
    stable,    \* the screen of stable_state, 0 for none
    dirty,     \* screen_dirty
    idle,      \* turns since last_out_ms
    signals,   \* signals that came
    arrived,   \* history: pieces the user typed
    quieted    \* history: the screens that stood still for Quiet

outside == <<typed, open, arrived>>
pty == <<child, inbox, outbox, printed>>
screens == <<stable, dirty, idle, quieted>>
vars == <<mode, pc, outside, pty, forwarded, shown, logged, broken, todo, leaving, screens, signals>>

Alive == child # "dead"
Running == pc \notin {"exit", "killed"}

\* Where a signal raises SystemExit, and where it finds its default action.
Guarded == {"first", "poll", "select", "serve", "det", "in", "forward", "out", "check", "last"}

Init ==
    /\ mode \in {"pty", "batch"}
    /\ pc = "open"
    /\ typed = 0 /\ open = TRUE /\ arrived = 0
    /\ child = "dead" /\ inbox = 0 /\ outbox = 0 /\ printed = 0
    /\ forwarded = 0 /\ shown = 0
    /\ logged = [start |-> 0, det |-> 0, in |-> 0, out |-> 0, end |-> 0]
    /\ broken = FALSE
    /\ todo = {} /\ leaving = FALSE
    /\ stable = 0 /\ dirty = FALSE /\ idle = 0 /\ quieted = {}
    /\ signals = 0

Log(kind) == logged' = [logged EXCEPT ![kind] = @ + 1]

\* An append, and what comes after it; one that fails raises.
Append(kind, after) ==
    IF broken
    THEN /\ UNCHANGED logged
         /\ pc' = IF pc = "finish" \/ (mode = "batch" /\ pc # "out") THEN "exit"
                  ELSE IF mode = "pty" THEN "restore" ELSE "finish"
    ELSE Log(kind) /\ pc' = after

----------------------------------------------------------------------------
\* The user, the child and the clock.
Type ==
    /\ open /\ Running
    /\ arrived < MaxTyped
    /\ typed' = typed + 1 /\ arrived' = arrived + 1
    /\ UNCHANGED <<mode, pc, open, pty, forwarded, shown, logged, broken, todo, leaving, screens, signals>>

HangUp ==
    /\ open /\ open' = FALSE
    /\ UNCHANGED <<mode, pc, typed, arrived, pty, forwarded, shown, logged, broken, todo, leaving, screens, signals>>

ChildPrints ==
    /\ Alive
    /\ printed < MaxPrinted /\ outbox < OutRoom
    /\ printed' = printed + 1 /\ outbox' = outbox + 1
    /\ UNCHANGED <<mode, pc, outside, child, inbox, forwarded, shown, logged, broken, todo, leaving, screens, signals>>

Consume ==
    /\ Alive /\ inbox > 0
    /\ inbox' = inbox - 1
    /\ UNCHANGED <<mode, pc, outside, child, outbox, printed, forwarded, shown, logged, broken, todo, leaving, screens, signals>>

ChildExits ==
    /\ Alive
    /\ child' = "dead" /\ inbox' = 0
    /\ UNCHANGED <<mode, pc, outside, outbox, printed, forwarded, shown, logged, broken, todo, leaving, screens, signals>>

Tick ==
    /\ pc = "select" /\ idle < Quiet
    /\ idle' = idle + 1
    /\ quieted' = (IF idle' = Quiet THEN quieted \cup {shown} ELSE quieted)
    /\ UNCHANGED <<mode, pc, outside, pty, forwarded, shown, logged, broken, todo, leaving, stable, dirty, signals>>

SinkBreaks ==
    /\ Running /\ ~broken
    /\ broken' = TRUE
    /\ UNCHANGED <<mode, pc, outside, pty, forwarded, shown, logged, todo, leaving, screens, signals>>

\* The handlers turn a signal into SystemExit, which leaves what is being
\* done for the finally; elsewhere the process dies.
Signal ==
    /\ Running /\ signals < MaxSignals
    /\ signals' = signals + 1
    /\ pc' = (IF mode = "pty" /\ pc \in Guarded THEN "restore" ELSE "killed")
    /\ UNCHANGED <<mode, outside, pty, forwarded, shown, logged, broken, todo, leaving, screens>>

----------------------------------------------------------------------------
\* The PTY and the child (the session fails without), then the handlers; a batch has no handlers and
\* starts its child after session_start.
Spawn ==
    /\ pc = "open"
    /\ \/ mode = "pty" /\ child' \in {"alive", "stubborn"} /\ pc' = "install"
       \/ mode = "pty" /\ pc' = "exit" /\ UNCHANGED child
       \/ mode = "batch" /\ pc' = "first" /\ UNCHANGED child
    /\ UNCHANGED <<mode, outside, inbox, outbox, printed, forwarded, shown, logged, broken, todo, leaving, screens, signals>>

Install ==
    /\ pc = "install" /\ pc' = "first"
    /\ UNCHANGED <<mode, outside, pty, forwarded, shown, logged, broken, todo, leaving, screens, signals>>

First ==
    /\ pc = "first"
    /\ Append("start", IF mode = "pty" THEN "poll" ELSE "batch")
    /\ UNCHANGED <<mode, outside, pty, forwarded, shown, broken, todo, leaving, screens, signals>>

\* communicate: the whole output, or none when the command is killed after
\* 300 s or cannot be started; it is shown, then recorded.
Batch ==
    /\ pc = "batch"
    /\ \/ /\ pc' = "out" /\ shown' = shown + 1
       \/ /\ pc' = "finish" /\ shown' = shown
    /\ UNCHANGED <<mode, outside, pty, forwarded, logged, broken, todo, leaving, screens, signals>>

\* A turn of the loop begins with proc.poll, then select.
Poll ==
    /\ pc = "poll"
    /\ pc' = (IF leaving \/ ~Alive THEN "last" ELSE "select")
    /\ UNCHANGED <<mode, outside, pty, forwarded, shown, logged, broken, todo, leaving, screens, signals>>

Select ==
    /\ pc = "select" /\ pc' = "serve"
    /\ todo' = {d \in {"stdin", "pty"} : IF d = "stdin" THEN typed > 0 \/ ~open
                                                         ELSE outbox > 0 \/ ~Alive}
    /\ UNCHANGED <<mode, outside, pty, forwarded, shown, logged, broken, leaving, screens, signals>>

\* As if the end of a side only ended the turn.
EndOfFileStays ==
    /\ todo' = {} /\ pc' = "check"
    /\ child' = (IF child = "alive" THEN "dead" ELSE child)
    /\ UNCHANGED <<typed, outbox, shown, dirty, idle, leaving>>

\* End of file on either side: SIGTERM for the child, and the loop is left.
EndOfFile ==
    /\ leaving' = TRUE /\ todo' = {} /\ pc' = "check"
    /\ child' = (IF child = "alive" THEN "dead" ELSE child)
    /\ UNCHANGED <<typed, outbox, shown, dirty, idle>>

ServeStdin ==
    /\ pc = "serve" /\ "stdin" \in todo
    /\ IF typed > 0
       THEN /\ typed' = typed - 1 /\ todo' = todo \ {"stdin"} /\ pc' = "det"
            /\ UNCHANGED <<child, outbox, shown, leaving, dirty, idle>>
       ELSE EndOfFile
    /\ UNCHANGED <<mode, open, arrived, inbox, printed, forwarded, logged, broken, stable, quieted, signals>>

\* What is read is shown to the user at once, and then fed and recorded.
ServePty ==
    /\ pc = "serve" /\ "pty" \in todo
    /\ IF outbox > 0
       THEN /\ outbox' = outbox - 1 /\ todo' = todo \ {"pty"} /\ pc' = "out"
            /\ shown' = shown + 1 /\ dirty' = TRUE /\ idle' = 0
            /\ UNCHANGED <<typed, child, leaving>>
       ELSE EndOfFile
    /\ UNCHANGED <<mode, open, arrived, inbox, printed, forwarded, logged, broken, stable, quieted, signals>>

Served ==
    /\ pc = "serve" /\ todo = {}
    /\ pc' = "check"
    /\ UNCHANGED <<mode, outside, pty, forwarded, shown, logged, broken, todo, leaving, screens, signals>>

\* As if the child were given an input before its events are appended.
RecordKeysLate ==
    /\ pc = "det"
    /\ inbox < InRoom /\ inbox' = inbox + 1 /\ forwarded' = forwarded + 1
    /\ Append("det", "in")
    /\ UNCHANGED <<mode, outside, child, outbox, printed, shown, broken, todo, leaving, screens, signals>>

\* The events of an input are appended before the child is given it.
RecordKeys ==
    /\ pc = "det"
    /\ Append("det", "in")
    /\ UNCHANGED <<mode, outside, pty, forwarded, shown, broken, todo, leaving, screens, signals>>

RecordInput ==
    /\ pc = "in"
    /\ Append("in", "forward")
    /\ UNCHANGED <<mode, outside, pty, forwarded, shown, broken, todo, leaving, screens, signals>>

\* The write waits for room in the PTY; without a child it fails.
Forward ==
    /\ pc = "forward"
    /\ IF Alive
       THEN inbox < InRoom /\ inbox' = inbox + 1 /\ forwarded' = forwarded + 1 /\ pc' = "serve"
       ELSE pc' = "restore" /\ UNCHANGED <<inbox, forwarded>>
    /\ UNCHANGED <<mode, outside, child, outbox, printed, shown, logged, broken, todo, leaving, screens, signals>>

RecordOutput ==
    /\ pc = "out"
    /\ Append("out", IF mode = "pty" THEN "serve" ELSE "finish")
    /\ UNCHANGED <<mode, outside, pty, forwarded, shown, broken, todo, leaving, screens, signals>>

----------------------------------------------------------------------------
\* maybe_checkpoint: a screen that the output left alone for Quiet becomes
\* the stable one; the checkpoint event itself changes nothing more, but its
\* append may fail.
Checkpoint(place, force, after) ==
    /\ pc = place
    /\ IF dirty /\ (force \/ idle >= Quiet)
       THEN stable' = shown /\ dirty' = FALSE
       ELSE UNCHANGED <<stable, dirty>>
    /\ pc' = after \/ (broken /\ (force \/ idle >= Quiet) /\ pc' = "restore")
    /\ UNCHANGED <<mode, outside, pty, forwarded, shown, logged, broken, todo, leaving, idle, quieted, signals>>

\* The finally: the old handlers, the end of the child (TERM, and KILL after
\* 2 s), session_end, and writer.close.
Restore ==
    /\ pc = "restore" /\ pc' = "reap"
    /\ UNCHANGED <<mode, outside, pty, forwarded, shown, logged, broken, todo, leaving, screens, signals>>

Reap ==
    /\ pc = "reap" /\ pc' = "finish"
    /\ child' = "dead" /\ inbox' = 0
    /\ UNCHANGED <<mode, outside, outbox, printed, forwarded, shown, logged, broken, todo, leaving, screens, signals>>

Finish ==
    /\ pc = "finish"
    /\ Append("end", "exit")
    /\ UNCHANGED <<mode, outside, pty, forwarded, shown, broken, todo, leaving, screens, signals>>

Gateway ==
    \/ Spawn \/ Install \/ First \/ Batch \/ Poll \/ Select \/ ServeStdin \/ ServePty \/ Served
    \/ RecordKeys \/ RecordInput \/ Forward \/ RecordOutput
    \/ Checkpoint("check", FALSE, "poll") \/ Checkpoint("last", TRUE, "restore")
    \/ Restore \/ Reap \/ Finish

World == Type \/ HangUp \/ ChildPrints \/ Consume \/ ChildExits \/ Tick \/ SinkBreaks \/ Signal

Next == Gateway \/ World

Spec == Init /\ [][Next]_vars

\* The gateway runs, and the child reads what it is given.
FairSpec == Spec /\ WF_vars(Gateway) /\ WF_vars(Consume)

----------------------------------------------------------------------------
\* The child is given no input that the log does not have with its keys, the
\* user sees no more than one piece of output that it does not have, and a
\* session that ends by itself or by a signal in its loop leaves a log with
\* all it showed and both ends.
NothingUnrecorded ==
    /\ forwarded <= logged.in /\ logged.in <= logged.det /\ logged.det <= logged.in + 1
    /\ logged.out <= shown /\ shown <= logged.out + 1
    /\ pc = "exit" /\ ~broken => /\ logged.start <= logged.end
                               /\ (signals = 0 => logged.out = shown)

\* The screen that checkpoints and the next inputs are recorded with stood
\* still for checkpoint_quiet_ms; only at the end the last one is taken as
\* it is.
ScreenWasQuiet ==
    pc \in Guarded \ {"last"} => stable \in quieted \cup {0}

\* The log of a session tells what passed through it.
RecordIsTrue == NothingUnrecorded /\ ScreenWasQuiet

\* The session ends once either side has gone, with no signal to help: also
\* with a child that does not end on SIGTERM.
SessionEnds == (pc # "open" /\ (~open \/ ~Alive)) ~> ~Running

=============================================================================
