--------------------------- MODULE SignatureWait ---------------------------
(***************************************************************************)
(* wait_for_signature_match (replay_compare.py): a session waits until its *)
(* terminal is quiet and compares the screen with the expected one, again  *)
(* and again until the timeout.  A mismatch that stays may end the wait    *)
(* earlier.  The target answers in pieces, one of which is read in a turn  *)
(* of the loop, and a turn takes one unit of time; a run that is paused    *)
(* holds the loop inside a turn while the clock goes on.                   *)
(***************************************************************************)
EXTENDS Integers, Sequences

CONSTANTS Quiet,      \* checkpoint_quiet_ms
          Timeout,    \* checkpoint_timeout_ms
          Grace,      \* mismatch_grace_ms
          MaxPieces,  \* bound: pieces of output
          MaxPause    \* bound: units of time in a pause

WaitAssumption ==
    /\ Quiet \in Nat \ {0} /\ Timeout \in Nat \ {0} /\ Grace \in Nat
    /\ MaxPieces \in Nat /\ MaxPause \in Nat

\* What the screen is: nothing yet, what is expected, something else, or
\* something else that the synthetic substitution explains.
Screens == {"blank", "expected", "other", "explained"}

VARIABLES
    mode,      \* "full": to the timeout; "early", "swap": a stable mismatch
               \* ends the wait; "first": the first quiet screen does
    clock,     \* time since the wait began
    unread,    \* pieces the target has printed, each with the screen it makes
    pieces,    \* how many it may still print
    screen,    \* the screen of the session
    lastOut,   \* last_out_ms: when a piece was read last
    compared,  \* compared_out_ms: the last_out_ms of the last comparison
    observed,  \* last_observed, or "none"
    since,     \* mismatch_since_ms, or -1
    sinceOut,  \* mismatch_out_ms
    pc,        \* "top" and "body" of the loop, or "end"
    result,    \* what is returned: matched, and whether the match says so
    printed,   \* history: when the target printed last
    lost       \* history: units of time in a pause

vars == <<mode, clock, unread, pieces, screen, lastOut, compared, observed, since, sinceOut,
          pc, result, printed, lost>>

Never == -Quiet - 1

Answer ==
    /\ pc # "end"
    /\ pieces > 0
    /\ \E piece \in Screens \ {"blank"} : unread' = Append(unread, piece)
    /\ pieces' = pieces - 1
    /\ printed' = clock
    /\ UNCHANGED <<mode, clock, screen, lastOut, compared, observed, since, sinceOut, pc,
                   result, lost>>

\* should_pause_or_cancel keeps the loop while the run is paused.
Pause ==
    /\ pc = "body"
    /\ lost < MaxPause
    /\ lost' = lost + 1
    /\ clock' = clock + 1
    /\ UNCHANGED <<mode, unread, pieces, screen, lastOut, compared, observed, since, sinceOut,
                   pc, result, printed>>

Turn ==
    /\ pc = "top"
    /\ clock < Timeout
    /\ pc' = "body"
    /\ UNCHANGED <<mode, clock, unread, pieces, screen, lastOut, compared, observed, since,
                   sinceOut, result, printed, lost>>

Return(matched, says) ==
    /\ pc' = "end"
    /\ result' = [matched |-> matched, says |-> says]
    /\ UNCHANGED <<clock, since, sinceOut>>

Again ==
    /\ pc' = "top"
    /\ clock' = clock + 1
    /\ UNCHANGED result

\* As if a stable mismatch were counted from its first sight, whatever came
\* in between.
MismatchOnce(seen, out) ==
    IF since = -1
    THEN since' = clock /\ sinceOut' = out /\ Again
    ELSE IF clock - since >= Grace THEN Return(FALSE, FALSE) ELSE Again /\ UNCHANGED <<since, sinceOut>>

\* A stable mismatch: returned at once when it is explained, after the grace
\* when nothing came, and else waited for.
Mismatch(seen, out) ==
    LET fresh == since = -1 \/ out # sinceOut
    IN IF \/ mode = "swap" /\ seen = "explained"
          \/ mode # "full" /\ ~fresh /\ clock - since >= Grace
       THEN Return(FALSE, FALSE)
       ELSE /\ Again
            /\ IF mode # "full" /\ fresh
               THEN since' = clock /\ sinceOut' = out
               ELSE UNCHANGED <<since, sinceOut>>

\* A piece is read; a quiet screen is compared unless nothing was read since
\* the last comparison.
Body ==
    /\ pc = "body"
    /\ LET out == IF unread = <<>> THEN lastOut ELSE clock
           now == IF unread = <<>> THEN screen ELSE Head(unread)
           seen == IF out = compared THEN observed ELSE now
       IN /\ unread' = (IF unread = <<>> THEN <<>> ELSE Tail(unread))
          /\ screen' = now
          /\ lastOut' = out
          /\ IF clock - out >= Quiet
             THEN /\ observed' = seen
                  /\ compared' = out
                  /\ IF seen = "expected" \/ mode = "first"
                     THEN Return(seen = "expected", seen = "expected")
                     ELSE Mismatch(seen, out)
             ELSE Again /\ UNCHANGED <<observed, compared, since, sinceOut>>
    /\ UNCHANGED <<mode, pieces, printed, lost>>

\* The timeout is a mismatch; what it is a mismatch of is the last stable
\* screen, or the screen as it is when none was stable.
TimedOut ==
    /\ pc = "top"
    /\ clock >= Timeout
    /\ Return(FALSE, (IF observed = "none" THEN screen ELSE observed) = "expected")
    /\ UNCHANGED <<mode, unread, pieces, screen, lastOut, compared, observed, printed, lost>>

Init ==
    /\ mode \in {"full", "early", "swap", "first"}
    /\ clock = 0
    /\ unread = <<>>
    /\ pieces = MaxPieces
    /\ screen \in Screens
    /\ lastOut \in {Never, 0}
    /\ compared = Never - 1
    /\ observed = "none"
    /\ since = -1 /\ sinceOut = -1
    /\ pc = "top"
    /\ result = [matched |-> FALSE, says |-> FALSE]
    /\ printed = 0
    /\ lost = 0

Next == Answer \/ Pause \/ Turn \/ Body \/ TimedOut

Spec == Init /\ [][Next]_vars

-----------------------------------------------------------------------------
(* Properties.                                                             *)

\* A match is a match of the screen as it is, after all that was read, and of
\* one that was quiet: the comparison kept from an earlier turn is no other.
MatchIsCurrent ==
    pc = "end" /\ result.matched => screen = "expected" /\ clock - lastOut >= Quiet

\* A screen that settles on the expected one, with the time to read it and to
\* see it quiet before the timeout, is matched; a pause of the run takes its
\* own length from that time and no more, although the timeout goes on.
SettledIsMatched ==
    LET last == IF unread = <<>> THEN screen ELSE unread[Len(unread)]
    IN pc = "end" /\ mode = "full" /\ last = "expected"
          /\ printed + MaxPieces + Quiet + lost < Timeout => result.matched

\* An early mismatch that is not explained comes after the silence and the
\* whole grace without a byte.
EarlyIsStable ==
    pc = "end" /\ ~result.matched /\ clock < Timeout /\ mode = "early" =>
        clock - lastOut >= Quiet + Grace

\* A mismatch whose record says that the screens match, which the reports show
\* as expected = got, happens only when no screen ever was quiet.
MismatchSaysSo ==
    pc = "end" /\ ~result.matched /\ result.says => observed = "none"

\* What wait_for_signature_match returns is true of the screen it leaves.
WaitIsSound == MatchIsCurrent /\ SettledIsMatched /\ EarlyIsStable /\ MismatchSaysSo

=============================================================================
