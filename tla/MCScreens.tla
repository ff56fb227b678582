----------------------------- MODULE MCScreens -----------------------------
(***************************************************************************)
(* What was recorded is read back and met again, for TLC: the windows      *)
(* and the index of a captured session, the replay of a trail without      *)
(* control, the wait for its expected screens, how a screen that is not the*)
(* expected one is rated, and the batches and plans of the adaptive policy.*)
(* These parts share no state, so one run takes them in turn: turn is drawn*)
(* once, the part it names begins and moves, and the variables of the      *)
(* others keep a value nothing reads.                                      *)
(***************************************************************************)
EXTENDS MCSessionWindow, TLC

CONSTANTS Readers, MaxWrites, MaxFiles, MaxAnswers,           \* CaptureIndex
          Quiet, Timeout, Grace, MaxPieces, MaxPause,         \* SignatureWait
          Trails, Loads, StableMs,                            \* AdaptiveReplay
          Length,                                             \* bound: events of MCTrails
          MaxChanges,                                         \* Divergence
          Replayed, Ways, MaxPrinted                          \* TrailReplay

VARIABLES turn,
          log, writes, stored, tmp, iasked, ianswer, iserved,
          mode, clock, unread, pieces, screen, lastOut, compared, observed, since,
          sinceOut, pc, result, printed, lost,
          run, at, pending, converged, diverged, outcome, awrites, skipped, strayed,
          event, setting, shown, done, everDone, seen, phase, failure,
          plan, way, place, step, terminal, output, shownTo, fed, recorder, sent, met, failed

ofWindow == <<events, cut, now, index, states, asked, answer, served>>
ofIndex == <<log, writes, stored, tmp, iasked, ianswer, iserved>>
ofWait == <<mode, clock, unread, pieces, screen, lastOut, compared, observed, since,
            sinceOut, pc, result, printed, lost>>
ofAdaptive == <<run, at, pending, converged, diverged, outcome, awrites, skipped,
                strayed>>
ofDivergence == <<event, setting, shown, done, everDone, seen, phase, failure>>
ofReplay == <<plan, way, place, step, terminal, output, shownTo, fed, recorder, sent, met,
              failed>>

\* A gap may be nothing, shorter than the silence that makes output quiet, or
\* as long; only before an input that may be batched does it matter.
MCEvents == [kind : {"key"}, gap : 0..2]
       \cup [kind : {"out", "asked", "enter", "odd", "wait", "checkpoint"}, gap : {1}]

\* The time of an event is the sum of the gaps so far; a trail of full length
\* begins with what type-ahead takes.
Timed(t) ==
    [i \in DOMAIN t |->
        [kind |-> t[i].kind,
         ts |-> FoldLeft(LAMBDA sum, ev : sum + ev.gap, 0, SubSeq(t, 1, i))]]
MCTrails ==
    {Timed(t) : t \in UNION {[1..n -> MCEvents] : n \in 0..(Length - 1)}
                \cup {t \in [1..Length -> MCEvents] :
                         t[1].kind = "key" /\ t[1].gap = 0 /\ t[2].kind = "out"}}

\* At double speed a short gap is no pacing at all.
MCLoads == {[speed |-> 1, jitter |-> 0], [speed |-> 2, jitter |-> 1]}

\* The screens that a trail expects, with the signatures and the text of each, and
\* whether the screen that the session comes from is still shown.
MCRecorded ==
    {[lines |-> l, signatures |-> g, text |-> t, old |-> o] :
        l \in {<< <<"option">>, <<"mem1">> >>,
               << <<"code", "g25">>, <<"order", "D1">> >>,
               << <<"freight", "01">>, <<"order", "D1">> >>,
               << <<"prompt">> >>},
        g \in {{"visual", "text"}}, t \in {TRUE}, o \in BOOLEAN}
    \cup {[lines |-> << <<"option">>, <<"mem1">> >>, signatures |-> g, text |-> t, old |-> FALSE] :
        g \in {{}, {"visual", "text"}}, t \in BOOLEAN}
\* A replay of a real session, strict or not, and synthetic ones under either executor.
Real == [synthetic |-> FALSE, pairs |-> FALSE, mismatch |-> "skip", mode |-> "visual",
         explained |-> TRUE, concurrent |-> FALSE, keys |-> {"7"}]
MCSettings ==
    {Real, [Real EXCEPT !.mismatch = "fail-fast", !.mode = "text", !.keys = {}]}
    \cup {[Real EXCEPT !.synthetic = TRUE, !.pairs = TRUE, !.mismatch = "send-anyway",
                       !.explained = x, !.concurrent = c] : x \in BOOLEAN, c \in BOOLEAN}

\* Two sessions, each input twice, one checkpoint; every way to replay them.
TrailEvent(k, s, w) == [kind |-> k, session |-> s, wants |-> w]
MCReplayed ==
    {<< TrailEvent("in", "a", FALSE), TrailEvent("key", "a", TRUE), TrailEvent("in", "b", FALSE),
        TrailEvent("check", "a", TRUE), TrailEvent("key", "b", TRUE), TrailEvent("key", "a", FALSE) >>}
MCWays == [order : {"global", "sessions"}, input : {"raw", "deterministic"},
           mismatch : {"fail-fast", "skip", "send-anyway"}, observed : {TRUE}]

I == INSTANCE CaptureIndex WITH Handlers <- Readers, MaxServed <- MaxAnswers,
        asked <- iasked, answer <- ianswer, served <- iserved
W == INSTANCE SignatureWait
A == INSTANCE AdaptiveReplay WITH writes <- awrites
D == INSTANCE Divergence WITH Recorded <- MCRecorded, Settings <- MCSettings
R == INSTANCE TrailReplay WITH Trails <- Replayed, at <- place,
        pc <- step, unread <- output, printed <- shownTo, screen <- fed

ASSUME WaitBounds == W!WaitAssumption
ASSUME AdaptiveBounds == A!AdaptiveAssumption
ASSUME ReplayBounds == R!ReplayAssumption

Parts == {"window", "index", "wait", "adaptive", "divergence", "replay"}
Swap == Permutations(Readers)

MCInit ==
    /\ turn \in Parts
    /\ IF turn = "window" THEN Init
       ELSE /\ events = 0 /\ cut = 0 /\ now = 0 /\ index = 0 /\ states = 0
            /\ asked = 0 /\ answer = 0 /\ served = 0
    /\ IF turn = "index" THEN I!Init
       ELSE /\ log = 0 /\ writes = 0 /\ stored = 0 /\ tmp = 0 /\ iasked = 0
            /\ ianswer = 0 /\ iserved = 0
    /\ IF turn = "wait" THEN W!Init
       ELSE /\ mode = 0 /\ clock = 0 /\ unread = 0 /\ pieces = 0 /\ screen = 0
            /\ lastOut = 0 /\ compared = 0 /\ observed = 0 /\ since = 0
            /\ sinceOut = 0 /\ pc = 0 /\ result = 0 /\ printed = 0 /\ lost = 0
    /\ IF turn = "adaptive" THEN A!Init
       ELSE /\ run = 0 /\ at = 0 /\ pending = 0 /\ converged = 0 /\ diverged = 0
            /\ outcome = 0 /\ awrites = 0 /\ skipped = 0 /\ strayed = 0
    /\ IF turn = "divergence" THEN D!Init
       ELSE /\ event = 0 /\ setting = 0 /\ shown = 0 /\ done = 0 /\ everDone = 0
            /\ seen = 0 /\ phase = 0 /\ failure = 0
    /\ IF turn = "replay" THEN R!Init
       ELSE /\ plan = 0 /\ way = 0 /\ place = 0 /\ step = 0 /\ terminal = 0
            /\ output = 0 /\ shownTo = 0 /\ fed = 0 /\ recorder = 0 /\ sent = 0
            /\ met = 0 /\ failed = 0

MCNext ==
    /\ UNCHANGED turn
    /\ \/ /\ turn = "window"
          /\ UNCHANGED <<ofIndex, ofWait, ofAdaptive, ofDivergence, ofReplay>>
          /\ Next
       \/ /\ turn = "index"
          /\ UNCHANGED <<ofWindow, ofWait, ofAdaptive, ofDivergence, ofReplay>>
          /\ I!Next
       \/ /\ turn = "wait"
          /\ UNCHANGED <<ofWindow, ofIndex, ofAdaptive, ofDivergence, ofReplay>>
          /\ W!Next
       \/ /\ turn = "adaptive"
          /\ UNCHANGED <<ofWindow, ofIndex, ofWait, ofDivergence, ofReplay>>
          /\ A!Next
       \/ /\ turn = "divergence"
          /\ UNCHANGED <<ofWindow, ofIndex, ofWait, ofAdaptive, ofReplay>>
          /\ D!Next
       \/ /\ turn = "replay"
          /\ UNCHANGED <<ofWindow, ofIndex, ofWait, ofAdaptive, ofDivergence>>
          /\ R!Next

MCSpec == MCInit /\ [][MCNext]_<<turn, ofWindow, ofIndex, ofWait, ofAdaptive, ofDivergence,
                                  ofReplay>>

-----------------------------------------------------------------------------
\* The properties of the parts, by the names the configuration needs: a part
\* is looked at in its turn.
ReadingIsSound ==
    /\ turn = "window" => CachesAreInvisible
    /\ turn = "index" => I!IndexIsSound
WaitIsSound == turn = "wait" => W!WaitIsSound
DivergencesAreRated == turn = "divergence" => D!DivergencesAreRated
ReplayIsFaithful == turn = "replay" => R!ReplayIsFaithful
BatchingIsSound == turn = "adaptive" => A!BatchesKeepTheTrail /\ A!PlansAgree

=============================================================================
