----------------------------- MODULE Divergence -----------------------------
(***************************************************************************)
(* What a replay makes of a screen that is not the recorded one            *)
(* (dakota_gateway/replay_compare.py, replay_control/deterministic.py,     *)
(* replay_failures.py, dakota_terminal/comparison.py).  The screen is      *)
(* compared by signature, then by text with what is volatile masked, then  *)
(* without the echo of a key just sent; what is left is a divergence, which*)
(* may be the exchange of data of a synthetic trail, be rated low by one of*)
(* three overrides, or cut the wait for a better screen short.             *)
(*                                                                         *)
(* A screen is a sequence of lines and a line a sequence of words; what the*)
(* application did to it since the recording is done word by word, and     *)
(* remembered in done.                                                     *)
(***************************************************************************)
EXTENDS Naturals, Sequences, SequencesExt, FiniteSets

CONSTANTS Recorded,      \* the events with a screen that a trail holds
          Settings,      \* the parameters of the run that the decision reads
          MaxChanges     \* bound: what the application does to a screen

VARIABLES event,         \* the event whose screen is awaited
          setting,
          shown,         \* the screen of the session: its lines, and whether its colours are the recorded ones
          done,          \* what made shown differ from the recorded screen
          everDone,
          seen,          \* the screen the wait compared last, with what had been done to it
          phase,         \* "wait", then how the wait ended, then what became of the input
          failure        \* what was recorded of the divergence

vars == <<event, setting, shown, done, everDone, seen, phase, failure>>

Unrecorded == [by |-> "nothing", kind |-> "nothing", severity |-> "nothing"]
Unseen == [screen |-> [lines |-> <<>>, coloured |-> FALSE], done |-> {}]

-----------------------------------------------------------------------------
(* Words.                                                                  *)

Volatile == {"mem1", "mem2"}
LongPairs == {<<"g25", "g99">>}
ShortPairs == {<<"1", "2">>}
Ids == {"D1", "D2"}
Numbers == {"01", "1", "2", "7"} \cup Ids
Shell == {"prompt"}

Mask(line) == [i \in DOMAIN line |-> IF line[i] \in Volatile THEN "vol" ELSE line[i]]
MaskAll(lines) == [i \in DOMAIN lines |-> Mask(lines[i])]
Exchanged(line, side) ==
    [i \in DOMAIN line |-> IF \E p \in LongPairs : p[side] = line[i] THEN "swap" ELSE Mask(line)[i]]

NumericIdentity(word) == IF word = "01" THEN "1" ELSE word
IsPair(a, b) == <<NumericIdentity(a), NumericIdentity(b)>> \in ShortPairs
At(lines, i) == IF i \in DOMAIN lines THEN lines[i] ELSE <<>>
Rows(a, b) == DOMAIN a \cup DOMAIN b

\* Words at the same place are the chunks that a difference of two lines has.
ShortPairEcho(e, o) ==
    Len(e) = Len(o) /\ \E i \in DOMAIN e : e[i] # o[i] /\ IsPair(e[i], o[i])
NumericEcho(e, o) ==
    LET a == SelectSeq(e, LAMBDA w : w \in Numbers)
        b == SelectSeq(o, LAMBDA w : w \in Numbers)
    IN  /\ a # <<>> /\ a # b /\ Len(a) = Len(b)
        /\ \A i \in DOMAIN a : a[i] # b[i] => IsPair(a[i], b[i])
GeneratedIdEcho(e, o) ==
    LET a == SelectSeq(e, LAMBDA w : w \in Ids)
        b == SelectSeq(o, LAMBDA w : w \in Ids)
    IN  a # <<>> /\ a # b /\ Len(a) = Len(b)

LongEcho(e, o) == Contains(e, "swap") /\ Contains(o, "swap")
HalfEcho(e, o) == Contains(e, "swap") # Contains(o, "swap")
PairEcho(e, o) ==
    e = o \/ LongEcho(e, o) \/ (~HalfEcho(e, o) /\ (ShortPairEcho(e, o) \/ NumericEcho(e, o)))
SubstitutionEcho(e, o) == PairEcho(e, o) \/ (~HalfEcho(e, o) /\ GeneratedIdEcho(e, o))

Diverging(exp, obs) == {i \in Rows(exp, obs) : Mask(At(exp, i)) # Mask(At(obs, i))}
EchoLines(exp, obs) ==
    {i \in Diverging(exp, obs) : SubstitutionEcho(Exchanged(At(exp, i), 1), Exchanged(At(obs, i), 2))}
PairEchoPresent(exp, obs) ==
    \E i \in Diverging(exp, obs) : PairEcho(Exchanged(At(exp, i), 1), Exchanged(At(obs, i), 2))

-----------------------------------------------------------------------------
(* The comparison.  In the mode of the run the event may lack the signature*)
(* to compare; the text of the recorded screen, when it is there, is       *)
(* compared whatever the mode.                                             *)

SameSignature(screen) ==
    /\ setting.mode \in event.signatures
    /\ screen.lines = event.lines
    /\ setting.mode = "visual" => screen.coloured

VolatileOnly(screen) == event.text /\ MaskAll(event.lines) = MaskAll(screen.lines)

\* The key is taken out where it stands last, or first.
IsInputEcho(e, o) ==
    \E k \in DOMAIN o :
        /\ o[k] \in setting.keys
        /\ RemoveAt(o, k) = e
        /\ \/ \A j \in (k + 1)..Len(o) : o[j] # o[k]
           \/ \A j \in 1..(k - 1) : o[j] # o[k]

InputEcho(screen) ==
    /\ event.text
    /\ Diverging(event.lines, screen.lines) # {}
    /\ \A i \in Diverging(event.lines, screen.lines) :
           IsInputEcho(Mask(At(event.lines, i)), Mask(At(screen.lines, i)))

Matched(screen) == SameSignature(screen) \/ VolatileOnly(screen) \/ InputEcho(screen)

\* As before the oracle of capture 13: any echo of the exchange was enough.
HasSwapByLine(screen) == setting.pairs /\ EchoLines(event.lines, screen.lines) # {}

HasSwap(screen) ==
    /\ setting.pairs
    /\ EchoLines(event.lines, screen.lines) # {}
    /\ PairEchoPresent(event.lines, screen.lines)
Flagged(screen) == event.text /\ ~Matched(screen) /\ HasSwap(screen)

-----------------------------------------------------------------------------
(* The classification, and the overrides that make it low.                 *)

Shared(screen) == ToSet(event.lines) \cap ToSet(screen.lines)
HasShell(lines) == \E line \in ToSet(lines) : \E w \in Shell : Contains(line, w)
Stale(screen) == event.old /\ Shared(screen) = {}
ContextSwitch(screen) == Shared(screen) = {} /\ (HasShell(event.lines) \/ HasShell(screen.lines))
ContentPresent(screen) ==
    \A e \in ToSet(event.lines) : \E o \in ToSet(screen.lines) : IsPrefix(e, o)
Overridden(screen) ==
    event.text /\ (Stale(screen) \/ ContextSwitch(screen) \/ ContentPresent(screen))

Classified(flag, screen) ==
    IF flag \/ (event.text /\ HasSwap(screen))
      THEN [by |-> phase, kind |-> "synthetic_data_swap", severity |-> "low"]
    ELSE [by |-> phase,
          kind |-> IF setting.synthetic /\ setting.mismatch = "send-anyway"
                     THEN "screen_divergence" ELSE "timeout",
          severity |-> IF Overridden(screen) THEN "low"
                       ELSE IF setting.synthetic /\ setting.mismatch = "send-anyway"
                         THEN "medium" ELSE "high"]

\* The load parameters of the concurrent executor do not carry the switch that
\* turns the second of the fast exits off.
SwapFastExit == setting.synthetic
ExplainedFastExit == setting.synthetic /\ (setting.explained \/ setting.concurrent)
FastExit(screen) ==
    \/ SwapFastExit /\ Flagged(screen)
    \/ ExplainedFastExit /\ (Flagged(screen) \/ (event.text /\ HasSwap(screen)) \/ Overridden(screen))

-----------------------------------------------------------------------------
(* The wait.                                                               *)

Init ==
    /\ event \in Recorded
    /\ setting \in Settings
    /\ shown = [lines |-> event.lines, coloured |-> TRUE]
    /\ done = {} /\ everDone = {}
    /\ seen = Unseen
    /\ phase = "wait"
    /\ failure = Unrecorded

MayDo(cause) == cause \notin everDone /\ Cardinality(everDone) < MaxChanges

\* The application shows cause: line i becomes line.
Show(cause, i, line) ==
    /\ phase = "wait"
    /\ MayDo(cause)
    /\ Len(shown.lines) >= i
    /\ shown' = [shown EXCEPT !.lines[i] = line]
    /\ done' = done \cup {cause}
    /\ everDone' = everDone \cup {cause}
    /\ UNCHANGED <<event, setting, seen, phase, failure>>

Becomes(i, old, new) ==
    [shown.lines[i] EXCEPT ![CHOOSE k \in DOMAIN shown.lines[i] : shown.lines[i][k] \in old] = new]

Environment(i) == /\ \E w \in Volatile : Contains(shown.lines[i], w)
                  /\ Show("volatile", i, Becomes(i, Volatile, "mem2"))
Exchange(i) ==
    /\ setting.pairs
    /\ \E w \in {"g25", "01", "1"} : Contains(shown.lines[i], w)
    /\ Show("swap", i, IF Contains(shown.lines[i], "g25") THEN Becomes(i, {"g25"}, "g99")
                       ELSE Becomes(i, {"01", "1"}, "2"))
NewId(i) == /\ Contains(shown.lines[i], "D1")
            /\ Show("id", i, Becomes(i, {"D1"}, "D2"))
Echo(i) == /\ setting.keys # {}
           /\ Contains(shown.lines[i], "option")
           /\ Show("echo", i, Append(shown.lines[i], "7"))

\* The refusal takes the place of a line.  One that stands on a line more is
\* low for ContentPresent, like all that is only more.
Reject(i) == i \in DOMAIN event.lines /\ Show("reject", i, <<"unknown", "code">>)

\* One line more at the bottom.
Scroll ==
    /\ phase = "wait" /\ MayDo("scroll")
    /\ shown' = [shown EXCEPT !.lines = Append(@, <<"more">>)]
    /\ done' = done \cup {"scroll"} /\ everDone' = everDone \cup {"scroll"}
    /\ UNCHANGED <<event, setting, seen, phase, failure>>

Paint ==
    /\ phase = "wait" /\ MayDo("paint")
    /\ shown' = [shown EXCEPT !.coloured = FALSE]
    /\ done' = done \cup {"paint"} /\ everDone' = everDone \cup {"paint"}
    /\ UNCHANGED <<event, setting, seen, phase, failure>>

\* The session is at another screen of the application, or at the shell.
Leave ==
    /\ phase = "wait" /\ MayDo("gone")
    /\ \E e \in Recorded :
          /\ e.lines # event.lines
          /\ shown' = [lines |-> e.lines, coloured |-> TRUE]
    /\ done' = {"gone"} /\ everDone' = everDone \cup {"gone"}
    /\ UNCHANGED <<event, setting, seen, phase, failure>>

\* The screen is stable: it is compared, and the wait may be over.  With
\* fail-fast a divergence is waited out.
Compare ==
    /\ phase = "wait"
    /\ seen.screen # shown
    /\ seen' = [screen |-> shown, done |-> done]
    /\ phase' = IF Matched(shown) THEN "matched"
                ELSE IF setting.mismatch # "fail-fast" /\ FastExit(shown) THEN "fast"
                ELSE "wait"
    /\ UNCHANGED <<event, setting, shown, done, everDone, failure>>

InGrace ==
    /\ phase = "wait" /\ setting.mismatch # "fail-fast"
    /\ seen.screen = shown
    /\ phase' = "grace"
    /\ UNCHANGED <<event, setting, shown, done, everDone, seen, failure>>

\* What the wait returns at its deadline is what it compared last, if anything.
Expire ==
    /\ phase = "wait"
    /\ seen' = IF seen = Unseen THEN [screen |-> shown, done |-> done] ELSE seen
    /\ phase' = "expired"
    /\ UNCHANGED <<event, setting, shown, done, everDone, failure>>

\* The evidence is the screen of the session now.
Register ==
    /\ phase \in {"fast", "grace", "expired"}
    /\ failure' = Classified(Flagged(seen.screen), shown)
    /\ phase' = CASE setting.mismatch = "skip"        -> "skipped"
                  [] setting.mismatch = "send-anyway" -> "sent"
                  [] OTHER                            -> "failed"
    /\ UNCHANGED <<event, setting, shown, done, everDone, seen>>

\* Raising ReplayError, sending or skipping ends the episode.
Change(i) == Environment(i) \/ Exchange(i) \/ NewId(i) \/ Echo(i) \/ Reject(i)
Next ==
    \/ \E i \in DOMAIN shown.lines : Change(i)
    \/ Scroll \/ Paint \/ Leave
    \/ Compare \/ InGrace \/ Expire \/ Register

Spec == Init /\ [][Next]_vars

-----------------------------------------------------------------------------
(* Properties.                                                             *)

Harmless == {"volatile", "echo", "paint"}

\* A screen is met only if nothing but noise of the environment, the echo of a
\* key or its colours differs from the recorded one, and a stable screen that
\* differs in no more is met.
MatchesAreTrue ==
    /\ phase = "matched" => seen.done \subseteq Harmless
    /\ phase \in {"fast", "grace"} /\ event.text => ~(seen.done \subseteq Harmless)

\* A divergence is the exchange of synthetic data only if a value of the table
\* was exchanged: a new identifier, which every replay shows, is not enough.
SwapsAreReal ==
    failure # Unrecorded /\ failure.kind = "synthetic_data_swap" => "swap" \in everDone

\* A refusal of the application in a screen that otherwise stayed is not low.
RejectionsAreSeen ==
    failure # Unrecorded /\ "reject" \in everDone /\ everDone \cap {"swap", "gone"} = {}
        /\ Shared(shown) # {} => failure.severity # "low"

\* A wait is cut short only for what is recorded as low, of a synthetic run.
FastExitsAreLow ==
    failure # Unrecorded /\ failure.by = "fast" => failure.severity = "low" /\ setting.synthetic

DivergencesAreRated ==
    MatchesAreTrue /\ SwapsAreReal /\ RejectionsAreSeen /\ FastExitsAreLow
=============================================================================
