-------------------------- MODULE BenchmarkJourney --------------------------
(***************************************************************************)
(* One journey of a benchmark over ssh (benchmark/adapters.py,             *)
(* SSHReplayAdapter): the preamble that brings the session to its first    *)
(* screen, the steps with their checkpoints against the mirror of the      *)
(* remote screen, the breaker that ends the journey of a dead session, the *)
(* two rules that take a divergence back, and the query of the metrics of  *)
(* the host when the journey is over.                                      *)
(*                                                                         *)
(* The remote application answers input i with one piece of output or two; *)
(* a drain reads what is there when the silence it waits for comes, so the *)
(* second piece may only be read with the next answer.  A piece is a pair, *)
(* the input it answers and whether the screen is then whole.              *)
(***************************************************************************)
EXTENDS Naturals, Sequences, SequencesExt, FiniteSets

CONSTANTS Journeys,      \* kinds of the steps: "text", "sig", "cut" (a sig of half an answer), "none"
          MaxAttempts,   \* _HOST_METRICS_MAX_ATTEMPTS
          Rows           \* bound: the samples that the host has

JourneyAssumption ==
    /\ Journeys \subseteq Seq({"text", "sig", "cut", "none"})
    /\ MaxAttempts \in Nat /\ Rows \in Nat

VARIABLES kinds, wrong,  \* the steps, and the inputs that the application answers as it should not
          mirrors,       \* whether the terminal engine can be had
          pending,       \* output on its way
          tail, engine,  \* pieces read, and the screen of the engine: the last piece it was fed
          pc, samples, log, incompletions,
          attempt, metrics

journey == <<kinds, wrong, mirrors, pending, tail, engine, pc, samples, log, incompletions>>
vars == <<journey, attempt, metrics>>

Steps == DOMAIN kinds
Blank == <<0, "blank">>
Whole(i) == <<i, IF i \in wrong THEN "wrong" ELSE "whole">>
Answers(i) == {<<Whole(i)>>, << <<i, "part">>, Whole(i)>>}

Init ==
    /\ kinds \in Journeys
    /\ wrong \in {{}} \cup {{i} : i \in Steps} \cup {i..Len(kinds) : i \in Steps}
    /\ mirrors \in BOOLEAN
    /\ wrong # {} => mirrors
    /\ pending \in Answers(0)
    /\ tail = <<>> /\ engine = Blank
    /\ pc = IF kinds = <<>> THEN "query" ELSE "login"
    /\ samples = <<>> /\ log = <<>> /\ incompletions = {}
    /\ attempt = 0
    /\ metrics = [available |-> TRUE, rows |-> 0, whole |-> TRUE]

-----------------------------------------------------------------------------
(* The session.                                                            *)

\* What a feed leaves on the screen.
Fed(screen, pieces) == IF pieces = <<>> THEN screen ELSE Last(pieces)

\* The preamble waits for its anchor, which half a screen may already show, and
\* drains; the engine is then fed with all that was received.
Login ==
    /\ pc = "login"
    /\ \E n \in 1..Len(pending) :
          /\ tail' = SubSeq(pending, 1, n)
          /\ pending' = SubSeq(pending, n + 1, Len(pending))
          /\ engine' = IF mirrors THEN Fed(Blank, tail') ELSE engine
    /\ pc' = "step"
    /\ UNCHANGED <<kinds, wrong, mirrors, samples, log, incompletions, attempt, metrics>>

\* The anchor does not come, or the remote side closes: the session is stopped.
LoginFails ==
    /\ pc = "login"
    /\ pc' = "unstarted"
    /\ UNCHANGED <<kinds, wrong, mirrors, pending, tail, engine, samples, log, incompletions,
                   attempt, metrics>>

-----------------------------------------------------------------------------
(* A step.                                                                 *)

At == Len(samples) + 1

\* The checkpoint of text is before the input: the screen of the answer before.
\* A neighbouring screen of the capture is a lag, any other a divergence.
Neighbours(i) == {<<j, "whole">> : j \in {i - 2, i} \cap (0..Len(kinds))}
TextChecked(i) == kinds[i] = "text" /\ mirrors
TextLags(i) == TextChecked(i) /\ engine # <<i - 1, "whole">> /\ engine \in Neighbours(i)
TextDiverges(i) == TextChecked(i) /\ engine # <<i - 1, "whole">> /\ engine \notin Neighbours(i)

\* The checkpoint of signature is after it, of whatever the drain has read.
SigExpected(i) == kinds[i] \in {"sig", "cut"}
Expected(i) == <<i, IF kinds[i] = "cut" THEN "part" ELSE "whole">>

Sample(i, screen, read, how) ==
    LET checksSig == SigExpected(i) /\ read # <<>> /\ how = "stable" /\ mirrors
    IN  [checked   |-> TextChecked(i) \/ checksSig,
         kind      |-> IF TextChecked(i) THEN "text" ELSE IF checksSig THEN "sig" ELSE "",
         diverges  |-> TextDiverges(i) \/ (checksSig /\ screen # Expected(i)),
         lag       |-> TextLags(i),
         skew      |-> FALSE,
         success   |-> how = "stable",
         truth     |-> IF kinds[i] = "text" THEN engine ELSE screen]

Reason(i, sample, read, how) ==
    IF sample.checked THEN ""
    ELSE IF kinds[i] = "text" /\ ~mirrors THEN "no engine"
    ELSE IF how # "stable" THEN how
    ELSE IF read = <<>> THEN "no answer"
    ELSE "unchecked"

Dead == {"closed", "io"}

GoesOn(i, how) == i < Len(kinds) /\ how \notin Dead

\* The input is sent, the answer drained and sampled; a session found dead ends
\* the journey, what is left of it being recorded.
Step ==
    /\ pc = "step" /\ At \in Steps
    /\ \E how \in {"stable", "timeout"} \cup Dead, answer \in Answers(At) :
       LET arriving == IF how = "io" THEN <<>> ELSE pending \o answer
       IN \E n \in (CASE how = "io" -> {0} [] how = "closed" -> {Len(arriving)} [] OTHER -> 0..Len(arriving)) :
          LET read == SubSeq(arriving, 1, n)
              screen == IF mirrors THEN Fed(engine, read) ELSE engine
              sample == Sample(At, screen, read, how)
          IN  /\ pending' = SubSeq(arriving, n + 1, Len(arriving))
              /\ tail' = tail \o read
              /\ engine' = screen
              /\ samples' = Append(samples, sample)
              /\ log' = IF kinds[At] = "none" THEN log
                        ELSE Append(log, [step |-> At, checked |-> sample.checked,
                                          reason |-> Reason(At, sample, read, how)])
              /\ incompletions' = IF how \in Dead /\ At < Len(kinds)
                                    THEN incompletions \cup {[executed |-> At, skipped |-> Len(kinds) - At]}
                                    ELSE incompletions
              /\ pc' = IF GoesOn(At, how) THEN "step" ELSE "demote"
    /\ UNCHANGED <<kinds, wrong, mirrors, attempt, metrics>>

-----------------------------------------------------------------------------
(* What is taken back.  A divergence of signature, when the next step is    *)
(* verified and met: the answer was cut in two by typing ahead.  Then one of*)
(* text, when the next verified step is met: the screen was late.           *)

Skewed(s) ==
    [i \in DOMAIN s |->
        IF i < Len(s) /\ s[i].diverges /\ s[i].kind = "sig" /\ s[i + 1].checked /\ ~s[i + 1].diverges
          THEN [s[i] EXCEPT !.diverges = FALSE, !.skew = TRUE] ELSE s[i]]

\* As if a step without a checkpoint, met for want of one, proved something.
NextCheckedAny(s, i) == {j \in (i + 1)..Len(s) : j = i + 1}

NextChecked(s, i) ==
    {j \in (i + 1)..Len(s) : s[j].checked /\ \A k \in (i + 1)..(j - 1) : ~s[k].checked}
Lagged(s) ==
    [i \in DOMAIN s |->
        IF s[i].diverges /\ s[i].kind = "text" /\ \E j \in NextChecked(s, i) : ~s[j].diverges
          THEN [s[i] EXCEPT !.diverges = FALSE, !.lag = TRUE] ELSE s[i]]

Demote ==
    /\ pc = "demote"
    /\ samples' = Lagged(Skewed(samples))
    /\ pc' = "end"
    /\ UNCHANGED <<kinds, wrong, mirrors, pending, tail, engine, log, incompletions, attempt, metrics>>

-----------------------------------------------------------------------------
(* The metrics of the host: an answer is the sample lines, then the line    *)
(* that says the query was made and how many rows it found.  The transport  *)
(* may fail, or lose the end of the answer.  It is asked for once for a run, *)
(* not for a journey: it stands beside the journeys, as one without steps.  *)

Lines(n) == [i \in 1..n |-> "row"] \o <<"done">>

\* A failed attempt is made again, MaxAttempts in all.
Fail ==
    /\ attempt' = attempt + 1
    /\ IF attempt' = MaxAttempts
         THEN pc' = "end" /\ metrics' = [available |-> FALSE, rows |-> 0, whole |-> TRUE]
         ELSE UNCHANGED <<pc, metrics>>

\* Without the last line, what is left of the answer is taken for all of it.
Query ==
    /\ pc = "query"
    /\ \/ Fail
       \/ \E kept \in 0..(Rows + 1) :
             LET lines == SubSeq(Lines(Rows), 1, kept)
             IN IF lines = <<>> THEN Fail
                ELSE /\ metrics' = [available |-> TRUE, rows |-> Cardinality({i \in DOMAIN lines : lines[i] = "row"}),
                                    whole |-> Contains(lines, "done")]
                     /\ attempt' = attempt + 1
                     /\ pc' = "end"
    /\ UNCHANGED <<kinds, wrong, mirrors, pending, tail, engine, samples, log, incompletions>>

Next == Login \/ LoginFails \/ Step \/ Demote \/ Query

Spec == Init /\ [][Next]_vars

-----------------------------------------------------------------------------
(* Properties.                                                             *)

Over == pc = "end" /\ kinds # <<>>

\* Every step is executed and sampled, or counted as skipped; every step that
\* expects a screen and was executed is in the log, with a reason if unchecked.
JourneyIsAccountedFor ==
    Over =>
        /\ \A x \in incompletions : x.executed = Len(samples) /\ x.executed + x.skipped = Len(kinds)
        /\ incompletions = {} => Len(samples) = Len(kinds)
        /\ {log[k].step : k \in DOMAIN log} = {i \in DOMAIN samples : kinds[i] # "none"}
        /\ \A k \in DOMAIN log : log[k].checked = (log[k].reason = "")

\* The engine shows what was received, whole and once.
MirrorIsTrue == mirrors /\ pc \in {"step", "demote", "end"} => engine = Fed(Blank, tail)

\* What was taken back was followed by a verified step that was met, or that
\* was itself taken back: the first rule feeds the second.
DemotionsAreProved ==
    Over => \A i \in DOMAIN samples :
        samples[i].skew \/ (samples[i].lag /\ samples[i].truth \notin Neighbours(i)) =>
            \E j \in (i + 1)..Len(samples) : samples[j].checked /\ ~samples[j].diverges

\* An application that is on another path at the last checkpoint of text or of
\* signature has a divergence reported.
WrongPathIsReported ==
    Over => \A i \in DOMAIN samples :
        /\ samples[i].checked /\ samples[i].truth[2] = "wrong"
        /\ \A j \in (i + 1)..Len(samples) : ~samples[j].checked
        => samples[i].diverges

\* Metrics confirmed by the last line are all there are; an answer that lost it
\* is not told from a whole one (README, Findings).
MetricsAreWhole ==
    /\ pc = "end" /\ attempt > 0 /\ metrics.available /\ metrics.whole => metrics.rows = Rows
    /\ ~metrics.available => attempt = MaxAttempts

JourneyIsHonest ==
    MetricsAreWhole /\ JourneyIsAccountedFor /\ MirrorIsTrue /\ DemotionsAreProved /\ WrongPathIsReported
=============================================================================
