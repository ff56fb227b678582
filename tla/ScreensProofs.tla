---------------------------- MODULE ScreensProofs ---------------------------
(***************************************************************************)
(* What MCScreens checks on small instances, proved from an inductive      *)
(* invariant for each part: a wait for a screen, for any number of pieces  *)
(* printed and any times; the replay of a trail and the batches of the     *)
(* adaptive policy, for any trails and any ways and loads to replay them;  *)
(* and the index of a session, for any readers, files and lines.           *)
(***************************************************************************)
EXTENDS MCScreens, FiniteSetTheorems, SequenceTheorems, WellFoundedInduction, TLAPS

-----------------------------------------------------------------------------
(* Waits for a screen (replay_compare.py, wait_for_signature_match).       *)

WaitTypes ==
    /\ mode \in {"full", "early", "swap", "first"}
    /\ clock \in Nat /\ lost \in Nat /\ printed \in Nat /\ pieces \in Nat
    /\ unread \in Seq(W!Screens)
    /\ screen \in W!Screens /\ observed \in W!Screens \cup {"none"}
    /\ lastOut \in Int /\ compared \in Int /\ since \in Int /\ sinceOut \in Int
    /\ pc \in {"top", "body", "end"}
    /\ result \in [matched : BOOLEAN, says : BOOLEAN]

\* The time without the pauses and the pieces left to read do not outgrow the
\* last print, and what is read comes no later than the pauses let it.
PiecesAreRead ==
    /\ Len(unread) + pieces <= MaxPieces
    /\ unread # <<>> => clock - lost + Len(unread) + pieces <= printed + MaxPieces
    /\ lastOut <= printed + MaxPieces + lost
    /\ lastOut <= clock

\* A comparison is of a time that was quiet, it is kept while nothing is read,
\* and one that found the expected screen has ended the wait.
ComparisonsHold ==
    /\ compared <= clock - Quiet
    /\ lastOut = compared => observed = screen
    /\ pc # "end" => observed # "expected"
    /\ pc = "top" /\ clock > 0 /\ clock - 1 - lastOut >= Quiet => screen # "expected"
    /\ since # -1 => since - sinceOut >= Quiet

WaitInv == WaitTypes /\ PiecesAreRead /\ ComparisonsHold /\ W!WaitIsSound

LEMMA WaitStarts == W!Init => WaitInv
<1> SUFFICES ASSUME W!Init PROVE WaitInv
  OBVIOUS
<1> USE WaitBounds DEF W!WaitAssumption
<1>1. WaitTypes
  BY DEF W!Init, WaitTypes, W!Screens, W!Never
<1>2. PiecesAreRead
  BY DEF W!Init, PiecesAreRead, W!Never
<1>3. ComparisonsHold
  BY DEF W!Init, ComparisonsHold, W!Never
<1>4. W!WaitIsSound
  BY DEF W!Init, W!WaitIsSound, W!MatchIsCurrent, W!SettledIsMatched, W!EarlyIsStable,
         W!MismatchSaysSo
<1>5. QED
  BY <1>1, <1>2, <1>3, <1>4 DEF WaitInv

LEMMA WaitOngoing == pc # "end" => W!WaitIsSound
BY DEF W!WaitIsSound, W!MatchIsCurrent, W!SettledIsMatched, W!EarlyIsStable, W!MismatchSaysSo

LEMMA AnswerKeepsWait == ASSUME WaitInv, W!Answer PROVE WaitInv'
<1> USE WaitBounds DEF W!WaitAssumption
<1>1. PICK piece \in W!Screens : unread' = Append(unread, piece)
  BY DEF W!Answer
<1>2. /\ unread' \in Seq(W!Screens) /\ Len(unread') = Len(unread) + 1
      /\ Len(unread) \in Nat /\ unread' # <<>>
  BY <1>1 DEF WaitInv, WaitTypes
<1>3. /\ pc # "end" /\ pieces > 0 /\ pieces' = pieces - 1 /\ printed' = clock
      /\ UNCHANGED <<mode, clock, screen, lastOut, compared, observed, since, sinceOut, pc,
                     result, lost>>
  BY DEF W!Answer
<1>4. WaitTypes'
  BY <1>2, <1>3 DEF WaitInv, WaitTypes
<1>5. PiecesAreRead'
  BY <1>2, <1>3 DEF WaitInv, WaitTypes, PiecesAreRead
<1>6. ComparisonsHold'
  BY <1>3 DEF WaitInv, ComparisonsHold
<1>7. W!WaitIsSound'
  BY <1>3 DEF W!WaitIsSound, W!MatchIsCurrent, W!SettledIsMatched, W!EarlyIsStable,
                W!MismatchSaysSo
<1>8. QED
  BY <1>4, <1>5, <1>6, <1>7 DEF WaitInv

LEMMA PauseKeepsWait == ASSUME WaitInv, W!Pause PROVE WaitInv'
<1> USE WaitBounds DEF W!WaitAssumption
<1>1. /\ pc = "body" /\ lost' = lost + 1 /\ clock' = clock + 1
      /\ UNCHANGED <<mode, unread, pieces, screen, lastOut, compared, observed, since, sinceOut,
                     pc, result, printed>>
  BY DEF W!Pause
<1>2. WaitTypes'
  BY <1>1 DEF WaitInv, WaitTypes
<1>3. PiecesAreRead'
  BY <1>1 DEF WaitInv, WaitTypes, PiecesAreRead
<1>4. ComparisonsHold'
  BY <1>1 DEF WaitInv, WaitTypes, ComparisonsHold
<1>5. W!WaitIsSound'
  BY <1>1 DEF W!WaitIsSound, W!MatchIsCurrent, W!SettledIsMatched, W!EarlyIsStable,
                W!MismatchSaysSo
<1>6. QED
  BY <1>2, <1>3, <1>4, <1>5 DEF WaitInv

LEMMA TurnKeepsWait == ASSUME WaitInv, W!Turn PROVE WaitInv'
<1>1. /\ pc = "top" /\ pc' = "body"
      /\ UNCHANGED <<mode, clock, unread, pieces, screen, lastOut, compared, observed, since,
                     sinceOut, result, printed, lost>>
  BY DEF W!Turn
<1>2. WaitTypes' /\ PiecesAreRead'
  BY <1>1 DEF WaitInv, WaitTypes, PiecesAreRead
<1>3. ComparisonsHold'
  BY <1>1 DEF WaitInv, ComparisonsHold
<1>4. W!WaitIsSound'
  BY <1>1 DEF W!WaitIsSound, W!MatchIsCurrent, W!SettledIsMatched, W!EarlyIsStable,
                W!MismatchSaysSo
<1>5. QED
  BY <1>2, <1>3, <1>4 DEF WaitInv

\* A turn with the time it takes, up to the comparison.
LEMMA ReadStep ==
    ASSUME WaitInv, W!Body,
           NEW out, out = (IF unread = <<>> THEN lastOut ELSE clock),
           NEW image, image = (IF unread = <<>> THEN screen ELSE Head(unread))
    PROVE  /\ out \in Int /\ out <= clock /\ image \in W!Screens
           /\ unread' \in Seq(W!Screens) /\ Len(unread') + pieces <= MaxPieces
           /\ unread' # <<>> =>
                 clock + 1 - lost + Len(unread') + pieces <= printed + MaxPieces
           /\ out <= printed + MaxPieces + lost
           /\ out = compared => out = lastOut /\ image = observed /\ unread = <<>>
           /\ screen' = image /\ lastOut' = out
<1> USE WaitBounds DEF W!WaitAssumption
<1>1. /\ unread' = (IF unread = <<>> THEN <<>> ELSE Tail(unread))
      /\ screen' = image /\ lastOut' = out
  BY DEF W!Body
<1>2. CASE unread = <<>>
  BY <1>1, <1>2 DEF WaitInv, WaitTypes, PiecesAreRead, ComparisonsHold
<1>3. CASE unread # <<>>
  <2>1. /\ Tail(unread) \in Seq(W!Screens) /\ Len(Tail(unread)) = Len(unread) - 1
        /\ Len(unread) \in Nat \ {0} /\ Head(unread) \in W!Screens
    BY <1>3 DEF WaitInv, WaitTypes
  <2>2. unread' = Tail(unread) /\ out = clock /\ image = Head(unread)
    BY <1>1, <1>3
  <2>3. clock # compared
    BY DEF WaitInv, WaitTypes, ComparisonsHold
  <2>4. QED
    BY <1>1, <1>3, <2>1, <2>2, <2>3 DEF WaitInv, WaitTypes, PiecesAreRead
<1>4. QED
  BY <1>2, <1>3

LEMMA BodyKeepsWait == ASSUME WaitInv, W!Body PROVE WaitInv'
<1> USE WaitBounds DEF W!WaitAssumption
<1> DEFINE out == IF unread = <<>> THEN lastOut ELSE clock
           image == IF unread = <<>> THEN screen ELSE Head(unread)
           judged == IF out = compared THEN observed ELSE image
           fresh == since = -1 \/ out # sinceOut
<1>1. /\ out \in Int /\ out <= clock /\ image \in W!Screens
      /\ unread' \in Seq(W!Screens) /\ Len(unread') + pieces <= MaxPieces
      /\ unread' # <<>> => clock + 1 - lost + Len(unread') + pieces <= printed + MaxPieces
      /\ out <= printed + MaxPieces + lost
      /\ out = compared => out = lastOut /\ image = observed /\ unread = <<>>
      /\ screen' = image /\ lastOut' = out
  BY ReadStep
<1>2. pc = "body" /\ UNCHANGED <<mode, pieces, printed, lost>>
  BY DEF W!Body
<1>3. judged = image
  BY <1>1
<1>4. CASE clock - out < Quiet
  <2>1. /\ pc' = "top" /\ clock' = clock + 1
        /\ UNCHANGED <<result, observed, compared, since, sinceOut>>
    <3>1. ~(clock - out >= Quiet)
      BY <1>1, <1>4 DEF WaitInv, WaitTypes
    <3>2. QED
      BY <3>1 DEF W!Body, W!Again
  <2>2. WaitTypes'
    BY <1>1, <1>2, <2>1 DEF WaitInv, WaitTypes
  <2>3. PiecesAreRead'
    BY <1>1, <1>2, <2>1 DEF WaitInv, WaitTypes, PiecesAreRead
  <2>4. ComparisonsHold'
    BY <1>1, <1>2, <1>4, <2>1 DEF WaitInv, WaitTypes, ComparisonsHold
  <2>5. W!WaitIsSound'
    BY <2>1 DEF W!WaitIsSound, W!MatchIsCurrent, W!SettledIsMatched, W!EarlyIsStable,
                W!MismatchSaysSo
  <2>6. QED
    BY <2>2, <2>3, <2>4, <2>5 DEF WaitInv
<1>5. CASE clock - out >= Quiet
  <2>1. /\ observed' = judged /\ compared' = out
        /\ IF judged = "expected" \/ mode = "first"
           THEN W!Return(judged = "expected", judged = "expected")
           ELSE W!Mismatch(judged, out)
    BY <1>5 DEF W!Body
  <2> HIDE DEF out, image, judged
  <2>2. CASE pc' = "top" /\ judged # "expected" /\ W!Mismatch(judged, out)
    <3>1. clock' = clock + 1 /\ result' = result
      BY <2>2 DEF W!Mismatch, W!Return, W!Again
    <3>2. \/ since' = clock /\ sinceOut' = out
          \/ UNCHANGED <<since, sinceOut>>
      BY <2>2 DEF W!Mismatch, W!Return, W!Again
    <3>3. WaitTypes'
      BY <1>1, <1>2, <1>3, <2>1, <2>2, <3>1, <3>2 DEF WaitInv, WaitTypes
    <3>4. PiecesAreRead'
      BY <1>1, <1>2, <3>1 DEF WaitInv, WaitTypes, PiecesAreRead
    <3>5. ComparisonsHold'
      BY <1>1, <1>2, <1>3, <1>5, <2>1, <2>2, <3>1, <3>2
         DEF WaitInv, WaitTypes, ComparisonsHold
    <3>6. W!WaitIsSound'
      BY <2>2 DEF W!WaitIsSound, W!MatchIsCurrent, W!SettledIsMatched, W!EarlyIsStable,
                  W!MismatchSaysSo
    <3>7. QED
      BY <3>3, <3>4, <3>5, <3>6 DEF WaitInv
  <2>3. CASE pc' = "end"
    <3>1. /\ UNCHANGED <<clock, since, sinceOut>>
          /\ result'.matched \in BOOLEAN /\ result'.says = result'.matched
          /\ result' \in [matched : BOOLEAN, says : BOOLEAN]
          /\ result'.matched = (judged = "expected")
          /\ judged = "expected" \/ mode # "full"
          /\ mode = "early" /\ judged # "expected" => ~fresh /\ clock - since >= Grace
      <4>1. CASE judged = "expected"
        <5>1. (judged = "expected") = TRUE
          BY <4>1
        <5>2. W!Return(TRUE, TRUE)
          BY <2>1, <4>1, <5>1, Zenon DEF W!Return
        <5>3. QED
          BY <4>1, <5>2 DEF W!Return
      <4>2. CASE judged # "expected"
        <5>1. W!Return(FALSE, FALSE)
          BY <2>1, <2>3, <4>2 DEF W!Mismatch, W!Return, W!Again
        <5>2. CASE mode = "first"
          BY <4>2, <5>1, <5>2 DEF W!Return
        <5>3. CASE mode # "first"
          <6>1. \/ mode = "swap" /\ judged = "explained"
                \/ mode # "full" /\ ~fresh /\ clock - since >= Grace
            BY <2>1, <2>3, <4>2, <5>3 DEF W!Mismatch, W!Again
          <6>2. QED
            BY <4>2, <5>1, <5>3, <6>1 DEF W!Return
        <5>4. QED
          BY <5>2, <5>3
      <4>3. QED
        BY <4>1, <4>2
    <3>2. WaitTypes'
      BY <1>1, <1>2, <1>3, <2>1, <2>3, <3>1 DEF WaitInv, WaitTypes
    <3>3. PiecesAreRead'
      BY <1>1, <1>2, <3>1 DEF WaitInv, WaitTypes, PiecesAreRead
    <3>4. ComparisonsHold'
      BY <1>1, <1>2, <1>3, <1>5, <2>1, <2>3, <3>1 DEF WaitInv, WaitTypes, ComparisonsHold
    <3>5. W!MatchIsCurrent'
      BY <1>1, <1>3, <1>5, <3>1 DEF W!MatchIsCurrent
    <3>6. W!SettledIsMatched'
      BY <1>2, <3>1 DEF W!SettledIsMatched
    <3>7. W!EarlyIsStable'
      BY <1>1, <1>2, <3>1 DEF WaitInv, WaitTypes, ComparisonsHold, W!EarlyIsStable
    <3>8. W!MismatchSaysSo'
      BY <3>1 DEF W!MismatchSaysSo
    <3>9. QED
      BY <3>2, <3>3, <3>4, <3>5, <3>6, <3>7, <3>8 DEF WaitInv, W!WaitIsSound
  <2>4. QED
    BY <2>1, <2>2, <2>3 DEF W!Mismatch, W!Return, W!Again
<1>6. QED
  BY <1>1, <1>4, <1>5 DEF WaitInv, WaitTypes

LEMMA TimedOutKeepsWait == ASSUME WaitInv, W!TimedOut PROVE WaitInv'
<1> USE WaitBounds DEF W!WaitAssumption
<1> DEFINE says == (IF observed = "none" THEN screen ELSE observed) = "expected"
<1>1. /\ pc = "top" /\ pc' = "end" /\ clock >= Timeout
      /\ result' = [matched |-> FALSE, says |-> says]
      /\ UNCHANGED <<mode, clock, unread, pieces, screen, lastOut, compared, observed, since,
                     sinceOut, printed, lost>>
  BY DEF W!TimedOut, W!Return
<1>2. /\ result' \in [matched : BOOLEAN, says : BOOLEAN]
      /\ ~result'.matched /\ (result'.says => observed = "none")
  BY <1>1 DEF WaitInv, ComparisonsHold
<1>3. WaitTypes'
  BY <1>1, <1>2 DEF WaitInv, WaitTypes
<1>4. PiecesAreRead'
  BY <1>1 DEF WaitInv, PiecesAreRead
<1>5. ComparisonsHold'
  BY <1>1 DEF WaitInv, ComparisonsHold
<1>6. W!MatchIsCurrent' /\ W!MismatchSaysSo'
  BY <1>1, <1>2 DEF W!MatchIsCurrent, W!MismatchSaysSo
<1>7. W!EarlyIsStable'
  BY <1>1 DEF W!EarlyIsStable, WaitInv, WaitTypes
<1>8. W!SettledIsMatched'
  <2>1. SUFFICES ASSUME printed + MaxPieces + Quiet + lost < Timeout,
                        (IF unread = <<>> THEN screen ELSE unread[Len(unread)]) = "expected"
                 PROVE  FALSE
    BY <1>1 DEF W!SettledIsMatched
  <2>2. unread = <<>>
    <3>1. SUFFICES ASSUME unread # <<>> PROVE FALSE
      OBVIOUS
    <3>2. Len(unread) \in Nat
      BY DEF WaitInv, WaitTypes
    <3>3. clock - lost + Len(unread) + pieces <= printed + MaxPieces
      BY <3>1 DEF WaitInv, PiecesAreRead
    <3>4. QED
      BY <1>1, <2>1, <3>2, <3>3 DEF WaitInv, WaitTypes
  <2>3. screen = "expected"
    BY <2>1, <2>2
  <2>4. clock - 1 - lastOut >= Quiet /\ clock > 0
    BY <1>1, <2>1 DEF WaitInv, WaitTypes, PiecesAreRead
  <2>5. QED
    BY <1>1, <2>3, <2>4 DEF WaitInv, ComparisonsHold
<1>9. QED
  BY <1>3, <1>4, <1>5, <1>6, <1>7, <1>8 DEF WaitInv, W!WaitIsSound

LEMMA WaitKeeps == WaitInv /\ [W!Next]_(W!vars) => WaitInv'
<1> SUFFICES ASSUME WaitInv, [W!Next]_(W!vars) PROVE WaitInv'
  OBVIOUS
<1>1. CASE UNCHANGED W!vars
  BY <1>1 DEF W!vars, WaitInv, WaitTypes, PiecesAreRead, ComparisonsHold, W!WaitIsSound,
       W!MatchIsCurrent, W!SettledIsMatched, W!EarlyIsStable, W!MismatchSaysSo
<1>2. QED
  BY <1>1, AnswerKeepsWait, PauseKeepsWait, TurnKeepsWait, BodyKeepsWait, TimedOutKeepsWait
     DEF W!Next

\* What a wait returns is true of the screen it leaves, for any quiet time,
\* timeout, grace and answer: a match is of a quiet screen as it is, an expected
\* screen that settles in time is matched in spite of pauses, and an early
\* mismatch saw the whole grace in silence
\* (replay_compare.py, wait_for_signature_match).
THEOREM WaitStaysSound == W!Spec => []WaitIsSound
<1>1. WaitInv => WaitIsSound
  BY DEF WaitInv, WaitIsSound
<1>2. QED
  BY <1>1, WaitStarts, WaitKeeps, PTL DEF W!Spec

-----------------------------------------------------------------------------
(* The replay of a trail (dakota_gateway/replay.py).                       *)

Live == {"open", "gone"}
RecorderType == [on : BOOLEAN, lines : Seq({"start", "out", "end"}), manifest : Nat]

ReplayTypes ==
    /\ Len(plan) \in Nat /\ DOMAIN plan = 1..Len(plan)
    /\ place \in 1..(Len(plan) + 1)
    /\ step \in {"event", "wait", "send", "drain", "close", "done"}
    /\ terminal \in [R!Names -> {"none", "open", "gone", "closed", "buried"}]
    /\ output \in [R!Names -> Nat] /\ shownTo \in [R!Names -> Nat] /\ fed \in [R!Names -> Nat]
    /\ recorder \in [R!Names -> RecorderType]
    /\ sent \in Seq(Nat)
    /\ failed \in BOOLEAN

\* One session after the other, the events of a session stand together.
Together ==
    way.order # "global" =>
        \A p, r \in 1..Len(plan) : plan[p].session = plan[r].session =>
            \A q \in p..r : plan[q].session = plan[p].session

\* A step is under way at an event of a session that is there.
AtAnEvent ==
    /\ failed => step \in {"close", "done"}
    /\ step \in {"wait", "send"} => place <= Len(plan) /\ terminal[R!Session] \in Live
    /\ step = "wait" => R!Compares(R!Event)
    /\ step = "send" => R!Types(R!Event)
    /\ step = "done" => failed \/ place = Len(plan) + 1
    /\ step = "done" => \A s \in R!Names : terminal[s] \notin Live

\* A session that was opened is one of the events behind; one that is closed, or
\* is about to be, has none to come.
OpenedInTurn ==
    /\ \A s \in R!Names : terminal[s] # "none" =>
          \E p \in 1..Len(plan) : p <= place /\ plan[p].session = s
    /\ ~failed => \A s \in R!Names :
          terminal[s] \in {"closed", "buried"} \/ (terminal[s] # "none" /\ step \in {"drain", "close"})
             => \A p \in place..Len(plan) : plan[p].session # s

\* One after the other, the session that is there is that of the event.
TheOneOpen ==
    way.order # "global" =>
        /\ \A s, t \in R!Names : terminal[s] \in Live /\ terminal[t] \in Live => s = t
        /\ step \in {"event", "wait", "send"} => \A s \in R!Names : terminal[s] \in Live =>
              place <= Len(plan) /\ s = R!Session

\* What was passed over was met or sent, as the way asks for.
Earned ==
    /\ \A i \in 1..Len(sent) : sent[i] < place
    /\ \A i \in 1..Len(sent) : i > 1 => sent[i - 1] < sent[i]
    /\ way.mismatch = "fail-fast" =>
          /\ \A p \in R!Wanted : p < place => p \in met
          /\ step = "send" /\ place \in R!Wanted => place \in met
    /\ ~failed => \A p \in R!Wanted : p < place /\ plan[p].kind = "check" => p \in met
    /\ way.mismatch # "skip" => \A p \in 1..Len(plan) : p < place /\ R!Types(plan[p]) =>
          (\E i \in 1..Len(sent) : sent[i] = p) \/ terminal[plan[p].session] \in {"gone", "buried"}

\* The recorder of a session lives between its opening and its closing.
Kept(r, many, there) ==
    LET lines == r.lines
        ended == \E k \in 1..Len(lines) : lines[k] = "end"
        outs == Len(lines) - (IF ended THEN 2 ELSE 1)
    IN  /\ \A k \in 1..Len(lines) :
              lines[k] = IF k = 1 THEN "start" ELSE IF ended /\ k = Len(lines) THEN "end" ELSE "out"
        /\ Len(lines) # 0 => outs <= many
        /\ r.on \/ ended => Len(lines) # 0 /\ outs = many
        /\ ended => r.manifest = Len(lines) /\ ~r.on
        /\ ended => there \in {"closed", "buried"}
        /\ there = "none" => r = R!Silent /\ many = 0

ReplayInv ==
    /\ ReplayTypes
    /\ Together
    /\ AtAnEvent
    /\ OpenedInTurn
    /\ TheOneOpen
    /\ Earned
    /\ \A s \in R!Names : Kept(recorder[s], fed[s], terminal[s])

LEMMA SameNumber == \A Group : R!Cardinality(Group) = Cardinality(Group)
BY DEF R!Cardinality, Cardinality

LEMMA FirstOf ==
    ASSUME NEW t, Len(t) \in Nat, DOMAIN t = 1..Len(t), NEW p \in 1..Len(t)
    PROVE  /\ R!First(t, t[p].session) \in 1..Len(t)
           /\ t[R!First(t, t[p].session)].session = t[p].session
<1> DEFINE Of == {k \in Nat : k \in 1..Len(t) /\ t[k].session = t[p].session}
           Less == {pair \in Nat \X Nat : pair[1] < pair[2]}
<1>1. IsWellFoundedOn(Less, Nat)
  BY NatLessThanWellFounded DEF OpToRel
<1>2. PICK m \in Of : \A k \in Of : ~(<<k, m>> \in Less)
  <2>1. p \in Of
    OBVIOUS
  <2> HIDE DEF Less
  <2>2. QED
    BY <1>1, <2>1, WFMin
<1>3. m \in DOMAIN t /\ t[m].session = t[p].session /\ m \in Nat
  OBVIOUS
<1>4. \A q \in 1..(m - 1) : t[q].session # t[p].session
  <2>1. SUFFICES ASSUME NEW q \in 1..(m - 1), t[q].session = t[p].session PROVE FALSE
    OBVIOUS
  <2>2. q \in Nat /\ q < m /\ q \in Of
    BY <1>3, <2>1
  <2>3. <<q, m>> \in Nat \X Nat
    BY <1>3, <2>2
  <2>4. <<q, m>> \in Less
    BY <2>2, <2>3
  <2>5. QED
    BY <1>2, <2>2, <2>4
<1> DEFINE s == t[p].session
<1>5. \E k \in DOMAIN t : t[k].session = s /\ \A q \in 1..(k - 1) : t[q].session # s
  BY <1>3, <1>4
<1> HIDE DEF s
<1>6. R!First(t, s) \in DOMAIN t /\ t[R!First(t, s)].session = s
  BY <1>5 DEF R!First
<1>7. QED
  BY <1>6 DEF s

\* The events of a plan are in a total order.
LEMMA EarlierOrders ==
    ASSUME NEW t, Len(t) \in Nat, DOMAIN t = 1..Len(t), NEW order
    PROVE  /\ \A p \in 1..Len(t) : ~R!Earlier(t, order, p, p)
           /\ \A p, q \in 1..Len(t) : p # q => R!Earlier(t, order, p, q) \/ R!Earlier(t, order, q, p)
           /\ \A p, q, r \in 1..Len(t) :
                 R!Earlier(t, order, p, q) /\ R!Earlier(t, order, q, r) => R!Earlier(t, order, p, r)
           /\ order # "global" => \A p, q \in 1..Len(t) : R!Earlier(t, order, p, q) =>
                 R!First(t, t[p].session) <= R!First(t, t[q].session)
<1> DEFINE n == Len(t)
           first == [p \in 1..n |-> R!First(t, t[p].session)]
<1>1. \A p \in 1..n : first[p] \in Nat /\ first[p] = R!First(t, t[p].session)
  BY FirstOf
<1>2. \A p, q \in 1..n : R!Earlier(t, order, p, q) <=>
         IF order = "global" THEN p < q ELSE first[p] < first[q] \/ (first[p] = first[q] /\ p < q)
  BY <1>1 DEF R!Earlier
<1> HIDE DEF first
<1>3. \A p \in 1..n : ~R!Earlier(t, order, p, p)
  BY <1>1, <1>2
<1>4. \A p, q \in 1..n : p # q => R!Earlier(t, order, p, q) \/ R!Earlier(t, order, q, p)
  <2>1. TAKE p, q \in 1..n
  <2>2. first[p] \in Nat /\ first[q] \in Nat /\ p \in Nat /\ q \in Nat
    BY <1>1
  <2>3. QED
    BY <1>2, <2>2
<1>5. \A p, q, r \in 1..n :
         R!Earlier(t, order, p, q) /\ R!Earlier(t, order, q, r) => R!Earlier(t, order, p, r)
  <2>1. TAKE p, q, r \in 1..n
  <2>2. first[p] \in Nat /\ first[q] \in Nat /\ first[r] \in Nat /\ p \in Nat /\ q \in Nat /\ r \in Nat
    BY <1>1
  <2>3. QED
    BY <1>2, <2>2
<1>6. order # "global" => \A p, q \in 1..n : R!Earlier(t, order, p, q) => first[p] <= first[q]
  BY <1>1, <1>2
<1>7. QED
  BY <1>1, <1>3, <1>4, <1>5, <1>6

\* A plan has the events of its trail, and one session after the other those
\* of a session stand together.
LEMMA PlanTogether ==
    ASSUME NEW t, Len(t) \in Nat, DOMAIN t = 1..Len(t), NEW order
    PROVE  LET made == R!Plan(t, order)
           IN  /\ Len(made) = Len(t) /\ DOMAIN made = 1..Len(t)
               /\ order # "global" => \A i, k \in 1..Len(t) : made[i].session = made[k].session =>
                     \A j \in i..k : made[j].session = made[i].session
<1> DEFINE n == Len(t)
           Ahead(p) == {q \in 1..n : R!Earlier(t, order, q, p)}
           rank == [p \in 1..n |-> Cardinality(Ahead(p))]
           where(i) == CHOOSE p \in 1..n : rank[p] = i - 1
           made == R!Plan(t, order)
<1>1. /\ \A p \in 1..n : ~R!Earlier(t, order, p, p)
      /\ \A p, q \in 1..n : p # q => R!Earlier(t, order, p, q) \/ R!Earlier(t, order, q, p)
      /\ \A p, q, r \in 1..n :
            R!Earlier(t, order, p, q) /\ R!Earlier(t, order, q, r) => R!Earlier(t, order, p, r)
      /\ order # "global" => \A p, q \in 1..n : R!Earlier(t, order, p, q) =>
            R!First(t, t[p].session) <= R!First(t, t[q].session)
  BY EarlierOrders
<1>2. /\ IsFiniteSet(1..n) /\ Cardinality(1..n) = n
      /\ IsFiniteSet(0..(n - 1)) /\ Cardinality(0..(n - 1)) = n
  <2>1. n \in Nat /\ n \in Int /\ 1 \in Int /\ 0 \in Int /\ n - 1 \in Int
    OBVIOUS
  <2> HIDE DEF n
  <2>2. IsFiniteSet(1..n) /\ Cardinality(1..n) = IF 1 > n THEN 0 ELSE n - 1 + 1
    BY <2>1, FS_Interval
  <2>3. IsFiniteSet(0..(n - 1)) /\ Cardinality(0..(n - 1)) = IF 0 > n - 1 THEN 0 ELSE n - 1 - 0 + 1
    BY <2>1, FS_Interval
  <2>4. QED
    BY <2>1, <2>2, <2>3
<1>3. \A p \in 1..n : /\ IsFiniteSet(Ahead(p)) /\ Cardinality(Ahead(p)) \in 0..(n - 1)
  <2>1. TAKE p \in 1..n
  <2>2. Ahead(p) \in SUBSET (1..n) /\ Ahead(p) # 1..n
    BY <1>1
  <2>3. IsFiniteSet(Ahead(p)) /\ Cardinality(Ahead(p)) <= n /\ Cardinality(Ahead(p)) # n
    BY <1>2, <2>2, FS_Subset
  <2>4. Cardinality(Ahead(p)) \in Nat
    BY <2>3, FS_CardinalityType
  <2>5. QED
    BY <2>3, <2>4
<1>4. \A p, q \in 1..n : R!Earlier(t, order, p, q) => rank[p] < rank[q]
  <2>1. SUFFICES ASSUME NEW p \in 1..n, NEW q \in 1..n, R!Earlier(t, order, p, q)
                 PROVE  rank[p] < rank[q]
    OBVIOUS
  <2>2. Ahead(p) \in SUBSET Ahead(q) /\ p \in Ahead(q) /\ p \notin Ahead(p)
    BY <1>1, <2>1
  <2>3. /\ Cardinality(Ahead(p)) <= Cardinality(Ahead(q))
        /\ Cardinality(Ahead(p)) # Cardinality(Ahead(q))
    BY <1>3, <2>2, FS_Subset
  <2>4. Cardinality(Ahead(p)) \in Int /\ Cardinality(Ahead(q)) \in Int
    <3>1. Cardinality(Ahead(p)) \in 0..(n - 1) /\ Cardinality(Ahead(q)) \in 0..(n - 1)
      BY <1>3, Zenon
    <3> HIDE DEF Ahead
    <3>2. QED
      BY <3>1
  <2>5. rank[p] = Cardinality(Ahead(p)) /\ rank[q] = Cardinality(Ahead(q))
    OBVIOUS
  <2> HIDE DEF rank, Ahead
  <2>6. QED
    BY <2>3, <2>4, <2>5
<1>5. rank \in [1..n -> 0..(n - 1)]
  BY <1>3
<1> HIDE DEF rank, Ahead
<1>6. \A i \in 1..n : \E p \in 1..n : rank[p] = i - 1
  <2>1. \A p, q \in 1..n : rank[p] = rank[q] => p = q
    <3>1. TAKE p, q \in 1..n
    <3>2. rank[p] \in Nat /\ rank[q] \in Nat
      BY <1>5
    <3>3. QED
      BY <1>1, <1>4, <3>2
  <2>2. rank \in Injection(1..n, 0..(n - 1))
    BY <1>5, <2>1 DEF Injection, IsInjective
  <2>3. rank \in Surjection(1..n, 0..(n - 1))
    BY <1>2, <2>2, FS_Injection
  <2>4. \A i \in 1..n : i - 1 \in 0..(n - 1)
    OBVIOUS
  <2>5. QED
    BY <2>3, <2>4 DEF Surjection
<1>7. \A i \in 1..n : where(i) \in 1..n /\ rank[where(i)] = i - 1
  BY <1>6
<1> HIDE DEF where
<1>8. /\ DOMAIN made = 1..n
      /\ \A i \in 1..n : made[i] = t[where(i)]
  <2>1. \A i, p \in 1..n : R!Cardinality({q \in DOMAIN t : R!Earlier(t, order, q, p)}) = rank[p]
    BY SameNumber DEF rank, Ahead
  <2>2. made = [i \in DOMAIN t |->
           t[CHOOSE p \in DOMAIN t : R!Cardinality({q \in DOMAIN t : R!Earlier(t, order, q, p)}) = i - 1]]
    BY DEF R!Plan
  <2>3. \A i \in 1..n :
           (CHOOSE p \in DOMAIN t : R!Cardinality({q \in DOMAIN t : R!Earlier(t, order, q, p)}) = i - 1)
             = where(i)
    BY SameNumber DEF where, rank, Ahead
  <2> HIDE DEF made
  <2>4. DOMAIN made = 1..n
    BY <2>2
  <2>5. \A i \in 1..n : made[i] =
           t[CHOOSE p \in DOMAIN t : R!Cardinality({q \in DOMAIN t : R!Earlier(t, order, q, p)}) = i - 1]
    BY <2>2
  <2>6. QED
    BY <2>3, <2>4, <2>5
<1> HIDE DEF made
<1>9. \A i, j \in 1..n : i <= j => where(i) = where(j) \/ R!Earlier(t, order, where(i), where(j))
  <2>1. TAKE i, j \in 1..n
  <2>2. HAVE i <= j
  <2>3. R!Earlier(t, order, where(j), where(i)) => j - 1 < i - 1
    BY <1>4, <1>7
  <2>4. QED
    BY <1>1, <1>7, <2>2, <2>3
<1>10. ASSUME order # "global", NEW i \in 1..n, NEW k \in 1..n, made[i].session = made[k].session,
              NEW j \in i..k
       PROVE  made[j].session = made[i].session
  <2>1. j \in 1..n /\ i <= j /\ j <= k
    OBVIOUS
  <2> DEFINE a == R!First(t, t[where(i)].session)
             b == R!First(t, t[where(j)].session)
             c == R!First(t, t[where(k)].session)
  <2>9. \A p \in 1..n : /\ R!First(t, t[p].session) \in 1..n
                          /\ t[R!First(t, t[p].session)].session = t[p].session
    BY FirstOf
  <2>2. a \in Nat /\ b \in Nat /\ t[a].session = t[where(i)].session /\ t[b].session = t[where(j)].session
    <3>1. where(i) \in 1..n /\ where(j) \in 1..n
      BY <1>7, <2>1
    <3>2. a \in 1..n /\ b \in 1..n
      BY <2>9, <3>1, Zenon
    <3>3. t[a].session = t[where(i)].session /\ t[b].session = t[where(j)].session
      BY <2>9, <3>1, Zenon
    <3> HIDE DEF a, b
    <3>4. QED
      BY <3>2, <3>3
  <2>3. a = c
    BY <1>8, <1>10
  <2>4. a <= b
    <3>1. CASE where(i) = where(j)
      BY <2>2, <3>1
    <3>2. CASE R!Earlier(t, order, where(i), where(j))
      BY <1>1, <1>7, <1>10, <2>1, <3>2
    <3>3. QED
      BY <1>9, <2>1, <3>1, <3>2
  <2>5. b <= c
    <3>1. CASE where(j) = where(k)
      BY <2>2, <3>1
    <3>2. CASE R!Earlier(t, order, where(j), where(k))
      BY <1>1, <1>7, <1>10, <2>1, <3>2
    <3>3. QED
      BY <1>9, <2>1, <3>1, <3>2
  <2> HIDE DEF a, b, c
  <2>6. a = b
    BY <2>2, <2>3, <2>4, <2>5
  <2>7. QED
    BY <1>8, <2>1, <2>2, <2>6
<1>11. Len(made) = n
  <2> DEFINE all == {t[p] : p \in 1..n}
  <2>1. made = [i \in 1..n |-> t[CHOOSE p \in DOMAIN t :
                  R!Cardinality({q \in DOMAIN t : R!Earlier(t, order, q, p)}) = i - 1]]
    BY DEF made, R!Plan
  <2>2. \A i \in 1..n : made[i] \in all
    BY <1>7, <1>8
  <2>3. made \in [1..n -> all]
    <3> HIDE DEF all
    <3>1. QED
      BY <2>1, <2>2
  <2> HIDE DEF all
  <2>4. n \in Nat
    OBVIOUS
  <2> HIDE DEF n
  <2>5. made \in Seq(all)
    BY <2>3, <2>4
  <2>6. QED
    BY <1>8, <2>4, <2>5, LenProperties
<1>12. QED
  BY <1>8, <1>10, <1>11 DEF made

-----------------------------------------------------------------------------
LEMMA ReplayBegins ==
    ASSUME R!Init
    PROVE  ReplayInv
<1>1. PICK t \in Replayed : plan = R!Plan(t, way.order)
  BY DEF R!Init
<1>2. Len(t) \in Nat /\ DOMAIN t = 1..Len(t)
  BY ReplayBounds DEF R!ReplayAssumption
<1> DEFINE n == Len(t)
<1>3. /\ n \in Nat /\ Len(plan) = n /\ DOMAIN plan = 1..n
      /\ way.order # "global" => \A i, k \in 1..n : plan[i].session = plan[k].session =>
            \A j \in i..k : plan[j].session = plan[i].session
  <2>1. n \in Nat
    BY <1>2
  <2> DEFINE made == R!Plan(t, way.order)
  <2>2. /\ Len(made) = n /\ DOMAIN made = 1..n
        /\ way.order # "global" => \A i, k \in 1..n : made[i].session = made[k].session =>
              \A j \in i..k : made[j].session = made[i].session
    BY <1>2, PlanTogether
  <2>3. plan = made
    BY <1>1
  <2> HIDE DEF made, n
  <2>4. QED
    BY <2>1, <2>2, <2>3
<1> HIDE DEF n
<1>4. /\ place = 1 /\ step = "event" /\ sent = <<>> /\ met = {} /\ failed = FALSE
      /\ terminal = [s \in R!Names |-> "none"]
      /\ output = [s \in R!Names |-> 0] /\ shownTo = [s \in R!Names |-> 0]
      /\ fed = [s \in R!Names |-> 0] /\ recorder = [s \in R!Names |-> R!Silent]
  BY DEF R!Init
<1>5. R!Silent \in RecorderType /\ R!Silent.lines = <<>> /\ ~R!Silent.on
  <2>1. <<>> \in Seq({"start", "out", "end"}) /\ 0 \in Nat
    OBVIOUS
  <2>2. QED
    BY <2>1 DEF R!Silent, RecorderType
<1>6. ReplayTypes
  <2>1. recorder \in [R!Names -> RecorderType]
    BY <1>4, <1>5
  <2>2. /\ terminal \in [R!Names -> {"none", "open", "gone", "closed", "buried"}]
        /\ output \in [R!Names -> Nat] /\ shownTo \in [R!Names -> Nat] /\ fed \in [R!Names -> Nat]
    BY <1>4
  <2>3. Len(plan) \in Nat /\ place \in 1..(Len(plan) + 1)
    BY <1>3, <1>4
  <2>4. sent \in Seq(Nat) /\ failed \in BOOLEAN
    <3>1. <<>> \in Seq(Nat)
      OBVIOUS
    <3>2. QED
      BY <1>4, <3>1, Zenon
  <2>5. QED
    BY <1>3, <1>4, <2>1, <2>2, <2>3, <2>4, Zenon DEF ReplayTypes
<1>7. Together
  BY <1>3 DEF Together
<1>8. AtAnEvent
  BY <1>4 DEF AtAnEvent
<1>9. OpenedInTurn
  BY <1>4 DEF OpenedInTurn
<1>10. TheOneOpen
  BY <1>4 DEF TheOneOpen, Live
<1>11. Earned
  BY <1>3, <1>4 DEF Earned, R!Wanted
<1>12. ASSUME NEW s \in R!Names PROVE Kept(recorder[s], fed[s], terminal[s])
  <2>1. recorder[s] = R!Silent /\ fed[s] = 0 /\ terminal[s] = "none"
    BY <1>4
  <2>2. recorder[s].lines = <<>> /\ Len(recorder[s].lines) = 0 /\ ~recorder[s].on
    BY <1>5, <2>1
  <2>3. QED
    BY <2>1, <2>2 DEF Kept
<1>13. QED
  BY <1>6, <1>7, <1>8, <1>9, <1>10, <1>11, <1>12 DEF ReplayInv

-----------------------------------------------------------------------------
\* What depends on nothing that a step changed.
LEMMA SamePlan ==
    ASSUME UNCHANGED <<plan, way>>
    PROVE  /\ R!Names' = R!Names /\ R!Wanted' = R!Wanted
           /\ Together => Together'
BY DEF R!Names, R!Wanted, R!Compares, Together

LEMMA EventsSession ==
    ASSUME ReplayInv
    PROVE  /\ place <= Len(plan) => place \in 1..Len(plan)
           /\ place \in 1..Len(plan) =>
                 plan[place].session = R!Session /\ R!Session \in R!Names
           /\ \A p \in 1..Len(plan) : plan[p].session \in R!Names
<1>1. Len(plan) \in Nat /\ DOMAIN plan = 1..Len(plan) /\ place \in 1..(Len(plan) + 1)
  BY DEF ReplayInv, ReplayTypes
<1>2. \A p \in DOMAIN plan : plan[p].session \in R!Names
  BY Zenon DEF R!Names
<1>3. R!Session = plan[place].session
  BY DEF R!Session, R!Event
<1>4. QED
  BY <1>1, <1>2, <1>3

LEMMA ShowStep ==
    ASSUME ReplayInv, NEW s \in R!Names, R!Show(s)
    PROVE  ReplayInv'
<1>1. /\ UNCHANGED <<plan, way, place, step, terminal, fed, recorder, sent, met, failed>>
      /\ output' = [output EXCEPT ![s] = @ + 1]
      /\ shownTo' = [shownTo EXCEPT ![s] = @ + 1]
  BY DEF R!Show
<1>2. R!Names' = R!Names /\ R!Wanted' = R!Wanted /\ Together'
  BY <1>1, SamePlan DEF ReplayInv
<1>3. ReplayTypes'
  <2>1. output' \in [R!Names -> Nat] /\ shownTo' \in [R!Names -> Nat]
    BY <1>1 DEF ReplayInv, ReplayTypes
  <2>2. QED
    BY <1>1, <1>2, <2>1 DEF ReplayInv, ReplayTypes
<1>4. AtAnEvent' /\ OpenedInTurn' /\ TheOneOpen'
  BY <1>1, <1>2 DEF ReplayInv, AtAnEvent, OpenedInTurn, TheOneOpen, R!Session, R!Event, R!Compares, R!Types
<1>5. Earned'
  BY <1>1, <1>2 DEF ReplayInv, Earned, R!Types
<1>6. \A x \in R!Names : Kept(recorder[x], fed[x], terminal[x])'
  BY <1>1 DEF ReplayInv
<1>7. QED
  BY <1>2, <1>3, <1>4, <1>5, <1>6 DEF ReplayInv

LEMMA DieStep ==
    ASSUME ReplayInv, NEW s \in R!Names, R!Die(s)
    PROVE  ReplayInv'
<1>1. /\ UNCHANGED <<plan, way, place, step, output, shownTo, fed, recorder, sent, met, failed>>
      /\ terminal[s] = "open" /\ terminal' = [terminal EXCEPT ![s] = "gone"]
  BY DEF R!Die
<1>2. R!Names' = R!Names /\ R!Wanted' = R!Wanted /\ Together'
  BY <1>1, SamePlan DEF ReplayInv
<1>3. ReplayTypes'
  BY <1>1, <1>2 DEF ReplayInv, ReplayTypes
<1>4. \A x \in R!Names : /\ terminal'[x] = terminal[x] \/ (x = s /\ terminal'[x] = "gone")
                         /\ terminal'[s] = "gone"
  BY <1>1 DEF ReplayInv, ReplayTypes
<1>5. place <= Len(plan) => R!Session \in R!Names
  BY EventsSession
<1>6. UNCHANGED R!Session /\ UNCHANGED R!Compares(R!Event) /\ UNCHANGED R!Types(R!Event)
  BY <1>1 DEF R!Session, R!Event, R!Compares, R!Types
<1>7. AtAnEvent'
  BY <1>1, <1>2, <1>4, <1>5, <1>6 DEF ReplayInv, AtAnEvent, Live
<1>8. OpenedInTurn'
  BY <1>1, <1>2, <1>4 DEF ReplayInv, OpenedInTurn
<1>9. TheOneOpen'
  BY <1>1, <1>2, <1>4, <1>6 DEF ReplayInv, TheOneOpen, Live
<1>10. Earned'
  <2>1. \A p \in 1..Len(plan) : plan[p].session \in R!Names
    BY EventsSession
  <2>2. QED
    BY <1>1, <1>2, <1>4, <2>1 DEF ReplayInv, Earned, R!Types
<1>11. ASSUME NEW x \in R!Names PROVE Kept(recorder[x], fed[x], terminal[x])'
  <2>1. Kept(recorder[x], fed[x], terminal[x])
    BY DEF ReplayInv
  <2>2. CASE x # s
    BY <1>1, <1>4, <2>1, <2>2
  <2>3. CASE x = s
    BY <1>1, <1>4, <2>1, <2>3 DEF Kept
  <2>4. QED
    BY <2>2, <2>3
<1>12. QED
  BY <1>2, <1>3, <1>7, <1>8, <1>9, <1>10, <1>11 DEF ReplayInv

LEMMA TurnedOn ==
    ASSUME NEW r, NEW on, NEW to, NEW lines, NEW manifest,
           r = [on |-> on, lines |-> lines, manifest |-> manifest]
    PROVE  [r EXCEPT !.on = to] = [on |-> to, lines |-> lines, manifest |-> manifest]
OBVIOUS

LEMMA OpenStep ==
    ASSUME ReplayInv, R!Open
    PROVE  ReplayInv'
<1> DEFINE s == R!Session
<1>1. /\ UNCHANGED <<plan, way, place, step, output, shownTo, fed, sent, met, failed>>
      /\ step = "event" /\ place <= Len(plan)
      /\ terminal[s] = "none" /\ terminal' = [terminal EXCEPT ![s] = "open"]
  BY DEF R!Open, R!MustOpen
<1>2. PICK r \in R!Begins : recorder' = [recorder EXCEPT ![s] = r]
  BY DEF R!Open
<1>3. R!Names' = R!Names /\ R!Wanted' = R!Wanted /\ Together'
  BY <1>1, SamePlan DEF ReplayInv
<1>4. place \in 1..Len(plan) /\ plan[place].session = s /\ s \in R!Names
  BY <1>1, EventsSession
<1>5. UNCHANGED s
  BY <1>1 DEF R!Session, R!Event
<1>6. /\ r \in RecorderType
      /\ \/ r = R!Silent
         \/ r.lines = <<>> /\ ~r.on
         \/ r.lines = <<"start">> /\ r.on
  <2>1. <<>> \in Seq({"start", "out", "end"}) /\ <<"start">> \in Seq({"start", "out", "end"}) /\ 0 \in Nat
    OBVIOUS
  <2>2. Append(<<>>, "start") = <<"start">>
    OBVIOUS
  <2>3. R!Recording = [on |-> TRUE, lines |-> <<>>, manifest |-> 0]
    <3>1. R!Recording = [R!Silent EXCEPT !.on = TRUE]
      BY DEF R!Recording
    <3>2. R!Silent = [on |-> FALSE, lines |-> <<>>, manifest |-> 0]
      BY DEF R!Silent
    <3> HIDE DEF s
    <3>3. QED
      BY <3>1, <3>2, TurnedOn
  <2>4. r \in {R!Silent, [on |-> FALSE, lines |-> <<>>, manifest |-> 0],
                         [on |-> TRUE, lines |-> <<"start">>, manifest |-> 0]}
    BY <2>2, <2>3, Zenon DEF R!Begins, R!AppendLine
  <2>5. QED
    <3>1. CASE r = R!Silent
      BY <2>1, <3>1 DEF RecorderType, R!Silent
    <3>2. CASE r = [on |-> FALSE, lines |-> <<>>, manifest |-> 0]
      BY <2>1, <3>2 DEF RecorderType
    <3>3. CASE r = [on |-> TRUE, lines |-> <<"start">>, manifest |-> 0]
      BY <2>1, <3>3 DEF RecorderType
    <3>4. QED
      BY <2>4, <3>1, <3>2, <3>3
<1> HIDE DEF s
<1>7. ReplayTypes'
  <2>1. recorder' \in [R!Names -> RecorderType]
    BY <1>2, <1>4, <1>6 DEF ReplayInv, ReplayTypes
  <2>2. terminal' \in [R!Names -> {"none", "open", "gone", "closed", "buried"}]
    BY <1>1 DEF ReplayInv, ReplayTypes
  <2>3. QED
    BY <1>1, <1>3, <2>1, <2>2 DEF ReplayInv, ReplayTypes
<1>8. \A x \in R!Names : terminal'[x] = IF x = s THEN "open" ELSE terminal[x]
  BY <1>1 DEF ReplayInv, ReplayTypes
<1>9. AtAnEvent'
  BY <1>1, <1>3, <1>8 DEF ReplayInv, AtAnEvent, Live
<1>10. OpenedInTurn'
  BY <1>1, <1>3, <1>4, <1>8 DEF ReplayInv, OpenedInTurn
<1>11. TheOneOpen'
  BY <1>1, <1>3, <1>4, <1>5, <1>8 DEF ReplayInv, TheOneOpen, Live, s
<1>12. Earned'
  <2>1. \A p \in 1..Len(plan) : plan[p].session \in R!Names
    BY EventsSession
  <2>2. QED
    BY <1>1, <1>3, <1>8, <2>1 DEF ReplayInv, Earned, R!Types
<1>13. ASSUME NEW x \in R!Names PROVE Kept(recorder[x], fed[x], terminal[x])'
  <2>1. Kept(recorder[x], fed[x], terminal[x])
    BY DEF ReplayInv
  <2>2. CASE x # s
    <3>1. recorder'[x] = recorder[x] /\ terminal'[x] = terminal[x]
      BY <1>2, <1>8, <2>2 DEF ReplayInv, ReplayTypes
    <3>2. QED
      BY <1>1, <2>1, <3>1
  <2>3. CASE x = s
    <3>1. recorder'[x] = r /\ terminal'[x] = "open" /\ fed'[x] = 0
      BY <1>1, <1>2, <1>8, <2>1, <2>3 DEF ReplayInv, ReplayTypes, Kept
    <3>2. CASE r.lines = <<>> /\ ~r.on
      <4>1. recorder'[x].lines = <<>> /\ ~recorder'[x].on /\ Len(recorder'[x].lines) = 0
        BY <3>1, <3>2
      <4>2. QED
        BY <3>1, <4>1 DEF Kept
    <3>3. CASE r.lines = <<"start">> /\ r.on
      BY <3>1, <3>3 DEF Kept
    <3>4. r = R!Silent => r.lines = <<>> /\ ~r.on
      BY DEF R!Silent
    <3>5. QED
      BY <1>6, <3>2, <3>3, <3>4
  <2>4. QED
    BY <2>2, <2>3
<1>14. QED
  BY <1>3, <1>7, <1>9, <1>10, <1>11, <1>12, <1>13 DEF ReplayInv

LEMMA OpenFailsStep ==
    ASSUME ReplayInv, R!OpenFails
    PROVE  ReplayInv'
<1>1. /\ UNCHANGED <<plan, way, place, terminal, output, shownTo, fed, recorder, sent, met>>
      /\ step = "event" /\ step' = "close" /\ failed' = TRUE
  BY DEF R!OpenFails, R!target
<1>2. R!Names' = R!Names /\ R!Wanted' = R!Wanted /\ Together'
  BY <1>1, SamePlan DEF ReplayInv
<1>3. ReplayTypes'
  BY <1>1, <1>2 DEF ReplayInv, ReplayTypes
<1>4. AtAnEvent' /\ TheOneOpen'
  BY <1>1, <1>2 DEF ReplayInv, AtAnEvent, TheOneOpen
<1>5. OpenedInTurn'
  BY <1>1, <1>2 DEF ReplayInv, OpenedInTurn
<1>6. Earned'
  BY <1>1, <1>2 DEF ReplayInv, Earned, R!Types
<1>7. \A x \in R!Names : Kept(recorder[x], fed[x], terminal[x])'
  BY <1>1 DEF ReplayInv
<1>8. QED
  BY <1>2, <1>3, <1>4, <1>5, <1>6, <1>7 DEF ReplayInv

\* An event is done with: what holds of the place and of the sessions holds of
\* the next place.
LEMMA GoStep ==
    ASSUME ReplayInv, R!Go, step \in {"event", "wait", "send"}, place <= Len(plan),
           UNCHANGED <<plan, way, terminal, failed>>
    PROVE  /\ place' = place + 1 /\ place' \in 1..(Len(plan) + 1)
           /\ step' \in {"event", "drain"} /\ ~failed
           /\ Together' /\ AtAnEvent' /\ OpenedInTurn' /\ TheOneOpen'
           /\ R!Names' = R!Names /\ R!Wanted' = R!Wanted
<1> DEFINE last == place = Len(plan) \/ plan[place + 1].session # R!Session
<1>1. /\ place' = place + 1
      /\ step' = IF place = Len(plan) \/ (way.order # "global" /\ last) THEN "drain" ELSE "event"
      /\ R!LastOfSession = last
  BY DEF R!Go, R!LastOfSession
<1>2. R!Names' = R!Names /\ R!Wanted' = R!Wanted /\ Together'
  BY SamePlan DEF ReplayInv
<1>3. /\ Len(plan) \in Nat /\ place \in 1..Len(plan)
      /\ plan[place].session = R!Session /\ R!Session \in R!Names
  BY EventsSession DEF ReplayInv, ReplayTypes
<1>4. step' \in {"event", "drain"} /\ place' \in 1..(Len(plan) + 1) /\ ~failed
  BY <1>1, <1>3 DEF ReplayInv, AtAnEvent
<1>5. AtAnEvent'
  BY <1>4 DEF AtAnEvent
<1>6. ASSUME step' = "drain", NEW s \in R!Names, terminal[s] # "none",
             terminal[s] \notin {"closed", "buried"}, NEW p \in (place + 1)..Len(plan)
      PROVE  plan[p].session # s
  <2>1. place + 1 <= p /\ p <= Len(plan) /\ place # Len(plan)
    BY <1>3, <1>6
  <2>2. way.order # "global" /\ plan[place + 1].session # R!Session
    BY <1>1, <1>3, <1>6, <2>1
  <2>3. terminal[s] \in Live
    BY <1>6 DEF ReplayInv, ReplayTypes, Live
  <2>4. s = R!Session
    BY <1>6, <2>2, <2>3 DEF ReplayInv, TheOneOpen
  <2>5. place \in 1..Len(plan) /\ p \in 1..Len(plan) /\ place + 1 \in place..p
    BY <1>3, <2>1
  <2>6. plan[p].session = plan[place].session => plan[place + 1].session = plan[place].session
    BY <2>2, <2>5 DEF ReplayInv, Together
  <2>7. QED
    BY <1>3, <2>2, <2>4, <2>6
<1>7. OpenedInTurn'
  <2>1. ASSUME NEW s \in R!Names, terminal[s] # "none"
        PROVE  \E p \in 1..Len(plan) : p <= place + 1 /\ plan[p].session = s
    <3>1. PICK p \in 1..Len(plan) : p <= place /\ plan[p].session = s
      BY <2>1 DEF ReplayInv, OpenedInTurn
    <3>2. p <= place + 1
      BY <1>3, <3>1
    <3>3. QED
      BY <3>1, <3>2
  <2>2. ASSUME NEW s \in R!Names,
               terminal[s] \in {"closed", "buried"} \/ (terminal[s] # "none" /\ step' = "drain"),
               NEW p \in (place + 1)..Len(plan)
        PROVE  plan[p].session # s
    <3>1. CASE terminal[s] \in {"closed", "buried"}
      <4>1. p \in place..Len(plan)
        BY <1>3
      <4>2. QED
        BY <1>4, <3>1, <4>1 DEF ReplayInv, OpenedInTurn
    <3>2. CASE terminal[s] \notin {"closed", "buried"}
      BY <1>6, <2>2, <3>2
    <3>3. QED
      BY <3>1, <3>2
  <2>3. QED
    BY <1>1, <1>2, <1>4, <2>1, <2>2 DEF OpenedInTurn
<1>8. TheOneOpen'
  <2>1. ASSUME way.order # "global", step' = "event", NEW s \in R!Names, terminal[s] \in Live
        PROVE  place + 1 <= Len(plan) /\ s = plan[place + 1].session
    <3>1. place # Len(plan) /\ plan[place + 1].session = R!Session
      BY <1>1, <2>1
    <3>2. s = R!Session
      BY <2>1 DEF ReplayInv, TheOneOpen
    <3>3. QED
      BY <1>3, <3>1, <3>2
  <2>2. R!Session' = plan[place + 1].session
    BY <1>1 DEF R!Session, R!Event
  <2>3. way.order # "global" =>
           \A s, t \in R!Names : terminal[s] \in Live /\ terminal[t] \in Live => s = t
    BY DEF ReplayInv, TheOneOpen
  <2>4. QED
    BY <1>1, <1>2, <1>4, <2>1, <2>2, <2>3 DEF TheOneOpen
<1> HIDE DEF last
<1>9. QED
  BY <1>1, <1>2, <1>4, <1>5, <1>7, <1>8

LEMMA PassStep ==
    ASSUME ReplayInv, R!Pass
    PROVE  ReplayInv'
<1>1. /\ UNCHANGED <<plan, way, terminal, output, shownTo, fed, recorder, sent, met, failed>>
      /\ step = "event" /\ place <= Len(plan) /\ R!Go
      /\ ~R!Types(plan[place]) /\ ~R!Compares(plan[place])
  BY DEF R!Pass, R!target, R!Event
<1>2. /\ place' = place + 1 /\ place' \in 1..(Len(plan) + 1)
      /\ step' \in {"event", "drain"}
      /\ Together' /\ AtAnEvent' /\ OpenedInTurn' /\ TheOneOpen'
      /\ R!Names' = R!Names /\ R!Wanted' = R!Wanted
  BY <1>1, GoStep
<1>3. ReplayTypes'
  BY <1>1, <1>2 DEF ReplayInv, ReplayTypes
<1>4. Earned'
  <2>1. place \notin R!Wanted
    BY <1>1 DEF R!Wanted
  <2>2. \A p \in 1..Len(plan) : p < place + 1 => p < place \/ p = place
    BY DEF ReplayInv, ReplayTypes
  <2>3. R!Wanted \in SUBSET (1..Len(plan))
    BY DEF ReplayInv, ReplayTypes, R!Wanted
  <2>4. \A i \in 1..Len(sent) : sent[i] < place + 1
    BY DEF ReplayInv, ReplayTypes, Earned
  <2>5. QED
    BY <1>1, <1>2, <2>1, <2>2, <2>3, <2>4 DEF ReplayInv, Earned, R!Types
<1>5. \A x \in R!Names : Kept(recorder[x], fed[x], terminal[x])'
  BY <1>1 DEF ReplayInv
<1>6. QED
  BY <1>2, <1>3, <1>4, <1>5 DEF ReplayInv

LEMMA BeginStep ==
    ASSUME ReplayInv, R!Begin
    PROVE  ReplayInv'
<1>1. /\ UNCHANGED <<plan, way, place, terminal, output, shownTo, fed, recorder, sent, met, failed>>
      /\ step = "event" /\ place <= Len(plan)
      /\ terminal[R!Session] # "none"
      /\ R!Types(R!Event) \/ R!Compares(R!Event)
      /\ step' = IF R!Compares(R!Event) THEN "wait" ELSE "send"
  BY DEF R!Begin, R!MustOpen, R!target
<1>2. R!Names' = R!Names /\ R!Wanted' = R!Wanted /\ Together'
  BY <1>1, SamePlan DEF ReplayInv
<1>3. ReplayTypes'
  BY <1>1, <1>2 DEF ReplayInv, ReplayTypes
<1>4. ~failed
  BY <1>1 DEF ReplayInv, AtAnEvent
<1>5. place \in 1..Len(plan) /\ plan[place].session = R!Session /\ R!Session \in R!Names
  BY <1>1, EventsSession
<1>6. terminal[R!Session] \in Live
  <2>1. place \in place..Len(plan)
    BY <1>5 DEF ReplayInv, ReplayTypes
  <2>2. terminal[R!Session] \notin {"closed", "buried"}
    BY <1>4, <1>5, <2>1 DEF ReplayInv, OpenedInTurn
  <2>3. QED
    BY <1>1, <1>5, <2>2 DEF ReplayInv, ReplayTypes, Live
<1>7. UNCHANGED R!Session /\ UNCHANGED R!Compares(R!Event) /\ UNCHANGED R!Types(R!Event)
  BY <1>1 DEF R!Session, R!Event, R!Compares, R!Types
<1>8. AtAnEvent'
  BY <1>1, <1>2, <1>4, <1>6, <1>7 DEF AtAnEvent
<1>9. OpenedInTurn'
  BY <1>1, <1>2 DEF ReplayInv, OpenedInTurn
<1>10. TheOneOpen'
  BY <1>1, <1>2, <1>7 DEF ReplayInv, TheOneOpen
<1>11. Earned'
  <2>1. place \in R!Wanted => R!Compares(R!Event)
    BY DEF R!Wanted, R!Event
  <2>2. QED
    BY <1>1, <1>2, <2>1 DEF ReplayInv, Earned, R!Types
<1>12. \A x \in R!Names : Kept(recorder[x], fed[x], terminal[x])'
  BY <1>1 DEF ReplayInv
<1>13. QED
  BY <1>2, <1>3, <1>8, <1>9, <1>10, <1>11, <1>12 DEF ReplayInv

\* What a line more makes of what a recorder keeps.
LEMMA AppendedIs ==
    ASSUME NEW r \in RecorderType, NEW line \in {"start", "out", "end"}, NEW x \in R!AppendLine(r, line)
    PROVE  /\ x \in RecorderType
           /\ \/ ~r.on /\ x = r
              \/ r.on /\ x.lines = r.lines /\ ~x.on
              \/ /\ r.on /\ x.on /\ Len(x.lines) = Len(r.lines) + 1
                 /\ \A k \in 1..Len(r.lines) : x.lines[k] = r.lines[k]
                 /\ x.lines[Len(r.lines) + 1] = line
<1> DEFINE S == {"start", "out", "end"}
<1>1. /\ r.on \in BOOLEAN /\ r.lines \in Seq(S) /\ r.manifest \in Nat
      /\ r = [on |-> r.on, lines |-> r.lines, manifest |-> r.manifest]
  BY DEF RecorderType
<1>2. /\ Append(r.lines, line) \in Seq(S)
      /\ Len(Append(r.lines, line)) = Len(r.lines) + 1
      /\ \A k \in 1..Len(r.lines) : Append(r.lines, line)[k] = r.lines[k]
      /\ Append(r.lines, line)[Len(r.lines) + 1] = line
  <2>1. line \in S
    OBVIOUS
  <2> HIDE DEF S
  <2>2. QED
    BY <1>1, <2>1, AppendProperties
<1>3. CASE ~r.on
  BY <1>3 DEF R!AppendLine
<1>4. CASE r.on /\ x = [r EXCEPT !.lines = Append(@, line)]
  <2>1. x.on = r.on /\ x.lines = Append(r.lines, line)
    BY <1>1, <1>4
  <2>2. x \in RecorderType
    BY <1>1, <1>2, <1>4 DEF RecorderType
  <2>3. QED
    BY <1>2, <1>4, <2>1, <2>2
<1>5. CASE r.on /\ x = [r EXCEPT !.on = FALSE]
  <2>1. ~x.on /\ x.lines = r.lines
    BY <1>1, <1>5
  <2>2. x \in RecorderType
    BY <1>1, <1>5 DEF RecorderType
  <2>3. QED
    BY <1>5, <2>1, <2>2
<1>6. QED
  BY <1>3, <1>4, <1>5 DEF R!AppendLine

LEMMA KeptGoing ==
    ASSUME NEW r \in RecorderType, NEW many \in Nat, NEW there, there # "none",
           \A k \in 1..Len(r.lines) : r.lines[k] = IF k = 1 THEN "start" ELSE "out",
           Len(r.lines) # 0 => Len(r.lines) - 1 <= many,
           r.on => Len(r.lines) # 0 /\ Len(r.lines) - 1 = many
    PROVE  Kept(r, many, there)
<1> DEFINE ended == \E k \in 1..Len(r.lines) : r.lines[k] = "end"
<1>1. ~ended
  <2>1. \A k \in 1..Len(r.lines) : r.lines[k] # "end"
    OBVIOUS
  <2>2. QED
    BY <2>1, Zenon
<1>2. SUFFICES
         /\ \A k \in 1..Len(r.lines) :
               r.lines[k] = IF k = 1 THEN "start" ELSE IF ended /\ k = Len(r.lines) THEN "end" ELSE "out"
         /\ Len(r.lines) # 0 => Len(r.lines) - (IF ended THEN 2 ELSE 1) <= many
         /\ r.on => Len(r.lines) # 0 /\ Len(r.lines) - (IF ended THEN 2 ELSE 1) = many
  BY <1>1, Zenon DEF Kept
<1> HIDE DEF ended
<1>3. QED
  BY <1>1

LEMMA KeptEnded ==
    ASSUME NEW r \in RecorderType, NEW many \in Nat, NEW there \in {"closed", "buried"},
           \A k \in 1..Len(r.lines) :
              r.lines[k] = IF k = 1 THEN "start" ELSE IF k = Len(r.lines) THEN "end" ELSE "out",
           Len(r.lines) >= 2, Len(r.lines) - 2 = many, r.manifest = Len(r.lines), ~r.on
    PROVE  Kept(r, many, there)
<1> DEFINE ended == \E k \in 1..Len(r.lines) : r.lines[k] = "end"
<1>1. ended
  <2>1. Len(r.lines) \in Nat
    BY DEF RecorderType
  <2>2. Len(r.lines) \in 1..Len(r.lines) /\ r.lines[Len(r.lines)] = "end"
    BY <2>1
  <2>3. QED
    BY <2>2, Zenon
<1>2. SUFFICES
         /\ \A k \in 1..Len(r.lines) :
               r.lines[k] = IF k = 1 THEN "start" ELSE IF ended /\ k = Len(r.lines) THEN "end" ELSE "out"
         /\ Len(r.lines) # 0 /\ Len(r.lines) - (IF ended THEN 2 ELSE 1) = many
         /\ Len(r.lines) - (IF ended THEN 2 ELSE 1) <= many
         /\ there # "none"
  BY <1>1, Zenon DEF Kept
<1> HIDE DEF ended
<1>3. QED
  BY <1>1 DEF RecorderType

LEMMA FedIsKept ==
    ASSUME NEW r \in RecorderType, NEW x \in R!AppendLine(r, "out"), NEW many \in Nat,
           NEW there \in Live, Kept(r, many, there)
    PROVE  x \in RecorderType /\ Kept(x, many + 1, there)
<1>1. /\ x \in RecorderType
      /\ \/ ~r.on /\ x = r
         \/ r.on /\ x.lines = r.lines /\ ~x.on
         \/ /\ r.on /\ x.on /\ Len(x.lines) = Len(r.lines) + 1
            /\ \A k \in 1..Len(r.lines) : x.lines[k] = r.lines[k]
            /\ x.lines[Len(r.lines) + 1] = "out"
  BY AppendedIs
<1>2. Len(r.lines) \in Nat /\ Len(x.lines) \in Nat
  BY <1>1 DEF RecorderType
<1>3. there # "none" /\ there \notin {"closed", "buried"}
  BY DEF Live
<1>4. /\ \A k \in 1..Len(r.lines) : r.lines[k] # "end"
      /\ \A k \in 1..Len(r.lines) : r.lines[k] = IF k = 1 THEN "start" ELSE "out"
      /\ Len(r.lines) # 0 => Len(r.lines) - 1 <= many
      /\ r.on => Len(r.lines) # 0 /\ Len(r.lines) - 1 = many
  BY <1>3 DEF Kept
<1>5. CASE x.lines = r.lines /\ ~x.on
  BY <1>1, <1>2, <1>3, <1>4, <1>5, KeptGoing
<1>6. CASE /\ r.on /\ x.on /\ Len(x.lines) = Len(r.lines) + 1
           /\ \A k \in 1..Len(r.lines) : x.lines[k] = r.lines[k]
           /\ x.lines[Len(r.lines) + 1] = "out"
  <2>1. \A k \in 1..Len(x.lines) : k \in 1..Len(r.lines) \/ k = Len(r.lines) + 1
    BY <1>2, <1>6
  <2>3. \A k \in 1..Len(x.lines) : x.lines[k] = IF k = 1 THEN "start" ELSE "out"
    BY <1>2, <1>4, <1>6, <2>1
  <2>4. QED
    BY <1>1, <1>2, <1>3, <1>4, <1>6, <2>3, KeptGoing
<1>7. QED
  BY <1>1, <1>5, <1>6

LEMMA EndIsKept ==
    ASSUME NEW r \in RecorderType, NEW x \in R!Ends(r), NEW many \in Nat,
           NEW there \in Live, NEW after \in {"closed", "buried"}, Kept(r, many, there)
    PROVE  x \in RecorderType /\ Kept(x, many, after)
<1>1. PICK y \in R!AppendLine(r, "end") : x = [y EXCEPT !.manifest = Len(y.lines), !.on = FALSE]
  BY DEF R!Ends
<1>2. /\ y \in RecorderType
      /\ \/ ~r.on /\ y = r
         \/ r.on /\ y.lines = r.lines /\ ~y.on
         \/ /\ r.on /\ y.on /\ Len(y.lines) = Len(r.lines) + 1
            /\ \A k \in 1..Len(r.lines) : y.lines[k] = r.lines[k]
            /\ y.lines[Len(r.lines) + 1] = "end"
  BY AppendedIs
<1>3. Len(r.lines) \in Nat /\ Len(y.lines) \in Nat
  BY <1>2 DEF RecorderType
<1>4. /\ x = [on |-> FALSE, lines |-> y.lines, manifest |-> Len(y.lines)]
      /\ x \in RecorderType
  BY <1>1, <1>2, <1>3 DEF RecorderType
<1>5. ~x.on /\ x.lines = y.lines /\ x.manifest = Len(y.lines)
  BY <1>4
<1>6. there # "none" /\ there \notin {"closed", "buried"} /\ after # "none"
  BY DEF Live
<1>7. /\ \A k \in 1..Len(r.lines) : r.lines[k] # "end"
      /\ \A k \in 1..Len(r.lines) : r.lines[k] = IF k = 1 THEN "start" ELSE "out"
      /\ Len(r.lines) # 0 => Len(r.lines) - 1 <= many
      /\ r.on => Len(r.lines) # 0 /\ Len(r.lines) - 1 = many
  BY <1>6 DEF Kept
<1>8. CASE x.lines = r.lines
  BY <1>3, <1>4, <1>5, <1>6, <1>7, <1>8, KeptGoing
<1>9. CASE /\ r.on /\ Len(y.lines) = Len(r.lines) + 1
           /\ \A k \in 1..Len(r.lines) : y.lines[k] = r.lines[k]
           /\ y.lines[Len(r.lines) + 1] = "end"
  <2>1. \A k \in 1..Len(y.lines) : k \in 1..Len(r.lines) \/ k = Len(r.lines) + 1
    BY <1>3, <1>9
  <2>2. \A k \in 1..Len(y.lines) :
           y.lines[k] = IF k = 1 THEN "start" ELSE IF k = Len(y.lines) THEN "end" ELSE "out"
    BY <1>3, <1>7, <1>9, <2>1
  <2>3. Len(y.lines) >= 2 /\ Len(y.lines) - 2 = many
    BY <1>3, <1>7, <1>9
  <2>4. QED
    BY <1>4, <1>5, <2>2, <2>3, KeptEnded
<1>10. QED
  BY <1>2, <1>4, <1>5, <1>8, <1>9

LEMMA ReadMoreStep ==
    ASSUME ReplayInv, NEW s \in R!Names, R!Read(s)
    PROVE  ReplayInv'
<1>1. /\ UNCHANGED <<plan, way, place, step, terminal, shownTo, sent, met, failed>>
      /\ terminal[s] \in Live /\ output[s] > 0
      /\ output' = [output EXCEPT ![s] = @ - 1]
      /\ fed' = [fed EXCEPT ![s] = @ + 1]
  BY DEF R!Read, Live
<1>2. PICK r \in R!AppendLine(recorder[s], "out") : recorder' = [recorder EXCEPT ![s] = r]
  BY DEF R!Read
<1>3. R!Names' = R!Names /\ R!Wanted' = R!Wanted /\ Together'
  BY <1>1, SamePlan DEF ReplayInv
<1>4. recorder[s] \in RecorderType /\ fed[s] \in Nat /\ Kept(recorder[s], fed[s], terminal[s])
  BY DEF ReplayInv, ReplayTypes
<1>5. r \in RecorderType /\ Kept(r, fed[s] + 1, terminal[s])
  BY <1>1, <1>4, FedIsKept
<1>6. ReplayTypes'
  <2>1. recorder' \in [R!Names -> RecorderType]
    BY <1>2, <1>5 DEF ReplayInv, ReplayTypes
  <2>2. output' \in [R!Names -> Nat] /\ fed' \in [R!Names -> Nat]
    BY <1>1 DEF ReplayInv, ReplayTypes
  <2>3. QED
    BY <1>1, <1>3, <2>1, <2>2 DEF ReplayInv, ReplayTypes
<1>7. AtAnEvent' /\ OpenedInTurn' /\ TheOneOpen'
  BY <1>1, <1>3 DEF ReplayInv, AtAnEvent, OpenedInTurn, TheOneOpen, R!Session, R!Event, R!Compares, R!Types
<1>8. Earned'
  BY <1>1, <1>3 DEF ReplayInv, Earned, R!Types
<1>9. ASSUME NEW x \in R!Names PROVE Kept(recorder[x], fed[x], terminal[x])'
  <2>1. recorder'[x] = IF x = s THEN r ELSE recorder[x]
    BY <1>2 DEF ReplayInv, ReplayTypes
  <2>2. fed'[x] = IF x = s THEN fed[x] + 1 ELSE fed[x]
    BY <1>1 DEF ReplayInv, ReplayTypes
  <2>3. Kept(recorder[x], fed[x], terminal[x])
    BY DEF ReplayInv
  <2>4. QED
    BY <1>1, <1>5, <2>1, <2>2, <2>3
<1>10. QED
  BY <1>3, <1>6, <1>7, <1>8, <1>9 DEF ReplayInv

LEMMA CloseStep ==
    ASSUME ReplayInv, NEW s \in R!Names, R!Close(s)
    PROVE  ReplayInv'
<1>1. /\ UNCHANGED <<plan, way, place, step, output, shownTo, fed, sent, met, failed>>
      /\ step = "close" /\ terminal[s] \in Live
      /\ terminal' = [terminal EXCEPT ![s] = IF @ = "open" THEN "closed" ELSE "buried"]
  BY DEF R!Close, Live
<1>2. PICK r \in R!Ends(recorder[s]) : recorder' = [recorder EXCEPT ![s] = r]
  BY DEF R!Close
<1>3. R!Names' = R!Names /\ R!Wanted' = R!Wanted /\ Together'
  BY <1>1, SamePlan DEF ReplayInv
<1>4. \A x \in R!Names : terminal'[x] =
         IF x = s THEN IF terminal[s] = "open" THEN "closed" ELSE "buried" ELSE terminal[x]
  BY <1>1 DEF ReplayInv, ReplayTypes
<1>5. recorder[s] \in RecorderType /\ fed[s] \in Nat /\ Kept(recorder[s], fed[s], terminal[s])
  BY DEF ReplayInv, ReplayTypes
<1>6. terminal'[s] \in {"closed", "buried"}
  BY <1>4
<1>7. r \in RecorderType /\ Kept(r, fed[s], terminal'[s])
  BY <1>1, <1>5, <1>6, EndIsKept
<1>8. ReplayTypes'
  <2>1. recorder' \in [R!Names -> RecorderType]
    BY <1>2, <1>7 DEF ReplayInv, ReplayTypes
  <2>2. terminal' \in [R!Names -> {"none", "open", "gone", "closed", "buried"}]
    BY <1>1 DEF ReplayInv, ReplayTypes
  <2>3. QED
    BY <1>1, <1>3, <2>1, <2>2 DEF ReplayInv, ReplayTypes
<1>9. AtAnEvent'
  BY <1>1, <1>3 DEF ReplayInv, AtAnEvent
<1>10. OpenedInTurn'
  BY <1>1, <1>3, <1>4 DEF ReplayInv, OpenedInTurn, Live
<1>11. TheOneOpen'
  BY <1>1, <1>3, <1>4 DEF ReplayInv, TheOneOpen, Live
<1>12. Earned'
  <2>1. \A p \in 1..Len(plan) : plan[p].session \in R!Names
    BY EventsSession
  <2>2. \A x \in R!Names : terminal[x] \in {"gone", "buried"} => terminal'[x] \in {"gone", "buried"}
    BY <1>4
  <2>3. QED
    BY <1>1, <1>3, <2>1, <2>2 DEF ReplayInv, Earned, R!Types
<1>13. ASSUME NEW x \in R!Names PROVE Kept(recorder[x], fed[x], terminal[x])'
  <2>1. recorder'[x] = IF x = s THEN r ELSE recorder[x]
    BY <1>2 DEF ReplayInv, ReplayTypes
  <2>2. Kept(recorder[x], fed[x], terminal[x])
    BY DEF ReplayInv
  <2>3. QED
    BY <1>1, <1>4, <1>7, <2>1, <2>2
<1>14. QED
  BY <1>3, <1>8, <1>9, <1>10, <1>11, <1>12, <1>13 DEF ReplayInv

\* A screen that is waited for or an input that is sent is at the place.
LEMMA EventIs ==
    ASSUME ReplayInv, step \in {"wait", "send"}
    PROVE  /\ place \in 1..Len(plan) /\ ~failed
           /\ plan[place].session = R!Session /\ R!Session \in R!Names /\ terminal[R!Session] \in Live
           /\ step = "wait" => R!Compares(plan[place]) /\ place \in R!Wanted
           /\ step = "send" => R!Types(plan[place]) /\ plan[place].kind # "check"
           /\ step = "wait" /\ plan[place].kind # "check" => R!Types(plan[place])
           /\ plan[place].kind = "check" => ~R!Types(plan[place])
           /\ R!Wanted \in SUBSET (1..Len(plan))
<1>1. place <= Len(plan) /\ ~failed /\ terminal[R!Session] \in Live
  BY DEF ReplayInv, AtAnEvent
<1>2. place \in 1..Len(plan) /\ plan[place].session = R!Session /\ R!Session \in R!Names
  BY <1>1, EventsSession
<1>3. /\ step = "wait" => R!Compares(plan[place])
      /\ step = "send" => R!Types(plan[place])
  BY DEF ReplayInv, AtAnEvent, R!Event
<1>4. DOMAIN plan = 1..Len(plan)
  BY DEF ReplayInv, ReplayTypes
<1>5. R!Wanted = {p \in 1..Len(plan) : R!Compares(plan[p])}
  BY <1>4 DEF R!Wanted
<1>6. R!Types(plan[place]) <=> plan[place].kind = IF way.input = "deterministic" THEN "key" ELSE "in"
  BY DEF R!Types
<1>7. R!Compares(plan[place]) => plan[place].kind = IF way.input = "deterministic" THEN "key" ELSE "check"
  BY DEF R!Compares
<1>8. QED
  BY <1>1, <1>2, <1>3, <1>5, <1>6, <1>7

LEMMA MeetStep ==
    ASSUME ReplayInv, R!Meet
    PROVE  ReplayInv'
<1>1. /\ UNCHANGED <<plan, way, terminal, output, shownTo, fed, recorder, sent, failed>>
      /\ step = "wait" /\ met' = met \cup {place}
  BY DEF R!Meet, R!target
<1>2. /\ place \in 1..Len(plan) /\ ~failed
      /\ plan[place].session = R!Session /\ R!Session \in R!Names /\ terminal[R!Session] \in Live
      /\ R!Compares(plan[place]) /\ place \in R!Wanted
      /\ plan[place].kind # "check" => R!Types(plan[place])
      /\ plan[place].kind = "check" => ~R!Types(plan[place])
      /\ R!Wanted \in SUBSET (1..Len(plan))
  BY <1>1, EventIs
<1>3. \A x \in R!Names : Kept(recorder[x], fed[x], terminal[x])'
  BY <1>1 DEF ReplayInv
<1>4. CASE plan[place].kind = "check"
  <2>1. R!Go
    BY <1>4 DEF R!Meet, R!Event
  <2>2. /\ place' = place + 1 /\ place' \in 1..(Len(plan) + 1)
        /\ step' \in {"event", "drain"}
        /\ Together' /\ AtAnEvent' /\ OpenedInTurn' /\ TheOneOpen'
        /\ R!Names' = R!Names /\ R!Wanted' = R!Wanted
    BY <1>1, <1>2, <2>1, GoStep
  <2>3. ReplayTypes'
    BY <1>1, <2>2 DEF ReplayInv, ReplayTypes
  <2>4. Earned'
    <3>1. \A p \in 1..Len(plan) : p < place + 1 => p < place \/ p = place
      BY <1>2
    <3>2. \A i \in 1..Len(sent) : sent[i] < place + 1
      BY <1>2 DEF ReplayInv, ReplayTypes, Earned
    <3>3. QED
      BY <1>1, <1>2, <1>4, <2>2, <3>1, <3>2 DEF ReplayInv, Earned, R!Types
  <2>5. QED
    BY <1>3, <2>2, <2>3, <2>4 DEF ReplayInv
<1>5. CASE plan[place].kind # "check"
  <2>1. step' = "send" /\ place' = place
    BY <1>5 DEF R!Meet, R!Event
  <2>2. R!Names' = R!Names /\ R!Wanted' = R!Wanted /\ Together'
    BY <1>1, SamePlan DEF ReplayInv
  <2>3. ReplayTypes'
    BY <1>1, <2>1, <2>2 DEF ReplayInv, ReplayTypes
  <2>4. R!Session' = R!Session /\ R!Types(R!Event)'
    BY <1>1, <1>2, <1>5, <2>1 DEF R!Session, R!Event, R!Types
  <2>5. AtAnEvent'
    BY <1>1, <1>2, <2>1, <2>2, <2>4 DEF AtAnEvent
  <2>6. OpenedInTurn'
    BY <1>1, <2>1, <2>2 DEF ReplayInv, OpenedInTurn
  <2>7. TheOneOpen'
    BY <1>1, <2>1, <2>2, <2>4 DEF ReplayInv, TheOneOpen
  <2>8. Earned'
    BY <1>1, <2>1, <2>2 DEF ReplayInv, Earned, R!Types
  <2>9. QED
    BY <1>3, <2>2, <2>3, <2>5, <2>6, <2>7, <2>8 DEF ReplayInv
<1>6. QED
  BY <1>4, <1>5

LEMMA MissStep ==
    ASSUME ReplayInv, R!Miss
    PROVE  ReplayInv'
<1>1. /\ UNCHANGED <<plan, way, terminal, output, shownTo, fed, recorder, sent, met>>
      /\ step = "wait"
  BY DEF R!Miss, R!target
<1>2. /\ place \in 1..Len(plan) /\ ~failed
      /\ plan[place].session = R!Session /\ R!Session \in R!Names /\ terminal[R!Session] \in Live
      /\ R!Compares(plan[place]) /\ place \in R!Wanted
      /\ plan[place].kind # "check" => R!Types(plan[place])
      /\ plan[place].kind = "check" => ~R!Types(plan[place])
      /\ R!Wanted \in SUBSET (1..Len(plan))
  BY <1>1, EventIs
<1>3. \A x \in R!Names : Kept(recorder[x], fed[x], terminal[x])'
  BY <1>1 DEF ReplayInv
<1>4. R!Names' = R!Names /\ R!Wanted' = R!Wanted /\ Together'
  BY <1>1, SamePlan DEF ReplayInv
<1>5. CASE step' = "close" /\ failed' = TRUE /\ place' = place
  <2>1. ReplayTypes'
    BY <1>1, <1>4, <1>5 DEF ReplayInv, ReplayTypes
  <2>2. AtAnEvent' /\ TheOneOpen'
    BY <1>1, <1>4, <1>5 DEF ReplayInv, AtAnEvent, TheOneOpen
  <2>3. OpenedInTurn'
    BY <1>1, <1>4, <1>5 DEF ReplayInv, OpenedInTurn
  <2>4. Earned'
    BY <1>1, <1>4, <1>5 DEF ReplayInv, Earned, R!Types
  <2>5. QED
    BY <1>3, <1>4, <2>1, <2>2, <2>3, <2>4 DEF ReplayInv
<1>6. CASE plan[place].kind # "check" /\ way.mismatch = "skip" /\ R!Go /\ failed' = failed
  <2>1. /\ place' = place + 1 /\ place' \in 1..(Len(plan) + 1)
        /\ step' \in {"event", "drain"}
        /\ AtAnEvent' /\ OpenedInTurn' /\ TheOneOpen'
    BY <1>1, <1>2, <1>6, GoStep
  <2>2. ReplayTypes'
    BY <1>1, <1>4, <1>6, <2>1 DEF ReplayInv, ReplayTypes
  <2>3. Earned'
    <3>1. \A p \in 1..Len(plan) : p < place + 1 => p < place \/ p = place
      BY <1>2
    <3>2. \A i \in 1..Len(sent) : sent[i] < place + 1
      BY <1>2 DEF ReplayInv, ReplayTypes, Earned
    <3>3. QED
      BY <1>1, <1>2, <1>4, <1>6, <2>1, <3>1, <3>2 DEF ReplayInv, Earned
  <2>4. QED
    BY <1>3, <1>4, <2>1, <2>2, <2>3 DEF ReplayInv
<1>7. CASE /\ plan[place].kind # "check" /\ way.mismatch # "fail-fast"
           /\ step' = "send" /\ place' = place /\ failed' = failed
  <2>1. ReplayTypes'
    BY <1>1, <1>4, <1>7 DEF ReplayInv, ReplayTypes
  <2>2. R!Session' = R!Session /\ R!Types(R!Event)'
    BY <1>1, <1>2, <1>7 DEF R!Session, R!Event, R!Types
  <2>3. AtAnEvent'
    BY <1>1, <1>2, <1>4, <1>7, <2>2 DEF AtAnEvent
  <2>4. OpenedInTurn'
    BY <1>1, <1>4, <1>7 DEF ReplayInv, OpenedInTurn
  <2>5. TheOneOpen'
    BY <1>1, <1>4, <1>7, <2>2 DEF ReplayInv, TheOneOpen
  <2>6. Earned'
    BY <1>1, <1>4, <1>7 DEF ReplayInv, Earned, R!Types
  <2>7. QED
    BY <1>3, <1>4, <2>1, <2>3, <2>4, <2>5, <2>6 DEF ReplayInv
<1>8. QED
  BY <1>5, <1>6, <1>7 DEF R!Miss, R!Raises, R!Event

LEMMA SendStep ==
    ASSUME ReplayInv, R!Send
    PROVE  ReplayInv'
<1>1. /\ UNCHANGED <<plan, way, terminal, output, shownTo, fed, recorder, met, failed>>
      /\ step = "send" /\ R!Go
      /\ sent' = IF terminal[R!Session] = "open" THEN Append(sent, place) ELSE sent
  BY DEF R!Send, R!target
<1>2. /\ place \in 1..Len(plan) /\ ~failed
      /\ plan[place].session = R!Session /\ R!Session \in R!Names /\ terminal[R!Session] \in Live
      /\ R!Types(plan[place]) /\ plan[place].kind # "check"
      /\ R!Wanted \in SUBSET (1..Len(plan))
  BY <1>1, EventIs
<1>3. /\ place' = place + 1 /\ place' \in 1..(Len(plan) + 1)
      /\ step' \in {"event", "drain"}
      /\ Together' /\ AtAnEvent' /\ OpenedInTurn' /\ TheOneOpen'
      /\ R!Names' = R!Names /\ R!Wanted' = R!Wanted
  BY <1>1, <1>2, GoStep
<1>4. sent \in Seq(Nat) /\ Len(sent) \in Nat /\ place \in Nat /\ \A i \in 1..Len(sent) : sent[i] \in Nat
  BY <1>2 DEF ReplayInv, ReplayTypes
<1>5. /\ sent' \in Seq(Nat)
      /\ Len(sent) <= Len(sent') /\ Len(sent') \in Nat
      /\ \A i \in 1..Len(sent) : sent'[i] = sent[i]
      /\ \A i \in 1..Len(sent') : i \in 1..Len(sent) \/ (i = Len(sent) + 1 /\ sent'[i] = place)
      /\ terminal[R!Session] = "open" => \E i \in 1..Len(sent') : sent'[i] = place
  <2>1. CASE terminal[R!Session] # "open"
    BY <1>1, <1>4, <2>1
  <2>2. CASE terminal[R!Session] = "open"
    <3>1. sent' = Append(sent, place)
      BY <1>1, <2>2
    <3>2. /\ sent' \in Seq(Nat) /\ Len(sent') = Len(sent) + 1
          /\ \A i \in 1..Len(sent) : sent'[i] = sent[i]
          /\ sent'[Len(sent) + 1] = place
      BY <1>4, <3>1, AppendProperties
    <3>3. QED
      BY <1>4, <3>2
  <2>3. QED
    BY <2>1, <2>2
<1>6. ReplayTypes'
  BY <1>1, <1>3, <1>5 DEF ReplayInv, ReplayTypes
<1>7. Earned'
  <2>1. \A p \in 1..Len(plan) : p < place + 1 => p < place \/ p = place
    BY <1>2
  <2>2. \A i \in 1..Len(sent') : sent'[i] < place'
    <3>1. TAKE i \in 1..Len(sent')
    <3>2. place' = place + 1 /\ place \in Nat
      BY <1>3, <1>4
    <3>3. CASE i \in 1..Len(sent)
      <4>1. sent[i] < place /\ sent'[i] = sent[i] /\ sent[i] \in Nat
        BY <1>4, <1>5, <3>3 DEF ReplayInv, Earned
      <4>2. QED
        BY <3>2, <4>1
    <3>4. CASE sent'[i] = place
      BY <3>2, <3>4
    <3>5. QED
      BY <1>5, <3>3, <3>4
  <2>3. \A i \in 1..Len(sent') : i > 1 => sent'[i - 1] < sent'[i]
    <3>1. TAKE i \in 1..Len(sent')
    <3>2. HAVE i > 1
    <3>3. CASE i \in 1..Len(sent)
      <4>1. i - 1 \in 1..Len(sent)
        BY <3>2, <3>3, <1>4
      <4>2. QED
        BY <1>5, <3>2, <3>3, <4>1 DEF ReplayInv, Earned
    <3>4. CASE i = Len(sent) + 1 /\ sent'[i] = place
      <4>1. i - 1 \in 1..Len(sent)
        BY <3>2, <3>4, <1>4
      <4>2. QED
        BY <1>5, <3>4, <4>1 DEF ReplayInv, Earned
    <3>5. QED
      BY <1>5, <3>3, <3>4
  <2>4. way.mismatch = "fail-fast" => \A p \in R!Wanted : p < place + 1 => p \in met
    BY <1>1, <1>2, <2>1 DEF ReplayInv, Earned
  <2>5. \A p \in R!Wanted : p < place + 1 /\ plan[p].kind = "check" => p \in met
    BY <1>2, <2>1 DEF ReplayInv, Earned
  <2>6. way.mismatch # "skip" => \A p \in 1..Len(plan) : p < place + 1 /\ R!Types(plan[p]) =>
          (\E i \in 1..Len(sent') : sent'[i] = p) \/ terminal[plan[p].session] \in {"gone", "buried"}
    <3>1. SUFFICES ASSUME way.mismatch # "skip", NEW p \in 1..Len(plan), p < place + 1,
                          R!Types(plan[p]), terminal[plan[p].session] \notin {"gone", "buried"}
                   PROVE  \E i \in 1..Len(sent') : sent'[i] = p
      OBVIOUS
    <3>2. CASE p = place
      BY <1>2, <1>5, <3>1, <3>2 DEF Live
    <3>3. CASE p < place
      <4>1. PICK i \in 1..Len(sent) : sent[i] = p
        BY <3>1, <3>3 DEF ReplayInv, Earned
      <4>2. i \in 1..Len(sent') /\ sent'[i] = p
        BY <1>4, <1>5, <4>1
      <4>3. QED
        BY <4>2
    <3>4. QED
      BY <2>1, <3>1, <3>2, <3>3
  <2>7. QED
    BY <1>1, <1>3, <2>2, <2>3, <2>4, <2>5, <2>6 DEF Earned, R!Types
<1>8. \A x \in R!Names : Kept(recorder[x], fed[x], terminal[x])'
  BY <1>1 DEF ReplayInv
<1>9. QED
  BY <1>3, <1>6, <1>7, <1>8 DEF ReplayInv

LEMMA StopDrainingStep ==
    ASSUME ReplayInv, R!StopDraining
    PROVE  ReplayInv'
<1>1. /\ UNCHANGED <<plan, way, place, terminal, output, shownTo, fed, recorder, sent, met, failed>>
      /\ step = "drain" /\ step' = "close"
  BY DEF R!StopDraining, R!target
<1>2. R!Names' = R!Names /\ R!Wanted' = R!Wanted /\ Together'
  BY <1>1, SamePlan DEF ReplayInv
<1>3. ReplayTypes'
  BY <1>1, <1>2 DEF ReplayInv, ReplayTypes
<1>4. AtAnEvent' /\ TheOneOpen'
  BY <1>1, <1>2 DEF ReplayInv, AtAnEvent, TheOneOpen
<1>5. OpenedInTurn'
  BY <1>1, <1>2 DEF ReplayInv, OpenedInTurn
<1>6. Earned'
  BY <1>1, <1>2 DEF ReplayInv, Earned, R!Types
<1>7. \A x \in R!Names : Kept(recorder[x], fed[x], terminal[x])'
  BY <1>1 DEF ReplayInv
<1>8. QED
  BY <1>2, <1>3, <1>4, <1>5, <1>6, <1>7 DEF ReplayInv

LEMMA ClosedStep ==
    ASSUME ReplayInv, R!Closed
    PROVE  ReplayInv'
<1>1. /\ UNCHANGED <<plan, way, place, terminal, output, shownTo, fed, recorder, sent, met, failed>>
      /\ step = "close" /\ step' = IF failed \/ place > Len(plan) THEN "done" ELSE "event"
      /\ \A s \in R!Names : terminal[s] \notin Live
  BY DEF R!Closed, R!target, Live
<1>2. R!Names' = R!Names /\ R!Wanted' = R!Wanted /\ Together'
  BY <1>1, SamePlan DEF ReplayInv
<1>3. ReplayTypes'
  BY <1>1, <1>2 DEF ReplayInv, ReplayTypes
<1>4. AtAnEvent'
  <2>1. Len(plan) \in Nat /\ place \in 1..(Len(plan) + 1)
    BY DEF ReplayInv, ReplayTypes
  <2>2. step' = "done" => failed \/ place = Len(plan) + 1
    BY <1>1, <2>1
  <2>3. failed => step' = "done"
    BY <1>1
  <2>4. step' \in {"done", "event"}
    BY <1>1
  <2>5. QED
    BY <1>1, <1>2, <2>2, <2>3, <2>4 DEF AtAnEvent
<1>5. TheOneOpen'
  BY <1>1, <1>2 DEF TheOneOpen
<1>6. OpenedInTurn'
  BY <1>1, <1>2 DEF ReplayInv, OpenedInTurn
<1>7. Earned'
  BY <1>1, <1>2 DEF ReplayInv, Earned, R!Types
<1>8. \A x \in R!Names : Kept(recorder[x], fed[x], terminal[x])'
  BY <1>1 DEF ReplayInv
<1>9. QED
  BY <1>2, <1>3, <1>4, <1>5, <1>6, <1>7, <1>8 DEF ReplayInv

LEMMA ReplayStutters ==
    ASSUME ReplayInv, UNCHANGED R!vars
    PROVE  ReplayInv'
<1>1. UNCHANGED <<plan, way, place, step, terminal, output, shownTo, fed, recorder, sent, met, failed>>
  BY DEF R!vars, R!target
<1>2. R!Names' = R!Names /\ R!Wanted' = R!Wanted /\ Together'
  BY <1>1, SamePlan DEF ReplayInv
<1>3. ReplayTypes'
  BY <1>1, <1>2 DEF ReplayInv, ReplayTypes
<1>4. AtAnEvent' /\ OpenedInTurn' /\ TheOneOpen'
  BY <1>1, <1>2 DEF ReplayInv, AtAnEvent, OpenedInTurn, TheOneOpen, R!Session, R!Event, R!Compares, R!Types
<1>5. Earned'
  BY <1>1, <1>2 DEF ReplayInv, Earned, R!Types
<1>6. \A x \in R!Names : Kept(recorder[x], fed[x], terminal[x])'
  BY <1>1 DEF ReplayInv
<1>7. QED
  BY <1>2, <1>3, <1>4, <1>5, <1>6 DEF ReplayInv

-----------------------------------------------------------------------------
\* What the invariant says of a replay.
LEMMA ReplayFaithful ==
    ASSUME ReplayInv
    PROVE  R!ReplayIsFaithful
<1>1. /\ Len(plan) \in Nat /\ DOMAIN plan = 1..Len(plan) /\ place \in 1..(Len(plan) + 1)
      /\ sent \in Seq(Nat) /\ DOMAIN sent = 1..Len(sent) /\ Len(sent) \in Nat
      /\ R!Wanted \in SUBSET (1..Len(plan))
  BY DEF ReplayInv, ReplayTypes, R!Wanted
<1>2. R!RecordHasNoHole
  <2>1. ASSUME NEW s \in R!Names
        PROVE  LET lines == recorder[s].lines
                   ended == R!Contains(lines, "end")
               IN  /\ \A k \in DOMAIN lines :
                          lines[k] = IF k = 1 THEN "start" ELSE IF ended /\ k = Len(lines) THEN "end"
                                     ELSE "out"
                   /\ lines # <<>> => R!Outs(lines) <= fed[s]
                   /\ recorder[s].on \/ ended => lines # <<>> /\ R!Outs(lines) = fed[s]
                   /\ ended => recorder[s].manifest = Len(lines)
    <3> DEFINE lines == recorder[s].lines
               there == \E k \in 1..Len(lines) : lines[k] = "end"
    <3>1. lines \in Seq({"start", "out", "end"})
      BY <2>1 DEF ReplayInv, ReplayTypes, RecorderType
    <3>2. Kept(recorder[s], fed[s], terminal[s])
      BY <2>1 DEF ReplayInv
    <3>3. /\ \A k \in 1..Len(lines) :
                 lines[k] = IF k = 1 THEN "start" ELSE IF there /\ k = Len(lines) THEN "end" ELSE "out"
          /\ Len(lines) # 0 => Len(lines) - (IF there THEN 2 ELSE 1) <= fed[s]
          /\ recorder[s].on \/ there => Len(lines) # 0 /\ Len(lines) - (IF there THEN 2 ELSE 1) = fed[s]
          /\ there => recorder[s].manifest = Len(lines)
      BY <3>2, Zenon DEF Kept
    <3>4. R!Contains(lines, "end") <=> there
      BY Zenon DEF R!Contains
    <3>5. DOMAIN lines = 1..Len(lines) /\ (lines = <<>> <=> Len(lines) = 0)
      BY <3>1, EmptySeq
    <3>6. R!Outs(lines) = Len(lines) - (IF there THEN 2 ELSE 1)
      BY <3>4 DEF R!Outs
    <3> HIDE DEF lines, there
    <3>7. /\ \A k \in DOMAIN lines :
                 lines[k] = IF k = 1 THEN "start"
                            ELSE IF R!Contains(lines, "end") /\ k = Len(lines) THEN "end" ELSE "out"
          /\ lines # <<>> => R!Outs(lines) <= fed[s]
          /\ recorder[s].on \/ R!Contains(lines, "end") => lines # <<>> /\ R!Outs(lines) = fed[s]
          /\ R!Contains(lines, "end") => recorder[s].manifest = Len(lines)
      BY <3>3, <3>4, <3>5, <3>6
    <3>8. QED
      BY <3>7 DEF lines
  <2>2. QED
    BY <2>1, Zenon DEF R!RecordHasNoHole
<1>3. R!SendsAreEarned
  <2>1. \A i \in 1..Len(sent) : sent[i] \in Nat /\ sent[i] < place
    BY <1>1 DEF ReplayInv, Earned
  <2>2. \A i \in 1..Len(sent) : \A p \in R!Wanted : p <= sent[i] => p < place
    BY <1>1, <2>1
  <2>3. QED
    BY <1>1, <2>2 DEF ReplayInv, Earned, R!SendsAreEarned
<1>4. R!EndIsWhole
  <2>1. SUFFICES ASSUME step = "done"
                 PROVE  /\ \A s \in R!Names : terminal[s] \notin {"open", "gone"}
                        /\ ~failed => {p \in R!Wanted : plan[p].kind = "check"} \subseteq met
                        /\ ~failed /\ way.mismatch # "skip" =>
                              \A p \in DOMAIN plan : R!Types(plan[p]) =>
                                 p \in R!ToSet(sent) \/ terminal[plan[p].session] = "buried"
    BY DEF R!EndIsWhole
  <2>2. \A s \in R!Names : terminal[s] \notin {"open", "gone"}
    BY <2>1 DEF ReplayInv, AtAnEvent, Live
  <2>3. ~failed => \A p \in 1..Len(plan) : p < place
    BY <1>1, <2>1 DEF ReplayInv, AtAnEvent
  <2>4. ~failed => \A p \in R!Wanted : plan[p].kind = "check" => p \in met
    BY <1>1, <2>3 DEF ReplayInv, Earned
  <2>5. ~failed /\ way.mismatch # "skip" => \A p \in 1..Len(plan) : R!Types(plan[p]) =>
           p \in R!ToSet(sent) \/ terminal[plan[p].session] = "buried"
    <3>1. SUFFICES ASSUME ~failed, way.mismatch # "skip", NEW p \in 1..Len(plan), R!Types(plan[p])
                   PROVE  p \in R!ToSet(sent) \/ terminal[plan[p].session] = "buried"
      OBVIOUS
    <3>2. (\E i \in 1..Len(sent) : sent[i] = p) \/ terminal[plan[p].session] \in {"gone", "buried"}
      BY <2>3, <3>1 DEF ReplayInv, Earned
    <3>3. plan[p].session \in R!Names
      BY EventsSession
    <3>4. ASSUME NEW i \in 1..Len(sent), sent[i] = p PROVE p \in R!ToSet(sent)
      BY <1>1, <3>4 DEF R!ToSet
    <3>5. QED
      BY <2>2, <3>2, <3>3, <3>4
  <2>6. QED
    BY <1>1, <2>2, <2>4, <2>5
<1>5. R!OneAtATime
  <2>1. SUFFICES ASSUME way.order # "global"
                 PROVE  R!Cardinality({s \in R!Names : terminal[s] \in {"open", "gone"}}) <= 1
    BY DEF R!OneAtATime
  <2> DEFINE up == {s \in R!Names : terminal[s] \in {"open", "gone"}}
  <2>2. \A s, t \in up : s = t
    BY <2>1 DEF ReplayInv, TheOneOpen, Live
  <2> HIDE DEF up
  <2>3. CASE up = {}
    <3>1. Cardinality(up) = 0
      BY <2>3, FS_EmptySet
    <3>2. QED
      BY <3>1, SameNumber DEF up
  <2>4. CASE up # {}
    <3>1. PICK s : up = {s}
      BY <2>2, <2>4
    <3>2. Cardinality(up) = 1
      BY <3>1, FS_Singleton
    <3>3. QED
      BY <3>2, SameNumber DEF up
  <2>5. QED
    BY <2>3, <2>4
<1>6. QED
  BY <1>2, <1>3, <1>4, <1>5 DEF R!ReplayIsFaithful

\* A replay of a trail is faithful, for whatever trail, however much is printed
\* and however a session ends: what its sessions were fed is recorded without a
\* hole from the start on, with an end only when nothing is missing; nothing is
\* sent after a screen that was not met unless mismatches are let pass, and the
\* inputs go out in the order of the plan; a replay that ends well has met the
\* checkpoints and sent the inputs; and one after the other there is never more
\* than one session (replay.py).
THEOREM ReplayStaysFaithful == R!Spec => []ReplayIsFaithful
<1>1. R!Init => ReplayInv
  BY ReplayBegins
<1>2. ReplayInv /\ [R!Next]_R!vars => ReplayInv'
  <2>1. SUFFICES ASSUME ReplayInv, [R!Next]_R!vars PROVE ReplayInv'
    OBVIOUS
  <2>2. CASE R!Next
    <3>1. CASE R!Open
      BY <2>1, <3>1, OpenStep
    <3>2. CASE R!OpenFails
      BY <2>1, <3>2, OpenFailsStep
    <3>3. CASE R!Pass
      BY <2>1, <3>3, PassStep
    <3>4. CASE R!Begin
      BY <2>1, <3>4, BeginStep
    <3>5. CASE R!Meet
      BY <2>1, <3>5, MeetStep
    <3>6. CASE R!Miss
      BY <2>1, <3>6, MissStep
    <3>7. CASE R!Send
      BY <2>1, <3>7, SendStep
    <3>8. CASE R!StopDraining
      BY <2>1, <3>8, StopDrainingStep
    <3>9. CASE R!Closed
      BY <2>1, <3>9, ClosedStep
    <3>10. ASSUME NEW s \in R!Names, R!Show(s) \/ R!Die(s) \/ R!Read(s) \/ R!Close(s)
           PROVE  ReplayInv'
      BY <2>1, <3>10, ShowStep, DieStep, ReadMoreStep, CloseStep
    <3>11. QED
      BY <2>2, <3>1, <3>2, <3>3, <3>4, <3>5, <3>6, <3>7, <3>8, <3>9, <3>10 DEF R!Next
  <2>3. CASE UNCHANGED R!vars
    BY <2>1, <2>3, ReplayStutters
  <2>4. QED
    BY <2>1, <2>2, <2>3
<1>3. ReplayInv => ReplayIsFaithful
  BY ReplayFaithful DEF ReplayIsFaithful
<1>4. QED
  BY <1>1, <1>2, <1>3, PTL DEF R!Spec

-----------------------------------------------------------------------------
(* The index of a capture (session_index_cache.py, get_capture_index).     *)

Files == Seq([size : Nat, mtime : Nat])
IndexType ==
    [files : Seq([size : Nat, mtime : Nat, indexed : Nat]), locs : Seq(Nat \X Nat), good : BOOLEAN]
Working == {"stat", "read", "store", "replace"}
AskType ==
    [at : {"idle", "glob"} \cup Working, listed : Files, index : IndexType, file : Nat, stat : Files]
AnswerType == [index : IndexType, listed : Files]

IndexTypes ==
    /\ log \in Files /\ log # <<>> /\ writes \in Nat
    /\ stored \in SUBSET IndexType /\ tmp \in SUBSET IndexType
    /\ iasked \in [Readers -> AskType] /\ ianswer \in [Readers -> AnswerType]

\* What was listed has only grown since.
Grown(listed, there) ==
    Len(listed) <= Len(there) /\ \A f \in DOMAIN listed : listed[f].size <= there[f].size

\* An index of files that are there, exact as far as it goes.
ExactSoFar(i, there) == I!Exact(i, there) /\ Grown(i.files, there)

\* The whole lines of a file as it was listed are indexed.
Reached(info, size) == info.indexed >= 2 * (size \div 2)
CaughtUp(i) == \A f \in DOMAIN i.files : Reached(i.files[f], i.files[f].size)

\* What is stored can be gone on with.
StoreHolds == \A i \in stored \cup tmp : i.good => ExactSoFar(i, log) /\ CaughtUp(i)

\* A request goes over its files one by one: those behind it are indexed as far
\* as they were when it began.
Going(a, there) ==
    /\ Grown(a.listed, there)
    /\ a.at \in Working =>
          /\ ExactSoFar(a.index, there) /\ Grown(a.stat, there) /\ Len(a.listed) <= Len(a.stat)
          /\ \A f \in DOMAIN a.index.files : f < a.file =>
                /\ Reached(a.index.files[f], a.index.files[f].size)
                /\ f \in DOMAIN a.listed => Reached(a.index.files[f], a.listed[f].size)
    /\ a.at = "stat" => a.file \in {Len(a.index.files), Len(a.index.files) + 1} \ {0}
    /\ a.at = "read" => a.file = Len(a.index.files) /\ a.file # 0
    /\ a.at \in {"stat", "read"} => a.file <= Len(a.stat)
    /\ a.at \in {"store", "replace"} =>
          Len(a.index.files) = Len(a.stat) /\ a.file = Len(a.stat) + 1

\* What was answered is exact, and no older than the request.
WasAnswered(b, there) ==
    /\ ExactSoFar(b.index, there)
    /\ \A f \in DOMAIN b.listed :
          f \in DOMAIN b.index.files /\ Reached(b.index.files[f], b.listed[f].size)

IndexInv ==
    /\ IndexTypes /\ StoreHolds
    /\ \A h \in Readers : Going(iasked[h], log) /\ WasAnswered(ianswer[h], log)


LEMMA Halving ==
    ASSUME NEW n \in Nat
    PROVE  n \div 2 \in Nat /\ n % 2 \in {0, 1} /\ n = 2 * (n \div 2) + (n % 2)
<1>1. n \div 2 \in Nat
  OBVIOUS
<1>2. n % 2 \in {0, 1}
  OBVIOUS
<1>3. n = 2 * (n \div 2) + (n % 2)
  OBVIOUS
<1>4. QED
  BY <1>1, <1>2, <1>3

LEMMA Halves ==
    ASSUME NEW n \in Nat
    PROVE  (2 * n) \div 2 = n /\ (2 * n) % 2 = 0
OBVIOUS

LEMMA FilesAre ==
    ASSUME NEW many \in Files
    PROVE  /\ many \in Seq([size : Nat, mtime : Nat])
           /\ Len(many) \in Nat /\ DOMAIN many = 1..Len(many)
           /\ \A f \in DOMAIN many : many[f].size \in Nat /\ many[f].mtime \in Nat
           /\ many # <<>> => Len(many) >= 1
<1> DEFINE Listing == [size : Nat, mtime : Nat]
<1>1. many \in Seq(Listing)
  BY DEF Files
<1>2. \A file \in Listing : file.size \in Nat /\ file.mtime \in Nat
  OBVIOUS
<1> HIDE DEF Listing
<1>3. Len(many) \in Nat /\ DOMAIN many = 1..Len(many) /\ (many # <<>> => Len(many) >= 1)
  BY <1>1
<1>4. \A f \in 1..Len(many) : many[f] \in Listing
  BY <1>1
<1>5. QED
  BY <1>1, <1>2, <1>3, <1>4 DEF Listing

LEMMA IndexIs ==
    ASSUME NEW i \in IndexType
    PROVE  /\ i.files \in Seq([size : Nat, mtime : Nat, indexed : Nat])
           /\ Len(i.files) \in Nat /\ DOMAIN i.files = 1..Len(i.files)
           /\ \A f \in DOMAIN i.files :
                 i.files[f].size \in Nat /\ i.files[f].mtime \in Nat /\ i.files[f].indexed \in Nat
           /\ i.locs \in Seq(Nat \X Nat) /\ Len(i.locs) \in Nat /\ DOMAIN i.locs = 1..Len(i.locs)
<1> DEFINE Listing == [size : Nat, mtime : Nat, indexed : Nat]
           Where == Nat \X Nat
<1>1. i.files \in Seq(Listing) /\ i.locs \in Seq(Where)
  BY DEF IndexType
<1>2. \A file \in Listing : file.size \in Nat /\ file.mtime \in Nat /\ file.indexed \in Nat
  OBVIOUS
<1> HIDE DEF Listing, Where
<1>3. /\ Len(i.files) \in Nat /\ DOMAIN i.files = 1..Len(i.files)
      /\ Len(i.locs) \in Nat /\ DOMAIN i.locs = 1..Len(i.locs)
  BY <1>1
<1>4. \A f \in 1..Len(i.files) : i.files[f] \in Listing
  BY <1>1
<1>5. QED
  BY <1>1, <1>2, <1>3, <1>4 DEF Listing, Where

LEMMA IndexStarts == I!Init => IndexInv
<1> SUFFICES ASSUME I!Init PROVE IndexInv
  OBVIOUS
<1>1. /\ log = <<[size |-> 0, mtime |-> 0]>> /\ writes = 0 /\ stored = {} /\ tmp = {}
      /\ iasked = [h \in Readers |-> I!Idle] /\ ianswer = [h \in Readers |-> I!NoAnswer]
  BY DEF I!Init, I!None
<1>2. /\ I!Empty \in IndexType /\ I!Empty.files = <<>> /\ I!Empty.locs = <<>>
  BY DEF I!Empty, IndexType
<1>3. IndexTypes
  <2>1. <<>> \in Files /\ log \in Files /\ log # <<>>
    BY <1>1 DEF Files
  <2>2. I!Idle \in AskType
    BY <1>2, <2>1 DEF I!Idle, AskType
  <2>3. I!NoAnswer \in AnswerType
    BY <1>2, <2>1 DEF I!NoAnswer, AnswerType
  <2>4. QED
    BY <1>1, <2>1, <2>2, <2>3 DEF IndexTypes
<1>4. ExactSoFar(I!Empty, log) /\ Grown(<<>>, log)
  BY <1>1, <1>2 DEF ExactSoFar, I!Exact, Grown
<1>5. StoreHolds
  BY <1>1 DEF StoreHolds
<1>6. ASSUME NEW h \in Readers PROVE Going(iasked[h], log) /\ WasAnswered(ianswer[h], log)
  BY <1>1, <1>4 DEF Going, I!Idle, Working, WasAnswered, I!NoAnswer
<1>7. QED
  BY <1>3, <1>5, <1>6 DEF IndexInv

\* A step of the writer: files grow at their end.
LEMMA LogGrows ==
    ASSUME IndexTypes, I!Write \/ I!Rotate
    PROVE  /\ log' \in Files /\ log' # <<>> /\ writes' \in Nat
           /\ Len(log) <= Len(log')
           /\ \A f \in DOMAIN log : log[f].size <= log'[f].size
           /\ UNCHANGED <<stored, tmp, iasked, ianswer>>
<1>1. /\ log \in Seq([size : Nat, mtime : Nat]) /\ Len(log) \in Nat \ {0} /\ writes \in Nat
      /\ log[Len(log)] \in [size : Nat, mtime : Nat] /\ DOMAIN log = 1..Len(log)
      /\ \A f \in DOMAIN log : log[f].size \in Nat
  <2>1. log \in Files /\ log # <<>> /\ writes \in Nat
    BY DEF IndexTypes
  <2>2. /\ log \in Seq([size : Nat, mtime : Nat]) /\ Len(log) \in Nat /\ Len(log) >= 1
        /\ DOMAIN log = 1..Len(log) /\ \A f \in DOMAIN log : log[f].size \in Nat
    BY <2>1, FilesAre
  <2>3. log[Len(log)] \in [size : Nat, mtime : Nat]
    <3>1. Len(log) \in 1..Len(log)
      BY <2>2
    <3>2. ASSUME NEW Listing, log \in Seq(Listing) PROVE log[Len(log)] \in Listing
      BY <3>1, <3>2
    <3>3. QED
      BY <2>2, <3>2
  <2>4. QED
    BY <2>1, <2>2, <2>3
<1>2. ASSUME NEW units \in {1, 2}, I!Append1(units)
      PROVE  /\ log' \in Files /\ log' # <<>> /\ writes' \in Nat
             /\ Len(log) <= Len(log')
             /\ \A f \in DOMAIN log : log[f].size <= log'[f].size
             /\ UNCHANGED <<stored, tmp, iasked, ianswer>>
  <2> DEFINE new == [size |-> log[Len(log)].size + units, mtime |-> writes + 1]
  <2>1. log' = [log EXCEPT ![Len(log)] = new] /\ writes' = writes + 1
    BY <1>2 DEF I!Append1
  <2>2. UNCHANGED <<stored, tmp, iasked, ianswer>>
    BY <1>2 DEF I!Append1, I!OfRequests
  <2>3. new \in [size : Nat, mtime : Nat] /\ new.size >= log[Len(log)].size
    BY <1>1
  <2> HIDE DEF new
  <2>4. /\ log' \in Seq([size : Nat, mtime : Nat]) /\ Len(log') = Len(log)
        /\ \A f \in DOMAIN log : log'[f] = IF f = Len(log) THEN new ELSE log[f]
    BY <1>1, <2>1, <2>3
  <2>5. ASSUME NEW f \in DOMAIN log PROVE log[f].size <= log'[f].size
    <3>1. log[f].size \in Nat /\ new.size \in Nat
      BY <1>1, <2>3
    <3>2. CASE f = Len(log)
      BY <2>3, <2>4, <3>2
    <3>3. CASE f # Len(log)
      BY <2>4, <3>1, <3>3
    <3>4. QED
      BY <3>2, <3>3
  <2>6. QED
    BY <1>1, <2>1, <2>2, <2>4, <2>5 DEF Files
<1>3. ASSUME I!Rotate
      PROVE  /\ log' \in Files /\ log' # <<>> /\ writes' \in Nat
             /\ Len(log) <= Len(log')
             /\ \A f \in DOMAIN log : log[f].size <= log'[f].size
             /\ UNCHANGED <<stored, tmp, iasked, ianswer>>
  <2>1. log' = Append(log, [size |-> 0, mtime |-> writes]) /\ writes' = writes
    BY <1>3 DEF I!Rotate
  <2>2. UNCHANGED <<stored, tmp, iasked, ianswer>>
    BY <1>3 DEF I!Rotate, I!OfRequests
  <2>3. [size |-> 0, mtime |-> writes] \in [size : Nat, mtime : Nat]
    BY <1>1
  <2>4. /\ log' \in Seq([size : Nat, mtime : Nat]) /\ Len(log') = Len(log) + 1
        /\ \A f \in DOMAIN log : log'[f] = log[f]
    BY <1>1, <2>1, <2>3
  <2>5. ASSUME NEW f \in DOMAIN log PROVE log[f].size <= log'[f].size
    <3>1. log'[f] = log[f] /\ log[f].size \in Nat
      BY <1>1, <2>4
    <3>2. QED
      BY <3>1
  <2>6. QED
    BY <1>1, <2>1, <2>2, <2>4, <2>5 DEF Files
<1>4. QED
  BY <1>2, <1>3 DEF I!Write

LEMMA GrownGrows ==
    ASSUME NEW one \in Files, NEW other \in Files, Grown(one, other),
           NEW s, Len(s) \in Nat, DOMAIN s = 1..Len(s), \A f \in DOMAIN s : s[f].size \in Nat,
           Grown(s, one)
    PROVE  Grown(s, other)
<1>1. /\ Len(one) \in Nat /\ DOMAIN one = 1..Len(one) /\ \A f \in DOMAIN one : one[f].size \in Nat
      /\ Len(other) \in Nat /\ DOMAIN other = 1..Len(other)
      /\ \A f \in DOMAIN other : other[f].size \in Nat
  BY FilesAre
<1>2. Len(s) <= Len(other)
  BY <1>1 DEF Grown
<1>3. ASSUME NEW f \in DOMAIN s PROVE s[f].size <= other[f].size
  <2>1. /\ f \in DOMAIN one /\ s[f].size <= one[f].size
        /\ f \in DOMAIN other /\ one[f].size <= other[f].size
    BY <1>1 DEF Grown
  <2>2. one[f].size \in Nat /\ other[f].size \in Nat
    BY <1>1, <2>1
  <2>3. QED
    BY <2>1, <2>2
<1>4. QED
  BY <1>2, <1>3 DEF Grown

LEMMA WithinGrows ==
    ASSUME NEW one \in Files, NEW other \in Files, Grown(one, other),
           NEW i \in IndexType, ExactSoFar(i, one)
    PROVE  ExactSoFar(i, other)
<1>1. /\ Len(one) \in Nat /\ DOMAIN one = 1..Len(one) /\ \A f \in DOMAIN one : one[f].size \in Nat
      /\ Len(other) \in Nat /\ DOMAIN other = 1..Len(other)
      /\ \A f \in DOMAIN other : other[f].size \in Nat
  BY FilesAre
<1>2. /\ Len(i.files) \in Nat /\ DOMAIN i.files = 1..Len(i.files)
      /\ \A f \in DOMAIN i.files : i.files[f].size \in Nat /\ i.files[f].indexed \in Nat
  BY IndexIs
<1>3. Grown(i.files, other)
  BY <1>2, GrownGrows DEF ExactSoFar
<1>4. ASSUME NEW f \in DOMAIN i.files PROVE i.files[f].indexed <= other[f].size
  <2>1. /\ f \in DOMAIN one /\ i.files[f].indexed <= one[f].size
        /\ f \in DOMAIN other /\ one[f].size <= other[f].size
    BY <1>1, <1>2 DEF ExactSoFar, I!Exact, Grown
  <2>2. one[f].size \in Nat /\ other[f].size \in Nat /\ i.files[f].indexed \in Nat
    BY <1>1, <1>2, <2>1
  <2>3. QED
    BY <2>1, <2>2
<1>5. I!Exact(i, other)
  BY <1>4 DEF ExactSoFar, I!Exact
<1>6. QED
  BY <1>3, <1>5 DEF ExactSoFar

LEMMA GoingGrows ==
    ASSUME NEW one \in Files, NEW other \in Files, Grown(one, other),
           NEW a \in AskType, Going(a, one)
    PROVE  Going(a, other)
<1>1. a.listed \in Files /\ a.stat \in Files /\ a.index \in IndexType
  BY DEF AskType
<1>2. Grown(a.listed, other)
  BY <1>1, FilesAre, GrownGrows DEF Going
<1>3. a.at \in Working => ExactSoFar(a.index, other) /\ Grown(a.stat, other)
  BY <1>1, FilesAre, GrownGrows, WithinGrows DEF Going
<1>4. QED
  BY <1>2, <1>3 DEF Going

LEMMA WriterKeepsIndex ==
    ASSUME IndexInv, I!Write \/ I!Rotate
    PROVE  IndexInv'
<1>1. IndexTypes
  BY DEF IndexInv
<1>2. /\ log \in Files /\ log' \in Files /\ log' # <<>> /\ writes' \in Nat
      /\ Grown(log, log')
      /\ stored' = stored /\ tmp' = tmp /\ iasked' = iasked /\ ianswer' = ianswer
  BY <1>1, LogGrows DEF IndexTypes, Grown
<1>3. IndexTypes'
  BY <1>1, <1>2 DEF IndexTypes
<1>4. StoreHolds'
  <2> SUFFICES ASSUME NEW i \in stored \cup tmp, i.good PROVE ExactSoFar(i, log') /\ CaughtUp(i)
    BY <1>2 DEF StoreHolds
  <2>1. i \in IndexType
    BY <1>1 DEF IndexTypes
  <2>2. ExactSoFar(i, log) /\ CaughtUp(i)
    BY DEF IndexInv, StoreHolds
  <2>3. QED
    BY <1>2, <2>1, <2>2, WithinGrows
<1>5. ASSUME NEW h \in Readers PROVE Going(iasked'[h], log') /\ WasAnswered(ianswer'[h], log')
  <2>1. /\ iasked[h] \in AskType /\ ianswer[h].index \in IndexType
    BY <1>1 DEF IndexTypes, AnswerType
  <2>2. Going(iasked[h], log')
    BY <1>2, <2>1, GoingGrows DEF IndexInv
  <2>3. ExactSoFar(ianswer[h].index, log')
    BY <1>2, <2>1, WithinGrows DEF IndexInv, WasAnswered
  <2>4. QED
    BY <1>2, <2>2, <2>3 DEF IndexInv, WasAnswered
<1>6. QED
  BY <1>3, <1>4, <1>5 DEF IndexInv


\* The step of a request changes what it holds and nothing of the others.
LEMMA RequestStep ==
    ASSUME IndexInv, NEW h \in Readers, log' = log, writes' = writes,
           NEW a \in AskType, iasked' = [iasked EXCEPT ![h] = a], Going(a, log),
           NEW b \in AnswerType, ianswer' = [ianswer EXCEPT ![h] = b], WasAnswered(b, log),
           stored' \in SUBSET IndexType, tmp' \in SUBSET IndexType,
           \A i \in stored' \cup tmp' : i.good => ExactSoFar(i, log) /\ CaughtUp(i)
    PROVE  IndexInv'
<1>1. /\ iasked' \in [Readers -> AskType] /\ iasked'[h] = a
      /\ ianswer' \in [Readers -> AnswerType] /\ ianswer'[h] = b
      /\ \A g \in Readers \ {h} : iasked'[g] = iasked[g] /\ ianswer'[g] = ianswer[g]
  BY DEF IndexInv, IndexTypes
<1>2. IndexTypes'
  BY <1>1 DEF IndexInv, IndexTypes
<1>3. StoreHolds'
  BY DEF StoreHolds
<1>4. ASSUME NEW g \in Readers PROVE Going(iasked'[g], log') /\ WasAnswered(ianswer'[g], log')
  <2>1. CASE g = h
    BY <1>1, <2>1
  <2>2. CASE g # h
    BY <1>1, <2>2 DEF IndexInv
  <2>3. QED
    BY <2>1, <2>2
<1>5. QED
  BY <1>2, <1>3, <1>4 DEF IndexInv

\* A request that answers nobody and stores nothing.
LEMMA InwardStep ==
    ASSUME IndexInv, NEW h \in Readers, log' = log, writes' = writes,
           stored' = stored, tmp' = tmp, ianswer' = ianswer,
           NEW a \in AskType, iasked' = [iasked EXCEPT ![h] = a], Going(a, log)
    PROVE  IndexInv'
<1>1. stored' \in SUBSET IndexType /\ tmp' \in SUBSET IndexType /\ ianswer[h] \in AnswerType
  BY DEF IndexInv, IndexTypes
<1>2. ianswer' = [ianswer EXCEPT ![h] = ianswer[h]]
  BY DEF IndexInv, IndexTypes
<1>3. WasAnswered(ianswer[h], log) /\ \A i \in stored' \cup tmp' : i.good => ExactSoFar(i, log) /\ CaughtUp(i)
  BY DEF IndexInv, StoreHolds
<1>4. QED
  BY <1>1, <1>2, <1>3, RequestStep

LEMMA EmptyIs ==
    /\ I!Empty \in IndexType /\ I!Empty.files = <<>> /\ I!Empty.locs = <<>> /\ I!Empty.good
    /\ \A there \in Files : ExactSoFar(I!Empty, there)
<1>1. /\ I!Empty \in IndexType /\ I!Empty.files = <<>> /\ I!Empty.locs = <<>> /\ I!Empty.good
  BY DEF I!Empty, IndexType
<1>2. ASSUME NEW there \in Files PROVE ExactSoFar(I!Empty, there)
  BY <1>1, FilesAre DEF ExactSoFar, I!Exact, Grown
<1>3. QED
  BY <1>1, <1>2

LEMMA GrownItself == ASSUME NEW there \in Files PROVE Grown(there, there)
BY FilesAre DEF Grown

\* What calls for no more than what was appended, or for nothing.
LEMMA Classified ==
    ASSUME IndexTypes, NEW i \in IndexType, CaughtUp(i),
           I!Classify(i.files, log) \in {"hit", "delta"}
    PROVE  /\ Len(i.files) >= 1
           /\ \A f \in DOMAIN i.files : f < Len(i.files) => Reached(i.files[f], log[f].size)
           /\ I!Classify(i.files, log) = "hit" =>
                 \A f \in DOMAIN log : f \in DOMAIN i.files /\ Reached(i.files[f], log[f].size)
<1> DEFINE last == Len(i.files)
<1>1. /\ log \in Files /\ log # <<>> /\ Len(log) \in Nat /\ Len(log) >= 1 /\ DOMAIN log = 1..Len(log)
      /\ \A f \in DOMAIN log : log[f].size \in Nat
  <2>1. log \in Files /\ log # <<>>
    BY DEF IndexTypes
  <2>2. QED
    BY <2>1, FilesAre
<1>2. /\ last \in Nat /\ DOMAIN i.files = 1..last
      /\ \A f \in DOMAIN i.files :
             i.files[f].size \in Nat /\ i.files[f].mtime \in Nat /\ i.files[f].indexed \in Nat
  BY IndexIs
<1>3. /\ last # 0
      /\ \A f \in 1..(last - 1) : I!Same(i.files[f], log[f])
      /\ I!Classify(i.files, log) = "hit" => log[last].size = i.files[last].indexed /\ last = Len(log)
  <2> DEFINE kept == \A f \in 1..(last - 1) : I!Same(i.files[f], log[f])
  <2>1. log # <<>> /\ last # 0
    BY <1>1, <1>2 DEF I!Classify
  <2>2. kept
    <3>1. kept \/ I!Classify(i.files, log) = "rebuild"
      BY <2>1, Zenon DEF I!Classify
    <3>2. QED
      BY <3>1
  <2>3. I!Classify(i.files, log) = "hit" => log[last].size = i.files[last].indexed /\ last = Len(log)
    <3> DEFINE sure == last > Len(log) \/ ~kept \/
                        ~(\/ log[last].size > i.files[last].indexed
                          \/ log[last].size = i.files[last].indexed /\ log[last].mtime = i.files[last].mtime)
    <3>1. I!Classify(i.files, log) =
             IF last = 0 THEN IF log = <<>> THEN "hit" ELSE "rebuild"
             ELSE IF sure THEN "rebuild"
             ELSE IF log[last].size = i.files[last].indexed /\ last = Len(log) THEN "hit" ELSE "delta"
      BY Zenon DEF I!Classify
    <3> HIDE DEF sure, kept
    <3>2. QED
      BY <2>1, <3>1
  <2>4. QED
    BY <2>1, <2>2, <2>3
<1> HIDE DEF last
<1>4. ASSUME NEW f \in DOMAIN i.files, f < last PROVE Reached(i.files[f], log[f].size)
  <2>1. i.files[f].size = log[f].size
    BY <1>2, <1>3, <1>4 DEF I!Same
  <2>2. Reached(i.files[f], i.files[f].size)
    BY DEF CaughtUp
  <2>3. QED
    BY <2>1, <2>2
<1>5. ASSUME I!Classify(i.files, log) = "hit", NEW f \in DOMAIN log
      PROVE  f \in DOMAIN i.files /\ Reached(i.files[f], log[f].size)
  <2>1. f \in DOMAIN i.files
    BY <1>1, <1>2, <1>3, <1>5
  <2>2. CASE f = last
    <3>1. log[f].size = i.files[f].indexed /\ log[f].size \in Nat
      BY <1>1, <1>3, <1>5, <2>2
    <3>2. log[f].size >= 2 * (log[f].size \div 2)
      BY <3>1
    <3>3. QED
      BY <2>1, <3>1, <3>2 DEF Reached
  <2>3. CASE f # last
    BY <1>2, <1>4, <2>1, <2>3
  <2>4. QED
    BY <2>2, <2>3
<1>6. QED
  BY <1>2, <1>3, <1>4, <1>5 DEF last

LEMMA ListKeepsIndex ==
    ASSUME IndexInv, NEW h \in Readers, I!List(h)
    PROVE  IndexInv'
<1> DEFINE usable == {i \in stored : i.good}
           taken == CHOOSE i \in usable : TRUE
           verdict == IF usable = {} THEN "rebuild" ELSE I!Classify(taken.files, log)
<1>1. /\ log' = log /\ writes' = writes /\ stored' = stored /\ tmp' = tmp
      /\ log \in Files /\ IndexTypes /\ iasked[h] \in AskType /\ ianswer[h] \in AnswerType
      /\ iasked \in [Readers -> AskType]
  BY DEF I!List, IndexInv, IndexTypes
<1>2. usable # {} => taken \in IndexType /\ ExactSoFar(taken, log) /\ CaughtUp(taken)
  <2>1. usable # {} => taken \in usable
    OBVIOUS
  <2>2. QED
    BY <2>1 DEF IndexInv, StoreHolds, IndexTypes
<1>3. verdict # "rebuild" => usable # {} /\ verdict = I!Classify(taken.files, log)
  OBVIOUS
<1>4. /\ verdict = "hit" => /\ ianswer' = [ianswer EXCEPT ![h] = [index |-> taken, listed |-> log]]
                            /\ iasked' = iasked
      /\ verdict = "rebuild" =>
            /\ iasked' = [iasked EXCEPT ![h] = [I!Idle EXCEPT !.at = "glob", !.listed = log]]
            /\ ianswer' = [ianswer EXCEPT ![h] = I!NoAnswer]
      /\ verdict = "delta" =>
            /\ iasked' = [iasked EXCEPT ![h] = [at |-> "stat", listed |-> log, index |-> taken,
                                                file |-> Len(taken.files), stat |-> log]]
            /\ ianswer' = [ianswer EXCEPT ![h] = I!NoAnswer]
  BY DEF I!List
<1>5. verdict \in {"hit", "rebuild", "delta"}
  BY DEF I!Classify
<1> HIDE DEF usable, taken, verdict
<1>6. /\ stored' \in SUBSET IndexType /\ tmp' \in SUBSET IndexType
      /\ \A i \in stored' \cup tmp' : i.good => ExactSoFar(i, log) /\ CaughtUp(i)
  BY <1>1 DEF IndexInv, IndexTypes, StoreHolds
<1>7. Grown(log, log)
  BY <1>1, GrownItself
<1>8. /\ I!NoAnswer \in AnswerType /\ WasAnswered(I!NoAnswer, log)
  BY <1>1, EmptyIs DEF I!NoAnswer, AnswerType, Files, WasAnswered
<1>11. CASE verdict = "hit"
  <2> DEFINE b == [index |-> taken, listed |-> log]
  <2>1. b \in AnswerType /\ b.index = taken /\ b.listed = log
    BY <1>1, <1>2, <1>3, <1>11 DEF AnswerType
  <2>2. \A f \in DOMAIN log : f \in DOMAIN taken.files /\ Reached(taken.files[f], log[f].size)
    BY <1>1, <1>2, <1>3, <1>11, Classified
  <2>3. ianswer' = [ianswer EXCEPT ![h] = b] /\ iasked' = iasked
    BY <1>4, <1>11
  <2> HIDE DEF b
  <2>4. WasAnswered(b, log)
    BY <1>2, <1>3, <1>11, <2>1, <2>2 DEF WasAnswered
  <2>5. Going(iasked[h], log)
    BY DEF IndexInv
  <2>6. iasked' = [iasked EXCEPT ![h] = iasked[h]]
    BY <1>1, <2>3
  <2>7. QED
    BY <1>1, <1>6, <2>1, <2>3, <2>4, <2>5, <2>6, RequestStep
<1>12. CASE verdict = "rebuild"
  <2> DEFINE a == [I!Idle EXCEPT !.at = "glob", !.listed = log]
  <2>1. a \in AskType /\ a.at = "glob" /\ a.listed = log
    <3>1. I!Idle \in AskType
      BY EmptyIs DEF AskType, Files, I!Idle
    <3>2. \A r \in AskType : LET n == [r EXCEPT !.at = "glob", !.listed = log]
                             IN n \in AskType /\ n.at = "glob" /\ n.listed = log
      BY <1>1 DEF AskType
    <3>3. QED
      BY <3>1, <3>2
  <2>2. iasked' = [iasked EXCEPT ![h] = a]
    BY <1>4, <1>12
  <2> HIDE DEF a
  <2>3. Going(a, log)
    BY <1>7, <2>1 DEF Going, Working
  <2>4. QED
    BY <1>1, <1>4, <1>6, <1>8, <1>12, <2>1, <2>2, <2>3, RequestStep
<1>13. CASE verdict = "delta"
  <2> DEFINE a == [at |-> "stat", listed |-> log, index |-> taken, file |-> Len(taken.files),
                   stat |-> log]
  <2>1. /\ taken \in IndexType /\ ExactSoFar(taken, log) /\ CaughtUp(taken)
        /\ I!Classify(taken.files, log) = "delta"
    BY <1>2, <1>3, <1>13
  <2>2. /\ Len(taken.files) \in Nat /\ Len(taken.files) >= 1
        /\ \A f \in DOMAIN taken.files :
              f < Len(taken.files) => Reached(taken.files[f], log[f].size)
    BY <1>1, <2>1, Classified, IndexIs
  <2>3. /\ a \in AskType /\ a.at = "stat" /\ a.listed = log /\ a.index = taken /\ a.stat = log
        /\ a.file = Len(taken.files)
    BY <1>1, <2>1, <2>2 DEF AskType, Working
  <2>4. iasked' = [iasked EXCEPT ![h] = a]
    BY <1>4, <1>13
  <2> HIDE DEF a
  <2>5. Len(taken.files) <= Len(log) /\ Len(log) \in Nat
    BY <1>1, <2>1, FilesAre DEF ExactSoFar, Grown
  <2>6. Going(a, log)
    BY <1>7, <2>1, <2>2, <2>3, <2>5 DEF Going, Working, CaughtUp
  <2>7. QED
    BY <1>1, <1>4, <1>6, <1>8, <1>13, <2>3, <2>4, <2>6, RequestStep
<1>14. QED
  BY <1>5, <1>11, <1>12, <1>13


LEMMA GlobKeepsIndex ==
    ASSUME IndexInv, NEW h \in Readers, I!Glob(h)
    PROVE  IndexInv'
<1> DEFINE old == iasked[h]
           a == [old EXCEPT !.at = "stat", !.file = 1, !.stat = log, !.index = I!Empty]
<1>1. /\ log' = log /\ writes' = writes /\ stored' = stored /\ tmp' = tmp /\ ianswer' = ianswer
      /\ log \in Files /\ log # <<>> /\ iasked \in [Readers -> AskType] /\ old \in AskType
      /\ Going(old, log)
  BY DEF I!Glob, IndexInv, IndexTypes
<1>2. iasked' = [iasked EXCEPT ![h] = a]
  BY DEF I!Glob
<1> HIDE DEF old
<1>3. /\ a \in AskType /\ a.at = "stat" /\ a.listed = old.listed /\ a.index = I!Empty
      /\ a.stat = log /\ a.file = 1
  <2>1. "stat" \in Working /\ 1 \in Nat
    BY DEF Working
  <2>2. QED
    BY <1>1, <2>1, EmptyIs DEF AskType
<1>4. Grown(old.listed, log) /\ Len(old.listed) <= Len(log) /\ Grown(log, log) /\ 1 <= Len(log)
  BY <1>1, GrownItself, FilesAre DEF Going, Grown
<1> HIDE DEF a
<1>5. ExactSoFar(I!Empty, log) /\ DOMAIN I!Empty.files = {} /\ Len(I!Empty.files) = 0
  BY <1>1, EmptyIs
<1>6. Going(a, log)
  BY <1>3, <1>4, <1>5 DEF Going
<1>7. QED
  BY <1>1, <1>2, <1>3, <1>6, InwardStep

\* What is known of a file when its scan begins takes nothing from what is indexed.
LEMMA KnownFile ==
    ASSUME NEW there \in Files, NEW i \in IndexType, ExactSoFar(i, there),
           NEW f \in {Len(i.files), Len(i.files) + 1} \ {0}, f <= Len(there),
           NEW info, info = [size |-> there[f].size, mtime |-> there[f].mtime,
                             indexed |-> I!Info(i, f).indexed],
           NEW j, j = I!SetInfo(i, f, info)
    PROVE  /\ j \in IndexType /\ ExactSoFar(j, there) /\ Len(j.files) = f
           /\ \A g \in DOMAIN j.files : g < f => g \in DOMAIN i.files /\ j.files[g] = i.files[g]
<1> DEFINE Known == [size : Nat, mtime : Nat, indexed : Nat]
<1>1. /\ Len(there) \in Nat /\ DOMAIN there = 1..Len(there)
      /\ \A g \in DOMAIN there : there[g].size \in Nat /\ there[g].mtime \in Nat
  BY FilesAre
<1>2. /\ i.files \in Seq(Known) /\ Len(i.files) \in Nat /\ DOMAIN i.files = 1..Len(i.files)
      /\ \A g \in DOMAIN i.files :
            i.files[g].size \in Nat /\ i.files[g].mtime \in Nat /\ i.files[g].indexed \in Nat
      /\ i.locs \in Seq(Nat \X Nat) /\ i.good \in BOOLEAN
  BY IndexIs DEF IndexType
<1>3. f \in Nat /\ f \in DOMAIN there /\ f >= 1 /\ (f = Len(i.files) \/ f = Len(i.files) + 1)
  BY <1>1, <1>2
<1>4. info \in Known
  <2>1. I!Info(i, f).indexed \in Nat
    <3>1. CASE f <= Len(i.files)
      <4>1. f \in DOMAIN i.files /\ I!Info(i, f) = i.files[f]
        BY <1>2, <1>3, <3>1 DEF I!Info
      <4>2. QED
        BY <1>2, <4>1
    <3>2. CASE ~(f <= Len(i.files))
      BY <3>2 DEF I!Info
    <3>3. QED
      BY <3>1, <3>2
  <2>2. QED
    BY <1>1, <1>3, <2>1
<1>5. /\ info.size = there[f].size
      /\ info.indexed = IF f <= Len(i.files) THEN i.files[f].indexed ELSE 0
  BY DEF I!Info
<1> HIDE DEF Known
<1>6. /\ j.locs = i.locs /\ j.good = i.good /\ j \in [files : Seq(Known), locs : Seq(Nat \X Nat), good : BOOLEAN]
      /\ Len(j.files) = f
      /\ \A g \in DOMAIN j.files : j.files[g] = IF g = f THEN info ELSE i.files[g]
  <2>1. CASE f <= Len(i.files)
    <3>1. f = Len(i.files) /\ f \in DOMAIN i.files
      BY <1>2, <1>3, <2>1
    <3>2. j = [i EXCEPT !.files[f] = info]
      BY <2>1 DEF I!SetInfo
    <3> DEFINE files == [i.files EXCEPT ![f] = info]
    <3>3. files \in Seq(Known) /\ Len(files) = f /\ DOMAIN files = 1..f
          /\ \A g \in 1..f : files[g] = IF g = f THEN info ELSE i.files[g]
      BY <1>2, <1>4, <3>1
    <3>4. j = [files |-> files, locs |-> i.locs, good |-> i.good]
      BY <3>2 DEF IndexType
    <3> HIDE DEF files
    <3>5. QED
      BY <1>2, <3>3, <3>4
  <2>2. CASE ~(f <= Len(i.files))
    <3>1. f = Len(i.files) + 1
      BY <1>2, <1>3, <2>2
    <3>2. j = [i EXCEPT !.files = Append(i.files, info)]
      BY <2>2 DEF I!SetInfo
    <3> DEFINE files == Append(i.files, info)
    <3>3. files \in Seq(Known) /\ Len(files) = f /\ DOMAIN files = 1..f
          /\ \A g \in 1..f : files[g] = IF g = f THEN info ELSE i.files[g]
      BY <1>2, <1>4, <3>1
    <3>4. j = [files |-> files, locs |-> i.locs, good |-> i.good]
      BY <3>2 DEF IndexType
    <3> HIDE DEF files
    <3>5. QED
      BY <1>2, <3>3, <3>4
  <2>3. QED
    BY <2>1, <2>2
<1>7. j \in IndexType
  BY <1>6 DEF IndexType, Known
<1>8. DOMAIN j.files = 1..f
  BY <1>6, <1>7, IndexIs
<1> DEFINE n == Len(i.files)
<1>20. /\ n \in Nat /\ DOMAIN i.files = 1..n /\ (f = n \/ f = n + 1)
       /\ info.indexed = IF f <= n THEN i.files[f].indexed ELSE 0
       /\ \A g \in 1..f : j.files[g] = IF g = f THEN info ELSE i.files[g]
  BY <1>2, <1>3, <1>5, <1>6, <1>8
<1> HIDE DEF n
<1>9. \A g \in DOMAIN j.files : g < f => g \in DOMAIN i.files /\ j.files[g] = i.files[g]
  <2> SUFFICES ASSUME NEW g \in 1..f, g < f PROVE g \in 1..n /\ j.files[g] = i.files[g]
    BY <1>8, <1>20
  <2>1. g \in 1..n
    BY <1>3, <1>20
  <2>2. QED
    BY <1>20, <2>1
<1>21. \A g \in 1..n : g \in 1..f /\ j.files[g].indexed = i.files[g].indexed
  <2> SUFFICES ASSUME NEW g \in 1..n
               PROVE  g \in 1..f /\ j.files[g].indexed = i.files[g].indexed
    OBVIOUS
  <2>1. g \in 1..f /\ f \in Nat
    BY <1>3, <1>20
  <2>2. CASE g = f
    <3>1. f <= n /\ j.files[g] = info
      BY <1>20, <2>1, <2>2
    <3>2. QED
      BY <1>20, <2>1, <2>2, <3>1
  <2>3. CASE g # f
    BY <1>20, <2>1, <2>3
  <2>4. QED
    BY <2>1, <2>2, <2>3
<1>22. \A g \in (1..f) \ (1..n) : j.files[g].indexed = 0
  <2> SUFFICES ASSUME NEW g \in 1..f, g \notin 1..n PROVE j.files[g].indexed = 0
    OBVIOUS
  <2>1. g = f /\ ~(f <= n)
    BY <1>3, <1>20
  <2>2. QED
    BY <1>20, <2>1
<1>10. Grown(j.files, there)
  <2>1. Len(j.files) <= Len(there)
    BY <1>6
  <2>2. ASSUME NEW g \in 1..f PROVE j.files[g].size <= there[g].size
    <3>1. CASE g = f
      <4>1. j.files[g].size = there[g].size /\ there[g].size \in Nat
        BY <1>1, <1>3, <1>5, <1>20, <3>1
      <4>2. QED
        BY <4>1
    <3>2. CASE g # f
      <4>1. g < f /\ g \in DOMAIN j.files
        BY <1>3, <1>8, <3>2
      <4>2. g \in DOMAIN i.files /\ j.files[g] = i.files[g]
        BY <1>9, <4>1
      <4>3. QED
        BY <4>2 DEF ExactSoFar, Grown
    <3>3. QED
      BY <3>1, <3>2
  <2>3. QED
    BY <1>8, <2>1, <2>2 DEF Grown
<1>11. \A g \in DOMAIN j.files : j.files[g].indexed % 2 = 0 /\ j.files[g].indexed <= there[g].size
  <2> SUFFICES ASSUME NEW g \in 1..f
               PROVE  j.files[g].indexed % 2 = 0 /\ j.files[g].indexed <= there[g].size
    BY <1>8
  <2>1. CASE g \in 1..n
    <3>1. j.files[g].indexed = i.files[g].indexed
      BY <1>21, <2>1
    <3>2. QED
      BY <1>20, <2>1, <3>1 DEF ExactSoFar, I!Exact
  <2>2. CASE g \notin 1..n
    <3>1. j.files[g].indexed = 0
      BY <1>22, <2>2
    <3>2. g \in 1..Len(there)
      BY <1>1, <1>3
    <3>3. QED
      BY <1>1, <3>1, <3>2
  <2>3. QED
    BY <2>1, <2>2
<1>12. UNION {I!WholeLines(g, j.files[g].indexed) : g \in DOMAIN j.files} =
       UNION {I!WholeLines(g, i.files[g].indexed) : g \in DOMAIN i.files}
  <2>1. ASSUME NEW g \in (1..f) \ (1..n) PROVE I!WholeLines(g, j.files[g].indexed) = {}
    <3>1. j.files[g].indexed = 0 /\ 0..((0 \div 2) - 1) = {}
      BY <1>22
    <3>2. QED
      BY <3>1 DEF I!WholeLines
  <2>2. UNION {I!WholeLines(g, j.files[g].indexed) : g \in 1..f} =
        UNION {I!WholeLines(g, i.files[g].indexed) : g \in 1..n}
    <3>1. ASSUME NEW g \in 1..f, NEW x \in I!WholeLines(g, j.files[g].indexed)
          PROVE  g \in 1..n /\ x \in I!WholeLines(g, i.files[g].indexed)
      BY <1>21, <2>1
    <3>2. ASSUME NEW g \in 1..n, NEW x \in I!WholeLines(g, i.files[g].indexed)
          PROVE  g \in 1..f /\ x \in I!WholeLines(g, j.files[g].indexed)
      BY <1>21
    <3> DEFINE ofj(g) == I!WholeLines(g, j.files[g].indexed)
               ofi(g) == I!WholeLines(g, i.files[g].indexed)
    <3>3. /\ \A g \in 1..f : \A x \in ofj(g) : g \in 1..n /\ x \in ofi(g)
          /\ \A g \in 1..n : \A x \in ofi(g) : g \in 1..f /\ x \in ofj(g)
      BY <3>1, <3>2
    <3> HIDE DEF ofj, ofi
    <3>4. UNION {ofj(g) : g \in 1..f} = UNION {ofi(g) : g \in 1..n}
      BY <3>3
    <3>5. QED
      BY <3>4 DEF ofj, ofi
  <2>3. QED
    BY <1>8, <1>20, <2>2
<1>13. I!Exact(j, there)
  <2>1. j.locs = i.locs
    BY <1>6
  <2>2. I!Exact(i, there)
    BY DEF ExactSoFar
  <2>3. /\ \A k, l \in DOMAIN j.locs : k < l => I!Before(j.locs[k], j.locs[l])
        /\ {j.locs[k] : k \in DOMAIN j.locs} =
              UNION {I!WholeLines(g, i.files[g].indexed) : g \in DOMAIN i.files}
    BY <2>1, <2>2, Zenon DEF I!Exact
  <2>4. {j.locs[k] : k \in DOMAIN j.locs} =
              UNION {I!WholeLines(g, j.files[g].indexed) : g \in DOMAIN j.files}
    BY <1>12, <2>3, Zenon
  <2>5. QED
    BY <1>11, <2>3, <2>4, Zenon DEF I!Exact
<1>14. QED
  BY <1>6, <1>7, <1>9, <1>10, <1>13 DEF ExactSoFar

LEMMA StatKeepsIndex ==
    ASSUME IndexInv, NEW h \in Readers, I!Stat(h)
    PROVE  IndexInv'
<1> DEFINE old == iasked[h]
           f == old.file
           info == [size |-> log[f].size, mtime |-> log[f].mtime,
                    indexed |-> I!Info(old.index, f).indexed]
           j == I!SetInfo(old.index, f, info)
           a == [old EXCEPT !.at = "read", !.index = j]
<1>1. /\ log' = log /\ writes' = writes /\ stored' = stored /\ tmp' = tmp /\ ianswer' = ianswer
      /\ log \in Files /\ iasked \in [Readers -> AskType] /\ old \in AskType /\ old.at = "stat"
      /\ Going(old, log)
  BY DEF I!Stat, IndexInv, IndexTypes
<1>2. iasked' = [iasked EXCEPT ![h] = a]
  BY DEF I!Stat
<1>3. /\ old.index \in IndexType /\ old.listed \in Files /\ old.stat \in Files /\ f \in Nat
  BY <1>1 DEF AskType
<1>4. /\ ExactSoFar(old.index, log) /\ Grown(old.stat, log) /\ Len(old.listed) <= Len(old.stat)
      /\ f \in {Len(old.index.files), Len(old.index.files) + 1} \ {0} /\ f <= Len(old.stat)
      /\ Grown(old.listed, log)
      /\ \A g \in DOMAIN old.index.files : g < f =>
            /\ Reached(old.index.files[g], old.index.files[g].size)
            /\ g \in DOMAIN old.listed => Reached(old.index.files[g], old.listed[g].size)
  BY <1>1 DEF Going, Working
<1>5. f <= Len(log)
  BY <1>1, <1>3, <1>4, FilesAre DEF Grown
<1>6. /\ j \in IndexType /\ ExactSoFar(j, log) /\ Len(j.files) = f
      /\ \A g \in DOMAIN j.files :
            g < f => g \in DOMAIN old.index.files /\ j.files[g] = old.index.files[g]
  <2> HIDE DEF f, old
  <2> HIDE DEF info, j
  <2>1. info = [size |-> log[f].size, mtime |-> log[f].mtime,
                indexed |-> I!Info(old.index, f).indexed]
        /\ j = I!SetInfo(old.index, f, info)
    BY DEF info, j
  <2>2. QED
    BY <1>1, <1>3, <1>4, <1>5, <2>1, KnownFile
<1> HIDE DEF f, old, info, j
<1>7. /\ a \in AskType /\ a.at = "read" /\ a.listed = old.listed /\ a.index = j
      /\ a.stat = old.stat /\ a.file = f
  <2>1. "read" \in Working
    BY DEF Working
  <2>2. QED
    BY <1>1, <1>6, <2>1 DEF AskType, f
<1> HIDE DEF a
<1>8. Going(a, log)
  BY <1>4, <1>6, <1>7 DEF Going
<1>9. QED
  BY <1>1, <1>2, <1>7, <1>8, InwardStep


\* The halves of what is even, and of what is left of a file.
LEMMA EvenParts ==
    ASSUME NEW from \in Nat, from % 2 = 0, NEW size \in Nat, from <= size,
           NEW m, m = (size - from) \div 2
    PROVE  /\ from \div 2 \in Nat /\ m \in Nat /\ from = 2 * (from \div 2)
           /\ (from + 2 * m) % 2 = 0 /\ from + 2 * m <= size
           /\ (from + 2 * m) \div 2 = (from \div 2) + m /\ size \div 2 = (from \div 2) + m
<1> DEFINE p == from \div 2
<1>1. p \in Nat /\ from = 2 * p
  BY Halving
<1> HIDE DEF p
<1>2. size - from \in Nat
  OBVIOUS
<1>3. m \in Nat /\ (size - from) % 2 \in {0, 1} /\ size - from = 2 * m + ((size - from) % 2)
  BY <1>2, Halving
<1>4. from + 2 * m = 2 * (p + m) /\ p + m \in Nat
  BY <1>1, <1>3
<1>5. (from + 2 * m) % 2 = 0 /\ (from + 2 * m) \div 2 = p + m
  BY <1>4, Halves
<1>6. from + 2 * m <= size
  BY <1>1, <1>2, <1>3
<1>7. size \div 2 = p + m
  <2>1. /\ size \div 2 \in Nat /\ size % 2 \in {0, 1} /\ size = 2 * (size \div 2) + (size % 2)
    BY Halving
  <2> DEFINE half == size \div 2
             odd == size % 2
  <2>2. half \in Nat /\ odd \in {0, 1} /\ size = 2 * half + odd
    BY <2>1
  <2>3. PICK r \in {0, 1} : size = 2 * (p + m) + r
    BY <1>1, <1>2, <1>3, <1>4
  <2> HIDE DEF half, odd
  <2>4. half = p + m
    BY <1>4, <2>2, <2>3
  <2>5. QED
    BY <2>4 DEF half
<1>8. QED
  BY <1>1, <1>3, <1>5, <1>6, <1>7 DEF p

LEMMA HalvesGrow ==
    ASSUME NEW a \in Nat, NEW b \in Nat, a <= b
    PROVE  a \div 2 \in Nat /\ 2 * (a \div 2) <= 2 * (b \div 2)
<1>1. a \div 2 \in Nat /\ a % 2 \in {0, 1} /\ a = 2 * (a \div 2) + (a % 2)
  BY Halving
<1>2. b \div 2 \in Nat /\ b % 2 \in {0, 1} /\ b = 2 * (b \div 2) + (b % 2)
  BY Halving
<1> DEFINE x == a \div 2
           y == b \div 2
           r == a % 2
           s == b % 2
<1>3. x \in Nat /\ y \in Nat /\ r \in {0, 1} /\ s \in {0, 1} /\ 2 * x + r <= 2 * y + s
  BY <1>1, <1>2
<1> HIDE DEF x, y, r, s
<1>4. x <= y
  BY <1>3
<1>5. QED
  BY <1>1, <1>2, <1>4 DEF x, y

LEMMA ListIs ==
    ASSUME NEW Where, NEW many \in Nat, NEW s \in [1..many -> Where]
    PROVE  s \in Seq(Where) /\ Len(s) = many /\ DOMAIN s = 1..many
OBVIOUS

\* A scan from where the index ends takes the whole lines that are left.
LEMMA ScannedFile ==
    ASSUME log \in Files, NEW i \in IndexType, ExactSoFar(i, log),
           NEW f, f = Len(i.files), f # 0,
           NEW from, from = i.files[f].indexed,
           NEW lines, lines = I!Lines(f, from),
           NEW j, j = I!Scanned(i, f, lines)
    PROVE  /\ j \in IndexType /\ ExactSoFar(j, log) /\ Len(j.files) = f
           /\ \A g \in DOMAIN j.files : g < f => g \in DOMAIN i.files /\ j.files[g] = i.files[g]
           /\ Reached(j.files[f], log[f].size) /\ Reached(j.files[f], j.files[f].size)
<1> DEFINE Known == [size : Nat, mtime : Nat, indexed : Nat]
           size == log[f].size
           p == from \div 2
           m == (size - from) \div 2
           end == from + 2 * m
<1>1. /\ Len(log) \in Nat /\ DOMAIN log = 1..Len(log)
      /\ \A g \in DOMAIN log : log[g].size \in Nat
  BY FilesAre
<1>2. /\ i.files \in Seq(Known) /\ Len(i.files) \in Nat /\ DOMAIN i.files = 1..f
      /\ \A g \in DOMAIN i.files :
            i.files[g].size \in Nat /\ i.files[g].mtime \in Nat /\ i.files[g].indexed \in Nat
      /\ i.locs \in Seq(Nat \X Nat) /\ Len(i.locs) \in Nat /\ DOMAIN i.locs = 1..Len(i.locs)
  BY IndexIs
<1>3. /\ f \in Nat /\ f >= 1 /\ f \in DOMAIN i.files /\ f \in DOMAIN log
      /\ size \in Nat /\ from \in Nat
  BY <1>1, <1>2 DEF ExactSoFar, Grown
<1>4. from % 2 = 0 /\ from <= size /\ i.files[f].size <= size
  BY <1>3 DEF ExactSoFar, I!Exact, Grown
<1>5. /\ p \in Nat /\ m \in Nat /\ from = 2 * p
      /\ end % 2 = 0 /\ end <= size /\ end \in Nat
      /\ end \div 2 = p + m /\ size \div 2 = p + m /\ end = 2 * (p + m)
  <2> HIDE DEF size, p, m
  <2>1. p = from \div 2 /\ m = (size - from) \div 2
    BY DEF p, m
  <2>2. /\ p \in Nat /\ m \in Nat /\ from = 2 * p
        /\ (from + 2 * m) % 2 = 0 /\ from + 2 * m <= size
        /\ (from + 2 * m) \div 2 = p + m /\ size \div 2 = p + m
    <3>1. from \in Nat /\ from % 2 = 0 /\ size \in Nat /\ from <= size
      BY <1>3, <1>4
    <3>2. \A here, end1 \in Nat :
             here % 2 = 0 /\ here <= end1 =>
                LET k == (end1 - here) \div 2
                IN /\ here \div 2 \in Nat /\ k \in Nat /\ here = 2 * (here \div 2)
                   /\ (here + 2 * k) % 2 = 0 /\ here + 2 * k <= end1
                   /\ (here + 2 * k) \div 2 = (here \div 2) + k /\ end1 \div 2 = (here \div 2) + k
      BY EvenParts
    <3>3. QED
      BY <2>1, <3>1, <3>2
  <2>3. QED
    BY <1>3, <2>2
<1>6. lines = [k \in 1..m |-> <<f, from + 2 * (k - 1)>>]
  BY DEF I!Lines
<1> HIDE DEF size, p, m, end
<1>7. lines \in Seq(Nat \X Nat) /\ Len(lines) = m /\ DOMAIN lines = 1..m
  <2>1. ASSUME NEW k \in 1..m PROVE <<f, from + 2 * (k - 1)>> \in Nat \X Nat
    <3>1. from + 2 * (k - 1) \in Nat
      BY <1>3, <1>5
    <3>2. QED
      BY <1>3, <3>1
  <2> DEFINE Where == Nat \X Nat
  <2>2. \A k \in 1..m : <<f, from + 2 * (k - 1)>> \in Where
    BY <2>1
  <2> HIDE DEF Where
  <2>3. lines \in [1..m -> Where]
    BY <1>6, <2>2
  <2>4. m \in Nat
    BY <1>5
  <2>5. lines \in Seq(Where) /\ Len(lines) = m /\ DOMAIN lines = 1..m
    BY <2>3, <2>4, ListIs, Zenon
  <2>6. QED
    BY <2>5 DEF Where
<1> DEFINE last == [i.files[f] EXCEPT !.indexed = end]
           files == [i.files EXCEPT ![f] = last]
           locs == i.locs \o lines
<1>8. /\ last \in Known /\ last.indexed = end /\ last.size = i.files[f].size
  <2>1. i.files[f] \in Known
    <3> HIDE DEF Known
    <3>1. QED
      BY <1>2, <1>3
  <2>2. QED
    BY <1>5, <2>1
<1>9. j.files = files /\ j.locs = locs /\ j.good = i.good /\ j \in IndexType
  <2>1. j = [i EXCEPT !.locs = locs, !.files = files]
    BY <1>3, <1>7 DEF I!Scanned, IndexType, end
  <2>2. files \in Seq(Known) /\ locs \in Seq(Nat \X Nat)
    <3> HIDE DEF last, Known
    <3>1. QED
      BY <1>2, <1>3, <1>7, <1>8, ConcatProperties
  <2> HIDE DEF last, files, locs
  <2>3. QED
    BY <2>1, <2>2 DEF IndexType, Known
<1> HIDE DEF last
<1>10. /\ Len(j.files) = f /\ DOMAIN j.files = 1..f
       /\ \A g \in 1..f : j.files[g] = IF g = f THEN last ELSE i.files[g]
       /\ j.files[f].indexed = end
  <2>1. last \in Known
    BY <1>8
  <2> HIDE DEF Known
  <2>2. /\ Len(files) = f /\ DOMAIN files = 1..f
        /\ \A g \in 1..f : files[g] = IF g = f THEN last ELSE i.files[g]
    BY <1>2, <1>3, <2>1
  <2> HIDE DEF files
  <2>3. files[f] = last
    BY <1>3, <2>2
  <2>4. QED
    BY <1>8, <1>9, <2>2, <2>3
<1> HIDE DEF Known
<1>11. \A g \in DOMAIN j.files : g < f => g \in DOMAIN i.files /\ j.files[g] = i.files[g]
  <2> SUFFICES ASSUME NEW g \in 1..f, g < f PROVE j.files[g] = i.files[g]
    BY <1>2, <1>10
  <2>1. g # f
    BY <1>3
  <2>2. QED
    BY <1>10, <2>1
<1>12. Reached(j.files[f], log[f].size) /\ Reached(j.files[f], j.files[f].size)
  <2>1. j.files[f].indexed = end /\ j.files[f].size = i.files[f].size /\ i.files[f].size \in Nat
    BY <1>2, <1>3, <1>8, <1>10
  <2>2. end >= 2 * (size \div 2)
    BY <1>5
  <2>3. end >= 2 * (i.files[f].size \div 2)
    <3>1. 2 * (i.files[f].size \div 2) <= 2 * (size \div 2) /\ i.files[f].size \div 2 \in Nat
      BY <1>3, <1>4, <2>1, HalvesGrow
    <3>2. QED
      BY <1>5, <3>1
  <2>4. QED
    BY <2>1, <2>2, <2>3 DEF Reached, size
<1>13. Grown(j.files, log)
  <2>1. f <= Len(log)
    BY <1>1, <1>3
  <2>2. ASSUME NEW g \in 1..f PROVE j.files[g].size <= log[g].size
    <3>1. j.files[g].size = i.files[g].size
      BY <1>8, <1>10
    <3>2. QED
      BY <1>2, <3>1 DEF ExactSoFar, Grown
  <2>3. QED
    BY <1>10, <2>1, <2>2 DEF Grown
<1>14. \A g \in DOMAIN j.files : j.files[g].indexed % 2 = 0 /\ j.files[g].indexed <= log[g].size
  <2> SUFFICES ASSUME NEW g \in 1..f
               PROVE  j.files[g].indexed % 2 = 0 /\ j.files[g].indexed <= log[g].size
    BY <1>10
  <2>1. CASE g = f
    BY <1>5, <1>8, <1>10, <2>1 DEF size
  <2>2. CASE g # f
    BY <1>2, <1>10, <2>2 DEF ExactSoFar, I!Exact
  <2>3. QED
    BY <2>1, <2>2
<1> DEFINE n == Len(i.locs)
<1>15. /\ n \in Nat /\ Len(locs) = n + m /\ DOMAIN locs = 1..(n + m)
       /\ \A k \in 1..n : locs[k] = i.locs[k]
       /\ \A k \in 1..m : n + k \in DOMAIN locs /\ locs[n + k] = <<f, from + 2 * (k - 1)>>
  <2>1. /\ locs \in Seq(Nat \X Nat) /\ Len(locs) = n + m /\ n \in Nat
        /\ \A k \in 1..(n + m) : locs[k] = IF k <= n THEN i.locs[k] ELSE lines[k - n]
    <3> DEFINE Where == Nat \X Nat
    <3>1. i.locs \in Seq(Where) /\ lines \in Seq(Where) /\ Len(lines) = m /\ Len(i.locs) \in Nat
      BY <1>2, <1>7
    <3> HIDE DEF Where
    <3>2. /\ locs \in Seq(Where) /\ Len(locs) = n + m
          /\ \A k \in 1..(n + m) : locs[k] = IF k <= n THEN i.locs[k] ELSE lines[k - n]
      <4>1. /\ locs \in Seq(Where) /\ Len(locs) = Len(i.locs) + Len(lines)
            /\ \A k \in 1..(Len(i.locs) + Len(lines)) :
                   locs[k] = IF k <= Len(i.locs) THEN i.locs[k] ELSE lines[k - Len(i.locs)]
        <5>1. ASSUME NEW a \in Seq(Where), NEW b \in Seq(Where)
              PROVE  /\ a \o b \in Seq(Where) /\ Len(a \o b) = Len(a) + Len(b)
                     /\ \A k \in 1..(Len(a) + Len(b)) :
                            (a \o b)[k] = IF k <= Len(a) THEN a[k] ELSE b[k - Len(a)]
          BY ConcatProperties
        <5>2. QED
          BY <3>1, <5>1
      <4>2. QED
        BY <3>1, <4>1
    <3>3. QED
      BY <3>1, <3>2 DEF Where
  <2> HIDE DEF n, locs
  <2>2. DOMAIN locs = 1..(n + m)
    BY <2>1
  <2>3. ASSUME NEW k \in 1..n PROVE locs[k] = i.locs[k]
    <3>1. k \in 1..(n + m) /\ k <= n
      BY <1>5, <2>1
    <3>2. QED
      BY <2>1, <3>1
  <2>4. ASSUME NEW k \in 1..m PROVE n + k \in DOMAIN locs /\ locs[n + k] = <<f, from + 2 * (k - 1)>>
    <3>1. n + k \in 1..(n + m) /\ ~(n + k <= n) /\ (n + k) - n = k
      BY <1>5, <2>1
    <3>2. lines[k] = <<f, from + 2 * (k - 1)>>
      BY <1>6
    <3>3. QED
      BY <2>1, <2>2, <3>1, <3>2
  <2>5. QED
    BY <2>1, <2>2, <2>3, <2>4
<1>16. DOMAIN i.locs = 1..n
  BY <1>2
<1> HIDE DEF n, locs, files
\* A line that is known is of an earlier file, or before the place of the scan.
<1>17. ASSUME NEW k \in 1..n
       PROVE  \E g \in 1..f : /\ i.locs[k] \in I!WholeLines(g, i.files[g].indexed)
                              /\ i.locs[k][1] = g
                              /\ g = f => i.locs[k][2] < from /\ i.locs[k][2] \in Nat
  <2>1. i.locs[k] \in UNION {I!WholeLines(g, i.files[g].indexed) : g \in DOMAIN i.files}
    <3>1. {i.locs[l] : l \in DOMAIN i.locs} =
             UNION {I!WholeLines(g, i.files[g].indexed) : g \in DOMAIN i.files}
      BY Zenon DEF ExactSoFar, I!Exact
    <3>2. i.locs[k] \in {i.locs[l] : l \in DOMAIN i.locs}
      BY <1>16
    <3>3. QED
      BY <3>1, <3>2
  <2>2. PICK g \in 1..f : i.locs[k] \in I!WholeLines(g, i.files[g].indexed)
    BY <1>2, <2>1
  <2>3. PICK q \in 0..((i.files[g].indexed \div 2) - 1) : i.locs[k] = <<g, 2 * q>>
    BY <2>2 DEF I!WholeLines
  <2>4. i.locs[k][1] = g /\ i.locs[k][2] = 2 * q
    BY <2>3
  <2>5. ASSUME g = f PROVE 2 * q < from /\ 2 * q \in Nat
    <3>1. q \in 0..(p - 1)
      BY <2>3, <2>5 DEF p
    <3>2. QED
      BY <1>5, <3>1
  <2>6. QED
    BY <2>2, <2>4, <2>5
<1>18. ASSUME NEW k \in DOMAIN locs, NEW l \in DOMAIN locs, k < l
       PROVE  I!Before(locs[k], locs[l])
  <2>1. k \in 1..(n + m) /\ l \in 1..(n + m)
    BY <1>15
  <2>2. CASE l \in 1..n
    <3>1. k \in 1..n
      BY <1>5, <1>15, <1>18, <2>1, <2>2
    <3>2. I!Before(i.locs[k], i.locs[l])
      BY <1>16, <1>18, <2>2, <3>1 DEF ExactSoFar, I!Exact
    <3>3. QED
      BY <1>15, <2>2, <3>1, <3>2
  <2>3. CASE l \notin 1..n
    <3> DEFINE y == l - n
    <3>1. y \in 1..m /\ l = n + y
      <4>1. n \in Nat /\ m \in Nat /\ l \in 1..(n + m)
        BY <1>5, <1>15, <2>1
      <4>2. QED
        BY <2>3, <4>1
    <3>2. locs[l] = <<f, from + 2 * (y - 1)>>
      BY <1>15, <3>1
    <3>3. CASE k \in 1..n
      <4>1. locs[k] = i.locs[k]
        BY <1>15, <3>3
      <4>2. PICK g \in 1..f : /\ i.locs[k][1] = g
                              /\ g = f => i.locs[k][2] < from /\ i.locs[k][2] \in Nat
        BY <1>17, <3>3
      <4>3. locs[l][1] = f /\ locs[l][2] = from + 2 * (y - 1) /\ from + 2 * (y - 1) >= from
        BY <1>3, <1>5, <3>1, <3>2
      <4>4. CASE g = f
        <5>1. i.locs[k][2] < from + 2 * (y - 1)
          BY <1>3, <1>5, <3>1, <4>2, <4>3, <4>4
        <5>2. QED
          BY <4>1, <4>2, <4>3, <4>4, <5>1 DEF I!Before
      <4>5. CASE g # f
        <5>1. g < f
          BY <1>3, <4>5
        <5>2. QED
          BY <4>1, <4>2, <4>3, <5>1 DEF I!Before
      <4>6. QED
        BY <4>4, <4>5
    <3>4. CASE k \notin 1..n
      <4> DEFINE x == k - n
      <4>1. k \in Int /\ l \in Int /\ n \in Int /\ m \in Nat /\ k > n /\ k <= n + m /\ k < l
        BY <1>5, <1>15, <1>18, <2>1, <3>4
      <4>2. x \in 1..m /\ k = n + x /\ x < y
        BY <4>1
      <4> HIDE DEF x, y
      <4>3. locs[k] = <<f, from + 2 * (x - 1)>>
        BY <1>15, <4>2
      <4>4. from + 2 * (x - 1) < from + 2 * (y - 1)
        BY <1>3, <1>5, <3>1, <4>2
      <4>5. QED
        BY <3>2, <4>3, <4>4 DEF I!Before
    <3>5. QED
      BY <3>3, <3>4
  <2>4. QED
    BY <2>2, <2>3
<1>19. {j.locs[k] : k \in DOMAIN j.locs} =
       UNION {I!WholeLines(g, j.files[g].indexed) : g \in DOMAIN j.files}
  <2>1. ASSUME NEW k \in DOMAIN locs
        PROVE  \E g \in 1..f : locs[k] \in I!WholeLines(g, j.files[g].indexed)
    <3>1. CASE k \in 1..n
      <4>1. PICK g \in 1..f : i.locs[k] \in I!WholeLines(g, i.files[g].indexed)
        BY <1>17, <3>1
      <4>2. locs[k] = i.locs[k]
        BY <1>15, <3>1
      <4>3. CASE g = f
        <5>1. PICK q \in 0..(p - 1) : i.locs[k] = <<f, 2 * q>>
          BY <4>1, <4>3 DEF I!WholeLines, p
        <5>2. q \in 0..((end \div 2) - 1)
          BY <1>5, <5>1
        <5>3. j.files[f].indexed = end
          BY <1>10
        <5>4. QED
          BY <4>2, <4>3, <5>1, <5>2, <5>3 DEF I!WholeLines
      <4>4. CASE g # f
        BY <1>10, <4>1, <4>2, <4>4
      <4>5. QED
        BY <4>3, <4>4
    <3>2. CASE k \notin 1..n
      <4> DEFINE x == k - n
      <4>1. x \in 1..m /\ k = n + x
        BY <1>5, <1>15, <3>2
      <4>2. locs[k] = <<f, 2 * (p + (x - 1))>>
        <5>1. locs[k] = <<f, from + 2 * (x - 1)>>
          BY <1>15, <4>1
        <5>2. from + 2 * (x - 1) = 2 * (p + (x - 1))
          BY <1>5, <4>1
        <5>3. QED
          BY <5>1, <5>2
      <4>3. p + (x - 1) \in 0..((end \div 2) - 1)
        <5>1. p \in Nat /\ m \in Nat /\ end \div 2 = p + m
          BY <1>5
        <5>2. p + (x - 1) \in 0..((p + m) - 1)
          BY <4>1, <5>1
        <5>3. QED
          BY <5>1, <5>2
      <4>4. j.files[f].indexed = end
        BY <1>10
      <4>5. f \in 1..f
        BY <1>3
      <4>6. QED
        BY <4>2, <4>3, <4>4, <4>5 DEF I!WholeLines
    <3>3. QED
      BY <3>1, <3>2
  <2>2. ASSUME NEW g \in 1..f, NEW x \in I!WholeLines(g, j.files[g].indexed)
        PROVE  \E k \in DOMAIN locs : locs[k] = x
    <3>1. ASSUME x \in I!WholeLines(g, i.files[g].indexed)
          PROVE  \E k \in DOMAIN locs : locs[k] = x
      <4>1. {i.locs[l] : l \in DOMAIN i.locs} =
               UNION {I!WholeLines(e, i.files[e].indexed) : e \in DOMAIN i.files}
        BY Zenon DEF ExactSoFar, I!Exact
      <4>2. x \in {i.locs[l] : l \in DOMAIN i.locs}
        BY <1>2, <3>1, <4>1
      <4>3. PICK k \in 1..n : i.locs[k] = x
        BY <1>16, <4>2
      <4>4. k \in DOMAIN locs
        BY <1>5, <1>15
      <4>5. QED
        BY <1>15, <4>3, <4>4
    <3>2. CASE g # f
      BY <1>10, <3>1, <3>2
    <3>3. CASE g = f
      <4>1. j.files[f].indexed = end
        BY <1>10
      <4>2. PICK q \in 0..((p + m) - 1) : x = <<f, 2 * q>>
        BY <1>5, <3>3, <4>1 DEF I!WholeLines
      <4>3. CASE q < p
        <5>1. q \in 0..(p - 1)
          BY <1>5, <4>3
        <5>2. x \in I!WholeLines(f, i.files[f].indexed)
          BY <4>2, <5>1 DEF I!WholeLines, p
        <5>3. QED
          BY <3>1, <3>3, <5>2
      <4>4. CASE ~(q < p)
        <5> DEFINE k == (q - p) + 1
        <5>1. k \in 1..m /\ from + 2 * (k - 1) = 2 * q
          BY <1>5, <4>2, <4>4
        <5>2. n + k \in DOMAIN locs /\ locs[n + k] = x
          BY <1>15, <4>2, <5>1
        <5>3. QED
          BY <5>2
      <4>5. QED
        BY <4>3, <4>4
    <3>4. QED
      BY <3>2, <3>3
  <2> DEFINE of(g) == I!WholeLines(g, j.files[g].indexed)
  <2>3. /\ \A k \in DOMAIN locs : \E g \in 1..f : locs[k] \in of(g)
        /\ \A g \in 1..f : \A x \in of(g) : \E k \in DOMAIN locs : locs[k] = x
    BY <2>1, <2>2
  <2> HIDE DEF of
  <2>4. {j.locs[k] : k \in DOMAIN j.locs} = UNION {of(g) : g \in 1..f}
    <3> DEFINE all == j.locs
    <3>1. all = locs
      BY <1>9
    <3> HIDE DEF all
    <3>2. {all[k] : k \in DOMAIN all} = UNION {of(g) : g \in 1..f}
      BY <2>3, <3>1
    <3>3. QED
      BY <3>2 DEF all
  <2>5. QED
    BY <1>10, <2>4 DEF of
<1>20. I!Exact(j, log)
  <2>1. j.locs = locs
    BY <1>9
  <2>2. \A k, l \in DOMAIN j.locs : k < l => I!Before(j.locs[k], j.locs[l])
    BY <1>18, <2>1
  <2>3. QED
    BY <1>14, <1>19, <2>2, Zenon DEF I!Exact
<1>21. QED
  BY <1>9, <1>10, <1>11, <1>12, <1>13, <1>20 DEF ExactSoFar


LEMMA ReadKeepsIndex ==
    ASSUME IndexInv, NEW h \in Readers, I!Read(h)
    PROVE  IndexInv'
<1> DEFINE old == iasked[h]
           f == old.file
           from == old.index.files[f].indexed
           lines == I!Lines(f, from)
           j == I!Scanned(old.index, f, lines)
           after == IF f < Len(old.stat) THEN "stat" ELSE "store"
           a == [old EXCEPT !.at = after, !.file = f + 1, !.index = j]
<1>1. /\ log' = log /\ writes' = writes /\ stored' = stored /\ tmp' = tmp /\ ianswer' = ianswer
      /\ log \in Files /\ iasked \in [Readers -> AskType] /\ old \in AskType /\ old.at = "read"
      /\ Going(old, log)
  BY DEF I!Read, IndexInv, IndexTypes
<1>2. iasked' = [iasked EXCEPT ![h] = a]
  BY DEF I!Read
<1>3. /\ old.index \in IndexType /\ old.listed \in Files /\ old.stat \in Files /\ f \in Nat
      /\ after \in Working
  BY <1>1 DEF AskType, Working
<1>4. /\ ExactSoFar(old.index, log) /\ Grown(old.stat, log) /\ Len(old.listed) <= Len(old.stat)
      /\ f = Len(old.index.files) /\ f # 0 /\ f <= Len(old.stat)
      /\ Grown(old.listed, log)
      /\ \A g \in DOMAIN old.index.files : g < f =>
            /\ Reached(old.index.files[g], old.index.files[g].size)
            /\ g \in DOMAIN old.listed => Reached(old.index.files[g], old.listed[g].size)
  BY <1>1 DEF Going, Working
<1> HIDE DEF after, a
<1>6. /\ j \in IndexType /\ ExactSoFar(j, log) /\ Len(j.files) = f
      /\ \A g \in DOMAIN j.files :
            g < f => g \in DOMAIN old.index.files /\ j.files[g] = old.index.files[g]
      /\ Reached(j.files[f], log[f].size) /\ Reached(j.files[f], j.files[f].size)
  <2> DEFINE i == old.index
  <2>1. i.files[f].indexed = from /\ j = I!Scanned(i, f, lines) /\ i \in IndexType /\ ExactSoFar(i, log)
        /\ f = Len(i.files) /\ f # 0 /\ log \in Files /\ lines = I!Lines(f, from)
    BY <1>1, <1>3, <1>4
  <2> HIDE DEF f, from, lines, j, old, i
  <2>2. /\ j \in IndexType /\ ExactSoFar(j, log) /\ Len(j.files) = f
        /\ \A g \in DOMAIN j.files : g < f => g \in DOMAIN i.files /\ j.files[g] = i.files[g]
        /\ Reached(j.files[f], log[f].size) /\ Reached(j.files[f], j.files[f].size)
    BY <2>1, ScannedFile
  <2>3. QED
    BY <2>2 DEF i
<1>7. /\ a \in AskType /\ a.at = after /\ a.listed = old.listed /\ a.index = j
      /\ a.stat = old.stat /\ a.file = f + 1
  <2> HIDE DEF j
  <2>1. QED
    <3>1. f + 1 \in Nat
      BY <1>3
    <3> HIDE DEF f
    <3>2. QED
      BY <1>1, <1>3, <1>6, <3>1 DEF AskType, a
<1> HIDE DEF f, from, lines, j, old
<1>8. DOMAIN j.files = 1..f /\ f \in Nat /\ Len(old.stat) \in Nat
  BY <1>3, <1>6, IndexIs, FilesAre
<1>9. \A g \in DOMAIN j.files :
         /\ Reached(j.files[g], j.files[g].size)
         /\ g \in DOMAIN old.listed => Reached(j.files[g], old.listed[g].size)
  <2> SUFFICES ASSUME NEW g \in 1..f
               PROVE  /\ Reached(j.files[g], j.files[g].size)
                      /\ g \in DOMAIN old.listed => Reached(j.files[g], old.listed[g].size)
    BY <1>8
  <2>1. CASE g < f
    BY <1>4, <1>6, <1>8, <2>1
  <2>2. CASE ~(g < f)
    <3>1. g = f
      BY <1>8, <2>2
    <3>2. ASSUME f \in DOMAIN old.listed PROVE Reached(j.files[f], old.listed[f].size)
      <4>1. /\ old.listed[f].size \in Nat /\ log[f].size \in Nat
            /\ old.listed[f].size <= log[f].size
        <5>1. Len(old.listed) <= Len(log) /\ old.listed[f].size <= log[f].size
          BY <1>4, <3>2 DEF Grown
        <5>2. /\ DOMAIN old.listed = 1..Len(old.listed) /\ DOMAIN log = 1..Len(log)
              /\ Len(old.listed) \in Nat /\ Len(log) \in Nat
              /\ \A e \in DOMAIN old.listed : old.listed[e].size \in Nat
              /\ \A e \in DOMAIN log : log[e].size \in Nat
          BY <1>1, <1>3, FilesAre
        <5>3. f \in DOMAIN log
          BY <3>2, <5>1, <5>2
        <5>4. QED
          BY <3>2, <5>1, <5>2, <5>3
      <4>2. 2 * (old.listed[f].size \div 2) <= 2 * (log[f].size \div 2)
        BY <4>1, HalvesGrow
      <4>3. /\ old.listed[f].size \div 2 \in Nat /\ log[f].size \div 2 \in Nat
        BY <4>1, Halving
      <4>4. j.files[f].indexed >= 2 * (log[f].size \div 2) /\ j.files[f].indexed \in Nat
        <5>1. f \in DOMAIN j.files
          BY <1>4, <1>8
        <5>2. QED
          BY <1>6, <5>1, IndexIs DEF Reached
      <4>5. QED
        BY <4>2, <4>3, <4>4 DEF Reached
    <3>3. QED
      BY <1>6, <3>1, <3>2
  <2>3. QED
    BY <2>1, <2>2
<1>10. Going(a, log)
  <2>1. CASE f < Len(old.stat)
    <3>1. after = "stat"
      BY <2>1 DEF after
    <3>2. f + 1 \in {f, f + 1} \ {0} /\ f + 1 <= Len(old.stat)
      BY <1>8, <2>1
    <3>3. QED
      BY <1>4, <1>6, <1>7, <1>9, <3>1, <3>2 DEF Going
  <2>2. CASE ~(f < Len(old.stat))
    <3>1. after = "store" /\ f = Len(old.stat)
      BY <1>4, <1>8, <2>2 DEF after
    <3>2. QED
      BY <1>4, <1>6, <1>7, <1>8, <1>9, <3>1 DEF Going
  <2>3. QED
    BY <2>1, <2>2
<1>11. QED
  BY <1>1, <1>2, <1>7, <1>10, InwardStep

\* What a request that has been over its files holds.
LEMMA AllOver ==
    ASSUME NEW a \in AskType, Going(a, log), a.at \in {"store", "replace"}
    PROVE  /\ ExactSoFar(a.index, log) /\ CaughtUp(a.index)
           /\ \A f \in DOMAIN a.listed :
                 f \in DOMAIN a.index.files /\ Reached(a.index.files[f], a.listed[f].size)
<1>1. a.index \in IndexType /\ a.listed \in Files /\ a.stat \in Files
  BY DEF AskType
<1>2. /\ ExactSoFar(a.index, log) /\ Len(a.listed) <= Len(a.stat)
      /\ Len(a.index.files) = Len(a.stat) /\ a.file = Len(a.stat) + 1
      /\ \A f \in DOMAIN a.index.files : f < a.file =>
            /\ Reached(a.index.files[f], a.index.files[f].size)
            /\ f \in DOMAIN a.listed => Reached(a.index.files[f], a.listed[f].size)
  BY DEF Going, Working
<1>3. /\ Len(a.stat) \in Nat /\ DOMAIN a.index.files = 1..Len(a.stat)
      /\ Len(a.listed) \in Nat /\ DOMAIN a.listed = 1..Len(a.listed)
  BY <1>1, <1>2, IndexIs, FilesAre
<1>4. \A f \in DOMAIN a.index.files : f < a.file
  BY <1>2, <1>3
<1>5. \A f \in DOMAIN a.listed : f \in DOMAIN a.index.files
  BY <1>2, <1>3
<1>6. QED
  BY <1>2, <1>4, <1>5 DEF CaughtUp

LEMMA StoreKeepsIndex ==
    ASSUME IndexInv, NEW h \in Readers, I!Store(h)
    PROVE  IndexInv'
<1> DEFINE old == iasked[h]
           a == [old EXCEPT !.at = "replace"]
<1>1. /\ log' = log /\ writes' = writes /\ stored' = stored /\ ianswer' = ianswer
      /\ iasked \in [Readers -> AskType] /\ old \in AskType /\ old.at = "store"
      /\ Going(old, log) /\ ianswer[h] \in AnswerType /\ WasAnswered(ianswer[h], log)
      /\ tmp' = {old.index} \/ tmp' = {I!Garbled}
  BY DEF I!Store, IndexInv, IndexTypes
<1>2. iasked' = [iasked EXCEPT ![h] = a]
  BY DEF I!Store, I!Go
<1>3. ianswer' = [ianswer EXCEPT ![h] = ianswer[h]]
  BY <1>1 DEF IndexInv, IndexTypes
<1> HIDE DEF old
<1>4. /\ a \in AskType /\ a.at = "replace" /\ a.listed = old.listed /\ a.index = old.index
      /\ a.stat = old.stat /\ a.file = old.file
  BY <1>1 DEF AskType, Working
<1> HIDE DEF a
<1>5. Going(a, log)
  BY <1>1, <1>4 DEF Going, Working
<1>6. old.index \in IndexType /\ ExactSoFar(old.index, log) /\ CaughtUp(old.index)
  BY <1>1, AllOver DEF AskType
<1>7. I!Garbled \in IndexType /\ ~I!Garbled.good
  BY DEF I!Garbled, IndexType
<1>8. /\ stored' \in SUBSET IndexType /\ tmp' \in SUBSET IndexType
      /\ \A i \in stored' \cup tmp' : i.good => ExactSoFar(i, log) /\ CaughtUp(i)
  BY <1>1, <1>6, <1>7 DEF IndexInv, IndexTypes, StoreHolds
<1>9. QED
  BY <1>1, <1>2, <1>3, <1>4, <1>5, <1>8, RequestStep

LEMMA ReplaceKeepsIndex ==
    ASSUME IndexInv, NEW h \in Readers, I!Replace(h)
    PROVE  IndexInv'
<1> DEFINE old == iasked[h]
           b == [index |-> old.index, listed |-> old.listed]
<1>1. /\ log' = log /\ writes' = writes /\ tmp' = {}
      /\ stored' = stored \/ stored' = tmp
      /\ iasked' = [iasked EXCEPT ![h] = I!Idle] /\ ianswer' = [ianswer EXCEPT ![h] = b]
      /\ old \in AskType /\ old.at = "replace" /\ Going(old, log)
  BY DEF I!Replace, I!None, IndexInv, IndexTypes
<1> HIDE DEF old
<1>2. /\ ExactSoFar(old.index, log)
      /\ \A f \in DOMAIN old.listed :
            f \in DOMAIN old.index.files /\ Reached(old.index.files[f], old.listed[f].size)
  BY <1>1, AllOver
<1>3. b \in AnswerType /\ b.index = old.index /\ b.listed = old.listed
  BY <1>1 DEF AskType, AnswerType
<1> HIDE DEF b
<1>4. WasAnswered(b, log)
  BY <1>2, <1>3 DEF WasAnswered
<1>5. I!Idle \in AskType /\ Going(I!Idle, log)
  <2>1. I!Idle \in AskType
    BY EmptyIs DEF AskType, Files, I!Idle
  <2>2. log \in Files
    BY DEF IndexInv, IndexTypes
  <2>3. Going(I!Idle, log)
    BY <2>2, FilesAre DEF Going, I!Idle, Working, Grown
  <2>4. QED
    BY <2>1, <2>3
<1>6. /\ stored' \in SUBSET IndexType /\ tmp' \in SUBSET IndexType
      /\ \A i \in stored' \cup tmp' : i.good => ExactSoFar(i, log) /\ CaughtUp(i)
  BY <1>1 DEF IndexInv, IndexTypes, StoreHolds
<1>7. QED
  BY <1>1, <1>3, <1>4, <1>5, <1>6, RequestStep

LEMMA IndexKeeps == IndexInv /\ [I!Next]_(I!vars) => IndexInv'
<1> SUFFICES ASSUME IndexInv, [I!Next]_(I!vars) PROVE IndexInv'
  OBVIOUS
<1>1. CASE UNCHANGED I!vars
  BY <1>1 DEF I!vars, IndexInv, IndexTypes, StoreHolds
<1>2. CASE I!Write \/ I!Rotate
  BY <1>2, WriterKeepsIndex
<1>3. ASSUME NEW h \in Readers,
             I!List(h) \/ I!Glob(h) \/ I!Stat(h) \/ I!Read(h) \/ I!Store(h) \/ I!Replace(h)
      PROVE  IndexInv'
  BY <1>3, ListKeepsIndex, GlobKeepsIndex, StatKeepsIndex, ReadKeepsIndex, StoreKeepsIndex,
     ReplaceKeepsIndex
<1>4. QED
  BY <1>1, <1>2, <1>3 DEF I!Next

\* Whoever asks for the index of a capture, and whoever else is building it while
\* lines are written, is answered every whole line up to where the index ends, once
\* and in order, no piece of a line, and all that was whole when the request began
\* (session_index_cache.py, get_capture_index).
THEOREM IndexStaysSound == I!Spec => []I!IndexIsSound
<1>1. I!Init => IndexInv
  BY IndexStarts
<1>2. IndexInv /\ [I!Next]_(I!vars) => IndexInv'
  BY IndexKeeps
<1>3. IndexInv => I!IndexIsSound
  BY DEF IndexInv, WasAnswered, ExactSoFar, I!IndexIsSound, I!IndexIsExact, I!IndexIsFresh, Reached
<1>4. QED
  BY <1>1, <1>2, <1>3, PTL DEF I!Spec

-----------------------------------------------------------------------------
(* The batches of the adaptive policy (replay_control/executors.py).       *)

\* Rows of places: what the writes carry, and last the open batch.
Ordered(rows) ==
    \A k, l \in DOMAIN rows : \A m \in DOMAIN rows[k], n \in DOMAIN rows[l] :
        k < l \/ (k = l /\ m < n) => rows[k][m] < rows[l][n]
Carried(rows) == UNION {A!ToSet(rows[k]) : k \in DOMAIN rows}

LEMMA CarriedIs ==
    ASSUME NEW rows
    PROVE  \A x : x \in Carried(rows) <=>
                     \E k \in DOMAIN rows : \E m \in DOMAIN rows[k] : rows[k][m] = x
BY DEF Carried, A!ToSet

\* Nothing more is carried in a row that is empty.
LEMMA EmptyRow ==
    ASSUME NEW rows \in Seq(Seq(Nat))
    PROVE  /\ Append(rows, <<>>) \in Seq(Seq(Nat))
           /\ Ordered(Append(rows, <<>>)) <=> Ordered(rows)
           /\ Carried(Append(rows, <<>>)) = Carried(rows)
<1> DEFINE more == Append(rows, <<>>)
<1>1. <<>> \in Seq(Nat) /\ DOMAIN <<>> = {}
  OBVIOUS
<1>2. /\ more \in Seq(Seq(Nat)) /\ DOMAIN rows = 1..Len(rows) /\ DOMAIN more = 1..(Len(rows) + 1)
      /\ Len(rows) \in Nat
      /\ \A k \in 1..Len(rows) : more[k] = rows[k]
      /\ more[Len(rows) + 1] = <<>>
  BY <1>1
<1> HIDE DEF more
<1>3. \A k \in DOMAIN more : \A m \in DOMAIN more[k] : k \in DOMAIN rows /\ more[k] = rows[k]
  <2>1. SUFFICES ASSUME NEW k \in DOMAIN more, NEW m \in DOMAIN more[k]
                 PROVE  k \in DOMAIN rows /\ more[k] = rows[k]
    OBVIOUS
  <2>2. CASE k = Len(rows) + 1
    <3>1. more[k] = <<>>
      BY <1>2, <2>2
    <3>2. m \in {}
      BY <1>1, <2>1, <3>1
    <3>3. QED
      BY <3>2
  <2>3. CASE k # Len(rows) + 1
    <3>1. k \in 1..Len(rows)
      BY <1>2, <2>1, <2>3
    <3>2. QED
      BY <1>2, <3>1
  <2>4. QED
    BY <2>2, <2>3
<1>4. \A k \in DOMAIN rows : k \in DOMAIN more /\ more[k] = rows[k]
  BY <1>2
<1>5. Ordered(more) <=> Ordered(rows)
  BY <1>3, <1>4, Zenon DEF Ordered
<1>6. \A x : x \in Carried(more) <=> x \in Carried(rows)
  <2>1. ASSUME NEW x \in Carried(more) PROVE x \in Carried(rows)
    <3>1. PICK k \in DOMAIN more : \E m \in DOMAIN more[k] : more[k][m] = x
      BY <2>1, CarriedIs, Zenon
    <3>2. k \in DOMAIN rows /\ more[k] = rows[k]
      BY <1>3, <3>1
    <3>3. \E m \in DOMAIN rows[k] : rows[k][m] = x
      BY <3>1, <3>2
    <3>4. QED
      BY <3>2, <3>3, CarriedIs, Zenon
  <2>2. ASSUME NEW x \in Carried(rows) PROVE x \in Carried(more)
    <3>1. PICK k \in DOMAIN rows : \E m \in DOMAIN rows[k] : rows[k][m] = x
      BY <2>2, CarriedIs, Zenon
    <3>2. k \in DOMAIN more /\ \E m \in DOMAIN more[k] : more[k][m] = x
      BY <1>4, <3>1
    <3>3. QED
      BY <3>2, CarriedIs, Zenon
  <2>3. QED
    BY <2>1, <2>2
<1>7. Carried(more) = Carried(rows)
  BY <1>6
<1>8. QED
  BY <1>2, <1>5, <1>7 DEF more

\* A place beyond all that are carried may have a row of its own.
LEMMA RowAlone ==
    ASSUME NEW rows \in Seq(Seq(Nat)), NEW c \in Nat, Ordered(rows),
           \A x \in Carried(rows) : x < c
    PROVE  /\ Append(rows, <<c>>) \in Seq(Seq(Nat))
           /\ Ordered(Append(rows, <<c>>))
           /\ Carried(Append(rows, <<c>>)) = Carried(rows) \cup {c}
<1> DEFINE more == Append(rows, <<c>>)
           last == Len(rows) + 1
<1>1. <<c>> \in Seq(Nat) /\ DOMAIN <<c>> = {1} /\ <<c>>[1] = c
  OBVIOUS
<1>2. /\ more \in Seq(Seq(Nat)) /\ DOMAIN rows = 1..Len(rows) /\ DOMAIN more = 1..last
      /\ Len(rows) \in Nat /\ last \in Nat
      /\ \A k \in 1..Len(rows) : more[k] = rows[k]
      /\ more[last] = <<c>>
  BY <1>1
<1> HIDE DEF more
<1>3. \A k \in DOMAIN more : k = last \/ (k \in DOMAIN rows /\ more[k] = rows[k] /\ k < last)
  <2>1. SUFFICES ASSUME NEW k \in 1..last, k # last PROVE k \in 1..Len(rows) /\ k < last
    BY <1>2
  <2>2. QED
    BY <1>2, <2>1
<1>4. \A k \in DOMAIN rows : k \in DOMAIN more /\ more[k] = rows[k]
  BY <1>2
<1>5. \A k \in DOMAIN rows : \A m \in DOMAIN rows[k] : rows[k][m] \in Carried(rows) /\ rows[k][m] < c
  BY CarriedIs
<1>6. Ordered(more)
  <2>1. SUFFICES ASSUME NEW k \in DOMAIN more, NEW l \in DOMAIN more,
                        NEW m \in DOMAIN more[k], NEW n \in DOMAIN more[l],
                        k < l \/ (k = l /\ m < n)
                 PROVE  more[k][m] < more[l][n]
    BY DEF Ordered
  <2>2. CASE k # last /\ l # last
    <3>1. k \in DOMAIN rows /\ more[k] = rows[k] /\ l \in DOMAIN rows /\ more[l] = rows[l]
      BY <1>3, <2>2
    <3>2. QED
      BY <2>1, <3>1 DEF Ordered
  <2>3. CASE k # last /\ l = last
    <3>1. k \in DOMAIN rows /\ more[k] = rows[k] /\ n = 1 /\ more[l][n] = c
      BY <1>1, <1>2, <1>3, <2>1, <2>3
    <3>2. QED
      BY <1>5, <2>1, <3>1
  <2>4. CASE k = last
    <3>1. m = 1 /\ k \in Nat
      BY <1>1, <1>2, <2>1, <2>4
    <3>2. l = last
      BY <1>2, <1>3, <2>1, <2>4
    <3>3. n = 1
      BY <1>1, <1>2, <2>1, <3>2
    <3>4. QED
      BY <1>2, <2>1, <2>4, <3>1, <3>2, <3>3
  <2>5. QED
    BY <2>2, <2>3, <2>4
<1>7. \A x : x \in Carried(more) <=> x \in Carried(rows) \/ x = c
  <2>1. c \in Carried(more)
    <3>1. last \in DOMAIN more /\ 1 \in DOMAIN more[last] /\ more[last][1] = c
      BY <1>1, <1>2
    <3>2. QED
      BY <3>1, CarriedIs, Zenon
  <2>2. ASSUME NEW x \in Carried(rows) PROVE x \in Carried(more)
    <3>1. PICK k \in DOMAIN rows : \E m \in DOMAIN rows[k] : rows[k][m] = x
      BY <2>2, CarriedIs, Zenon
    <3>2. k \in DOMAIN more /\ \E m \in DOMAIN more[k] : more[k][m] = x
      BY <1>4, <3>1
    <3>3. QED
      BY <3>2, CarriedIs, Zenon
  <2>3. ASSUME NEW x \in Carried(more) PROVE x \in Carried(rows) \/ x = c
    <3>1. PICK k \in DOMAIN more : \E m \in DOMAIN more[k] : more[k][m] = x
      BY <2>3, CarriedIs, Zenon
    <3>2. CASE k = last
      BY <1>1, <1>2, <3>1, <3>2
    <3>3. CASE k \in DOMAIN rows /\ more[k] = rows[k]
      BY <3>1, <3>3, CarriedIs, Zenon
    <3>4. QED
      BY <1>3, <3>2, <3>3
  <2>4. QED
    BY <2>1, <2>2, <2>3
<1>8. Carried(more) = Carried(rows) \cup {c}
  BY <1>7
<1>9. QED
  BY <1>2, <1>6, <1>8 DEF more

\* Or be the next in the last row.
LEMMA RowLonger ==
    ASSUME NEW rows \in Seq(Seq(Nat)), NEW p \in Seq(Nat), NEW c \in Nat,
           Ordered(Append(rows, p)), \A x \in Carried(Append(rows, p)) : x < c
    PROVE  /\ Append(rows, Append(p, c)) \in Seq(Seq(Nat))
           /\ Ordered(Append(rows, Append(p, c)))
           /\ Carried(Append(rows, Append(p, c))) = Carried(Append(rows, p)) \cup {c}
<1> DEFINE longer == Append(p, c)
           old == Append(rows, p)
           more == Append(rows, longer)
           last == Len(rows) + 1
           end == Len(p) + 1
<1>1. /\ longer \in Seq(Nat) /\ DOMAIN p = 1..Len(p) /\ DOMAIN longer = 1..end
      /\ Len(p) \in Nat /\ end \in Nat
      /\ \A m \in 1..Len(p) : longer[m] = p[m]
      /\ longer[end] = c
  OBVIOUS
<1> HIDE DEF longer
<1>2. /\ more \in Seq(Seq(Nat)) /\ DOMAIN old = 1..last /\ DOMAIN more = 1..last
      /\ Len(rows) \in Nat /\ last \in Nat
      /\ \A k \in 1..Len(rows) : more[k] = old[k]
      /\ more[last] = longer /\ old[last] = p
  BY <1>1
<1> HIDE DEF more, old
<1>3. \A k \in DOMAIN more : \A m \in DOMAIN more[k] :
         \/ k = last /\ m = end /\ more[k][m] = c
         \/ /\ k \in DOMAIN old /\ m \in DOMAIN old[k] /\ more[k][m] = old[k][m]
            /\ k < last \/ (k = last /\ m < end)
  <2>1. SUFFICES ASSUME NEW k \in DOMAIN more, NEW m \in DOMAIN more[k]
                 PROVE  \/ k = last /\ m = end /\ more[k][m] = c
                        \/ /\ k \in DOMAIN old /\ m \in DOMAIN old[k] /\ more[k][m] = old[k][m]
                           /\ k < last \/ (k = last /\ m < end)
    OBVIOUS
  <2>2. CASE k = last
    <3>1. more[k] = longer /\ old[k] = p /\ last \in DOMAIN old
      BY <1>2, <2>2
    <3>2. m \in 1..end
      BY <1>1, <2>1, <3>1
    <3>3. m = end \/ (m \in 1..Len(p) /\ m < end)
      BY <1>1, <3>2
    <3>4. m = end => more[k][m] = c
      BY <1>1, <3>1
    <3>5. m \in 1..Len(p) => m \in DOMAIN old[k] /\ more[k][m] = old[k][m]
      BY <1>1, <3>1
    <3> HIDE DEF last, end
    <3>6. QED
      BY <2>2, <3>1, <3>3, <3>4, <3>5, Zenon
  <2>3. CASE k # last
    <3>1. k \in DOMAIN old /\ more[k] = old[k] /\ k < last
      BY <1>2, <2>1, <2>3
    <3>2. QED
      BY <2>1, <3>1
  <2>4. QED
    BY <2>2, <2>3
<1>4. \A k \in DOMAIN old : \A m \in DOMAIN old[k] :
         /\ k \in DOMAIN more /\ m \in DOMAIN more[k] /\ more[k][m] = old[k][m]
         /\ old[k][m] \in Carried(old) /\ old[k][m] < c
  <2>1. SUFFICES ASSUME NEW k \in DOMAIN old, NEW m \in DOMAIN old[k]
                 PROVE  /\ k \in DOMAIN more /\ m \in DOMAIN more[k] /\ more[k][m] = old[k][m]
                        /\ old[k][m] \in Carried(old) /\ old[k][m] < c
    OBVIOUS
  <2>2. old[k][m] \in Carried(old)
    BY <2>1, CarriedIs, Zenon
  <2>3. old[k][m] < c
    BY <2>2 DEF old
  <2>4. CASE k = last
    <3>1. more[k] = longer /\ old[k] = p /\ k \in DOMAIN more
      BY <1>2, <2>4
    <3>2. m \in DOMAIN longer /\ longer[m] = p[m]
      BY <1>1, <2>1, <3>1
    <3>3. QED
      BY <2>2, <2>3, <3>1, <3>2
  <2>5. CASE k # last
    <3>1. k \in DOMAIN more /\ more[k] = old[k]
      BY <1>2, <2>1, <2>5
    <3>2. QED
      BY <2>1, <2>2, <2>3, <3>1
  <2>6. QED
    BY <2>4, <2>5
<1>5. Ordered(old)
  BY DEF old
<1>6. Ordered(more)
  <2>1. SUFFICES ASSUME NEW k \in DOMAIN more, NEW l \in DOMAIN more,
                        NEW m \in DOMAIN more[k], NEW n \in DOMAIN more[l],
                        k < l \/ (k = l /\ m < n)
                 PROVE  more[k][m] < more[l][n]
    BY DEF Ordered
  <2>2. k \in Nat /\ l \in Nat /\ k <= last /\ l <= last
    <3>1. k \in 1..last /\ l \in 1..last /\ last \in Nat
      BY <1>2
    <3>2. QED
      BY <3>1
  <2>3. CASE k = last /\ m = end
    <3>1. l = last /\ n \in DOMAIN longer
      BY <1>2, <2>1, <2>2, <2>3
    <3>2. QED
      BY <1>1, <2>1, <2>2, <2>3, <3>1
  <2>4. CASE /\ k \in DOMAIN old /\ m \in DOMAIN old[k] /\ more[k][m] = old[k][m]
             /\ l = last /\ n = end /\ more[l][n] = c
    BY <1>4, <2>4
  <2>5. CASE /\ k \in DOMAIN old /\ m \in DOMAIN old[k] /\ more[k][m] = old[k][m]
             /\ l \in DOMAIN old /\ n \in DOMAIN old[l] /\ more[l][n] = old[l][n]
    BY <1>5, <2>1, <2>5 DEF Ordered
  <2>6. QED
    BY <1>3, <2>3, <2>4, <2>5
<1>7. \A x : x \in Carried(more) <=> x \in Carried(old) \/ x = c
  <2>1. c \in Carried(more)
    <3>1. last \in DOMAIN more /\ end \in DOMAIN more[last] /\ more[last][end] = c
      BY <1>1, <1>2
    <3>2. QED
      BY <3>1, CarriedIs, Zenon
  <2>2. ASSUME NEW x \in Carried(old) PROVE x \in Carried(more)
    <3>1. PICK k \in DOMAIN old : \E m \in DOMAIN old[k] : old[k][m] = x
      BY <2>2, CarriedIs, Zenon
    <3>2. QED
      BY <1>4, <3>1, CarriedIs, Zenon
  <2>3. ASSUME NEW x \in Carried(more) PROVE x \in Carried(old) \/ x = c
    <3>1. PICK k \in DOMAIN more : \E m \in DOMAIN more[k] : more[k][m] = x
      BY <2>3, CarriedIs, Zenon
    <3>2. PICK m \in DOMAIN more[k] : more[k][m] = x
      BY <3>1
    <3>3. QED
      BY <1>3, <3>2, CarriedIs, Zenon
  <2>4. QED
    BY <2>1, <2>2, <2>3
<1>8. Carried(more) = Carried(old) \cup {c}
  BY <1>7
<1>9. QED
  BY <1>2, <1>6, <1>8 DEF more, old, longer

-----------------------------------------------------------------------------
\* The places that have bytes, those that do not end a batch, and those that
\* may follow at once.
Carrying == {i \in Nat : A!HasBytes(i)}
Calm == {i \in Nat : A!Kind(i) \in {"key", "out"}}
Paced == {i \in Nat : A!Scaled(i) > 0 => A!Synthetic \/ i \in A!Evidence}

Uncrossed(row, calm) == Len(row) > 1 => \A i \in row[1]..row[Len(row)] : i \in calm
InCadence(row, paced) == \A n \in 2..Len(row) : row[n] \in paced

AdaptiveTypes ==
    /\ run \in [trail : Trails, origin : {"ended", "cut", "synthetic"}, load : Loads]
    /\ at \in 0..Len(run.trail)
    /\ pending \in Seq(Nat) /\ awrites \in Seq(Seq(Nat))
    /\ skipped \subseteq 1..at

\* What is sent or gathered is what has bytes, but for what was skipped.
AllCarried ==
    /\ Ordered(Append(awrites, pending))
    /\ Carried(Append(awrites, pending)) = ((1..at) \cap Carrying) \ skipped

\* From the first of the batch on nothing came that ends it, and no batch is
\* open after a wait that converged.
BatchIsOpen ==
    /\ pending # <<>> => \A i \in pending[1]..at : i \in Calm
    /\ InCadence(pending, Paced)
    /\ converged => pending = <<>>

WritesAreSound ==
    \A k \in DOMAIN awrites :
        awrites[k] # <<>> /\ Uncrossed(awrites[k], Calm) /\ InCadence(awrites[k], Paced)

BatchInv == AdaptiveTypes /\ AllCarried /\ BatchIsOpen /\ WritesAreSound

LEMMA SameRun ==
    ASSUME UNCHANGED run
    PROVE  Carrying' = Carrying /\ Calm' = Calm /\ Paced' = Paced
<1>1. run' = run
  OBVIOUS
<1>2. Carrying' = Carrying /\ Calm' = Calm
  BY <1>1 DEF Carrying, Calm, A!HasBytes, A!IsInput, A!Kind
<1>3. A!Inputs' = A!Inputs /\ A!Outs' = A!Outs
  BY <1>1 DEF A!Inputs, A!Outs, A!IsInput, A!Kind, A!Events
<1>4. A!Synthetic' = A!Synthetic /\ \A i : A!Ts(i)' = A!Ts(i) /\ A!Kind(i)' = A!Kind(i)
  BY <1>1 DEF A!Synthetic, A!Ts, A!Kind
<1>5. \A i : A!Scaled(i)' = A!Scaled(i)
  BY <1>1, <1>3 DEF A!Scaled, A!Ts
<1>6. A!Evidence' = A!Evidence
  BY <1>1, <1>3 DEF A!Evidence, A!Ts, A!Kind
<1>7. Paced' = Paced
  BY <1>4, <1>5, <1>6 DEF Paced
<1>8. QED
  BY <1>2, <1>7

LEMMA TrailIs ==
    ASSUME AdaptiveTypes
    PROVE  /\ Len(run.trail) \in Nat /\ DOMAIN run.trail = 1..Len(run.trail)
           /\ \A i \in 1..Len(run.trail) : A!Ts(i) \in Nat /\ A!Kind(i) \in A!Kinds
           /\ run.load.speed \in Nat \ {0} /\ run.load.jitter \in Nat
<1>1. run.trail \in Trails /\ run.load \in Loads
  BY DEF AdaptiveTypes
<1> DEFINE Event == [kind : A!Kinds, ts : Nat]
<1>2. run.trail \in Seq(Event) /\ run.load \in [speed : Nat \ {0}, jitter : Nat]
  BY <1>1, AdaptiveBounds DEF A!AdaptiveAssumption
<1>3. \A e \in Event : e.ts \in Nat /\ e.kind \in A!Kinds
  OBVIOUS
<1> HIDE DEF Event
<1>4. \A i \in 1..Len(run.trail) : run.trail[i] \in Event
  BY <1>2
<1>5. Len(run.trail) \in Nat /\ DOMAIN run.trail = 1..Len(run.trail)
  BY <1>2
<1>6. \A i \in 1..Len(run.trail) : A!Ts(i) \in Nat /\ A!Kind(i) \in A!Kinds
  BY <1>3, <1>4 DEF A!Ts, A!Kind
<1>7. QED
  BY <1>2, <1>5, <1>6

\* The last of some places.
LEMMA LastOf ==
    ASSUME NEW n \in Nat, NEW Places \in SUBSET (1..n), Places # {}
    PROVE  A!Max(Places) \in Places
<1> DEFINE Left == {k \in Nat : \E p \in Places : k = n - p}
           Less == {pair \in Nat \X Nat : pair[1] < pair[2]}
<1>1. IsWellFoundedOn(Less, Nat)
  BY NatLessThanWellFounded DEF OpToRel
<1>2. PICK p \in Places : p \in Nat /\ p <= n
  <2>1. PICK q : q \in Places
    OBVIOUS
  <2>2. QED
    BY <2>1
<1>3. n - p \in Left
  BY <1>2
<1>4. PICK k \in Left : \A j \in Left : ~(<<j, k>> \in Less)
  <2>1. Left \subseteq Nat
    OBVIOUS
  <2> HIDE DEF Less, Left
  <2>2. QED
    BY <1>1, <1>3, <2>1, WFMin
<1>5. PICK last \in Places : k = n - last
  OBVIOUS
<1>6. \A q \in Places : last >= q
  <2>1. SUFFICES ASSUME NEW q \in Places, ~(last >= q) PROVE FALSE
    OBVIOUS
  <2>2. q \in Nat /\ last \in Nat /\ q <= n /\ last <= n /\ last < q
    BY <2>1
  <2>3. n - q \in Nat /\ k \in Nat /\ n - q < k /\ n - q \in Left
    BY <1>5, <2>2
  <2>4. <<n - q, k>> \in Nat \X Nat
    BY <2>3
  <2>5. <<n - q, k>> \in Less
    BY <2>3, <2>4
  <2>6. QED
    BY <1>4, <2>3, <2>5
<1>7. \E x \in Places : \A y \in Places : x >= y
  BY <1>6
<1>8. QED
  BY <1>7, Zenon DEF A!Max

LEMMA ScaledIs ==
    ASSUME AdaptiveTypes, NEW i \in 1..Len(run.trail)
    PROVE  A!Scaled(i) \in Int
<1> DEFINE Earlier == {j \in A!Inputs : j < i}
<1>1. Len(run.trail) \in Nat /\ run.load.speed \in Nat \ {0} /\ A!Ts(i) \in Nat
  BY TrailIs
<1>2. Earlier \in SUBSET (1..Len(run.trail))
  BY TrailIs DEF A!Inputs, A!Events
<1>3. CASE Earlier = {}
  BY <1>3 DEF A!Scaled
<1>4. CASE Earlier # {}
  <2> HIDE DEF Earlier
  <2>1. A!Max(Earlier) \in 1..Len(run.trail)
    BY <1>1, <1>2, <1>4, LastOf
  <2>2. A!Ts(A!Max(Earlier)) \in Nat
    BY <2>1, TrailIs
  <2>3. (A!Ts(i) - A!Ts(A!Max(Earlier))) \div run.load.speed \in Int
    BY <1>1, <2>2
  <2>4. A!Scaled(i) = (A!Ts(i) - A!Ts(A!Max(Earlier))) \div run.load.speed
    BY <1>4 DEF A!Scaled, Earlier
  <2>5. QED
    BY <2>3, <2>4
<1>5. QED
  BY <1>3, <1>4

\* What is written once the batch has left.
LEMMA FlushIs ==
    ASSUME BatchInv
    PROVE  /\ A!Flushed \in Seq(Seq(Nat)) /\ Ordered(A!Flushed)
           /\ Carried(A!Flushed) = ((1..at) \cap Carrying) \ skipped
           /\ \A k \in DOMAIN A!Flushed :
                 /\ A!Flushed[k] # <<>>
                 /\ Uncrossed(A!Flushed[k], Calm) /\ InCadence(A!Flushed[k], Paced)
<1>1. /\ awrites \in Seq(Seq(Nat)) /\ pending \in Seq(Nat) /\ at \in Nat
      /\ Ordered(Append(awrites, pending))
      /\ Carried(Append(awrites, pending)) = ((1..at) \cap Carrying) \ skipped
      /\ WritesAreSound /\ InCadence(pending, Paced)
  BY TrailIs DEF BatchInv, AdaptiveTypes, AllCarried, BatchIsOpen
<1>2. CASE pending = <<>>
  <2>1. A!Flushed = awrites
    BY <1>2 DEF A!Flushed
  <2>2. Ordered(awrites) /\ Carried(awrites) = Carried(Append(awrites, pending))
    BY <1>1, <1>2, EmptyRow
  <2>3. QED
    BY <1>1, <2>1, <2>2 DEF WritesAreSound
<1>3. CASE pending # <<>>
  <2> DEFINE all == Append(awrites, pending)
             last == Len(awrites) + 1
  <2>1. A!Flushed = all
    BY <1>3 DEF A!Flushed
  <2>2. /\ all \in Seq(Seq(Nat)) /\ DOMAIN all = 1..last /\ DOMAIN awrites = 1..Len(awrites)
        /\ \A k \in 1..Len(awrites) : all[k] = awrites[k]
        /\ all[last] = pending /\ last \in Nat /\ Len(awrites) \in Nat
    BY <1>1
  <2>3. Uncrossed(pending, Calm)
    <3>1. SUFFICES ASSUME Len(pending) > 1, NEW i \in pending[1]..pending[Len(pending)]
                   PROVE  i \in Calm
      BY DEF Uncrossed
    <3>2. Len(pending) \in DOMAIN pending /\ last \in DOMAIN all
      BY <1>1, <2>2, <3>1
    <3>3. pending[Len(pending)] \in Carried(all)
      BY <2>2, <3>2, CarriedIs, Zenon
    <3>4. pending[Len(pending)] \in 1..at /\ pending[1] \in Nat
      BY <1>1, <3>1, <3>3
    <3>5. i \in pending[1]..at
      BY <1>1, <3>1, <3>4
    <3>6. QED
      BY <1>3, <3>5 DEF BatchInv, BatchIsOpen
  <2> HIDE DEF all
  <2>4. ASSUME NEW k \in DOMAIN all
        PROVE  all[k] # <<>> /\ Uncrossed(all[k], Calm) /\ InCadence(all[k], Paced)
    <3>1. CASE k = last
      BY <1>1, <1>3, <2>2, <2>3, <3>1
    <3>2. CASE k # last
      <4>1. k \in DOMAIN awrites /\ all[k] = awrites[k]
        BY <2>2, <2>4, <3>2
      <4>2. QED
        BY <1>1, <4>1 DEF WritesAreSound
    <3>3. QED
      BY <3>1, <3>2
  <2>5. Ordered(all) /\ Carried(all) = ((1..at) \cap Carrying) \ skipped
    BY <1>1 DEF all
  <2>6. QED
    BY <2>1, <2>2, <2>4, <2>5
<1>4. QED
  BY <1>2, <1>3

\* The batch leaves, and the event has nothing to send, or is skipped.
LEMMA FlushKeeps ==
    ASSUME BatchInv, UNCHANGED run, awrites' = A!Flushed, pending' = <<>>,
           at' \in {at, at + 1}, at' <= Len(run.trail),
           skipped' \in {skipped, skipped \cup {at'}},
           at' = at => skipped' = skipped,
           at' = at + 1 => at' \notin Carrying \/ at' \in skipped'
    PROVE  BatchInv'
<1> DEFINE flushed == A!Flushed
<1>1. /\ flushed \in Seq(Seq(Nat)) /\ Ordered(flushed)
      /\ Carried(flushed) = ((1..at) \cap Carrying) \ skipped
      /\ \A k \in DOMAIN flushed :
            flushed[k] # <<>> /\ Uncrossed(flushed[k], Calm) /\ InCadence(flushed[k], Paced)
  BY FlushIs, Zenon
<1>2. awrites' = flushed
  OBVIOUS
<1> HIDE DEF flushed
<1>3. Carrying' = Carrying /\ Calm' = Calm /\ Paced' = Paced
  BY SameRun
<1>4. at \in Nat /\ skipped \subseteq 1..at /\ Len(run.trail) \in Nat
  BY TrailIs DEF BatchInv, AdaptiveTypes
<1>5. AdaptiveTypes'
  <2>1. at' \in 0..Len(run'.trail) /\ skipped' \subseteq 1..at'
    BY <1>4
  <2>2. <<>> \in Seq(Nat)
    OBVIOUS
  <2>3. QED
    BY <1>1, <1>2, <2>1, <2>2 DEF BatchInv, AdaptiveTypes
<1>6. ((1..at') \cap Carrying) \ skipped' = ((1..at) \cap Carrying) \ skipped
  BY <1>4
<1>7. Ordered(Append(awrites', pending')) /\ Carried(Append(awrites', pending')) = Carried(flushed)
  BY <1>1, <1>2, EmptyRow
<1>8. AllCarried'
  <2>1. Ordered(Append(awrites', pending')) <=> Ordered(Append(awrites, pending))'
    BY DEF Ordered
  <2>2. Carried(Append(awrites', pending')) = Carried(Append(awrites, pending))'
    BY DEF Carried, A!ToSet
  <2>3. QED
    BY <1>1, <1>3, <1>6, <1>7, <2>1, <2>2 DEF AllCarried
<1>9. BatchIsOpen'
  BY DEF BatchIsOpen, InCadence
<1>10. WritesAreSound'
  BY <1>1, <1>2, <1>3 DEF WritesAreSound, Uncrossed, InCadence
<1>11. QED
  BY <1>5, <1>8, <1>9, <1>10 DEF BatchInv

\* The event that comes and its place.
LEMMA ComingIs ==
    ASSUME BatchInv, NEW kinds, A!Here(kinds)
    PROVE  /\ A!Coming = at + 1 /\ at + 1 \in 1..Len(run.trail) /\ at \in Nat
           /\ A!Kind(at + 1) \in kinds
           /\ at + 1 \notin 1..at /\ at + 1 \notin skipped
           /\ ((1..(at + 1)) \cap Carrying) \ skipped =
                 (((1..at) \cap Carrying) \ skipped) \cup ({at + 1} \cap Carrying)
           /\ \A x \in ((1..at) \cap Carrying) \ skipped : x < at + 1
<1>1. at \in 0..Len(run.trail) /\ Len(run.trail) \in Nat /\ skipped \subseteq 1..at
  BY TrailIs DEF BatchInv, AdaptiveTypes
<1>2. at < Len(run.trail) /\ A!Coming = at + 1 /\ A!Kind(at + 1) \in kinds
  BY DEF A!Here, A!Coming
<1>3. QED
  BY <1>1, <1>2

LEMMA OneRow ==
    ASSUME NEW c, NEW calm, NEW paced
    PROVE  <<c>> # <<>> /\ Uncrossed(<<c>>, calm) /\ InCadence(<<c>>, paced)
<1>1. Len(<<c>>) = 1 /\ <<c>> # <<>>
  OBVIOUS
<1>2. 2..1 = {}
  OBVIOUS
<1>3. QED
  BY <1>1, <1>2 DEF Uncrossed, InCadence

\* The batch leaves, and then the event on its own.
LEMMA SendKeeps ==
    ASSUME BatchInv, UNCHANGED <<run, skipped>>, awrites' = Append(A!Flushed, <<at + 1>>),
           pending' = <<>>, at' = at + 1, NEW kinds, A!Here(kinds), at + 1 \in Carrying
    PROVE  BatchInv'
<1> DEFINE flushed == A!Flushed
           sending == Append(flushed, <<at + 1>>)
           behind == ((1..at) \cap Carrying) \ skipped
<1>1. /\ flushed \in Seq(Seq(Nat)) /\ Ordered(flushed)
      /\ Carried(flushed) = behind
      /\ \A k \in DOMAIN flushed :
            flushed[k] # <<>> /\ Uncrossed(flushed[k], Calm) /\ InCadence(flushed[k], Paced)
  BY FlushIs, Zenon
<1>2. /\ at + 1 \in 1..Len(run.trail) /\ at \in Nat
      /\ ((1..(at + 1)) \cap Carrying) \ skipped = behind \cup ({at + 1} \cap Carrying)
      /\ \A x \in behind : x < at + 1
  BY ComingIs
<1>3. Carrying' = Carrying /\ Calm' = Calm /\ Paced' = Paced
  BY SameRun
<1>4. ((1..(at + 1)) \cap Carrying) \ skipped = behind \cup {at + 1}
  BY <1>2
<1>5. awrites' = sending
  OBVIOUS
<1>6. skipped \subseteq 1..at
  BY DEF BatchInv, AdaptiveTypes
<1> HIDE DEF flushed, behind
<1>7. sending \in Seq(Seq(Nat)) /\ Ordered(sending) /\ Carried(sending) = behind \cup {at + 1}
  BY <1>1, <1>2, RowAlone
<1>8. \A k \in DOMAIN sending :
         sending[k] # <<>> /\ Uncrossed(sending[k], Calm) /\ InCadence(sending[k], Paced)
  <2>1. TAKE k \in DOMAIN sending
  <2>2. CASE k \in DOMAIN flushed /\ sending[k] = flushed[k]
    BY <1>1, <2>2
  <2>3. CASE sending[k] = <<at + 1>>
    BY <2>3, OneRow
  <2>4. (k \in DOMAIN flushed /\ sending[k] = flushed[k]) \/ sending[k] = <<at + 1>>
    BY <1>1, <2>1
  <2>5. QED
    BY <2>2, <2>3, <2>4
<1> HIDE DEF sending
<1>9. AdaptiveTypes'
  <2>1. at' \in 0..Len(run'.trail) /\ skipped' \subseteq 1..at'
    BY <1>2, <1>6
  <2>2. <<>> \in Seq(Nat)
    OBVIOUS
  <2>3. QED
    BY <1>5, <1>7, <2>1, <2>2 DEF BatchInv, AdaptiveTypes
<1>10. Ordered(Append(awrites', pending')) /\ Carried(Append(awrites', pending')) = Carried(sending)
  BY <1>5, <1>7, EmptyRow
<1>11. AllCarried'
  <2>1. Ordered(Append(awrites', pending')) <=> Ordered(Append(awrites, pending))'
    BY DEF Ordered
  <2>2. Carried(Append(awrites', pending')) = Carried(Append(awrites, pending))'
    BY DEF Carried, A!ToSet
  <2>3. QED
    BY <1>3, <1>4, <1>7, <1>10, <2>1, <2>2 DEF AllCarried
<1>12. BatchIsOpen'
  BY DEF BatchIsOpen, InCadence
<1>13. WritesAreSound'
  BY <1>3, <1>5, <1>8 DEF WritesAreSound, Uncrossed, InCadence
<1>14. QED
  BY <1>9, <1>11, <1>12, <1>13 DEF BatchInv

\* An input joins the open batch, at once.
LEMMA JoinKeeps ==
    ASSUME BatchInv, UNCHANGED <<run, awrites, skipped>>, A!Here({"key"}),
           pending' = Append(pending, at + 1), at' = at + 1, converged' = FALSE,
           pending # <<>> => at + 1 \in Paced
    PROVE  BatchInv'
<1> DEFINE all == Append(awrites, pending)
           longer == Append(pending, at + 1)
           more == Append(awrites, longer)
           behind == ((1..at) \cap Carrying) \ skipped
<1>1. /\ awrites \in Seq(Seq(Nat)) /\ pending \in Seq(Nat)
      /\ Ordered(all) /\ Carried(all) = behind
      /\ InCadence(pending, Paced) /\ skipped \subseteq 1..at
  BY DEF BatchInv, AdaptiveTypes, AllCarried, BatchIsOpen
<1>2. /\ at + 1 \in 1..Len(run.trail) /\ at \in Nat /\ A!Kind(at + 1) = "key"
      /\ ((1..(at + 1)) \cap Carrying) \ skipped = behind \cup ({at + 1} \cap Carrying)
      /\ \A x \in behind : x < at + 1
  BY ComingIs
<1>3. Carrying' = Carrying /\ Calm' = Calm /\ Paced' = Paced
  BY SameRun
<1>4. at + 1 \in Carrying /\ at + 1 \in Calm
  BY <1>2 DEF Carrying, Calm, A!HasBytes, A!IsInput
<1>5. ((1..(at + 1)) \cap Carrying) \ skipped = behind \cup {at + 1}
  BY <1>2, <1>4
<1> HIDE DEF behind
<1>6. more \in Seq(Seq(Nat)) /\ Ordered(more) /\ Carried(more) = behind \cup {at + 1}
  BY <1>1, <1>2, RowLonger
<1>7. AdaptiveTypes'
  <2>1. at' \in 0..Len(run'.trail) /\ skipped' \subseteq 1..at'
    BY <1>1, <1>2
  <2>2. pending' \in Seq(Nat)
    BY <1>1, <1>2
  <2>3. QED
    BY <1>1, <2>1, <2>2 DEF BatchInv, AdaptiveTypes
<1>8. AllCarried'
  <2>1. Ordered(more) <=> Ordered(Append(awrites, pending))'
    BY DEF Ordered
  <2>2. Carried(more) = Carried(Append(awrites, pending))'
    BY DEF Carried, A!ToSet
  <2>3. QED
    BY <1>3, <1>5, <1>6, <2>1, <2>2 DEF AllCarried
<1>9. BatchIsOpen'
  <2>1. /\ Len(longer) = Len(pending) + 1 /\ Len(pending) \in Nat
        /\ \A n \in 1..Len(pending) : longer[n] = pending[n]
        /\ longer[Len(pending) + 1] = at + 1
    BY <1>1, <1>2
  <2>2. ASSUME NEW n \in 2..Len(longer) PROVE longer[n] \in Paced
    <3>1. CASE n = Len(pending) + 1
      <4>1. pending # <<>>
        BY <2>1, <2>2, <3>1
      <4>2. QED
        BY <2>1, <3>1, <4>1
    <3>2. CASE n # Len(pending) + 1
      <4>1. n \in 2..Len(pending) /\ n \in 1..Len(pending)
        BY <2>1, <2>2, <3>2
      <4>2. QED
        BY <1>1, <2>1, <4>1 DEF InCadence
    <3>3. QED
      BY <3>1, <3>2
  <2>3. ASSUME NEW i \in longer[1]..(at + 1) PROVE i \in Calm
    <3>1. CASE i = at + 1
      BY <1>4, <3>1
    <3>2. CASE i # at + 1 /\ pending # <<>>
      <4>1. Len(pending) >= 1
        BY <1>1, <3>2
      <4>2. longer[1] = pending[1] /\ pending[1] \in Nat
        BY <1>1, <2>1, <4>1
      <4>3. i \in pending[1]..at
        BY <1>2, <2>3, <3>2, <4>2
      <4>4. QED
        BY <3>2, <4>3 DEF BatchInv, BatchIsOpen
    <3>3. CASE i # at + 1 /\ pending = <<>>
      <4>1. longer[1] = at + 1
        BY <1>2, <2>1, <3>3
      <4>2. QED
        BY <1>2, <2>3, <3>3, <4>1
    <3>4. QED
      BY <3>1, <3>2, <3>3
  <2> HIDE DEF longer
  <2>4. pending' = longer
    BY DEF longer
  <2>5. QED
    BY <1>3, <2>2, <2>3, <2>4 DEF BatchIsOpen, InCadence
<1>10. WritesAreSound'
  BY <1>3 DEF BatchInv, WritesAreSound, Uncrossed, InCadence
<1>11. QED
  BY <1>7, <1>8, <1>9, <1>10 DEF BatchInv

\* Or it starts the next batch, and the one before leaves.
LEMMA SplitKeeps ==
    ASSUME BatchInv, UNCHANGED <<run, skipped>>, A!Here({"key"}), awrites' = A!Flushed,
           pending' = <<at + 1>>, at' = at + 1, converged' = FALSE
    PROVE  BatchInv'
<1> DEFINE flushed == A!Flushed
           more == Append(flushed, <<at + 1>>)
           behind == ((1..at) \cap Carrying) \ skipped
<1>1. /\ flushed \in Seq(Seq(Nat)) /\ Ordered(flushed) /\ Carried(flushed) = behind
      /\ \A k \in DOMAIN flushed :
            flushed[k] # <<>> /\ Uncrossed(flushed[k], Calm) /\ InCadence(flushed[k], Paced)
  BY FlushIs, Zenon
<1>2. /\ at + 1 \in 1..Len(run.trail) /\ at \in Nat /\ A!Kind(at + 1) = "key"
      /\ ((1..(at + 1)) \cap Carrying) \ skipped = behind \cup ({at + 1} \cap Carrying)
      /\ \A x \in behind : x < at + 1
  BY ComingIs
<1>3. Carrying' = Carrying /\ Calm' = Calm /\ Paced' = Paced
  BY SameRun
<1>4. at + 1 \in Carrying /\ at + 1 \in Calm
  BY <1>2 DEF Carrying, Calm, A!HasBytes, A!IsInput
<1>5. ((1..(at + 1)) \cap Carrying) \ skipped = behind \cup {at + 1}
  BY <1>2, <1>4
<1>6. skipped \subseteq 1..at
  BY DEF BatchInv, AdaptiveTypes
<1>7. awrites' = flushed
  OBVIOUS
<1> HIDE DEF flushed, behind
<1>8. Ordered(more) /\ Carried(more) = behind \cup {at + 1}
  BY <1>1, <1>2, RowAlone
<1>9. AdaptiveTypes'
  <2>1. at' \in 0..Len(run'.trail) /\ skipped' \subseteq 1..at'
    BY <1>2, <1>6
  <2>2. pending' \in Seq(Nat)
    BY <1>2
  <2>3. QED
    BY <1>1, <1>7, <2>1, <2>2 DEF BatchInv, AdaptiveTypes
<1>10. AllCarried'
  <2>1. Append(awrites', pending') = more
    BY <1>7
  <2>2. Ordered(Append(awrites', pending')) <=> Ordered(Append(awrites, pending))'
    BY DEF Ordered
  <2>3. Carried(Append(awrites', pending')) = Carried(Append(awrites, pending))'
    BY DEF Carried, A!ToSet
  <2> HIDE DEF more
  <2>4. QED
    BY <1>3, <1>5, <1>8, <2>1, <2>2, <2>3 DEF AllCarried
<1>11. BatchIsOpen'
  <2>1. <<at + 1>>[1] = at + 1 /\ \A i \in (at + 1)..(at + 1) : i \in Calm
    BY <1>2, <1>4
  <2>2. InCadence(<<at + 1>>, Paced)
    BY OneRow
  <2>3. QED
    BY <1>3, <2>1, <2>2 DEF BatchIsOpen, InCadence
<1>12. WritesAreSound'
  BY <1>1, <1>3, <1>7 DEF WritesAreSound, Uncrossed, InCadence
<1>13. QED
  BY <1>9, <1>10, <1>11, <1>12 DEF BatchInv

\* Output leaves everything as it is.
LEMMA IgnoreKeeps ==
    ASSUME BatchInv, A!Ignore
    PROVE  BatchInv'
<1>1. /\ A!Here({"out"}) /\ at' = at + 1
      /\ UNCHANGED <<run, pending, converged, awrites, skipped>>
  BY DEF A!Ignore, A!Coming
<1>2. /\ at + 1 \in 1..Len(run.trail) /\ at \in Nat /\ A!Kind(at + 1) = "out"
      /\ ((1..(at + 1)) \cap Carrying) \ skipped =
            (((1..at) \cap Carrying) \ skipped) \cup ({at + 1} \cap Carrying)
  BY <1>1, ComingIs
<1>3. Carrying' = Carrying /\ Calm' = Calm /\ Paced' = Paced
  BY <1>1, SameRun
<1>4. at + 1 \notin Carrying /\ at + 1 \in Calm
  BY <1>2 DEF Carrying, Calm, A!HasBytes, A!IsInput
<1>5. AdaptiveTypes'
  BY <1>1, <1>2 DEF BatchInv, AdaptiveTypes
<1>6. AllCarried'
  <2>1. ((1..(at + 1)) \cap Carrying) \ skipped = ((1..at) \cap Carrying) \ skipped
    BY <1>2, <1>4
  <2>2. (Ordered(Append(awrites, pending))' <=> Ordered(Append(awrites, pending)))
        /\ Carried(Append(awrites, pending))' = Carried(Append(awrites, pending))
    BY <1>1 DEF Ordered, Carried, A!ToSet
  <2>3. QED
    BY <1>1, <1>3, <2>1, <2>2 DEF BatchInv, AllCarried
<1>7. BatchIsOpen'
  <2>1. ASSUME pending # <<>>, NEW i \in pending[1]..(at + 1) PROVE i \in Calm
    <3>1. pending[1] \in Nat
      <4>1. pending \in Seq(Nat) /\ 1 \in DOMAIN pending
        BY <2>1 DEF BatchInv, AdaptiveTypes
      <4>2. QED
        BY <4>1
    <3>2. i = at + 1 \/ i \in pending[1]..at
      BY <1>2, <2>1, <3>1
    <3>3. QED
      BY <1>4, <2>1, <3>2 DEF BatchInv, BatchIsOpen
  <2>2. QED
    BY <1>1, <1>3, <2>1 DEF BatchInv, BatchIsOpen, InCadence
<1>8. WritesAreSound'
  BY <1>1, <1>3 DEF BatchInv, WritesAreSound, Uncrossed, InCadence
<1>9. QED
  BY <1>5, <1>6, <1>7, <1>8 DEF BatchInv

LEMMA BatchKeeps ==
    ASSUME BatchInv, A!Batch
    PROVE  BatchInv'
<1>1. /\ A!Here({"key"}) /\ at' = at + 1 /\ converged' = FALSE
      /\ UNCHANGED <<run, skipped>> /\ A!Coming = at + 1
  BY DEF A!Batch, A!Coming
<1>2. PICK jitter \in 0..run.load.jitter :
         IF pending = <<>> \/ A!Collapsible(A!Pacing(jitter), at + 1)
         THEN pending' = Append(pending, at + 1) /\ UNCHANGED awrites
         ELSE pending' = <<at + 1>> /\ awrites' = A!Flushed
  BY DEF A!Batch, A!Coming
<1>3. CASE pending = <<>> \/ A!Collapsible(A!Pacing(jitter), at + 1)
  <2>1. pending' = Append(pending, at + 1) /\ UNCHANGED awrites
    BY <1>2, <1>3
  <2>2. ASSUME pending # <<>> PROVE at + 1 \in Paced
    <3>1. A!Collapsible(A!Pacing(jitter), at + 1) /\ ~converged
      BY <1>3, <2>2 DEF BatchInv, BatchIsOpen
    <3>2. A!Pacing(jitter) = A!Scaled(at + 1) + jitter
      BY <1>1, <3>1 DEF A!Pacing
    <3>3. at + 1 \in 1..Len(run.trail) /\ at \in Nat
      BY <1>1, ComingIs
    <3>4. A!Scaled(at + 1) \in Int /\ jitter \in Nat
      BY <1>2, <3>3, ScaledIs, TrailIs DEF BatchInv
    <3>5. A!Scaled(at + 1) > 0 => A!Synthetic \/ at + 1 \in A!Evidence
      BY <3>1, <3>2, <3>4 DEF A!Collapsible
    <3>6. QED
      BY <3>3, <3>5 DEF Paced
  <2>3. QED
    BY <1>1, <2>1, <2>2, JoinKeeps
<1>4. CASE ~(pending = <<>> \/ A!Collapsible(A!Pacing(jitter), at + 1))
  BY <1>1, <1>2, <1>4, SplitKeeps
<1>5. QED
  BY <1>3, <1>4

LEMMA SendStepKeeps ==
    ASSUME BatchInv, A!Send
    PROVE  BatchInv'
<1> DEFINE kinds == {"enter", "odd", "key"}
<1>1. /\ A!Here(kinds) /\ at' = at + 1 /\ UNCHANGED <<run, skipped>>
      /\ awrites' = Append(A!Flushed, <<at + 1>>) /\ pending' = <<>>
  BY DEF A!Send, A!Here, A!Coming
<1>2. at + 1 \in Carrying
  BY <1>1, ComingIs DEF Carrying, A!HasBytes, A!IsInput
<1>3. QED
  BY <1>1, <1>2, SendKeeps

LEMMA AskKeeps ==
    ASSUME BatchInv, A!Ask
    PROVE  BatchInv'
<1>1. A!Here({"asked"}) /\ at' = at + 1 /\ UNCHANGED run /\ pending' = <<>> /\ A!Coming = at + 1
  BY DEF A!Ask, A!Coming
<1>2. at + 1 \in Carrying /\ at + 1 \in 1..Len(run.trail) /\ at \in Nat
  BY <1>1, ComingIs DEF Carrying, A!HasBytes, A!IsInput
<1>3. CASE awrites' = Append(A!Flushed, <<at + 1>>) /\ UNCHANGED skipped
  BY <1>1, <1>2, <1>3, SendKeeps
<1>4. CASE awrites' = A!Flushed /\ skipped' = skipped \cup {at + 1}
  BY <1>1, <1>2, <1>4, FlushKeeps
<1>5. QED
  BY <1>1, <1>3, <1>4 DEF A!Ask

LEMMA QuietKeeps ==
    ASSUME BatchInv, A!Wait \/ A!Checkpoint \/ A!Finish
    PROVE  BatchInv'
<1>1. UNCHANGED <<run, skipped>> /\ awrites' = A!Flushed /\ pending' = <<>>
  BY DEF A!Wait, A!Checkpoint, A!Finish
<1>2. CASE A!Finish
  <2>1. at' = at /\ at \in 0..Len(run.trail)
    BY <1>2 DEF A!Finish, BatchInv, AdaptiveTypes
  <2>2. at \in Nat /\ at # at + 1 /\ at <= Len(run.trail)
    BY <2>1, TrailIs DEF BatchInv
  <2>3. QED
    BY <1>1, <2>1, <2>2, FlushKeeps
<1>3. CASE A!Wait \/ A!Checkpoint
  <2>1. A!Here({"wait", "checkpoint"}) /\ at' = at + 1
    BY <1>3 DEF A!Wait, A!Checkpoint, A!Here, A!Coming
  <2>2. at + 1 \notin Carrying /\ at + 1 \in 1..Len(run.trail) /\ at \in Nat
    BY <2>1, ComingIs DEF Carrying, A!HasBytes, A!IsInput
  <2>3. QED
    BY <1>1, <2>1, <2>2, FlushKeeps
<1>4. QED
  BY <1>2, <1>3

LEMMA BatchStarts == A!Init => BatchInv
<1> SUFFICES ASSUME A!Init PROVE BatchInv
  OBVIOUS
<1>1. /\ run \in [trail : Trails, origin : {"ended", "cut", "synthetic"}, load : Loads]
      /\ at = 0 /\ pending = <<>> /\ awrites = <<>> /\ skipped = {}
  BY DEF A!Init
<1>2. Len(run.trail) \in Nat
  BY <1>1, AdaptiveBounds DEF A!AdaptiveAssumption
<1>3. <<>> \in Seq(Nat) /\ <<>> \in Seq(Seq(Nat)) /\ DOMAIN <<>> = {} /\ Len(<<>>) = 0
  OBVIOUS
<1>4. AdaptiveTypes
  BY <1>1, <1>2, <1>3 DEF AdaptiveTypes
<1>5. Ordered(<<>>) /\ Carried(<<>>) = {}
  BY <1>3 DEF Ordered, Carried
<1>6. AllCarried
  <2>1. 1..0 = {}
    OBVIOUS
  <2>2. Ordered(Append(awrites, pending)) /\ Carried(Append(awrites, pending)) = {}
    BY <1>1, <1>3, <1>5, EmptyRow
  <2>3. QED
    BY <1>1, <2>1, <2>2 DEF AllCarried
<1>7. BatchIsOpen
  BY <1>1, <1>3 DEF BatchIsOpen, InCadence
<1>8. WritesAreSound
  BY <1>1, <1>3 DEF WritesAreSound
<1>9. QED
  BY <1>4, <1>6, <1>7, <1>8 DEF BatchInv

\* What the invariant says of the trail.
LEMMA TrailIsKept ==
    ASSUME BatchInv
    PROVE  A!BatchesKeepTheTrail
<1>1. A!InputsInOrder
  <2> DEFINE all == Append(awrites, pending)
  <2>1. Ordered(all) /\ Carried(all) = ((1..at) \cap Carrying) \ skipped
    BY DEF BatchInv, AllCarried
  <2>2. at \in Nat
    BY TrailIs DEF BatchInv, AdaptiveTypes
  <2>3. ((1..at) \cap Carrying) \ skipped = {i \in 1..at : A!HasBytes(i)} \ skipped
    BY <2>2 DEF Carrying
  <2> HIDE DEF all
  <2>4. /\ \A k, l \in DOMAIN all : \A m \in DOMAIN all[k], n \in DOMAIN all[l] :
              k < l \/ (k = l /\ m < n) => all[k][m] < all[l][n]
        /\ UNION {A!ToSet(all[k]) : k \in DOMAIN all} = {i \in 1..at : A!HasBytes(i)} \ skipped
    BY <2>1, <2>3, Zenon DEF Ordered, Carried
  <2>5. QED
    BY <2>4, Zenon DEF A!InputsInOrder, all
<1>2. A!NoCrossing
  <2>1. SUFFICES ASSUME NEW k \in DOMAIN awrites,
                        NEW i \in awrites[k][1]..awrites[k][Len(awrites[k])],
                        Len(awrites[k]) > 1
                 PROVE  A!Kind(i) \in {"key", "out"}
    BY Zenon DEF A!NoCrossing
  <2>2. Uncrossed(awrites[k], Calm)
    BY <2>1 DEF BatchInv, WritesAreSound
  <2>3. i \in Calm
    BY <2>1, <2>2 DEF Uncrossed
  <2>4. QED
    BY <2>3 DEF Calm
<1>3. A!CadenceKept
  <2>1. SUFFICES ASSUME NEW k \in DOMAIN awrites, NEW n \in 2..Len(awrites[k]),
                        A!Scaled(awrites[k][n]) > 0
                 PROVE  A!Synthetic \/ awrites[k][n] \in A!Evidence
    BY Zenon DEF A!CadenceKept
  <2>2. InCadence(awrites[k], Paced)
    BY <2>1 DEF BatchInv, WritesAreSound
  <2>3. awrites[k][n] \in Paced
    BY <2>1, <2>2 DEF InCadence
  <2>4. QED
    BY <2>1, <2>3 DEF Paced
<1>4. QED
  BY <1>1, <1>2, <1>3 DEF A!BatchesKeepTheTrail

\* For any trail, speed and jitter: the target receives the inputs once each and
\* in their order, no write reaches over what ends a batch, and a pause of the
\* operator is left out only with evidence of type-ahead, whatever was compared
\* and whatever was found (worker, executors.py).
THEOREM TrailStaysWhole == A!Spec => []A!BatchesKeepTheTrail
<1>1. BatchInv /\ [A!Next]_A!vars => BatchInv'
  <2>1. SUFFICES ASSUME BatchInv, [A!Next]_A!vars PROVE BatchInv'
    OBVIOUS
  <2>2. CASE A!Next
    BY <2>1, <2>2, IgnoreKeeps, BatchKeeps, SendStepKeeps, AskKeeps, QuietKeeps DEF A!Next
  <2>3. CASE UNCHANGED A!vars
    <3>1. UNCHANGED <<run, at, pending, converged, awrites, skipped>>
      BY <2>3 DEF A!vars
    <3>2. Carrying' = Carrying /\ Calm' = Calm /\ Paced' = Paced
      BY <3>1, SameRun
    <3>3. AdaptiveTypes'
      BY <2>1, <3>1 DEF BatchInv, AdaptiveTypes
    <3>4. AllCarried'
      BY <2>1, <3>1, <3>2 DEF BatchInv, AllCarried, Ordered, Carried, A!ToSet
    <3>5. BatchIsOpen' /\ WritesAreSound'
      BY <2>1, <3>1, <3>2 DEF BatchInv, BatchIsOpen, WritesAreSound, Uncrossed, InCadence
    <3>6. QED
      BY <3>3, <3>4, <3>5 DEF BatchInv
  <2>4. QED
    BY <2>1, <2>2, <2>3
<1>2. BatchInv => A!BatchesKeepTheTrail
  BY TrailIsKept
<1>3. QED
  BY <1>1, <1>2, BatchStarts, PTL DEF A!Spec

=============================================================================
