--------------------------- MODULE SessionsProofs ---------------------------
(***************************************************************************)
(* What the three executors of a replay promise the thread of the run, for *)
(* any number of sessions, workers and events: they report each session    *)
(* once and truly, stop soon, and let nothing out after they have ended.   *)
(* And the log of a terminal session tells what passed through it, for any *)
(* number of pieces typed and printed and whatever signal, broken sink or  *)
(* dead child comes in between (TerminalGateway.run).                      *)
(***************************************************************************)
EXTENDS MCSessions, SequenceTheorems, FiniteSetTheorems, TLAPS

-----------------------------------------------------------------------------
(* The executors (replay_control/executors.py): the inductive invariant.   *)

Kinds == {"input", "compared", "checkpoint", "batch"}

\* Where a session is while it replays, with nothing to report yet.
Live == {"queued", "begin", "admit", "open", "next", "check", "guard", "flush",
         "write", "drain"} \cup Kinds

\* How far a session is: what it holds in its batch it has left behind, and
\* whoever deals with an event has not come to the end.
PlaceOK(s) ==
    /\ sess[s].at <= Events(s)
    /\ sess[s].batch <= sess[s].at
    /\ sess[s].pc \in Kinds \cup {"check", "guard", "write"} => sess[s].at < Events(s)
    /\ sess[s].pc \in Kinds \cup {"write", "drain"} => sess[s].batch = 0
    /\ sess[s].pc = "flush" =>
          /\ sess[s].then \in Kinds \cup {"success", "stopped"}
          /\ sess[s].then \in Kinds => sess[s].at < Events(s)
          /\ sess[s].then = "success" => sess[s].at = Events(s)
    /\ sess[s].pc = "drain" => sess[s].at = Events(s)
    /\ sess[s].pc \in {"new", "queued", "begin", "admit", "open"} =>
          sess[s].at = 0 /\ sess[s].batch = 0

\* Which executor has which steps.
ModeOK(s) ==
    /\ ~Concurrent =>
          /\ told[s] = <<>> /\ sess[s].batch = 0
          /\ sess[s].pc \notin {"begin", "admit", "guard", "flush", "batch", "alarm"}
    /\ Strict =>
          /\ sess[s].pc \notin {"queued", "dropped", "gone", "check"}
          /\ s # 1 => sess[s].pc = "new"
          /\ sess[s].pc = "done" => sess[s].at = Events(s)
    /\ Parallel =>
          /\ sess[s].pc = "done" => stop \/ sess[s].at = Events(s)
          /\ sess[s].pc \in {"dropped", "gone"} => stop
          /\ sess[s].pc # "drain"

\* What was reported of a session of the concurrent executor.
ReportOK(s) ==
    Concurrent =>
    /\ told[s] \in {<<>>, <<"success">>, <<"failed">>, <<"skipped">>, <<"stopped">>}
    /\ told[s] \in {<<"skipped">>, <<"stopped">>} => stop
    /\ sess[s].pc \in Live \cup {"raised"} => told[s] = <<>>
    /\ sess[s].pc = "new" => told[s] \in {<<>>, <<"skipped">>}
    /\ sess[s].pc \in {"dropped", "gone"} => told[s] = <<"skipped">>
    /\ sess[s].pc = "alarm" => told[s] = <<"failed">> /\ FailFast
    /\ sess[s].pc = "done" =>
          /\ told[s] # <<>>
          /\ told[s] = <<"success">> => sess[s].at = Events(s) /\ sess[s].batch = 0
    /\ sess[s].pc = "flush" /\ sess[s].then = "stopped" => stop
    /\ sess[s].pc \notin {"drain", "check"}

\* Why a session ended early.
ErrorOK(s) ==
    /\ sess[s].pc \in {"raised", "alarm"} => sess[s].err # "none"
    /\ sess[s].pc = "alarm" => sess[s].err # "odd"
    /\ Concurrent /\ sess[s].pc = "raised" => sess[s].err = "odd"
    /\ sess[s].err = "cancelled" => seen = "cancel"

\* What a session may still write once the stop is set.
Hand(s) ==
    IF sess[s].pc = "flush"
    THEN IF sess[s].then \in {"input", "compared", "batch"} THEN 2 ELSE 1
    ELSE IF \/ sess[s].pc \in {"next", "guard", "check"} /\ sess[s].batch > 0
            \/ sess[s].pc = "check" /\ Parallel
            \/ sess[s].pc \in {"batch", "input", "compared", "write"}
         THEN 1 ELSE 0

LateOK(s) == IF stop THEN late[s] + Hand(s) <= 2 ELSE late[s] = 0

SessionOK(s) == PlaceOK(s) /\ ModeOK(s) /\ ReportOK(s) /\ ErrorOK(s) /\ LateOK(s)

\* A session that the thread of the run has passed on, or has reported.
Seen(s) == sess[s].pc # "new" \/ told[s] # <<>>

MainOK ==
    /\ main.pc = "start" =>
          /\ sess = [s \in Sessions |-> Fresh]
          /\ \A s \in Sessions : told[s] = <<>>
          /\ ~stop /\ main.error = "none" /\ main.next = 1
    /\ main.pc \in {"submit", "offer"} =>
          /\ Concurrent /\ main.error = "none"
          /\ \A s \in Sessions :
                IF s >= main.next THEN sess[s].pc = "new" /\ told[s] = <<>> ELSE Seen(s)
          /\ main.pc = "offer" => main.next <= NumSessions
    /\ main.pc \in {"join", "wait"} =>
          /\ Concurrent => main.error = "none" /\ \A s \in Sessions : Seen(s)
          /\ Strict => main.pc = "wait" /\ sess[1].pc # "new" /\ main.error = "none"
    /\ main.pc = "stop" => Concurrent /\ main.error = "none" /\ seen = "cancel"
    /\ main.pc = "cancel" => Concurrent /\ main.error = "cancelled" /\ stop
    /\ main.pc \in {"shutdown", "ended"} =>
          /\ Concurrent /\ main.error # "cancelled" => \A s \in Sessions : Seen(s)
          /\ main.error = "none" => Finished /\ \A s \in Sessions : sess[s].pc # "raised"
          /\ Strict => sess[1].pc # "new"
    /\ Parallel /\ main.pc # "start" => \A s \in Sessions : sess[s].pc # "new"
    /\ main.pc = "ended" => Finished /\ (main.error = "none" => ~stop)
    /\ main.error = "cancelled" => seen = "cancel"

StopOK ==
    /\ stop => ~Strict
    /\ stop /\ Parallel => main.error # "none"
    /\ stop /\ Concurrent => reason # "none" /\ (FailFast \/ main.error = "cancelled")
    /\ reason = "cancelled" => seen = "cancel"

ExecutorsInv == TypeOK /\ (\A s \in Sessions : SessionOK(s)) /\ MainOK /\ StopOK

USE ExecutorsAssumption DEF Sessions

-----------------------------------------------------------------------------
(* Sets, modes and results.                                                *)

Places == {"new", "queued", "dropped", "gone", "begin", "admit", "open", "next", "check",
           "guard", "flush", "batch", "input", "compared", "checkpoint", "write", "alarm",
           "drain", "done", "raised"}
Thens == {"next", "batch", "input", "compared", "checkpoint", "success", "stopped"}
Errors == {"none", "cancelled", "mismatch", "odd"}
Results == {"success", "failed", "skipped", "stopped"}
State == [pc : Places, at : 0..Long, batch : 0..Long, then : Thens, err : Errors]

LEMMA Typed ==
    ASSUME TypeOK
    PROVE  /\ sess \in [Sessions -> State] /\ told \in [Sessions -> Seq(Results)]
           /\ late \in [Sessions -> 0..3] /\ stop \in BOOLEAN
           /\ lock \in Sessions \cup {None}
BY DEF TypeOK, State, Places, Thens, Errors, Results

LEMMA FieldsTyped ==
    ASSUME TypeOK, NEW s \in Sessions
    PROVE  /\ sess[s].pc \in Places /\ sess[s].at \in 0..Long /\ sess[s].batch \in 0..Long
           /\ sess[s].then \in Thens /\ sess[s].err \in Errors
           /\ late[s] \in 0..3 /\ told[s] \in Seq(Results)
           /\ Events(s) \in 0..Long
BY Typed DEF State, Events

LEMMA OneMode ==
    ASSUME params \in Params
    PROVE  /\ Strict \/ Parallel \/ Concurrent
           /\ ~(Strict /\ Parallel) /\ ~(Strict /\ Concurrent) /\ ~(Parallel /\ Concurrent)
BY DEF Params, Strict, Parallel, Concurrent

LEMMA SameMode ==
    ASSUME params' = params
    PROVE  /\ Strict' = Strict /\ Parallel' = Parallel
           /\ Concurrent' = Concurrent /\ FailFast' = FailFast
BY DEF Strict, Parallel, Concurrent, FailFast

LEMMA OneResult ==
    ASSUME NEW r \in Results, NEW u \in Results
    PROVE  /\ Append(<<>>, r) = <<r>> /\ <<r>> \in Seq(Results) /\ <<r>> # <<>>
           /\ <<r>> = <<u>> <=> r = u
           /\ Len(<<r>>) = 1
OBVIOUS

-----------------------------------------------------------------------------
(* A step of a session.                                                    *)

\* The session s is now there, and the others are where they were.
Becomes(s, p, a, b, t, e) ==
    /\ sess' \in [Sessions -> State]
    /\ sess'[s].pc = p /\ sess'[s].at = a /\ sess'[s].batch = b
    /\ sess'[s].then = t /\ sess'[s].err = e
    /\ \A o \in Sessions : o # s => sess'[o] = sess[o]

LEMMA Moves ==
    ASSUME TypeOK, NEW s \in Sessions, NEW p \in Places, NEW a \in 0..Long, NEW b \in 0..Long,
           NEW t \in Thens, NEW e \in Errors,
           sess' = [sess EXCEPT ![s] = [pc |-> p, at |-> a, batch |-> b, then |-> t, err |-> e]]
    PROVE  Becomes(s, p, a, b, t, e)
<1>1. sess \in [Sessions -> State]
  BY Typed
<1>2. [pc |-> p, at |-> a, batch |-> b, then |-> t, err |-> e] \in State
  BY DEF State
<1>3. QED
  BY <1>1, <1>2 DEF Becomes

LEMMA GotoMoves ==
    ASSUME TypeOK, NEW s \in Sessions, NEW p \in Places,
           sess' = [sess EXCEPT ![s].pc = p]
    PROVE  Becomes(s, p, sess[s].at, sess[s].batch, sess[s].then, sess[s].err)
<1>1. sess \in [Sessions -> State]
  BY Typed
<1>2. QED
  BY <1>1 DEF Becomes, State

LEMMA BehindMoves ==
    ASSUME TypeOK, NEW s \in Sessions, NEW p \in Places, sess[s].at < Events(s),
           sess' = [sess EXCEPT ![s].pc = p, ![s].at = @ + 1]
    PROVE  Becomes(s, p, sess[s].at + 1, sess[s].batch, sess[s].then, sess[s].err)
<1>1. sess \in [Sessions -> State] /\ sess[s].at + 1 \in 0..Long
  BY Typed, FieldsTyped
<1>2. QED
  BY <1>1 DEF Becomes, State

LEMMA BatchMoves ==
    ASSUME TypeOK, NEW s \in Sessions, NEW p \in Places, sess[s].at < Events(s),
           NEW b \in 0..Long,
           sess' = [sess EXCEPT ![s].pc = p, ![s].at = @ + 1, ![s].batch = b]
    PROVE  Becomes(s, p, sess[s].at + 1, b, sess[s].then, sess[s].err)
<1>1. sess \in [Sessions -> State] /\ sess[s].at + 1 \in 0..Long
  BY Typed, FieldsTyped, SMTT(30)
<1>2. QED
  BY <1>1 DEF Becomes, State

LEMMA ThenMoves ==
    ASSUME TypeOK, NEW s \in Sessions, NEW p \in Places, NEW t \in Thens,
           sess' = [sess EXCEPT ![s].pc = p, ![s].then = t]
    PROVE  Becomes(s, p, sess[s].at, sess[s].batch, t, sess[s].err)
<1>1. sess \in [Sessions -> State]
  BY Typed
<1>2. QED
  BY <1>1 DEF Becomes, State

LEMMA FlushMoves ==
    ASSUME TypeOK, NEW s \in Sessions, NEW p \in Places,
           sess' = [sess EXCEPT ![s].pc = p, ![s].batch = 0, ![s].then = "next"]
    PROVE  Becomes(s, p, sess[s].at, 0, "next", sess[s].err)
<1>1. sess \in [Sessions -> State] /\ "next" \in Thens /\ 0 \in 0..Long
  BY Typed DEF Thens
<1>2. QED
  BY <1>1 DEF Becomes, State

LEMMA ErrMoves ==
    ASSUME TypeOK, NEW s \in Sessions, NEW p \in Places, NEW e \in Errors,
           sess' = [sess EXCEPT ![s].pc = p, ![s].err = e]
    PROVE  Becomes(s, p, sess[s].at, sess[s].batch, sess[s].then, e)
<1>1. sess \in [Sessions -> State]
  BY Typed
<1>2. QED
  BY <1>1 DEF Becomes, State

\* The report of a session that has none yet.
LEMMA Tells ==
    ASSUME TypeOK, NEW s \in Sessions, NEW r \in Results, told[s] = <<>>, Tell(s, r)
    PROVE  /\ told' \in [Sessions -> Seq(Results)] /\ told'[s] = <<r>>
           /\ \A o \in Sessions : o # s => told'[o] = told[o]
<1>1. told \in [Sessions -> Seq(Results)]
  BY Typed
<1>2. PICK n \in Seq(Results) : n = Append(told[s], r) /\ n = <<r>>
  BY OneResult
<1>3. told' = [told EXCEPT ![s] = n]
  BY <1>2 DEF Tell
<1>4. QED
  BY <1>1, <1>2, <1>3

\* A write is counted, and never too many.
LEMMA Writes ==
    ASSUME TypeOK, NEW s \in Sessions, Wrote(s), LateOK(s), Hand(s) \in 1..2
    PROVE  /\ late' \in [Sessions -> 0..3]
           /\ late'[s] = IF stop THEN late[s] + 1 ELSE 0
           /\ \A o \in Sessions : o # s => late'[o] = late[o]
<1>1. late \in [Sessions -> 0..3] /\ late[s] \in 0..3
  BY Typed
<1>2. stop => late[s] + 1 \in 0..2
  BY <1>1 DEF LateOK
<1>3. late' = [late EXCEPT ![s] = IF stop THEN late[s] + 1 ELSE 0]
  <2>1. CASE stop
    <3>1. Bound(late[s] + 1) = late[s] + 1
      BY <1>2, <2>1 DEF Bound
    <3>2. QED
      BY <2>1, <3>1 DEF Wrote
  <2>2. CASE ~stop
    BY <2>2 DEF Wrote
  <2>3. QED
    BY <2>1, <2>2
<1>4. (IF stop THEN late[s] + 1 ELSE 0) \in 0..3
  BY <1>2
<1>5. QED
  BY <1>1, <1>3, <1>4

\* A session that does not move, whoever sets the stop or reads a cancel.
LEMMA Kept ==
    ASSUME TypeOK, NEW o \in Sessions, SessionOK(o), params' = params,
           sess'[o] = sess[o], told'[o] = told[o], late'[o] = late[o],
           seen = "cancel" => seen' = "cancel",
           stop' \in BOOLEAN, stop => stop'
    PROVE  SessionOK(o)'
<1>1. /\ Strict' = Strict /\ Parallel' = Parallel
      /\ Concurrent' = Concurrent /\ FailFast' = FailFast
  BY SameMode
<1>2. PlaceOK(o)' /\ ErrorOK(o)'
  BY <1>1 DEF SessionOK, PlaceOK, ErrorOK
<1>3. ModeOK(o)'
  BY <1>1 DEF SessionOK, ModeOK
<1>4. ReportOK(o)'
  BY <1>1 DEF SessionOK, ReportOK
<1>5. LateOK(o)'
  <2>1. Hand(o)' = Hand(o) /\ Hand(o) \in 0..2
    BY <1>1 DEF Hand
  <2>2. late[o] \in 0..3 /\ stop \in BOOLEAN
    BY Typed
  <2>3. QED
    BY <2>1, <2>2 DEF SessionOK, LateOK
<1>6. QED
  BY <1>2, <1>3, <1>4, <1>5 DEF SessionOK

\* What is left to show of a step of s.
Fine(s) ==
    /\ sess' \in [Sessions -> State]
    /\ told' \in [Sessions -> Seq(Results)]
    /\ late' \in [Sessions -> 0..3]
    /\ \A o \in Sessions : o # s =>
          sess'[o] = sess[o] /\ told'[o] = told[o] /\ late'[o] = late[o]
    /\ sess'[s].pc # "new"
    /\ SessionOK(s)'

LEMMA SessionStep ==
    ASSUME ExecutorsInv, NEW s \in Sessions, sess[s].pc \notin Ended \cup {"new"},
           UNCHANGED <<params, seen, stop, reason, main>>, lock' \in Sessions \cup {None},
           Fine(s)
    PROVE  ExecutorsInv'
<1>1. TypeOK'
  BY ZenonT(60) DEF ExecutorsInv, TypeOK, Fine, State, Places, Thens, Errors, Results
<1>2. ASSUME NEW o \in Sessions PROVE SessionOK(o)'
  <2>1. CASE o = s
    BY <2>1 DEF Fine
  <2>2. CASE o # s
    <3>1. stop \in BOOLEAN
      BY Typed DEF ExecutorsInv
    <3>2. QED
      BY <2>2, <3>1, Kept DEF ExecutorsInv, Fine
  <2>3. QED
    BY <2>1, <2>2
<1>3. MainOK'
  <2>0. /\ Strict' = Strict /\ Parallel' = Parallel /\ Concurrent' = Concurrent
    BY SameMode
  <2>1. main.pc # "start"
    BY DEF ExecutorsInv, MainOK, Fresh
  <2>2. ~Finished
    BY DEF Finished, Submitted
  <2>3. main.pc # "ended" /\ (main.pc = "shutdown" => main.error # "none")
    BY <2>2 DEF ExecutorsInv, MainOK
  <2>4. \A o \in Sessions : /\ Seen(o) => Seen(o)'
                            /\ sess[o].pc # "new" => sess'[o].pc # "new"
                            /\ sess[o].pc = "new" => sess'[o] = sess[o] /\ told'[o] = told[o]
    BY DEF Fine, Seen
  <2>5. QED
    BY <2>0, <2>1, <2>3, <2>4 DEF ExecutorsInv, MainOK
<1>4. StopOK'
  BY SameMode DEF ExecutorsInv, StopOK
<1>5. QED
  BY <1>1, <1>2, <1>3, <1>4 DEF ExecutorsInv

-----------------------------------------------------------------------------
(* The ways a session goes on.                                             *)

LEMMA Here ==
    ASSUME ExecutorsInv, NEW s \in Sessions
    PROVE  /\ TypeOK /\ params \in Params
           /\ PlaceOK(s) /\ ModeOK(s) /\ ReportOK(s) /\ ErrorOK(s) /\ LateOK(s)
           /\ sess[s].pc \in Places /\ sess[s].at \in 0..Long /\ sess[s].batch \in 0..Long
           /\ sess[s].then \in Thens /\ sess[s].err \in Errors
           /\ late[s] \in 0..3 /\ stop \in BOOLEAN /\ Events(s) \in 0..Long
           /\ (Strict => ~stop)
           /\ lock \in Sessions \cup {None}
<1>1. TypeOK /\ SessionOK(s) /\ StopOK
  BY DEF ExecutorsInv
<1>2. QED
  BY <1>1, FieldsTyped, Typed DEF SessionOK, StopOK, TypeOK

\* Nothing is told and nothing written.
LEMMA Quietly ==
    ASSUME ExecutorsInv, NEW s \in Sessions, NEW p, NEW a, NEW b, NEW t, NEW e,
           Becomes(s, p, a, b, t, e), p # "new", told' = told, late' = late,
           SessionOK(s)'
    PROVE  Fine(s)
BY Here, Typed DEF Becomes, Fine

\* It goes where it has as much in hand as before, or less, and is still at
\* the same event.
LEMMA GoesOn ==
    ASSUME ExecutorsInv, NEW s \in Sessions, UNCHANGED <<params, seen, stop, told, late>>,
           NEW p \in Places, Goto(s, p), sess[s].pc \in Live, p \in Live \ {"flush"},
           PlaceOK(s)', ModeOK(s)', ReportOK(s)',
           stop => Hand(s)' <= Hand(s)
    PROVE  Fine(s)
<1>1. Becomes(s, p, sess[s].at, sess[s].batch, sess[s].then, sess[s].err)
  BY Here, GotoMoves DEF Goto
<1>2. ErrorOK(s)'
  BY <1>1, Here DEF Becomes, ErrorOK, Live, Kinds
<1>3. LateOK(s)'
  <2>1. Hand(s)' \in 0..2 /\ Hand(s) \in 0..2
    BY DEF Hand
  <2>2. QED
    BY <2>1, Here DEF LateOK
<1>4. p # "new"
  BY DEF Live, Kinds
<1>5. QED
  BY <1>1, <1>2, <1>3, <1>4, Quietly DEF SessionOK

\* check raised, or a screen was not the expected one.
LEMMA Fails ==
    ASSUME ExecutorsInv, NEW s \in Sessions, UNCHANGED <<params, seen, stop, late>>,
           NEW e \in {"cancelled", "mismatch"}, Fail(s, e), e = "cancelled" => seen = "cancel",
           sess[s].pc \in Live
    PROVE  Fine(s)
<1>0. /\ TypeOK /\ params \in Params /\ PlaceOK(s) /\ ModeOK(s) /\ ReportOK(s) /\ LateOK(s)
      /\ late[s] \in 0..3 /\ stop \in BOOLEAN
      /\ Strict' = Strict /\ Parallel' = Parallel /\ Concurrent' = Concurrent /\ FailFast' = FailFast
  BY Here, SameMode
<1>1. CASE Concurrent
  <2>1. PICK p \in {"alarm", "done"} :
           /\ p = "alarm" <=> FailFast
           /\ sess' = [sess EXCEPT ![s].pc = p, ![s].err = e]
           /\ Tell(s, "failed")
    BY <1>1 DEF Fail
  <2>2. p \in Places /\ e \in Errors /\ "failed" \in Results
    BY DEF Places, Errors, Results
  <2>3. Becomes(s, p, sess[s].at, sess[s].batch, sess[s].then, e)
    BY <1>0, <2>1, <2>2, ErrMoves
  <2>4. told[s] = <<>>
    BY <1>0, <1>1 DEF ReportOK
  <2>5. /\ told' \in [Sessions -> Seq(Results)] /\ told'[s] = <<"failed">>
        /\ \A o \in Sessions : o # s => told'[o] = told[o]
    BY <1>0, <2>1, <2>2, <2>4, Tells
  <2>6. PlaceOK(s)' /\ ModeOK(s)'
    BY <1>0, <1>1, <2>1, <2>3, OneMode DEF Becomes, PlaceOK, ModeOK, Kinds
  <2>7. ReportOK(s)'
    <3>1. /\ <<"failed">> # <<>> /\ <<"failed">> # <<"success">>
          /\ <<"failed">> # <<"skipped">> /\ <<"failed">> # <<"stopped">>
      BY OneResult DEF Results
    <3>2. QED
      BY <1>0, <1>1, <2>1, <2>3, <2>5, <3>1 DEF Becomes, ReportOK, Live, Kinds
  <2>8. ErrorOK(s)'
    BY <2>1, <2>3 DEF Becomes, ErrorOK
  <2>9. LateOK(s)'
    <3>1. Hand(s)' = 0 /\ Hand(s) \in 0..2
      BY <2>3 DEF Becomes, Hand
    <3>2. QED
      BY <1>0, <3>1 DEF LateOK
  <2>10. QED
    BY <1>0, <2>1, <2>3, <2>5, <2>6, <2>7, <2>8, <2>9, Typed DEF Becomes, Fine, SessionOK
<1>2. CASE ~Concurrent
  <2>1. "raised" \in Places /\ e \in Errors
    BY DEF Places, Errors
  <2>2. Becomes(s, "raised", sess[s].at, sess[s].batch, sess[s].then, e) /\ told' = told
    BY <1>0, <1>2, <2>1, ErrMoves DEF Fail, Raise
  <2>3. PlaceOK(s)' /\ ModeOK(s)'
    BY <1>0, <1>2, <2>2, OneMode DEF Becomes, PlaceOK, ModeOK, Live, Kinds
  <2>4. ReportOK(s)' /\ ErrorOK(s)'
    BY <1>0, <1>2, <2>2 DEF Becomes, ReportOK, ErrorOK
  <2>5. LateOK(s)'
    <3>1. Hand(s)' = 0 /\ Hand(s) \in 0..2
      BY <2>2 DEF Becomes, Hand
    <3>2. QED
      BY <1>0, <3>1 DEF LateOK
  <2>6. QED
    BY <2>2, <2>3, <2>4, <2>5, Quietly DEF SessionOK
<1>3. QED
  BY <1>1, <1>2

\* An exception that is no ReplayError.
LEMMA RaisesOdd ==
    ASSUME ExecutorsInv, NEW s \in Sessions, UNCHANGED <<params, seen, stop, told, late>>,
           Raise(s, "odd"), sess[s].pc \in Live
    PROVE  Fine(s)
<1>0. /\ TypeOK /\ params \in Params /\ PlaceOK(s) /\ ModeOK(s) /\ ReportOK(s) /\ LateOK(s)
      /\ late[s] \in 0..3 /\ stop \in BOOLEAN
      /\ Strict' = Strict /\ Parallel' = Parallel /\ Concurrent' = Concurrent /\ FailFast' = FailFast
  BY Here, SameMode
<1>1. "raised" \in Places /\ "odd" \in Errors
  BY DEF Places, Errors
<1>2. Becomes(s, "raised", sess[s].at, sess[s].batch, sess[s].then, "odd") /\ told' = told
  BY <1>0, <1>1, ErrMoves DEF Raise
<1>3. PlaceOK(s)' /\ ModeOK(s)'
  BY <1>0, <1>2 DEF Becomes, PlaceOK, ModeOK, Live, Kinds
<1>4. ReportOK(s)' /\ ErrorOK(s)'
  BY <1>0, <1>2 DEF Becomes, ReportOK, ErrorOK, Live, Kinds
<1>5. LateOK(s)'
  <2>1. Hand(s)' = 0 /\ Hand(s) \in 0..2
    BY <1>2 DEF Becomes, Hand
  <2>2. QED
    BY <1>0, <2>1 DEF LateOK
<1>6. QED
  BY <1>2, <1>3, <1>4, <1>5, Quietly DEF SessionOK

\* The event is left behind.
LEMMA GoesBehind ==
    ASSUME ExecutorsInv, NEW s \in Sessions, UNCHANGED <<params, seen, stop, told>>,
           Behind(s, "next"), sess[s].pc \in Kinds \cup {"write"},
           late' = late \/ (Wrote(s) /\ sess[s].pc = "write")
    PROVE  Fine(s)
<1>0. /\ TypeOK /\ params \in Params /\ PlaceOK(s) /\ ModeOK(s) /\ ReportOK(s) /\ LateOK(s)
      /\ ErrorOK(s) /\ late[s] \in 0..3 /\ stop \in BOOLEAN
      /\ sess[s].at \in 0..Long /\ Events(s) \in 0..Long
      /\ Strict' = Strict /\ Parallel' = Parallel /\ Concurrent' = Concurrent /\ FailFast' = FailFast
  BY Here, SameMode
<1>1. sess[s].at < Events(s) /\ sess[s].batch = 0
  BY <1>0 DEF PlaceOK
<1>2. Becomes(s, "next", sess[s].at + 1, sess[s].batch, sess[s].then, sess[s].err)
  <2>1. "next" \in Places
    BY DEF Places
  <2>2. QED
    BY <1>0, <1>1, <2>1, BehindMoves DEF Behind
<1>3. PlaceOK(s)' /\ ModeOK(s)'
  BY <1>0, <1>1, <1>2 DEF Becomes, PlaceOK, ModeOK, Kinds, Events
<1>4. ReportOK(s)' /\ ErrorOK(s)'
  BY <1>0, <1>2 DEF Becomes, ReportOK, ErrorOK, Live, Kinds
<1>5. /\ late' \in [Sessions -> 0..3]
      /\ \A o \in Sessions : o # s => late'[o] = late[o]
      /\ LateOK(s)'
  <2>1. Hand(s)' = 0 /\ Hand(s) \in 0..2 /\ (sess[s].pc = "write" => Hand(s) = 1)
    BY <1>0, <1>1, <1>2 DEF Becomes, Hand
  <2>2. CASE late' = late
    BY <1>0, <2>1, <2>2, Typed DEF LateOK
  <2>3. CASE Wrote(s) /\ sess[s].pc = "write"
    BY <1>0, <2>1, <2>3, Writes DEF LateOK
  <2>4. QED
    BY <2>2, <2>3
<1>6. QED
  BY <1>0, <1>2, <1>3, <1>4, <1>5, Typed DEF Becomes, Fine, SessionOK

\* What comes up after the head of the loop.
LEMMA Comes ==
    ASSUME ExecutorsInv, NEW s \in Sessions, UNCHANGED <<params, seen, stop, told, late>>,
           Event(s), sess[s].pc \in {"next", "check", "guard"}, sess[s].at < Events(s),
           Concurrent => ~stop, Parallel => sess[s].pc = "check"
    PROVE  Fine(s)
<1>0. /\ TypeOK /\ params \in Params /\ PlaceOK(s) /\ ModeOK(s) /\ ReportOK(s) /\ LateOK(s)
      /\ ErrorOK(s) /\ late[s] \in 0..3 /\ stop \in BOOLEAN /\ (Strict => ~stop)
      /\ sess[s].at \in 0..Long /\ sess[s].batch \in 0..Long /\ Events(s) \in 0..Long
      /\ Strict' = Strict /\ Parallel' = Parallel /\ Concurrent' = Concurrent /\ FailFast' = FailFast
  BY Here, SameMode
<1>1. ASSUME ~stop, LateOK(s) PROVE LateOK(s)'
  BY <1>1 DEF LateOK
<1>2. CASE /\ Concurrent /\ sess[s].batch > 0
           /\ sess' = [sess EXCEPT ![s].pc = "next", ![s].at = @ + 1, ![s].batch = @ + 1]
  <2>1. sess' = [sess EXCEPT ![s].pc = "next", ![s].at = @ + 1, ![s].batch = sess[s].batch + 1]
    BY <1>2
  <2>2. "next" \in Places /\ sess[s].batch + 1 \in 0..Long
    BY <1>0 DEF Places, PlaceOK
  <2>3. Becomes(s, "next", sess[s].at + 1, sess[s].batch + 1, sess[s].then, sess[s].err)
    BY <1>0, <2>1, <2>2, BatchMoves
  <2>4. PlaceOK(s)' /\ ModeOK(s)'
    BY <1>0, <1>2, <2>3, OneMode DEF Becomes, PlaceOK, ModeOK, Kinds, Events
  <2>5. ReportOK(s)' /\ ErrorOK(s)'
    BY <1>0, <2>3 DEF Becomes, ReportOK, ErrorOK, Live, Kinds
  <2>6. QED
    BY <1>0, <1>1, <1>2, <2>3, <2>4, <2>5, Quietly DEF SessionOK
<1>3. ASSUME NEW kind \in Kinds, sess[s].batch > 0,
             sess' = [sess EXCEPT ![s].pc = "flush", ![s].then = kind]
      PROVE  Fine(s)
  <2>1. "flush" \in Places /\ kind \in Thens /\ Concurrent
    BY <1>0, <1>3 DEF Places, Thens, Kinds, ModeOK
  <2>2. Becomes(s, "flush", sess[s].at, sess[s].batch, kind, sess[s].err)
    BY <1>0, <1>3, <2>1, ThenMoves
  <2>3. PlaceOK(s)' /\ ModeOK(s)'
    BY <1>0, <2>1, <2>2, OneMode DEF Becomes, PlaceOK, ModeOK, Kinds, Events
  <2>4. ReportOK(s)' /\ ErrorOK(s)'
    BY <1>0, <2>2 DEF Becomes, ReportOK, ErrorOK, Live, Kinds
  <2>5. QED
    BY <1>0, <1>1, <2>1, <2>2, <2>3, <2>4, Quietly DEF SessionOK
<1>4. ASSUME NEW kind \in Kinds, kind = "batch" => Concurrent, ~(sess[s].batch > 0),
             Goto(s, kind)
      PROVE  Fine(s)
  <2>1. kind \in Places /\ sess[s].batch = 0
    BY <1>0, <1>4 DEF Places, Kinds
  <2>2. Becomes(s, kind, sess[s].at, sess[s].batch, sess[s].then, sess[s].err)
    BY <1>0, <1>4, <2>1, GotoMoves DEF Goto
  <2>3. PlaceOK(s)' /\ ModeOK(s)'
    BY <1>0, <1>4, <2>1, <2>2, OneMode DEF Becomes, PlaceOK, ModeOK, Kinds, Events
  <2>4. ReportOK(s)' /\ ErrorOK(s)'
    BY <1>0, <2>2 DEF Becomes, ReportOK, ErrorOK, Live, Kinds
  <2>5. stop => Hand(s)' <= Hand(s) /\ Hand(s) \in 0..2 /\ Hand(s)' \in 0..2
    BY <1>0, <2>2, OneMode DEF Becomes, Hand, Kinds
  <2>6. LateOK(s)'
    BY <1>0, <1>1, <2>5 DEF LateOK
  <2>7. QED
    BY <2>1, <2>2, <2>3, <2>4, <2>6, Quietly DEF SessionOK, Kinds
<1>5. QED
  BY <1>2, <1>3, <1>4 DEF Event, Kinds

-----------------------------------------------------------------------------
(* The steps of a session.                                                 *)

LEMMA TakeStep ==
    ASSUME ExecutorsInv, NEW s \in Sessions, Take(s)
    PROVE  ExecutorsInv'
<1>0. /\ TypeOK /\ params \in Params /\ PlaceOK(s) /\ ModeOK(s) /\ ReportOK(s) /\ LateOK(s)
      /\ ErrorOK(s) /\ late[s] \in 0..3 /\ stop \in BOOLEAN /\ lock' \in Sessions \cup {None}
      /\ Strict' = Strict /\ Parallel' = Parallel /\ Concurrent' = Concurrent /\ FailFast' = FailFast
      /\ UNCHANGED <<params, seen, stop, reason, main, told, late>>
  BY Here, SameMode DEF Take
<1>1. PICK p \in {"gone", "begin", "open"} :
         /\ sess' = [sess EXCEPT ![s].pc = p]
         /\ p = "gone" <=> sess[s].pc = "dropped"
         /\ p = "begin" => Concurrent
         /\ p = "open" => ~Concurrent
  BY DEF Take, Goto
<1>2. sess[s].pc \in {"queued", "dropped"}
  BY DEF Take
<1>3. Becomes(s, p, sess[s].at, sess[s].batch, sess[s].then, sess[s].err)
  <2>1. p \in Places
    BY DEF Places
  <2>2. QED
    BY <1>0, <1>1, <2>1, GotoMoves
<1>4. PlaceOK(s)' /\ ModeOK(s)'
  BY <1>0, <1>1, <1>2, <1>3, OneMode DEF Becomes, PlaceOK, ModeOK, Kinds
<1>5. ReportOK(s)' /\ ErrorOK(s)'
  BY <1>0, <1>1, <1>2, <1>3 DEF Becomes, ReportOK, ErrorOK, Live, Kinds
<1>6. LateOK(s)'
  <2>1. Hand(s)' = 0 /\ Hand(s) \in 0..2
    BY <1>1, <1>3 DEF Becomes, Hand
  <2>2. QED
    BY <1>0, <2>1 DEF LateOK
<1>7. Fine(s)
  BY <1>0, <1>3, <1>4, <1>5, <1>6, Quietly DEF SessionOK
<1>8. QED
  BY <1>0, <1>2, <1>7, SessionStep DEF Ended

LEMMA BeginStep ==
    ASSUME ExecutorsInv, NEW s \in Sessions, Begin(s)
    PROVE  ExecutorsInv'
<1>0. /\ TypeOK /\ params \in Params /\ PlaceOK(s) /\ ModeOK(s) /\ ReportOK(s)
      /\ lock' \in Sessions \cup {None}
      /\ Strict' = Strict /\ Parallel' = Parallel /\ Concurrent' = Concurrent /\ FailFast' = FailFast
      /\ UNCHANGED <<params, seen, stop, reason, main, late>> /\ sess[s].pc = "begin"
  BY Here, SameMode DEF Begin
<1>1. ASSUME Goto(s, "admit"), told' = told PROVE Fine(s)
  <2>1. "admit" \in Places /\ "admit" \in Live \ {"flush"} /\ "begin" \in Live
    BY DEF Places, Live
  <2>2. Becomes(s, "admit", sess[s].at, sess[s].batch, sess[s].then, sess[s].err)
    BY <1>0, <1>1, <2>1, GotoMoves DEF Goto
  <2>3. PlaceOK(s)' /\ ModeOK(s)' /\ ReportOK(s)'
    BY <1>0, <1>1, <2>2, OneMode DEF Becomes, PlaceOK, ModeOK, ReportOK, Kinds, Live
  <2>4. Hand(s)' <= Hand(s)
    BY <1>0, <2>2 DEF Becomes, Hand
  <2>5. QED
    BY <1>0, <1>1, <2>1, <2>3, <2>4, GoesOn
<1>2. ASSUME Raises, Fail(s, "cancelled") PROVE Fine(s)
  <2>1. sess[s].pc \in Live /\ seen = "cancel"
    BY <1>0, <1>2 DEF Live, Raises
  <2>2. QED
    BY <1>0, <1>2, <2>1, Fails
<1>3. Fine(s)
  BY <1>1, <1>2 DEF Begin
<1>4. QED
  BY <1>0, <1>3, SessionStep DEF Ended

\* The session is over, and that is told.
LEMMA Reports ==
    ASSUME ExecutorsInv, NEW s \in Sessions, UNCHANGED <<params, seen, stop>>,
           Concurrent, sess[s].pc \in Live,
           NEW r \in Results \ {"failed"}, Tell(s, r), NEW b, NEW t, b \in {0, sess[s].batch},
           Becomes(s, "done", sess[s].at, b, t, sess[s].err),
           r = "success" => sess[s].at = Events(s) /\ b = 0, r # "success" => stop,
           late' = late \/ (Wrote(s) /\ sess[s].pc = "flush")
    PROVE  Fine(s)
<1>0. /\ TypeOK /\ params \in Params /\ PlaceOK(s) /\ ModeOK(s) /\ ReportOK(s) /\ LateOK(s)
      /\ ErrorOK(s) /\ late[s] \in 0..3 /\ stop \in BOOLEAN
      /\ sess[s].at \in 0..Long /\ sess[s].batch \in 0..Long
      /\ Strict' = Strict /\ Parallel' = Parallel /\ Concurrent' = Concurrent /\ FailFast' = FailFast
  BY Here, SameMode
<1>1. told[s] = <<>>
  BY <1>0 DEF ReportOK
<1>2. /\ told' \in [Sessions -> Seq(Results)] /\ told'[s] = <<r>>
      /\ \A o \in Sessions : o # s => told'[o] = told[o]
  BY <1>0, <1>1, Tells
<1>3. PlaceOK(s)'
  BY <1>0 DEF Becomes, PlaceOK, Kinds
<1>4. ModeOK(s)'
  BY <1>0, OneMode DEF Becomes, ModeOK
<1>5. ReportOK(s)'
  <2>1. /\ <<r>> # <<>>
        /\ <<r>> \in {<<"success">>, <<"failed">>, <<"skipped">>, <<"stopped">>}
        /\ <<r>> \in {<<"skipped">>, <<"stopped">>} => r # "success"
        /\ <<r>> = <<"success">> => r = "success"
    BY OneResult DEF Results
  <2>2. QED
    BY <1>0, <1>2, <2>1 DEF Becomes, ReportOK, Live, Kinds
<1>6. ErrorOK(s)'
  BY <1>0 DEF Becomes, ErrorOK
<1>7. /\ late' \in [Sessions -> 0..3]
      /\ \A o \in Sessions : o # s => late'[o] = late[o]
      /\ LateOK(s)'
  <2>1. Hand(s)' = 0 /\ Hand(s) \in 0..2 /\ (sess[s].pc = "flush" => Hand(s) \in 1..2)
    BY DEF Becomes, Hand
  <2>2. CASE late' = late
    BY <1>0, <2>1, <2>2, Typed DEF LateOK
  <2>3. CASE Wrote(s) /\ sess[s].pc = "flush"
    BY <1>0, <2>1, <2>3, Writes DEF LateOK
  <2>4. QED
    BY <2>2, <2>3
<1>8. QED
  BY <1>0, <1>2, <1>3, <1>4, <1>5, <1>6, <1>7 DEF Becomes, Fine, SessionOK

LEMMA AdmitStep ==
    ASSUME ExecutorsInv, NEW s \in Sessions, Admit(s)
    PROVE  ExecutorsInv'
<1>0. /\ TypeOK /\ params \in Params /\ PlaceOK(s) /\ ModeOK(s) /\ ReportOK(s) /\ LateOK(s)
      /\ sess[s].at \in 0..Long /\ sess[s].batch \in 0..Long /\ Events(s) \in 0..Long
      /\ lock' \in Sessions \cup {None} /\ stop \in BOOLEAN /\ late[s] \in 0..3 /\ ErrorOK(s)
      /\ Strict' = Strict /\ Parallel' = Parallel /\ Concurrent' = Concurrent /\ FailFast' = FailFast
      /\ UNCHANGED <<params, seen, stop, reason, main>> /\ sess[s].pc = "admit"
  BY Here, SameMode DEF Admit
<1>1. ASSUME stop, Goto(s, "done"), Tell(s, "skipped"), late' = late PROVE Fine(s)
  <2>1. "done" \in Places /\ sess[s].pc \in Live /\ Concurrent /\ "skipped" \in Results \ {"failed"}
    BY <1>0, <1>1, OneMode DEF Places, Live, Results, ModeOK
  <2>2. Becomes(s, "done", sess[s].at, sess[s].batch, sess[s].then, sess[s].err)
    BY <1>0, <1>1, <2>1, GotoMoves DEF Goto
  <2>3. QED
    BY <1>0, <1>1, <2>1, <2>2, Reports
<1>2. ASSUME ~stop, Goto(s, "open"), told' = told, late' = late PROVE Fine(s)
  <2>1. "open" \in Places /\ "open" \in Live \ {"flush"} /\ sess[s].pc \in Live
    BY <1>0 DEF Places, Live, Kinds
  <2>2. Becomes(s, "open", sess[s].at, sess[s].batch, sess[s].then, sess[s].err)
    BY <1>0, <1>2, <2>1, GotoMoves DEF Goto
  <2>3. PlaceOK(s)' /\ ModeOK(s)'
    BY <1>0, <1>2, <2>2, OneMode DEF Becomes, PlaceOK, ModeOK, Kinds
  <2>4. ReportOK(s)'
    BY <1>0, <1>2, <2>2, OneMode DEF Becomes, ReportOK, ModeOK, Kinds, Live
  <2>5. stop => Hand(s)' <= Hand(s)
    BY <1>0, <2>2, OneMode DEF Becomes, Hand, PlaceOK, Kinds
  <2>6. QED
    BY <1>0, <1>2, <2>1, <2>3, <2>4, <2>5, GoesOn
<1>3. Fine(s)
  BY <1>0, <1>1, <1>2 DEF Admit
<1>4. QED
  BY <1>0, <1>3, SessionStep DEF Ended, Kinds

LEMMA OpenStep ==
    ASSUME ExecutorsInv, NEW s \in Sessions, Open(s)
    PROVE  ExecutorsInv'
<1>0. /\ TypeOK /\ params \in Params /\ PlaceOK(s) /\ ModeOK(s) /\ ReportOK(s) /\ LateOK(s)
      /\ sess[s].at \in 0..Long /\ sess[s].batch \in 0..Long /\ Events(s) \in 0..Long
      /\ lock' \in Sessions \cup {None} /\ stop \in BOOLEAN /\ late[s] \in 0..3 /\ ErrorOK(s)
      /\ Strict' = Strict /\ Parallel' = Parallel /\ Concurrent' = Concurrent /\ FailFast' = FailFast
      /\ UNCHANGED <<params, seen, stop, reason, main>> /\ sess[s].pc = "open"
  BY Here, SameMode DEF Open
<1>1. ASSUME Goto(s, "next"), told' = told, late' = late PROVE Fine(s)
  <2>1. "next" \in Places /\ "next" \in Live \ {"flush"} /\ sess[s].pc \in Live
    BY <1>0 DEF Places, Live, Kinds
  <2>2. Becomes(s, "next", sess[s].at, sess[s].batch, sess[s].then, sess[s].err)
    BY <1>0, <1>1, <2>1, GotoMoves DEF Goto
  <2>3. PlaceOK(s)' /\ ModeOK(s)'
    BY <1>0, <1>1, <2>2, OneMode DEF Becomes, PlaceOK, ModeOK, Kinds
  <2>4. ReportOK(s)'
    BY <1>0, <1>1, <2>2, OneMode DEF Becomes, ReportOK, ModeOK, Kinds, Live
  <2>5. stop => Hand(s)' <= Hand(s)
    BY <1>0, <2>2, OneMode DEF Becomes, Hand, PlaceOK, Kinds
  <2>6. QED
    BY <1>0, <1>1, <2>1, <2>3, <2>4, <2>5, GoesOn
<1>2. ASSUME Raise(s, "odd"), told' = told, late' = late PROVE Fine(s)
  <2>1. sess[s].pc \in Live
    BY <1>0 DEF Live, Kinds
  <2>2. QED
    BY <1>0, <1>2, <2>1, RaisesOdd
<1>3. Fine(s)
  BY <1>0, <1>1, <1>2 DEF Open
<1>4. QED
  BY <1>0, <1>3, SessionStep DEF Ended, Kinds

LEMMA AtEndStep ==
    ASSUME ExecutorsInv, NEW s \in Sessions, AtEnd(s)
    PROVE  ExecutorsInv'
<1>0. /\ TypeOK /\ params \in Params /\ PlaceOK(s) /\ ModeOK(s) /\ ReportOK(s) /\ LateOK(s)
      /\ sess[s].at \in 0..Long /\ sess[s].batch \in 0..Long /\ Events(s) \in 0..Long
      /\ lock' \in Sessions \cup {None} /\ stop \in BOOLEAN /\ late[s] \in 0..3 /\ ErrorOK(s)
      /\ Strict' = Strict /\ Parallel' = Parallel /\ Concurrent' = Concurrent /\ FailFast' = FailFast
      /\ UNCHANGED <<params, seen, stop, reason, main>> /\ sess[s].pc = "next"
  BY Here, SameMode DEF AtEnd
<1>1. sess[s].at = Events(s) /\ late' = late
  BY DEF AtEnd
<1>2. ASSUME sess[s].batch > 0, told' = told,
             sess' = [sess EXCEPT ![s].pc = "flush", ![s].then = "success"]
      PROVE  Fine(s)
  <2>1. "flush" \in Places /\ "success" \in Thens /\ Concurrent
    BY <1>0, <1>2 DEF Places, Thens, ModeOK
  <2>2. Becomes(s, "flush", sess[s].at, sess[s].batch, "success", sess[s].err)
    BY <1>0, <1>2, <2>1, ThenMoves
  <2>3. PlaceOK(s)' /\ ModeOK(s)'
    BY <1>0, <1>1, <2>1, <2>2, OneMode DEF Becomes, PlaceOK, ModeOK, Kinds
  <2>4. ReportOK(s)' /\ ErrorOK(s)'
    BY <1>0, <1>2, <2>2 DEF Becomes, ReportOK, ErrorOK, Live, Kinds
  <2>5. LateOK(s)'
    <3>1. Hand(s)' = 1 /\ Hand(s) = 1
      BY <1>0, <1>2, <2>2 DEF Becomes, Hand
    <3>2. QED
      BY <1>0, <1>1, <3>1 DEF LateOK
  <2>6. QED
    BY <1>1, <1>2, <2>2, <2>3, <2>4, <2>5, Quietly DEF SessionOK
<1>3. ASSUME Strict, sess[s].batch = 0, told' = told, Goto(s, "drain") PROVE Fine(s)
  <2>1. "drain" \in Places /\ "drain" \in Live \ {"flush"} /\ sess[s].pc \in Live
    BY <1>0 DEF Places, Live
  <2>2. Becomes(s, "drain", sess[s].at, sess[s].batch, sess[s].then, sess[s].err)
    BY <1>0, <1>3, <2>1, GotoMoves DEF Goto
  <2>3. PlaceOK(s)' /\ ModeOK(s)'
    BY <1>0, <1>1, <1>3, <2>2, OneMode DEF Becomes, PlaceOK, ModeOK, Kinds
  <2>4. ReportOK(s)'
    BY <1>0, <1>3, OneMode DEF ReportOK
  <2>5. stop => Hand(s)' <= Hand(s)
    BY <1>0, <1>3, <2>2 DEF Becomes, Hand
  <2>6. QED
    BY <1>0, <1>1, <1>3, <2>1, <2>3, <2>4, <2>5, GoesOn
<1>4. ASSUME Parallel, sess[s].batch = 0, told' = told, Goto(s, "done") PROVE Fine(s)
  <2>1. "done" \in Places
    BY DEF Places
  <2>2. Becomes(s, "done", sess[s].at, sess[s].batch, sess[s].then, sess[s].err)
    BY <1>0, <1>4, <2>1, GotoMoves DEF Goto
  <2>3. PlaceOK(s)' /\ ModeOK(s)'
    BY <1>0, <1>1, <1>4, <2>2, OneMode DEF Becomes, PlaceOK, ModeOK, Kinds
  <2>4. ReportOK(s)' /\ ErrorOK(s)'
    BY <1>0, <1>4, <2>2, OneMode DEF Becomes, ReportOK, ErrorOK
  <2>5. LateOK(s)'
    <3>1. Hand(s)' = 0 /\ Hand(s) \in 0..2
      BY <1>0, <1>4, <2>2 DEF Becomes, Hand
    <3>2. QED
      BY <1>0, <1>1, <3>1 DEF LateOK
  <2>6. QED
    BY <1>1, <1>4, <2>2, <2>3, <2>4, <2>5, Quietly DEF SessionOK
<1>5. ASSUME Concurrent, sess[s].batch = 0, Tell(s, "success"), Goto(s, "done") PROVE Fine(s)
  <2>1. "done" \in Places /\ sess[s].pc \in Live /\ "success" \in Results \ {"failed"}
    BY <1>0 DEF Places, Live, Results
  <2>2. Becomes(s, "done", sess[s].at, sess[s].batch, sess[s].then, sess[s].err)
    BY <1>0, <1>5, <2>1, GotoMoves DEF Goto
  <2>3. QED
    BY <1>0, <1>1, <1>5, <2>1, <2>2, Reports
<1>6. Fine(s)
  BY <1>0, <1>2, <1>3, <1>4, <1>5, OneMode DEF AtEnd
<1>7. QED
  BY <1>0, <1>6, SessionStep DEF Ended

LEMMA CheckStep ==
    ASSUME ExecutorsInv, NEW s \in Sessions, Check(s)
    PROVE  ExecutorsInv'
<1>0. /\ TypeOK /\ params \in Params /\ PlaceOK(s) /\ ModeOK(s) /\ ReportOK(s) /\ LateOK(s)
      /\ sess[s].at \in 0..Long /\ sess[s].batch \in 0..Long /\ Events(s) \in 0..Long
      /\ lock' \in Sessions \cup {None} /\ stop \in BOOLEAN /\ late[s] \in 0..3 /\ ErrorOK(s)
      /\ Strict' = Strict /\ Parallel' = Parallel /\ Concurrent' = Concurrent /\ FailFast' = FailFast
      /\ UNCHANGED <<params, seen, stop, reason, main>>
  BY Here, SameMode DEF Check
<1>1. /\ sess[s].pc \in {"next", "check"} /\ sess[s].at < Events(s) /\ late' = late
      /\ sess[s].pc = "check" => Parallel
      /\ sess[s].pc = "next" => ~Parallel
  BY <1>0, OneMode DEF Check, PlaceOK, ModeOK, ReportOK, Kinds
<1>2. ASSUME Concurrent, Goto(s, "guard"), told' = told, late' = late PROVE Fine(s)
  <2>1. "guard" \in Places /\ "guard" \in Live \ {"flush"} /\ sess[s].pc \in Live
    BY <1>0, <1>1 DEF Places, Live, Kinds
  <2>2. Becomes(s, "guard", sess[s].at, sess[s].batch, sess[s].then, sess[s].err)
    BY <1>0, <1>2, <2>1, GotoMoves DEF Goto
  <2>3. PlaceOK(s)' /\ ModeOK(s)'
    BY <1>0, <1>2, <2>2, OneMode, <1>1 DEF Becomes, PlaceOK, ModeOK, Kinds
  <2>4. ReportOK(s)'
    BY <1>0, <1>2, <2>2, OneMode, <1>1 DEF Becomes, ReportOK, ModeOK, Kinds, Live
  <2>5. stop => Hand(s)' <= Hand(s)
    BY <1>0, <2>2, OneMode, <1>1 DEF Becomes, Hand, PlaceOK, Kinds
  <2>6. QED
    BY <1>0, <1>2, <2>1, <2>3, <2>4, <2>5, GoesOn
<1>3. ASSUME ~Concurrent, Event(s), told' = told PROVE Fine(s)
  BY <1>0, <1>1, <1>3, Comes
<1>4. ASSUME Raises, Fail(s, "cancelled"), late' = late PROVE Fine(s)
  <2>1. sess[s].pc \in Live /\ seen = "cancel"
    BY <1>0, <1>4, <1>1 DEF Live, Kinds, Raises
  <2>2. QED
    BY <1>0, <1>4, <2>1, Fails
<1>5. Fine(s)
  BY <1>0, <1>1, <1>2, <1>3, <1>4 DEF Check
<1>6. QED
  BY <1>0, <1>5, <1>1, SessionStep DEF Ended, Kinds

LEMMA GuardStep ==
    ASSUME ExecutorsInv, NEW s \in Sessions, Guard(s)
    PROVE  ExecutorsInv'
<1>0. /\ TypeOK /\ params \in Params /\ PlaceOK(s) /\ ModeOK(s) /\ ReportOK(s) /\ LateOK(s)
      /\ sess[s].at \in 0..Long /\ sess[s].batch \in 0..Long /\ Events(s) \in 0..Long
      /\ lock' \in Sessions \cup {None} /\ stop \in BOOLEAN /\ late[s] \in 0..3 /\ ErrorOK(s)
      /\ Strict' = Strict /\ Parallel' = Parallel /\ Concurrent' = Concurrent /\ FailFast' = FailFast
      /\ UNCHANGED <<params, seen, stop, reason, main>> /\ sess[s].pc = "guard"
  BY Here, SameMode DEF Guard
<1>1. Concurrent /\ sess[s].at < Events(s) /\ late' = late
  BY <1>0, OneMode DEF Guard, PlaceOK, ModeOK
<1>2. ASSUME ~stop, Event(s), told' = told PROVE Fine(s)
  BY <1>0, <1>1, <1>2, OneMode, Comes
<1>3. ASSUME stop, Goto(s, "done"), Tell(s, "stopped"), late' = late PROVE Fine(s)
  <2>1. "done" \in Places /\ sess[s].pc \in Live /\ Concurrent /\ "stopped" \in Results \ {"failed"}
    BY <1>0, <1>3, OneMode DEF Places, Live, Results, ModeOK
  <2>2. Becomes(s, "done", sess[s].at, sess[s].batch, sess[s].then, sess[s].err)
    BY <1>0, <1>3, <2>1, GotoMoves DEF Goto
  <2>3. QED
    BY <1>0, <1>3, <2>1, <2>2, Reports
<1>4. ASSUME stop, sess[s].batch > 0, told' = told,
             sess' = [sess EXCEPT ![s].pc = "flush", ![s].then = "stopped"]
      PROVE  Fine(s)
  <2>1. "flush" \in Places /\ "stopped" \in Thens
    BY DEF Places, Thens
  <2>2. Becomes(s, "flush", sess[s].at, sess[s].batch, "stopped", sess[s].err)
    BY <1>0, <1>4, <2>1, ThenMoves
  <2>3. PlaceOK(s)' /\ ModeOK(s)'
    BY <1>0, <1>1, <2>1, <2>2, OneMode DEF Becomes, PlaceOK, ModeOK, Kinds
  <2>4. ReportOK(s)' /\ ErrorOK(s)'
    BY <1>0, <1>4, <2>2 DEF Becomes, ReportOK, ErrorOK, Live, Kinds
  <2>5. LateOK(s)'
    <3>1. Hand(s)' = 1 /\ Hand(s) = 1
      BY <1>0, <1>4, <2>2 DEF Becomes, Hand
    <3>2. QED
      BY <1>0, <1>1, <3>1 DEF LateOK
  <2>6. QED
    BY <1>1, <1>4, <2>2, <2>3, <2>4, <2>5, Quietly DEF SessionOK
<1>5. Fine(s)
  BY <1>0, <1>1, <1>2, <1>3, <1>4 DEF Guard
<1>6. QED
  BY <1>0, <1>5, SessionStep DEF Ended, Kinds

LEMMA GuardParallelStep ==
    ASSUME ExecutorsInv, NEW s \in Sessions, GuardParallel(s)
    PROVE  ExecutorsInv'
<1>0. /\ TypeOK /\ params \in Params /\ PlaceOK(s) /\ ModeOK(s) /\ ReportOK(s) /\ LateOK(s)
      /\ sess[s].at \in 0..Long /\ sess[s].batch \in 0..Long /\ Events(s) \in 0..Long
      /\ lock' \in Sessions \cup {None} /\ stop \in BOOLEAN /\ late[s] \in 0..3 /\ ErrorOK(s)
      /\ Strict' = Strict /\ Parallel' = Parallel /\ Concurrent' = Concurrent /\ FailFast' = FailFast
      /\ UNCHANGED <<params, seen, stop, reason, main>> /\ sess[s].pc = "next"
  BY Here, SameMode DEF GuardParallel
<1>1. Parallel /\ sess[s].at < Events(s) /\ late' = late /\ told' = told /\ sess[s].batch = 0
  BY <1>0, OneMode DEF GuardParallel, ModeOK
<1>2. PICK p \in {"done", "check"} : Goto(s, p) /\ (p = "done" <=> stop)
  BY DEF GuardParallel
<1>3. Becomes(s, p, sess[s].at, sess[s].batch, sess[s].then, sess[s].err)
  <2>1. p \in Places
    BY DEF Places
  <2>2. QED
    BY <1>0, <1>2, <2>1, GotoMoves DEF Goto
<1>4. PlaceOK(s)' /\ ModeOK(s)'
  BY <1>0, <1>1, <1>2, <1>3, OneMode DEF Becomes, PlaceOK, ModeOK, Kinds
<1>5. ReportOK(s)' /\ ErrorOK(s)'
  BY <1>0, <1>1, <1>2, <1>3, OneMode DEF Becomes, ReportOK, ErrorOK
<1>6. LateOK(s)'
  <2>1. CASE stop
    <3>1. Hand(s)' = 0 /\ Hand(s) \in 0..2
      BY <1>0, <1>2, <1>3, <2>1 DEF Becomes, Hand
    <3>2. QED
      BY <1>0, <1>1, <3>1 DEF LateOK
  <2>2. CASE ~stop
    BY <1>0, <1>1, <2>2 DEF LateOK
  <2>3. QED
    BY <2>1, <2>2
<1>7. Fine(s)
  BY <1>1, <1>2, <1>3, <1>4, <1>5, <1>6, Quietly DEF SessionOK
<1>8. QED
  BY <1>0, <1>7, SessionStep DEF Ended

LEMMA FlushStep ==
    ASSUME ExecutorsInv, NEW s \in Sessions, Flush(s)
    PROVE  ExecutorsInv'
<1>0. /\ TypeOK /\ params \in Params /\ PlaceOK(s) /\ ModeOK(s) /\ ReportOK(s) /\ LateOK(s)
      /\ sess[s].at \in 0..Long /\ sess[s].batch \in 0..Long /\ Events(s) \in 0..Long
      /\ lock' \in Sessions \cup {None} /\ stop \in BOOLEAN /\ late[s] \in 0..3 /\ ErrorOK(s)
      /\ Strict' = Strict /\ Parallel' = Parallel /\ Concurrent' = Concurrent /\ FailFast' = FailFast
      /\ UNCHANGED <<params, seen, stop, reason, main>> /\ sess[s].pc = "flush"
  BY Here, SameMode DEF Flush
<1>1. /\ Concurrent /\ sess[s].then \in Kinds \cup {"success", "stopped"}
      /\ Hand(s) \in 1..2
  BY <1>0, OneMode DEF PlaceOK, ModeOK, Hand
<1>2. ASSUME Wrote(s), NEW r \in {"success", "stopped"}, sess[s].then = r, Tell(s, r),
             sess' = [sess EXCEPT ![s].pc = "done", ![s].batch = 0, ![s].then = "next"]
      PROVE  Fine(s)
  <2>1. /\ "done" \in Places /\ sess[s].pc \in Live /\ r \in Results \ {"failed"}
        /\ "next" \in Thens
    BY <1>0 DEF Places, Live, Results, Thens
  <2>2. Becomes(s, "done", sess[s].at, 0, "next", sess[s].err)
    BY <1>0, <1>2, <2>1, FlushMoves
  <2>3. /\ r = "success" => sess[s].at = Events(s)
        /\ r # "success" => stop
    BY <1>0, <1>1, <1>2 DEF PlaceOK, ReportOK
  <2>4. QED
    BY <1>0, <1>1, <1>2, <2>1, <2>2, <2>3, Reports, SMTT(30)
<1>3. ASSUME Wrote(s), NEW kind \in Kinds, sess[s].then = kind, told' = told,
             sess' = [sess EXCEPT ![s].pc = kind, ![s].batch = 0, ![s].then = "next"]
      PROVE  Fine(s)
  <2>1. kind \in Places
    BY DEF Places, Kinds
  <2>2. Becomes(s, kind, sess[s].at, 0, "next", sess[s].err)
    BY <1>0, <1>3, <2>1, FlushMoves
  <2>3. PlaceOK(s)' /\ ModeOK(s)'
    BY <1>0, <1>1, <1>3, <2>2, OneMode DEF Becomes, PlaceOK, ModeOK, Kinds
  <2>4. ReportOK(s)' /\ ErrorOK(s)'
    BY <1>0, <1>3, <2>2 DEF Becomes, ReportOK, ErrorOK, Live, Kinds
  <2>5. Hand(s)' \in 0..1 /\ Hand(s) = Hand(s)' + 1
    <3>1. CASE kind = "checkpoint"
      <4>1. Hand(s) = 1 /\ Hand(s)' = 0
        BY <1>0, <1>3, <2>2, <3>1 DEF Becomes, Hand
      <4>2. QED
        BY <4>1
    <3>2. CASE kind \in {"input", "compared", "batch"}
      <4>1. Hand(s) = 2 /\ Hand(s)' = 1
        BY <1>0, <1>3, <2>2, <3>2 DEF Becomes, Hand
      <4>2. QED
        BY <4>1
    <3>3. QED
      BY <3>1, <3>2 DEF Kinds
  <2>6. /\ late' \in [Sessions -> 0..3]
        /\ late'[s] = IF stop THEN late[s] + 1 ELSE 0
        /\ \A o \in Sessions : o # s => late'[o] = late[o]
    BY <1>0, <1>1, <1>3, Writes
  <2>7. LateOK(s)'
    BY <1>0, <2>5, <2>6 DEF LateOK
  <2>8. QED
    BY <1>0, <1>3, <2>2, <2>3, <2>4, <2>6, <2>7, Typed DEF Becomes, Fine, SessionOK, Kinds
<1>4. ASSUME Raises, Fail(s, "cancelled"), late' = late PROVE Fine(s)
  <2>1. sess[s].pc \in Live /\ seen = "cancel"
    BY <1>0, <1>4 DEF Live, Kinds, Raises
  <2>2. QED
    BY <1>0, <1>4, <2>1, Fails
<1>5. Fine(s)
  <2>1. CASE Raises /\ Fail(s, "cancelled") /\ late' = late
    BY <1>4, <2>1
  <2>2. CASE sess[s].then \in {"success", "stopped"} /\ ~(Raises /\ Fail(s, "cancelled") /\ late' = late)
    BY <1>2, <2>2 DEF Flush
  <2>3. CASE sess[s].then \in Kinds /\ ~(Raises /\ Fail(s, "cancelled") /\ late' = late)
    BY <1>3, <2>3 DEF Flush, Kinds
  <2>4. QED
    BY <1>1, <2>1, <2>2, <2>3
<1>6. QED
  BY <1>0, <1>5, SessionStep DEF Ended

LEMMA BatchStep ==
    ASSUME ExecutorsInv, NEW s \in Sessions, Batch(s)
    PROVE  ExecutorsInv'
<1>0. /\ TypeOK /\ params \in Params /\ PlaceOK(s) /\ ModeOK(s) /\ ReportOK(s) /\ LateOK(s)
      /\ sess[s].at \in 0..Long /\ sess[s].batch \in 0..Long /\ Events(s) \in 0..Long
      /\ lock' \in Sessions \cup {None} /\ stop \in BOOLEAN /\ late[s] \in 0..3 /\ ErrorOK(s)
      /\ Strict' = Strict /\ Parallel' = Parallel /\ Concurrent' = Concurrent /\ FailFast' = FailFast
      /\ UNCHANGED <<params, seen, stop, reason, main>> /\ sess[s].pc = "batch"
  BY Here, SameMode DEF Batch
<1>1. /\ Concurrent /\ sess[s].at < Events(s) /\ sess[s].batch = 0
      /\ late' = late
  BY <1>0, OneMode DEF Batch, PlaceOK, ModeOK, Kinds
<1>2. ASSUME told' = told,
             sess' = [sess EXCEPT ![s].pc = "next", ![s].at = @ + 1, ![s].batch = 1]
      PROVE  Fine(s)
  <2>1. "next" \in Places /\ 1 \in 0..Long
    BY <1>0, <1>1 DEF Places
  <2>2. Becomes(s, "next", sess[s].at + 1, 1, sess[s].then, sess[s].err)
    BY <1>0, <1>1, <1>2, <2>1, BatchMoves
  <2>3. PlaceOK(s)' /\ ModeOK(s)'
    BY <1>0, <1>1, <2>2, OneMode DEF Becomes, PlaceOK, ModeOK, Kinds, Events
  <2>4. ReportOK(s)' /\ ErrorOK(s)'
    BY <1>0, <1>2, <2>2 DEF Becomes, ReportOK, ErrorOK, Live, Kinds
  <2>5. LateOK(s)'
    <3>1. Hand(s)' = 1 /\ Hand(s) = 1
      BY <1>0, <1>1, <2>2 DEF Becomes, Hand
    <3>2. QED
      BY <1>0, <1>1, <3>1 DEF LateOK
  <2>6. QED
    BY <1>1, <1>2, <2>2, <2>3, <2>4, <2>5, Quietly DEF SessionOK
<1>3. ASSUME Raises, Fail(s, "cancelled"), late' = late PROVE Fine(s)
  <2>1. sess[s].pc \in Live /\ seen = "cancel"
    BY <1>0, <1>3 DEF Live, Kinds, Raises
  <2>2. QED
    BY <1>0, <1>3, <2>1, Fails
<1>4. Fine(s)
  BY <1>0, <1>1, <1>2, <1>3 DEF Batch
<1>5. QED
  BY <1>0, <1>4, SessionStep DEF Ended, Kinds

LEMMA InputStep ==
    ASSUME ExecutorsInv, NEW s \in Sessions, Input(s)
    PROVE  ExecutorsInv'
<1>0. /\ TypeOK /\ params \in Params /\ PlaceOK(s) /\ ModeOK(s) /\ ReportOK(s) /\ LateOK(s)
      /\ sess[s].at \in 0..Long /\ sess[s].batch \in 0..Long /\ Events(s) \in 0..Long
      /\ lock' \in Sessions \cup {None} /\ stop \in BOOLEAN /\ late[s] \in 0..3 /\ ErrorOK(s)
      /\ Strict' = Strict /\ Parallel' = Parallel /\ Concurrent' = Concurrent /\ FailFast' = FailFast
      /\ UNCHANGED <<params, seen, stop, reason, main>> /\ sess[s].pc = "input"
  BY Here, SameMode DEF Input
<1>1. ASSUME Goto(s, "write"), told' = told, late' = late PROVE Fine(s)
  <2>1. "write" \in Places /\ "write" \in Live \ {"flush"} /\ sess[s].pc \in Live
    BY <1>0 DEF Places, Live, Kinds
  <2>2. Becomes(s, "write", sess[s].at, sess[s].batch, sess[s].then, sess[s].err)
    BY <1>0, <1>1, <2>1, GotoMoves DEF Goto
  <2>3. PlaceOK(s)' /\ ModeOK(s)'
    BY <1>0, <1>1, <2>2, OneMode DEF Becomes, PlaceOK, ModeOK, Kinds
  <2>4. ReportOK(s)'
    BY <1>0, <1>1, <2>2, OneMode DEF Becomes, ReportOK, ModeOK, Kinds, Live
  <2>5. stop => Hand(s)' <= Hand(s)
    BY <1>0, <2>2, OneMode DEF Becomes, Hand, PlaceOK, Kinds
  <2>6. QED
    BY <1>0, <1>1, <2>1, <2>3, <2>4, <2>5, GoesOn
<1>2. ASSUME Behind(s, "next"), told' = told, late' = late PROVE Fine(s)
  <2>1. sess[s].pc \in Kinds \cup {"write"}
    BY <1>0 DEF Kinds
  <2>2. QED
    BY <1>0, <1>2, <2>1, GoesBehind
<1>3. ASSUME Raises, Fail(s, "cancelled"), late' = late PROVE Fine(s)
  <2>1. sess[s].pc \in Live /\ seen = "cancel"
    BY <1>0, <1>3 DEF Live, Kinds, Raises
  <2>2. QED
    BY <1>0, <1>3, <2>1, Fails
<1>4. Fine(s)
  BY <1>0, <1>1, <1>2, <1>3 DEF Input
<1>5. QED
  BY <1>0, <1>4, SessionStep DEF Ended, Kinds

LEMMA CompareStep ==
    ASSUME ExecutorsInv, NEW s \in Sessions, Compare(s)
    PROVE  ExecutorsInv'
<1>0. /\ TypeOK /\ params \in Params /\ PlaceOK(s) /\ ModeOK(s) /\ ReportOK(s) /\ LateOK(s)
      /\ sess[s].at \in 0..Long /\ sess[s].batch \in 0..Long /\ Events(s) \in 0..Long
      /\ lock' \in Sessions \cup {None} /\ stop \in BOOLEAN /\ late[s] \in 0..3 /\ ErrorOK(s)
      /\ Strict' = Strict /\ Parallel' = Parallel /\ Concurrent' = Concurrent /\ FailFast' = FailFast
      /\ UNCHANGED <<params, seen, stop, reason, main>> /\ sess[s].pc = "compared"
  BY Here, SameMode DEF Compare
<1>1. ASSUME Goto(s, "write"), told' = told, late' = late PROVE Fine(s)
  <2>1. "write" \in Places /\ "write" \in Live \ {"flush"} /\ sess[s].pc \in Live
    BY <1>0 DEF Places, Live, Kinds
  <2>2. Becomes(s, "write", sess[s].at, sess[s].batch, sess[s].then, sess[s].err)
    BY <1>0, <1>1, <2>1, GotoMoves DEF Goto
  <2>3. PlaceOK(s)' /\ ModeOK(s)'
    BY <1>0, <1>1, <2>2, OneMode DEF Becomes, PlaceOK, ModeOK, Kinds
  <2>4. ReportOK(s)'
    BY <1>0, <1>1, <2>2, OneMode DEF Becomes, ReportOK, ModeOK, Kinds, Live
  <2>5. stop => Hand(s)' <= Hand(s)
    BY <1>0, <2>2, OneMode DEF Becomes, Hand, PlaceOK, Kinds
  <2>6. QED
    BY <1>0, <1>1, <2>1, <2>3, <2>4, <2>5, GoesOn
<1>2. ASSUME Behind(s, "next"), told' = told, late' = late PROVE Fine(s)
  <2>1. sess[s].pc \in Kinds \cup {"write"}
    BY <1>0 DEF Kinds
  <2>2. QED
    BY <1>0, <1>2, <2>1, GoesBehind
<1>3. ASSUME Raises, Fail(s, "cancelled"), late' = late PROVE Fine(s)
  <2>1. sess[s].pc \in Live /\ seen = "cancel"
    BY <1>0, <1>3 DEF Live, Kinds, Raises
  <2>2. QED
    BY <1>0, <1>3, <2>1, Fails
<1>4. ASSUME Fail(s, "mismatch"), late' = late PROVE Fine(s)
  <2>1. sess[s].pc \in Live
    BY <1>0 DEF Live, Kinds
  <2>2. QED
    BY <1>0, <1>4, <2>1, Fails
<1>5. ASSUME Differs(s), late' = late PROVE Fine(s)
  BY <1>0, <1>1, <1>2, <1>4, <1>5 DEF Differs
<1>6. Fine(s)
  BY <1>0, <1>1, <1>3, <1>5 DEF Compare
<1>7. QED
  BY <1>0, <1>6, SessionStep DEF Ended, Kinds

LEMMA WriteStep ==
    ASSUME ExecutorsInv, NEW s \in Sessions, Write(s)
    PROVE  ExecutorsInv'
<1>0. /\ TypeOK /\ params \in Params /\ PlaceOK(s) /\ ModeOK(s) /\ ReportOK(s) /\ LateOK(s)
      /\ sess[s].at \in 0..Long /\ sess[s].batch \in 0..Long /\ Events(s) \in 0..Long
      /\ lock' \in Sessions \cup {None} /\ stop \in BOOLEAN /\ late[s] \in 0..3 /\ ErrorOK(s)
      /\ Strict' = Strict /\ Parallel' = Parallel /\ Concurrent' = Concurrent /\ FailFast' = FailFast
      /\ UNCHANGED <<params, seen, stop, reason, main>> /\ sess[s].pc = "write"
  BY Here, SameMode DEF Write
<1>1. ASSUME Wrote(s), Behind(s, "next"), told' = told PROVE Fine(s)
  BY <1>0, <1>1, GoesBehind
<1>2. ASSUME Raise(s, "odd"), told' = told, late' = late PROVE Fine(s)
  <2>1. sess[s].pc \in Live
    BY <1>0 DEF Live, Kinds
  <2>2. QED
    BY <1>0, <1>2, <2>1, RaisesOdd
<1>3. Fine(s)
  BY <1>0, <1>1, <1>2 DEF Write
<1>4. QED
  BY <1>0, <1>3, SessionStep DEF Ended, Kinds

LEMMA CheckpointStep ==
    ASSUME ExecutorsInv, NEW s \in Sessions, Checkpoint(s)
    PROVE  ExecutorsInv'
<1>0. /\ TypeOK /\ params \in Params /\ PlaceOK(s) /\ ModeOK(s) /\ ReportOK(s) /\ LateOK(s)
      /\ sess[s].at \in 0..Long /\ sess[s].batch \in 0..Long /\ Events(s) \in 0..Long
      /\ lock' \in Sessions \cup {None} /\ stop \in BOOLEAN /\ late[s] \in 0..3 /\ ErrorOK(s)
      /\ Strict' = Strict /\ Parallel' = Parallel /\ Concurrent' = Concurrent /\ FailFast' = FailFast
      /\ UNCHANGED <<params, seen, stop, reason, main>> /\ sess[s].pc = "checkpoint"
  BY Here, SameMode DEF Checkpoint
<1>1. ASSUME Behind(s, "next"), told' = told, late' = late PROVE Fine(s)
  <2>1. sess[s].pc \in Kinds \cup {"write"}
    BY <1>0 DEF Kinds
  <2>2. QED
    BY <1>0, <1>1, <2>1, GoesBehind
<1>2. ASSUME Raises, Fail(s, "cancelled"), late' = late PROVE Fine(s)
  <2>1. sess[s].pc \in Live /\ seen = "cancel"
    BY <1>0, <1>2 DEF Live, Kinds, Raises
  <2>2. QED
    BY <1>0, <1>2, <2>1, Fails
<1>3. ASSUME Fail(s, "mismatch"), late' = late PROVE Fine(s)
  <2>1. sess[s].pc \in Live
    BY <1>0 DEF Live, Kinds
  <2>2. QED
    BY <1>0, <1>3, <2>1, Fails
<1>4. Fine(s)
  BY <1>0, <1>1, <1>2, <1>3 DEF Checkpoint
<1>5. QED
  BY <1>0, <1>4, SessionStep DEF Ended, Kinds

LEMMA DrainStep ==
    ASSUME ExecutorsInv, NEW s \in Sessions, Drain(s)
    PROVE  ExecutorsInv'
<1>0. /\ TypeOK /\ params \in Params /\ PlaceOK(s) /\ ModeOK(s) /\ ReportOK(s) /\ LateOK(s)
      /\ sess[s].at \in 0..Long /\ sess[s].batch \in 0..Long /\ Events(s) \in 0..Long
      /\ lock' \in Sessions \cup {None} /\ stop \in BOOLEAN /\ late[s] \in 0..3 /\ ErrorOK(s)
      /\ Strict' = Strict /\ Parallel' = Parallel /\ Concurrent' = Concurrent /\ FailFast' = FailFast
      /\ UNCHANGED <<params, seen, stop, reason, main>> /\ sess[s].pc = "drain"
  BY Here, SameMode DEF Drain
<1>1. Strict /\ sess[s].at = Events(s) /\ late' = late /\ told' = told /\ ~stop
  BY <1>0, Here, OneMode DEF Drain, PlaceOK, ModeOK, ReportOK
<1>2. ASSUME NEW p \in {"done", "raised"}, NEW e \in {sess[s].err, "cancelled"},
             p = "raised" => e = "cancelled" /\ seen = "cancel", p = "done" => e = sess[s].err,
             Becomes(s, p, sess[s].at, sess[s].batch, sess[s].then, e)
      PROVE  Fine(s)
  <2>1. PlaceOK(s)' /\ ModeOK(s)'
    BY <1>0, <1>1, <1>2, OneMode DEF Becomes, PlaceOK, ModeOK, Kinds
  <2>2. ReportOK(s)' /\ ErrorOK(s)' /\ LateOK(s)'
    BY <1>0, <1>1, <1>2, OneMode DEF Becomes, ReportOK, ErrorOK, LateOK
  <2>3. QED
    BY <1>1, <1>2, <2>1, <2>2, Quietly DEF SessionOK
<1>3. "done" \in Places /\ "raised" \in Places /\ "cancelled" \in Errors
  BY DEF Places, Errors
<1>4. CASE Goto(s, "done")
  <2>1. Becomes(s, "done", sess[s].at, sess[s].batch, sess[s].then, sess[s].err)
    BY <1>0, <1>3, <1>4, GotoMoves DEF Goto
  <2>2. Fine(s)
    BY <1>2, <2>1
  <2>3. QED
    BY <1>0, <2>2, SessionStep DEF Ended
<1>5. CASE Raises /\ Raise(s, "cancelled")
  <2>1. Becomes(s, "raised", sess[s].at, sess[s].batch, sess[s].then, "cancelled")
    BY <1>0, <1>3, <1>5, ErrMoves DEF Raise
  <2>2. Fine(s)
    BY <1>2, <1>5, <2>1 DEF Raises
  <2>3. QED
    BY <1>0, <2>2, SessionStep DEF Ended
<1>6. QED
  BY <1>4, <1>5 DEF Drain

LEMMA AlarmStep ==
    ASSUME ExecutorsInv, NEW s \in Sessions, Alarm(s)
    PROVE  ExecutorsInv'
<1>0. /\ TypeOK /\ params \in Params /\ PlaceOK(s) /\ ModeOK(s) /\ ReportOK(s) /\ LateOK(s)
      /\ ErrorOK(s) /\ late[s] \in 0..3 /\ stop \in BOOLEAN /\ sess[s].err \in Errors
      /\ Strict' = Strict /\ Parallel' = Parallel /\ Concurrent' = Concurrent /\ FailFast' = FailFast
      /\ UNCHANGED <<params, seen, lock, told, main, late>>
      /\ stop' = TRUE /\ reason' = sess[s].err /\ sess[s].pc = "alarm"
  BY Here, SameMode DEF Alarm
<1>1. Concurrent /\ FailFast /\ told[s] = <<"failed">> /\ reason' \in {"cancelled", "mismatch"}
  BY <1>0, OneMode DEF ModeOK, ReportOK, ErrorOK, Errors
<1>2. Becomes(s, "done", sess[s].at, sess[s].batch, sess[s].then, sess[s].err)
  <2>1. "done" \in Places
    BY DEF Places
  <2>2. QED
    BY <1>0, <2>1, GotoMoves DEF Alarm, Goto
<1>3. SessionOK(s)'
  <2>1. PlaceOK(s)' /\ ModeOK(s)'
    BY <1>0, <1>1, <1>2, OneMode DEF Becomes, PlaceOK, ModeOK, Kinds
  <2>2. ReportOK(s)'
    <3>1. <<"failed">> # <<>> /\ <<"failed">> # <<"success">>
      BY OneResult DEF Results
    <3>2. QED
      BY <1>0, <1>1, <1>2, <3>1 DEF Becomes, ReportOK, Live, Kinds
  <2>3. ErrorOK(s)'
    BY <1>0, <1>2 DEF Becomes, ErrorOK
  <2>4. LateOK(s)'
    <3>1. Hand(s)' = 0 /\ Hand(s) = 0
      BY <1>0, <1>2 DEF Becomes, Hand
    <3>2. QED
      BY <1>0, <3>1 DEF LateOK
  <2>5. QED
    BY <2>1, <2>2, <2>3, <2>4 DEF SessionOK
<1>4. ASSUME NEW o \in Sessions PROVE SessionOK(o)'
  BY <1>0, <1>2, <1>3, Kept DEF ExecutorsInv, Becomes
<1>5. TypeOK'
  BY <1>0, <1>1, <1>2, ZenonT(60) DEF ExecutorsInv, TypeOK, Becomes, State, Places, Thens, Errors
<1>6. MainOK'
  <2>1. main.pc # "start"
    BY <1>0 DEF ExecutorsInv, MainOK, Fresh
  <2>2. ~Finished
    BY <1>0 DEF Finished, Submitted, Ended
  <2>3. main.pc # "ended" /\ (main.pc = "shutdown" => main.error # "none")
    BY <2>2 DEF ExecutorsInv, MainOK
  <2>4. \A o \in Sessions : /\ Seen(o) => Seen(o)'
                            /\ sess[o].pc # "new" => sess'[o].pc # "new"
                            /\ sess[o].pc = "new" => sess'[o] = sess[o] /\ told'[o] = told[o]
    BY <1>0, <1>2 DEF Becomes, Seen
  <2>5. QED
    BY <1>0, <2>1, <2>3, <2>4 DEF ExecutorsInv, MainOK
<1>7. StopOK'
  BY <1>0, <1>1, OneMode DEF StopOK, ErrorOK
<1>8. QED
  BY <1>4, <1>5, <1>6, <1>7 DEF ExecutorsInv

-----------------------------------------------------------------------------
(* The thread of the run.                                                  *)

MainType == [pc : {"start", "submit", "offer", "join", "wait", "stop", "cancel",
                   "shutdown", "ended"},
             next : 1..(NumSessions + 1),
             error : {"none", "cancelled", "mismatch", "odd", "lost"}]

\* A step of the thread that leaves the sessions and the stop alone.
LEMMA MainMoves ==
    ASSUME ExecutorsInv, UNCHANGED <<params, seen, stop, reason, lock, sess, told, late>>,
           main' \in MainType, MainOK',
           main.error = "cancelled" => main'.error = "cancelled",
           main'.error = "none" => main.error = "none"
    PROVE  ExecutorsInv'
<1>1. TypeOK'
  BY DEF ExecutorsInv, TypeOK, MainType
<1>2. ASSUME NEW o \in Sessions PROVE SessionOK(o)'
  <2>1. stop \in BOOLEAN /\ SessionOK(o) /\ TypeOK
    BY Typed DEF ExecutorsInv
  <2>2. QED
    BY <2>1, Kept
<1>3. StopOK'
  BY SameMode DEF ExecutorsInv, StopOK
<1>4. QED
  BY <1>1, <1>2, <1>3 DEF ExecutorsInv

\* What the thread of the run sees of a state.
LEMMA MainHere ==
    ASSUME ExecutorsInv
    PROVE  /\ TypeOK /\ MainOK /\ StopOK /\ params \in Params /\ main \in MainType
           /\ stop \in BOOLEAN /\ sess \in [Sessions -> State]
           /\ main.next \in 1..(NumSessions + 1)
BY Typed DEF ExecutorsInv, TypeOK, MainType

LEMMA PollStep ==
    ASSUME ExecutorsInv, Poll
    PROVE  ExecutorsInv'
<1>1. TypeOK'
  BY DEF ExecutorsInv, TypeOK, Poll
<1>2. ASSUME NEW o \in Sessions PROVE SessionOK(o)'
  <2>1. stop \in BOOLEAN /\ SessionOK(o) /\ TypeOK
    BY Typed DEF ExecutorsInv
  <2>2. QED
    BY <2>1, Kept DEF Poll
<1>3. MainOK' /\ StopOK'
  BY SameMode DEF ExecutorsInv, MainOK, StopOK, Poll, Seen, Finished, Submitted
<1>4. QED
  BY <1>1, <1>2, <1>3 DEF ExecutorsInv

LEMMA SubmitStep ==
    ASSUME ExecutorsInv, Submit
    PROVE  ExecutorsInv'
<1>0. /\ MainOK /\ params \in Params /\ main \in MainType /\ main.pc = "submit"
      /\ UNCHANGED <<params, seen, stop, reason, lock, sess, told, late>>
      /\ Strict' = Strict /\ Parallel' = Parallel /\ Concurrent' = Concurrent
      /\ main.next \in 1..(NumSessions + 1)
  BY MainHere, SameMode DEF Submit
<1>1. PICK p \in {"join", "offer", "stop"} :
         /\ main' = [main EXCEPT !.pc = p]
         /\ p = "join" => main.next > NumSessions
         /\ p = "offer" => main.next <= NumSessions
         /\ p = "stop" => seen = "cancel"
  BY DEF Submit, MainTo, Raises
<1>2. /\ main' \in MainType /\ main'.pc = p
      /\ main'.next = main.next /\ main'.error = main.error
  BY <1>0, <1>1 DEF MainType
<1>3. Concurrent /\ main.error = "none"
  BY <1>0 DEF MainOK
<1>4. \A o \in Sessions : main.next > NumSessions => ~(o >= main.next)
  BY <1>0
<1>5. MainOK'
  BY <1>0, <1>1, <1>2, <1>3, <1>4, OneMode DEF MainOK, Seen
<1>6. QED
  BY <1>0, <1>2, <1>5, MainMoves

\* The rest of MainOK is about a pc or a mode that is another.
LEMMA JoinAgainStep ==
    ASSUME ExecutorsInv, JoinAgain
    PROVE  ExecutorsInv'
<1>0. /\ MainOK /\ params \in Params /\ main \in MainType /\ main.pc = "wait"
      /\ UNCHANGED <<params, seen, stop, reason, lock, sess, told, late>>
      /\ Strict' = Strict /\ Parallel' = Parallel /\ Concurrent' = Concurrent
  BY MainHere, SameMode DEF JoinAgain
<1>1. PICK p \in {"shutdown", "join"} :
         main' = [main EXCEPT !.pc = p] /\ (p = "shutdown" <=> Finished)
  BY DEF JoinAgain, MainTo
<1>2. /\ main' \in MainType /\ main'.pc = p
      /\ main'.next = main.next /\ main'.error = main.error
  BY <1>0, <1>1 DEF MainType
<1>3. Strict => Finished
  BY DEF JoinAgain
<1>4. main.error = "none" => \A s \in Sessions : sess[s].pc # "raised"
  BY DEF JoinAgain, Unread
<1>5. Finished' = Finished
  BY <1>0 DEF Finished, Submitted
<1>6. MainOK'
  BY <1>0, <1>1, <1>2, <1>3, <1>4, <1>5, OneMode DEF MainOK, Seen
<1>7. QED
  BY <1>0, <1>2, <1>6, MainMoves

LEMMA CancelledAllStep ==
    ASSUME ExecutorsInv, CancelledAll
    PROVE  ExecutorsInv'
<1>0. /\ MainOK /\ params \in Params /\ main \in MainType /\ main.pc = "cancel"
      /\ UNCHANGED <<params, seen, stop, reason, lock, sess, told, late>>
      /\ Strict' = Strict /\ Parallel' = Parallel /\ Concurrent' = Concurrent
      /\ main' = [main EXCEPT !.pc = "shutdown"]
  BY MainHere, SameMode DEF CancelledAll, MainTo
<1>1. /\ main' \in MainType /\ main'.pc = "shutdown"
      /\ main'.next = main.next /\ main'.error = main.error
  BY <1>0 DEF MainType
<1>2. MainOK'
  BY <1>0, <1>1, OneMode DEF MainOK, Seen
<1>3. QED
  BY <1>0, <1>1, <1>2, MainMoves

LEMMA ShutdownStep ==
    ASSUME ExecutorsInv, Shutdown
    PROVE  ExecutorsInv'
<1>0. /\ MainOK /\ StopOK /\ params \in Params /\ main \in MainType /\ main.pc = "shutdown"
      /\ UNCHANGED <<params, seen, stop, reason, lock, sess, told, late>>
      /\ Strict' = Strict /\ Parallel' = Parallel /\ Concurrent' = Concurrent
      /\ Finished /\ stop \in BOOLEAN
  BY MainHere, SameMode DEF Shutdown
<1>1. PICK e : /\ main' = [main EXCEPT !.pc = "ended", !.error = e]
               /\ e = IF main.error = "none" /\ Concurrent /\ stop /\ FailFast
                      THEN reason ELSE main.error
  BY DEF Shutdown
<1>2. e \in {"none", "cancelled", "mismatch", "odd", "lost"}
  BY <1>0, <1>1 DEF MainType, ExecutorsInv, TypeOK
<1>3. /\ main' \in MainType /\ main'.pc = "ended"
      /\ main'.next = main.next /\ main'.error = e
  BY <1>0, <1>1, <1>2 DEF MainType
<1>4. e = "none" => main.error = "none" /\ ~stop
  BY <1>0, <1>1, OneMode DEF StopOK
<1>5. e = "cancelled" => seen = "cancel"
  BY <1>0, <1>1 DEF StopOK, MainOK
<1>6. main.error = "cancelled" => e = "cancelled"
  BY <1>1
<1>7. Finished' = Finished
  BY <1>0 DEF Finished, Submitted
<1>8. MainOK'
  BY <1>0, <1>3, <1>4, <1>5, <1>6, <1>7, OneMode DEF MainOK, Seen
<1>9. QED
  BY <1>0, <1>3, <1>4, <1>6, <1>8, MainMoves

LEMMA StopAllStep ==
    ASSUME ExecutorsInv, StopAll
    PROVE  ExecutorsInv'
<1>0. /\ MainOK /\ StopOK /\ params \in Params /\ main \in MainType /\ main.pc = "stop"
      /\ UNCHANGED <<params, seen, lock, sess, told, late>>
      /\ stop' = TRUE /\ reason' = IF reason = "none" THEN "cancelled" ELSE reason
      /\ Strict' = Strict /\ Parallel' = Parallel /\ Concurrent' = Concurrent
      /\ main' = [pc |-> "cancel", next |-> 1, error |-> "cancelled"]
  BY MainHere, SameMode DEF StopAll
<1>1. Concurrent /\ seen = "cancel"
  BY <1>0 DEF MainOK
<1>2. /\ main' \in MainType /\ main'.pc = "cancel" /\ main'.error = "cancelled"
  BY <1>0 DEF MainType
<1>3. MainOK'
  BY <1>0, <1>1, <1>2, OneMode DEF MainOK
<1>4. StopOK'
  BY <1>0, <1>1, <1>2, OneMode DEF StopOK
<1>5. TypeOK'
  BY <1>0, <1>2 DEF ExecutorsInv, TypeOK, MainType
<1>6. ASSUME NEW o \in Sessions PROVE SessionOK(o)'
  BY <1>0, Kept DEF ExecutorsInv
<1>7. QED
  BY <1>3, <1>4, <1>5, <1>6 DEF ExecutorsInv

\* The futures that have not begun are cancelled, in the parallel executor.
LEMMA DropsStep ==
    ASSUME ExecutorsInv, Parallel, main.pc \in {"join", "wait"}, stop' = TRUE, sess' = DropQueued,
           UNCHANGED <<params, seen, reason, lock, told, late>>,
           main' \in MainType, main'.pc \in {"wait", "shutdown"}, main'.error # "none",
           main'.error = "cancelled" => seen = "cancel"
    PROVE  ExecutorsInv'
<1>0. /\ TypeOK /\ MainOK /\ StopOK /\ params \in Params /\ sess \in [Sessions -> State]
      /\ stop \in BOOLEAN
      /\ Strict' = Strict /\ Parallel' = Parallel /\ Concurrent' = Concurrent /\ FailFast' = FailFast
  BY MainHere, SameMode
<1>1. /\ sess' \in [Sessions -> State]
      /\ \A o \in Sessions : IF sess[o].pc = "queued"
                             THEN sess'[o] = [sess[o] EXCEPT !.pc = "dropped"]
                             ELSE sess'[o] = sess[o]
  <2>1. \A o \in Sessions : [sess[o] EXCEPT !.pc = "dropped"] \in State
    BY <1>0 DEF State, Places
  <2>2. QED
    BY <1>0, <2>1 DEF DropQueued
<1>2. ASSUME NEW o \in Sessions PROVE SessionOK(o)'
  <2>1. CASE sess[o].pc # "queued"
    BY <1>0, <1>1, <2>1, Kept DEF ExecutorsInv
  <2>2. CASE sess[o].pc = "queued"
    <3>1. sess'[o] = [sess[o] EXCEPT !.pc = "dropped"] /\ sess[o] \in State
      BY <1>0, <1>1, <2>2
    <3>2. /\ sess'[o].pc = "dropped" /\ sess'[o].at = sess[o].at
          /\ sess'[o].batch = sess[o].batch /\ sess'[o].err = sess[o].err
      BY <3>1 DEF State
    <3>3. PlaceOK(o)' /\ ModeOK(o)'
      BY <1>0, <2>2, <3>2, Here, OneMode DEF PlaceOK, ModeOK, Kinds
    <3>4. ReportOK(o)' /\ ErrorOK(o)'
      BY <1>0, <3>2, Here, OneMode DEF ReportOK, ErrorOK
    <3>5. LateOK(o)'
      <4>1. Hand(o)' = 0 /\ Hand(o) = 0
        BY <2>2, <3>2 DEF Hand
      <4>2. late[o] \in 0..3 /\ LateOK(o)
        BY Here
      <4>3. QED
        BY <1>0, <4>1, <4>2 DEF LateOK
    <3>6. QED
      BY <3>3, <3>4, <3>5 DEF SessionOK
  <2>3. QED
    BY <2>1, <2>2
<1>3. TypeOK'
  BY <1>0, <1>1 DEF TypeOK, MainType, State, Places, Thens, Errors
<1>4. \A o \in Sessions : sess'[o].pc # "new"
  BY <1>0, <1>1 DEF MainOK, State
<1>5. MainOK'
  BY <1>0, <1>4, OneMode DEF MainOK
<1>6. StopOK'
  BY <1>0, OneMode DEF StopOK
<1>7. QED
  BY <1>2, <1>3, <1>5, <1>6 DEF ExecutorsInv

LEMMA JoinCheckStep ==
    ASSUME ExecutorsInv, JoinCheck
    PROVE  ExecutorsInv'
<1>0. /\ MainOK /\ params \in Params /\ main \in MainType /\ main.pc = "join"
      /\ UNCHANGED <<params, seen, reason, lock, told, late>>
      /\ Strict' = Strict /\ Parallel' = Parallel /\ Concurrent' = Concurrent
  BY MainHere, SameMode DEF JoinCheck
<1>1. ASSUME NEW p \in {"wait", "stop"}, main' = [main EXCEPT !.pc = p], UNCHANGED <<stop, sess>>,
             p = "stop" => Raises /\ Concurrent
      PROVE  ExecutorsInv'
  <2>1. /\ main' \in MainType /\ main'.pc = p
        /\ main'.next = main.next /\ main'.error = main.error
    BY <1>0, <1>1 DEF MainType
  <2>2. MainOK'
    BY <1>0, <1>1, <2>1, OneMode DEF MainOK, Seen, Raises
  <2>3. QED
    BY <1>0, <1>1, <2>1, <2>2, MainMoves
<1>2. ASSUME Raises, Parallel, Quit("cancelled"), stop' = TRUE, sess' = DropQueued
      PROVE  ExecutorsInv'
  <2>1. main' \in MainType /\ main'.pc = "shutdown" /\ main'.error = "cancelled"
    BY <1>0, <1>2 DEF MainType, Quit
  <2>2. QED
    BY <1>0, <1>2, <2>1, DropsStep DEF Raises
<1>3. QED
  BY <1>1, <1>2 DEF JoinCheck, MainTo

LEMMA JoinRaisedStep ==
    ASSUME ExecutorsInv, JoinRaised
    PROVE  ExecutorsInv'
<1>0. /\ MainOK /\ params \in Params /\ main \in MainType /\ main.pc = "wait"
      /\ UNCHANGED <<params, seen, reason, lock, told, late>>
      /\ Strict' = Strict /\ Parallel' = Parallel /\ Concurrent' = Concurrent
  BY MainHere, SameMode DEF JoinRaised
<1>1. PICK s \in Unread :
         \/ /\ Parallel /\ main' = [main EXCEPT !.error = sess[s].err]
            /\ stop' = TRUE /\ sess' = DropQueued
         \/ ~Parallel /\ Quit(sess[s].err) /\ UNCHANGED <<stop, sess>>
  BY DEF JoinRaised
<1>2. /\ s \in Sessions /\ sess[s].pc = "raised" /\ (Parallel => main.error = "none")
  BY DEF Unread
<1>3. PICK e \in Errors : e = sess[s].err /\ e # "none" /\ (e = "cancelled" => seen = "cancel")
  BY <1>2, Here DEF ErrorOK
<1>4. CASE /\ Parallel /\ main' = [main EXCEPT !.error = e]
           /\ stop' = TRUE /\ sess' = DropQueued
  <2>1. main' \in MainType /\ main'.pc = "wait" /\ main'.error = e
    BY <1>0, <1>4 DEF MainType, Errors
  <2>2. QED
    BY <1>0, <1>3, <1>4, <2>1, DropsStep
<1>5. CASE ~Parallel /\ Quit(e) /\ UNCHANGED <<stop, sess>>
  <2>1. main' \in MainType /\ main'.pc = "shutdown" /\ main'.error = e /\ main'.next = main.next
    BY <1>0, <1>5 DEF MainType, Errors, Quit
  <2>2. main.error = "none"
    BY <1>0, <1>5, OneMode DEF MainOK
  <2>3. MainOK'
    BY <1>0, <1>3, <1>5, <2>1, OneMode DEF MainOK, Seen
  <2>4. QED
    BY <1>0, <1>5, <2>1, <2>2, <2>3, MainMoves
<1>6. QED
  BY <1>1, <1>3, <1>4, <1>5

LEMMA JoinCancelledStep ==
    ASSUME ExecutorsInv, JoinCancelled
    PROVE  ExecutorsInv'
<1>1. /\ Parallel /\ main.pc = "wait" /\ stop' = TRUE /\ sess' = DropQueued
      /\ UNCHANGED <<params, seen, reason, lock, told, late>>
      /\ main' = [main EXCEPT !.pc = "shutdown", !.error = "lost"]
  BY DEF JoinCancelled, Cancelled, Quit
<1>2. main' \in MainType /\ main'.pc = "shutdown" /\ main'.error = "lost"
  BY <1>1, MainHere DEF MainType
<1>3. QED
  BY <1>1, <1>2, DropsStep

\* The thread of the run moves one session.
LEMMA OneMoves ==
    ASSUME ExecutorsInv, NEW s \in Sessions, UNCHANGED <<params, seen, stop, reason, lock, late>>,
           sess' \in [Sessions -> State], told' \in [Sessions -> Seq(Results)],
           \A o \in Sessions : o # s => sess'[o] = sess[o] /\ told'[o] = told[o],
           SessionOK(s)', main' \in MainType, MainOK', main'.error = main.error
    PROVE  ExecutorsInv'
<1>0. /\ stop \in BOOLEAN /\ TypeOK /\ StopOK
      /\ Strict' = Strict /\ Parallel' = Parallel /\ Concurrent' = Concurrent /\ FailFast' = FailFast
  BY MainHere, SameMode
<1>1. TypeOK'
  BY <1>0 DEF TypeOK, MainType, State, Places, Thens, Errors, Results
<1>2. ASSUME NEW o \in Sessions PROVE SessionOK(o)'
  <2>1. CASE o # s
    BY <1>0, <2>1, Kept DEF ExecutorsInv
  <2>2. QED
    BY <2>1
<1>3. StopOK'
  BY <1>0 DEF StopOK
<1>4. QED
  BY <1>1, <1>2, <1>3 DEF ExecutorsInv

LEMMA CancelFutureStep ==
    ASSUME ExecutorsInv, CancelFuture
    PROVE  ExecutorsInv'
<1>0. /\ MainOK /\ params \in Params /\ main \in MainType /\ main.pc = "cancel"
      /\ main.next \in 1..NumSessions /\ TypeOK
      /\ UNCHANGED <<params, seen, stop, reason, lock, late>>
      /\ Strict' = Strict /\ Parallel' = Parallel /\ Concurrent' = Concurrent /\ FailFast' = FailFast
      /\ main' = [main EXCEPT !.next = @ + 1]
  BY MainHere, SameMode DEF CancelFuture
<1>1. PICK s \in Sessions : s = main.next
  BY <1>0
<1>2. /\ main' \in MainType /\ main'.pc = "cancel" /\ main'.error = main.error
  BY <1>0 DEF MainType
<1>3. Concurrent /\ stop
  BY <1>0 DEF MainOK
<1>4. MainOK'
  BY <1>0, <1>2, <1>3, OneMode DEF MainOK
<1>5. CASE sess[s].pc # "queued" /\ UNCHANGED <<sess, told>>
  BY <1>0, <1>2, <1>4, <1>5, MainMoves
<1>6. CASE sess[s].pc = "queued" /\ Goto(s, "dropped") /\ Tell(s, "skipped")
  <2>1. /\ PlaceOK(s) /\ ModeOK(s) /\ ReportOK(s) /\ ErrorOK(s) /\ LateOK(s) /\ late[s] \in 0..3
    BY Here
  <2>2. "dropped" \in Places /\ "skipped" \in Results
    BY DEF Places, Results
  <2>3. Becomes(s, "dropped", sess[s].at, sess[s].batch, sess[s].then, sess[s].err)
    BY <1>0, <1>6, <2>2, GotoMoves DEF Goto
  <2>4. told[s] = <<>>
    BY <1>3, <1>6, <2>1 DEF ReportOK, Live
  <2>5. /\ told' \in [Sessions -> Seq(Results)] /\ told'[s] = <<"skipped">>
        /\ \A o \in Sessions : o # s => told'[o] = told[o]
    BY <1>0, <1>6, <2>2, <2>4, Tells
  <2>6. PlaceOK(s)' /\ ModeOK(s)'
    BY <1>0, <1>3, <1>6, <2>1, <2>3, OneMode DEF Becomes, PlaceOK, ModeOK, Kinds
  <2>7. ReportOK(s)' /\ ErrorOK(s)'
    BY <1>0, <1>3, <2>1, <2>3, <2>5 DEF Becomes, ReportOK, ErrorOK, Live, Kinds
  <2>8. LateOK(s)'
    <3>1. Hand(s)' = 0 /\ Hand(s) = 0
      BY <1>6, <2>3 DEF Becomes, Hand
    <3>2. QED
      BY <1>0, <2>1, <3>1 DEF LateOK
  <2>9. SessionOK(s)'
    BY <2>6, <2>7, <2>8 DEF SessionOK
  <2>10. QED
    BY <1>0, <1>2, <1>4, <2>3, <2>5, <2>9, OneMoves DEF Becomes
<1>7. QED
  BY <1>1, <1>5, <1>6 DEF CancelFuture

LEMMA OfferStep ==
    ASSUME ExecutorsInv, Offer
    PROVE  ExecutorsInv'
<1>0. /\ MainOK /\ params \in Params /\ main \in MainType /\ main.pc = "offer" /\ TypeOK
      /\ UNCHANGED <<params, seen, stop, reason, lock, late>>
      /\ Strict' = Strict /\ Parallel' = Parallel /\ Concurrent' = Concurrent /\ FailFast' = FailFast
      /\ main' = [main EXCEPT !.pc = "submit", !.next = @ + 1]
      /\ main.next \in 1..(NumSessions + 1)
  BY MainHere, SameMode DEF Offer
<1>1. /\ Concurrent /\ main.error = "none" /\ main.next <= NumSessions
      /\ \A o \in Sessions :
            IF o >= main.next THEN sess[o].pc = "new" /\ told[o] = <<>> ELSE Seen(o)
  BY <1>0 DEF MainOK
<1>2. PICK s \in Sessions : s = main.next
  BY <1>0, <1>1
<1>3. /\ main' \in MainType /\ main'.pc = "submit" /\ main'.error = main.error
      /\ main'.next = s + 1
  <2>1. main.next + 1 \in 1..(NumSessions + 1)
    BY <1>0, <1>1
  <2>2. QED
    BY <1>0, <1>2, <2>1 DEF MainType
<1>4. sess[s].pc = "new" /\ told[s] = <<>>
  BY <1>1, <1>2
<1>5. /\ PlaceOK(s) /\ ModeOK(s) /\ ReportOK(s) /\ ErrorOK(s) /\ LateOK(s) /\ late[s] \in 0..3
      /\ stop \in BOOLEAN /\ sess \in [Sessions -> State]
  BY Here, MainHere
<1>6. ASSUME sess' \in [Sessions -> State], told' \in [Sessions -> Seq(Results)],
             \A o \in Sessions : o # s => sess'[o] = sess[o] /\ told'[o] = told[o],
             Seen(s)', SessionOK(s)'
      PROVE  ExecutorsInv'
  <2>1. \A o \in Sessions : IF o >= s + 1 THEN sess'[o].pc = "new" /\ told'[o] = <<>> ELSE Seen(o)'
    <3>1. \A o \in Sessions : /\ o >= s + 1 => o >= main.next /\ o # s
                              /\ ~(o >= s + 1) => o = s \/ ~(o >= main.next)
      BY <1>2
    <3>2. ASSUME NEW o \in Sessions, o # s, Seen(o) PROVE Seen(o)'
      BY <1>6, <3>2 DEF Seen
    <3>3. QED
      BY <1>1, <1>6, <3>1, <3>2
  <2>2. MainOK'
    BY <1>0, <1>1, <1>3, <2>1, OneMode DEF MainOK
  <2>3. QED
    BY <1>0, <1>3, <1>6, <2>2, OneMoves
<1>7. CASE stop /\ Tell(s, "skipped") /\ UNCHANGED sess
  <2>1. "skipped" \in Results
    BY DEF Results
  <2>2. /\ told' \in [Sessions -> Seq(Results)] /\ told'[s] = <<"skipped">>
        /\ \A o \in Sessions : o # s => told'[o] = told[o]
    BY <1>0, <1>4, <1>7, <2>1, Tells
  <2>3. Seen(s)'
    BY <2>1, <2>2, OneResult DEF Seen
  <2>4. PlaceOK(s)' /\ ModeOK(s)' /\ ErrorOK(s)'
    BY <1>0, <1>1, <1>4, <1>5, <1>7, OneMode DEF PlaceOK, ModeOK, ErrorOK
  <2>5. ReportOK(s)'
    BY <1>0, <1>4, <1>5, <1>7, <2>2 DEF ReportOK, Live, Kinds
  <2>6. LateOK(s)'
    <3>1. Hand(s)' = 0 /\ Hand(s) = 0
      BY <1>4, <1>7 DEF Hand
    <3>2. QED
      BY <1>0, <1>5, <3>1 DEF LateOK
  <2>7. QED
    BY <1>5, <1>6, <1>7, <2>2, <2>3, <2>4, <2>5, <2>6 DEF SessionOK
<1>8. CASE ~stop /\ Goto(s, "queued") /\ UNCHANGED told
  <2>1. "queued" \in Places
    BY DEF Places
  <2>2. Becomes(s, "queued", sess[s].at, sess[s].batch, sess[s].then, sess[s].err)
    BY <1>0, <1>8, <2>1, GotoMoves DEF Goto
  <2>3. Seen(s)'
    BY <2>2 DEF Becomes, Seen
  <2>4. PlaceOK(s)' /\ ModeOK(s)' /\ ErrorOK(s)'
    BY <1>0, <1>1, <1>4, <1>5, <1>8, <2>2, OneMode DEF Becomes, PlaceOK, ModeOK, ErrorOK, Kinds
  <2>5. ReportOK(s)'
    BY <1>0, <1>4, <1>5, <1>8, <2>2 DEF Becomes, ReportOK, Live, Kinds
  <2>6. LateOK(s)'
    BY <1>0, <1>5, <1>8 DEF LateOK
  <2>7. told' \in [Sessions -> Seq(Results)]
    BY <1>0, <1>8, Typed
  <2>8. QED
    BY <1>6, <1>8, <2>2, <2>3, <2>4, <2>5, <2>6, <2>7 DEF SessionOK, Becomes
<1>9. QED
  BY <1>2, <1>7, <1>8 DEF Offer

LEMMA LaunchStep ==
    ASSUME ExecutorsInv, Launch
    PROVE  ExecutorsInv'
<1>0. /\ MainOK /\ params \in Params /\ main \in MainType /\ main.pc = "start" /\ TypeOK
      /\ UNCHANGED <<params, seen, stop, reason, lock, told, late>>
      /\ Strict' = Strict /\ Parallel' = Parallel /\ Concurrent' = Concurrent /\ FailFast' = FailFast
      /\ sess = [s \in Sessions |-> Fresh] /\ \A s \in Sessions : told[s] = <<>>
      /\ stop = FALSE /\ main.error = "none" /\ main.next = 1
      /\ late \in [Sessions -> 0..3]
  BY MainHere, SameMode, Typed DEF Launch, MainOK
<1>1. Fresh \in State /\ \A p \in {"open", "queued"} : [Fresh EXCEPT !.pc = p] \in State
  BY DEF Fresh, State, Places, Thens, Errors
<1>2. 1 \in Sessions
  OBVIOUS
<1>3. ASSUME NEW o \in Sessions, NEW p \in {"open", "queued"},
             sess'[o] = [Fresh EXCEPT !.pc = p], p = "open" <=> Strict, ~Concurrent,
             Strict => o = 1
      PROVE  SessionOK(o)'
  <2>1. /\ sess'[o].pc = p /\ sess'[o].at = 0 /\ sess'[o].batch = 0 /\ sess'[o].err = "none"
    BY <1>3 DEF Fresh
  <2>2. Events(o) \in Nat
    BY DEF Events
  <2>3. PlaceOK(o)' /\ ModeOK(o)'
    BY <1>0, <1>3, <2>1, <2>2, OneMode DEF PlaceOK, ModeOK, Kinds, Events
  <2>4. ReportOK(o)' /\ ErrorOK(o)'
    BY <1>0, <1>3, <2>1, OneMode DEF ReportOK, ErrorOK
  <2>5. LateOK(o)'
    BY <1>0, Here DEF LateOK
  <2>6. QED
    BY <2>3, <2>4, <2>5 DEF SessionOK
<1>4. CASE Strict /\ sess' = [sess EXCEPT ![1].pc = "open"] /\ MainTo("wait")
  <2>1. /\ main' \in MainType /\ main'.pc = "wait" /\ main'.error = "none"
    BY <1>0, <1>4 DEF MainType, MainTo
  <2>2. /\ sess'[1] = [Fresh EXCEPT !.pc = "open"] /\ sess' \in [Sessions -> State]
        /\ \A o \in Sessions : o # 1 => sess'[o] = sess[o]
    BY <1>0, <1>1, <1>2, <1>4
  <2>3. sess'[1].pc # "new"
    BY <2>2 DEF Fresh
  <2>4. SessionOK(1)'
    BY <1>0, <1>2, <1>3, <1>4, <2>2, OneMode
  <2>5. MainOK'
    BY <1>0, <1>4, <2>1, <2>3, OneMode DEF MainOK
  <2>6. told' \in [Sessions -> Seq(Results)]
    BY <1>0, Typed
  <2>7. QED
    BY <1>0, <1>2, <2>1, <2>2, <2>4, <2>5, <2>6, OneMoves
<1>5. CASE Parallel /\ sess' = [s \in Sessions |-> [Fresh EXCEPT !.pc = "queued"]] /\ MainTo("join")
  <2>1. /\ main' \in MainType /\ main'.pc = "join" /\ main'.error = "none"
    BY <1>0, <1>5 DEF MainType, MainTo
  <2>2. /\ sess' \in [Sessions -> State]
        /\ \A o \in Sessions : sess'[o] = [Fresh EXCEPT !.pc = "queued"]
    BY <1>1, <1>5
  <2>3. \A o \in Sessions : sess'[o].pc # "new"
    BY <2>2 DEF Fresh
  <2>4. \A o \in Sessions : SessionOK(o)'
    BY <1>0, <1>3, <1>5, <2>2, OneMode
  <2>5. MainOK'
    BY <1>0, <1>5, <2>1, <2>3, OneMode DEF MainOK
  <2>6. TypeOK'
    BY <1>0, <2>1, <2>2 DEF TypeOK, MainType, State, Places, Thens, Errors
  <2>7. StopOK'
    BY <1>0, MainHere, <2>1 DEF StopOK
  <2>8. QED
    BY <2>4, <2>5, <2>6, <2>7 DEF ExecutorsInv
<1>6. CASE Concurrent /\ MainTo("submit") /\ UNCHANGED sess
  <2>1. /\ main' \in MainType /\ main'.pc = "submit" /\ main'.error = "none" /\ main'.next = 1
    BY <1>0, <1>6 DEF MainType, MainTo
  <2>2. \A o \in Sessions : o >= 1 /\ sess[o].pc = "new"
    BY <1>0 DEF Fresh
  <2>3. MainOK'
    BY <1>0, <1>6, <2>1, <2>2, OneMode DEF MainOK
  <2>4. QED
    BY <1>0, <1>6, <2>1, <2>3, MainMoves
<1>7. QED
  BY <1>4, <1>5, <1>6 DEF Launch

-----------------------------------------------------------------------------
(* The invariant.                                                          *)

LEMMA ExecutorsInit ==
    ASSUME Init
    PROVE  ExecutorsInv
<1>1. /\ \A s \in Sessions : /\ sess[s].pc = "new" /\ sess[s].at = 0 /\ sess[s].batch = 0
                             /\ sess[s].err = "none" /\ told[s] = <<>> /\ late[s] = 0
      /\ stop = FALSE /\ reason = "none"
      /\ main.pc = "start" /\ main.next = 1 /\ main.error = "none"
      /\ params \in Params
  BY DEF Init, Fresh
<1>2. TypeOK
  <2>1. Fresh \in State
    BY DEF Fresh, State, Places, Thens, Errors
  <2>2. <<>> \in Seq(Results)
    BY EmptySeq
  <2>3. sess \in [Sessions -> State] /\ told \in [Sessions -> Seq(Results)]
    BY <2>1, <2>2 DEF Init
  <2>4. main \in MainType /\ late \in [Sessions -> 0..3]
    BY DEF Init, MainType
  <2>5. QED
    BY <2>3, <2>4 DEF Init, TypeOK, MainType, State, Places, Thens, Errors, Results
<1>3. ASSUME NEW s \in Sessions PROVE SessionOK(s)
  <2>1. Events(s) \in Nat
    BY DEF Events
  <2>2. QED
    BY <1>1, <2>1, OneMode DEF SessionOK, PlaceOK, ModeOK, ReportOK, ErrorOK, LateOK, Hand, Kinds, Live
<1>4. MainOK /\ StopOK
  BY <1>1, OneMode DEF MainOK, StopOK, Init
<1>5. QED
  BY <1>2, <1>3, <1>4 DEF ExecutorsInv

LEMMA ExecutorsStep ==
    ASSUME ExecutorsInv, [Next]_vars
    PROVE  ExecutorsInv'
<1>1. CASE Poll
  BY <1>1, PollStep
<1>2. CASE Main
  BY <1>2, LaunchStep, SubmitStep, OfferStep, JoinCheckStep, JoinRaisedStep, JoinCancelledStep,
     JoinAgainStep, StopAllStep, CancelFutureStep, CancelledAllStep, ShutdownStep DEF Main
<1>3. ASSUME NEW s \in Sessions, Session(s) PROVE ExecutorsInv'
  <2>1. CASE Open(s) \/ Replay(s)
    BY <2>1, OpenStep, AtEndStep, CheckStep, InputStep, CompareStep, WriteStep, CheckpointStep
    DEF Replay
  <2>2. CASE Take(s) \/ Begin(s) \/ Admit(s) \/ Guard(s) \/ GuardParallel(s) \/ Flush(s)
             \/ Batch(s) \/ Alarm(s) \/ Drain(s)
    BY <2>2, TakeStep, BeginStep, AdmitStep, GuardStep, GuardParallelStep, FlushStep,
       BatchStep, AlarmStep, DrainStep
  <2>3. QED
    BY <1>3, <2>1, <2>2 DEF Session, StrictGlobal, RunSession, Worker
<1>4. CASE UNCHANGED vars
  <2>1. UNCHANGED <<params, seen, stop, reason, lock, sess, told, main, late>>
    BY <1>4 DEF vars
  <2>2. Finished' = Finished /\ \A s \in Sessions : Seen(s)' = Seen(s)
    BY <2>1 DEF Finished, Submitted, Seen
  <2>3. MainOK'
    BY <2>1, <2>2, SameMode DEF ExecutorsInv, MainOK
  <2>4. QED
    BY <2>1, <2>3, MainHere, MainMoves
<1>5. QED
  BY <1>1, <1>2, <1>3, <1>4 DEF Next

LEMMA ExecutorsInvariant == Spec => []ExecutorsInv
BY ExecutorsInit, ExecutorsStep, PTL DEF Spec

-----------------------------------------------------------------------------
(* The replay phase.                                                       *)

\* What session s has got out.
Out(s) == sess[s].at - sess[s].batch

\* A session stays where it is, goes on to the next event with what it has in
\* its batch or with one more, or gets its batch out.
Forward(s) ==
    /\ \A o \in Sessions : o # s => sess'[o] = sess[o]
    /\ \/ sess'[s].at = sess[s].at /\ sess'[s].batch \in {sess[s].batch, 0}
       \/ sess'[s].at = sess[s].at + 1 /\ sess'[s].batch \in {sess[s].batch, sess[s].batch + 1}

LEMMA ForwardShapes ==
    ASSUME sess \in [Sessions -> State], NEW s \in Sessions, NEW p, NEW t, NEW e, NEW b,
           \/ sess' = sess
           \/ sess' = [sess EXCEPT ![s].pc = p]
           \/ sess' = [sess EXCEPT ![s].pc = p, ![s].err = e]
           \/ sess' = [sess EXCEPT ![s].pc = p, ![s].then = t]
           \/ sess' = [sess EXCEPT ![s].pc = p, ![s].batch = 0, ![s].then = t]
           \/ sess' = [sess EXCEPT ![s].pc = p, ![s].at = @ + 1]
           \/ /\ sess' = [sess EXCEPT ![s].pc = p, ![s].at = @ + 1, ![s].batch = b]
              /\ b = sess[s].batch + 1
    PROVE  Forward(s)
<1>1. CASE sess' = sess
  BY <1>1 DEF Forward
<1>2. CASE sess' = [sess EXCEPT ![s].pc = p]
  BY <1>2 DEF Forward, State
<1>3. CASE sess' = [sess EXCEPT ![s].pc = p, ![s].err = e]
  BY <1>3 DEF Forward, State
<1>4. CASE sess' = [sess EXCEPT ![s].pc = p, ![s].then = t]
  BY <1>4 DEF Forward, State
<1>5. CASE sess' = [sess EXCEPT ![s].pc = p, ![s].batch = 0, ![s].then = t]
  BY <1>5 DEF Forward, State
<1>6. CASE sess' = [sess EXCEPT ![s].pc = p, ![s].at = @ + 1]
  BY <1>6 DEF Forward, State
<1>7. CASE /\ sess' = [sess EXCEPT ![s].pc = p, ![s].at = @ + 1, ![s].batch = b]
           /\ b = sess[s].batch + 1
  BY <1>7 DEF Forward, State
<1>8. QED
  BY <1>1, <1>2, <1>3, <1>4, <1>5, <1>6, <1>7

LEMMA ForwardFail ==
    ASSUME sess \in [Sessions -> State], NEW s \in Sessions, NEW e,
           Fail(s, e) \/ Raise(s, e)
    PROVE  Forward(s)
<1>1. PICK p : sess' = [sess EXCEPT ![s].pc = p, ![s].err = e]
  BY DEF Fail, Raise
<1>2. QED
  BY <1>1, ForwardShapes

LEMMA ForwardGoto ==
    ASSUME sess \in [Sessions -> State], NEW s \in Sessions, NEW p,
           Goto(s, p) \/ Behind(s, p)
    PROVE  Forward(s)
BY ForwardShapes DEF Goto, Behind

LEMMA ForwardEvent ==
    ASSUME sess \in [Sessions -> State], NEW s \in Sessions, Event(s)
    PROVE  Forward(s)
<1>1. CASE sess' = [sess EXCEPT ![s].pc = "next", ![s].at = @ + 1, ![s].batch = @ + 1]
  <2>1. PICK b : /\ sess' = [sess EXCEPT ![s].pc = "next", ![s].at = @ + 1, ![s].batch = b]
                 /\ b = sess[s].batch + 1
    BY <1>1
  <2>2. QED
    BY <2>1, ForwardShapes
<1>2. ASSUME NEW kind, \/ sess' = [sess EXCEPT ![s].pc = "flush", ![s].then = kind]
                       \/ Goto(s, kind)
      PROVE  Forward(s)
  BY <1>2, ForwardShapes, ForwardGoto
<1>3. QED
  BY <1>1, <1>2 DEF Event

LEMMA GoesForward ==
    ASSUME ExecutorsInv, NEW s \in Sessions, Session(s)
    PROVE  Forward(s)
<1>1. sess \in [Sessions -> State]
  BY MainHere
<1>2. CASE Take(s)
  BY <1>1, <1>2, ForwardGoto DEF Take
<1>3. CASE Begin(s)
  BY <1>1, <1>3, ForwardGoto, ForwardFail DEF Begin
<1>4. CASE Admit(s)
  BY <1>1, <1>4, ForwardGoto DEF Admit
<1>5. CASE Open(s)
  BY <1>1, <1>5, ForwardGoto, ForwardFail DEF Open
<1>6. CASE AtEnd(s)
  <2>1. \/ sess' = [sess EXCEPT ![s].pc = "flush", ![s].then = "success"]
        \/ \E p : Goto(s, p)
    BY <1>6 DEF AtEnd
  <2>2. QED
    BY <1>1, <2>1, ForwardGoto, ForwardShapes
<1>7. CASE Check(s)
  BY <1>1, <1>7, ForwardGoto, ForwardFail, ForwardEvent DEF Check
<1>8. CASE Guard(s)
  <2>1. \/ sess' = [sess EXCEPT ![s].pc = "flush", ![s].then = "stopped"]
        \/ Goto(s, "done") \/ Event(s)
    BY <1>8 DEF Guard
  <2>2. QED
    BY <1>1, <2>1, ForwardGoto, ForwardEvent, ForwardShapes
<1>9. CASE GuardParallel(s)
  BY <1>1, <1>9, ForwardGoto DEF GuardParallel
<1>10. CASE Flush(s)
  <2>1. \/ \E p : sess' = [sess EXCEPT ![s].pc = p, ![s].batch = 0, ![s].then = "next"]
        \/ Fail(s, "cancelled")
    BY <1>10 DEF Flush
  <2>2. QED
    BY <1>1, <2>1, ForwardFail, ForwardShapes
<1>11. CASE Batch(s)
  <2>1. sess[s].batch = 0
    BY <1>11, Here DEF Batch, PlaceOK, Kinds
  <2>2. \/ sess' = [sess EXCEPT ![s].pc = "next", ![s].at = @ + 1, ![s].batch = 1]
        \/ Fail(s, "cancelled")
    BY <1>11 DEF Batch
  <2>3. 1 = sess[s].batch + 1
    BY <2>1
  <2>4. QED
    BY <1>1, <2>2, <2>3, ForwardFail, ForwardShapes
<1>12. CASE Input(s)
  BY <1>1, <1>12, ForwardGoto, ForwardFail DEF Input
<1>13. CASE Compare(s)
  BY <1>1, <1>13, ForwardGoto, ForwardFail DEF Compare, Differs
<1>14. CASE Write(s)
  BY <1>1, <1>14, ForwardGoto, ForwardFail DEF Write
<1>15. CASE Checkpoint(s)
  BY <1>1, <1>15, ForwardGoto, ForwardFail DEF Checkpoint
<1>16. CASE Alarm(s)
  BY <1>1, <1>16, ForwardGoto DEF Alarm
<1>17. CASE Drain(s)
  BY <1>1, <1>17, ForwardGoto, ForwardFail DEF Drain
<1>18. QED
  BY <1>2, <1>3, <1>4, <1>5, <1>6, <1>7, <1>8, <1>9, <1>10, <1>11, <1>12, <1>13, <1>14,
     <1>15, <1>16, <1>17 DEF Session, StrictGlobal, RunSession, Worker, Replay

\* What is out stays out, and the thread of the run and what check read are
\* not touched.
LEMMA OutGrows ==
    ASSUME ExecutorsInv, ExecutorsInv', NEW s \in Sessions, Session(s)
    PROVE  /\ main' = main /\ seen' = seen
           /\ sess[s].pc \notin Ended \cup {"new"}
           /\ \A o \in Sessions : Out(o) \in Nat /\ Out(o)' \in Nat /\ Out(o) <= Out(o)'
<1>1. main' = main /\ seen' = seen
  BY DEF Session, StrictGlobal, RunSession, Worker, Replay, Take, Begin, Admit, Open, AtEnd, Check,
         Guard, GuardParallel, Flush, Batch, Input, Compare, Write, Checkpoint, Alarm, Drain
<1>2. sess[s].pc \notin Ended \cup {"new"}
  BY DEF Session, StrictGlobal, RunSession, Worker, Replay, Take, Begin, Admit, Open, AtEnd, Check,
         Guard, GuardParallel, Flush, Batch, Input, Compare, Write, Checkpoint, Alarm, Drain, Ended
<1>3. ASSUME NEW o \in Sessions
      PROVE  Out(o) \in Nat /\ Out(o)' \in Nat /\ Out(o) <= Out(o)'
  <2>1. sess[o].at \in Nat /\ sess[o].batch \in Nat /\ sess[o].batch <= sess[o].at
    BY Here DEF PlaceOK
  <2>2. sess'[o].at \in Nat /\ sess'[o].batch \in Nat /\ sess'[o].batch <= sess'[o].at
    <3>1. sess' \in [Sessions -> State]
      BY DEF ExecutorsInv, TypeOK, State, Places, Thens, Errors
    <3>2. sess'[o].at \in Nat /\ sess'[o].batch \in Nat
      BY <3>1 DEF State
    <3>3. PlaceOK(o)'
      BY DEF ExecutorsInv, SessionOK
    <3>4. QED
      BY <3>2, <3>3 DEF PlaceOK
  <2>3. CASE o # s
    BY <2>1, <2>2, <2>3, GoesForward DEF Out, Forward
  <2>4. CASE o = s
    <3>1. \/ sess'[o].at = sess[o].at /\ sess'[o].batch \in {sess[o].batch, 0}
          \/ sess'[o].at = sess[o].at + 1 /\ sess'[o].batch \in {sess[o].batch, sess[o].batch + 1}
      BY <2>4, GoesForward DEF Forward
    <3>2. QED
      BY <2>1, <2>2, <3>1 DEF Out
  <2>5. QED
    BY <2>3, <2>4
<1>4. QED
  BY <1>1, <1>2, <1>3

\* The thread of the run gets nothing out.
LEMMA MainOut ==
    ASSUME ExecutorsInv, Main
    PROVE  /\ seen' = seen /\ main.pc # "ended"
           /\ \A o \in Sessions : sess'[o].at = sess[o].at /\ sess'[o].batch = sess[o].batch
           /\ main'.pc = "ended" => UNCHANGED sess
<1>1. sess \in [Sessions -> State] /\ MainOK /\ main \in MainType
  BY MainHere
<1>2. seen' = seen /\ main.pc # "ended"
  BY DEF Main, Launch, Submit, Offer, JoinCheck, JoinRaised, JoinCancelled, JoinAgain,
         StopAll, CancelFuture, CancelledAll, Shutdown
<1>3. CASE Launch
  <2>1. sess = [o \in Sessions |-> Fresh]
    BY <1>1, <1>3 DEF Launch, MainOK
  <2>2. \/ sess' = [sess EXCEPT ![1].pc = "open"]
        \/ sess' = [o \in Sessions |-> [Fresh EXCEPT !.pc = "queued"]]
        \/ sess' = sess
    BY <1>3 DEF Launch
  <2>3. main'.pc # "ended"
    BY <1>1, <1>3 DEF Launch, MainTo, MainType
  <2>4. ASSUME NEW o \in Sessions
        PROVE  sess'[o].at = sess[o].at /\ sess'[o].batch = sess[o].batch
    <3>1. sess[o].at = 0 /\ sess[o].batch = 0
      BY <2>1 DEF Fresh
    <3>2. CASE sess' = [sess EXCEPT ![1].pc = "open"]
      BY <1>1, <3>2 DEF State
    <3>3. CASE sess' = [u \in Sessions |-> [Fresh EXCEPT !.pc = "queued"]]
      BY <3>1, <3>3 DEF Fresh
    <3>4. QED
      BY <2>2, <3>2, <3>3
  <2>5. QED
    BY <1>2, <2>3, <2>4
<1>4. CASE Offer \/ CancelFuture
  <2>1. sess' = sess \/ \E p : sess' = [sess EXCEPT ![main.next].pc = p]
    BY <1>4 DEF Offer, CancelFuture, Goto
  <2>2. main'.pc # "ended"
    BY <1>1, <1>4 DEF Offer, CancelFuture, MainType
  <2>3. ASSUME NEW o \in Sessions
        PROVE  sess'[o].at = sess[o].at /\ sess'[o].batch = sess[o].batch
    <3>1. CASE sess' = sess
      BY <3>1
    <3>2. ASSUME NEW p, sess' = [sess EXCEPT ![main.next].pc = p]
          PROVE  sess'[o].at = sess[o].at /\ sess'[o].batch = sess[o].batch
      <4>1. PICK m : m = main.next
        OBVIOUS
      <4>2. sess' = [sess EXCEPT ![m].pc = p]
        BY <3>2, <4>1
      <4>3. QED
        BY <1>1, <4>2 DEF State
    <3>3. QED
      BY <2>1, <3>1, <3>2
  <2>4. QED
    BY <1>2, <2>2, <2>3
<1>5. CASE JoinCheck \/ JoinRaised \/ JoinCancelled
  <2>1. sess' = sess \/ sess' = DropQueued
    BY <1>5 DEF JoinCheck, JoinRaised, JoinCancelled
  <2>2. main'.pc # "ended"
    BY <1>1, <1>5 DEF JoinCheck, JoinRaised, JoinCancelled, MainTo, Quit, MainType
  <2>3. QED
    BY <1>1, <1>2, <2>1, <2>2 DEF DropQueued, State
<1>6. CASE Submit \/ JoinAgain \/ StopAll \/ CancelledAll \/ Shutdown
  BY <1>2, <1>6 DEF Submit, JoinAgain, StopAll, CancelledAll, Shutdown
<1>7. QED
  BY <1>3, <1>4, <1>5, <1>6 DEF Main

\* Counting what is out: e[2] runs over the events of session e[1].
Numbered(f) == {e \in Sessions \X (1..Long) : e[2] <= f[e[1]]}

LEMMA NumberedIsFinite ==
    ASSUME NEW f
    PROVE  IsFiniteSet(Numbered(f)) /\ Cardinality(Numbered(f)) \in Nat
<1>1. IsFiniteSet(1..NumSessions) /\ IsFiniteSet(1..Long)
  BY FS_Interval
<1>2. IsFiniteSet(Sessions \X (1..Long))
  BY <1>1, FS_Product
<1>3. Numbered(f) \in SUBSET (Sessions \X (1..Long))
  BY DEF Numbered
<1>4. QED
  BY <1>2, <1>3, FS_Subset, FS_CardinalityType

LEMMA CountGrows ==
    ASSUME NEW f \in [Sessions -> Nat], NEW g \in [Sessions -> Nat],
           \A o \in Sessions : f[o] <= g[o]
    PROVE  Cardinality(Numbered(f)) <= Cardinality(Numbered(g))
<1>1. ASSUME NEW e \in Numbered(f) PROVE e \in Numbered(g)
  <2>1. e \in Sessions \X (1..Long) /\ e[2] <= f[e[1]]
    BY DEF Numbered
  <2>2. PICK o \in Sessions, n \in 1..Long : o = e[1] /\ n = e[2]
    BY <2>1
  <2>3. n <= f[o] /\ f[o] <= g[o] /\ f[o] \in Nat /\ g[o] \in Nat /\ n \in Nat
    BY <2>1, <2>2
  <2>4. n <= g[o]
    BY <2>3
  <2>5. QED
    BY <2>1, <2>2, <2>4 DEF Numbered
<1>2. Numbered(f) \in SUBSET Numbered(g)
  BY <1>1
<1>3. QED
  BY <1>2, NumberedIsFinite, FS_Subset

LEMMA CountOfNothing ==
    ASSUME NEW f, \A o \in Sessions : f[o] = 0
    PROVE  Cardinality(Numbered(f)) = 0
<1>1. ASSUME NEW e \in Numbered(f) PROVE FALSE
  <2>1. e \in Sessions \X (1..Long) /\ e[2] <= f[e[1]]
    BY DEF Numbered
  <2>2. PICK o \in Sessions, n \in 1..Long : o = e[1] /\ n = e[2]
    BY <2>1
  <2>3. QED
    BY <2>1, <2>2
<1>2. Numbered(f) = {}
  BY <1>1
<1>3. QED
  BY <1>2, FS_EmptySet

Outs == [o \in Sessions |-> sess[o].at - sess[o].batch]
Progress == Cardinality({e \in Sessions \X (1..Long) :
                            e[2] <= sess[e[1]].at - sess[e[1]].batch})
Outcome == IF main.pc # "ended" THEN "replaying"
           ELSE IF main.error = "none" THEN "returned"
           ELSE IF main.error = "cancelled" THEN "cancelled" ELSE "failed"

LEMMA ProgressCounts ==
    /\ Progress = Cardinality(Numbered(Outs))
    /\ Progress' = Cardinality(Numbered(Outs'))
<1>1. Numbered(Outs) = {e \in Sessions \X (1..Long) :
                            e[2] <= sess[e[1]].at - sess[e[1]].batch}
  BY DEF Numbered, Outs
<1>2. Numbered(Outs') = {e \in Sessions \X (1..Long) :
                            e[2] <= sess'[e[1]].at - sess'[e[1]].batch}
  BY DEF Numbered, Outs
<1>3. QED
  BY <1>1, <1>2 DEF Progress

LEMMA SessionAdvances ==
    ASSUME ExecutorsInv, ExecutorsInv', NEW s \in Sessions, Session(s)
    PROVE  /\ seen' = seen /\ Outcome = "replaying" /\ Outcome' = "replaying"
           /\ Progress' \in Nat /\ (Progress' > Progress \/ Progress' = Progress)
<1>1. /\ main' = main /\ seen' = seen
      /\ sess[s].pc \notin Ended \cup {"new"}
      /\ \A o \in Sessions : Out(o) \in Nat /\ Out(o)' \in Nat /\ Out(o) <= Out(o)'
  BY OutGrows
<1>2. main.pc # "ended"
  BY <1>1, MainHere DEF MainOK, Finished, Submitted
<1>3. PICK f \in [Sessions -> Nat], g \in [Sessions -> Nat] :
          /\ f = Outs /\ g = Outs'
          /\ \A o \in Sessions : f[o] <= g[o]
  <2>1. Outs \in [Sessions -> Nat] /\ \A o \in Sessions : Outs[o] = Out(o)
    BY <1>1 DEF Outs, Out
  <2>2. Outs' \in [Sessions -> Nat] /\ \A o \in Sessions : Outs'[o] = Out(o)'
    BY <1>1 DEF Outs, Out
  <2>3. QED
    BY <1>1, <2>1, <2>2
<1>4. Progress = Cardinality(Numbered(f)) /\ Progress' = Cardinality(Numbered(g))
  BY <1>3, ProgressCounts
<1>5. Progress \in Nat /\ Progress' \in Nat /\ Progress <= Progress'
  BY <1>3, <1>4, CountGrows, NumberedIsFinite
<1>6. QED
  BY <1>1, <1>2, <1>5 DEF Outcome

LEMMA MainEnds ==
    ASSUME ExecutorsInv, ExecutorsInv', Main
    PROVE  /\ seen' = seen /\ Progress' = Progress /\ Outcome = "replaying"
           /\ \/ Outcome' = "replaying"
              \/ Outcome' \in {"returned", "failed"}
              \/ Outcome' = "cancelled" /\ seen = "cancel"
<1>1. /\ seen' = seen /\ main.pc # "ended"
      /\ \A o \in Sessions : sess'[o].at = sess[o].at /\ sess'[o].batch = sess[o].batch
  BY MainOut
<1>2. Outs' = Outs
  BY <1>1 DEF Outs
<1>3. Progress' = Progress
  BY <1>2, ProgressCounts
<1>4. main'.error = "cancelled" => seen' = "cancel"
  BY DEF ExecutorsInv, MainOK
<1>5. QED
  BY <1>1, <1>3, <1>4 DEF Outcome

LEMMA StepIsPhase ==
    ASSUME ExecutorsInv, ExecutorsInv', [Next]_vars
    PROVE  [Phase!Next]_<<seen, Outcome, Progress>>
<1>1. CASE Poll
  <2>1. seen' \in {"go", "pause", "cancel"} /\ seen # "cancel"
    BY <1>1 DEF Poll
  <2>2. UNCHANGED <<Outcome, Progress>>
    BY <1>1 DEF Poll, Outcome, Progress
  <2>3. Phase!Poll
    BY <2>1, <2>2 DEF Phase!Poll, Outcome, Progress
  <2>4. QED
    BY <2>3 DEF Phase!Next
<1>2. CASE Main
  <2>1. CASE Outcome' = "replaying"
    BY <1>2, <2>1, MainEnds
  <2>2. CASE Outcome' # "replaying"
    <3>1. Phase!End
      BY <1>2, <2>2, MainEnds DEF Phase!End, Outcome, Progress
    <3>2. QED
      BY <3>1 DEF Phase!Next
  <2>3. QED
    BY <2>1, <2>2
<1>3. ASSUME NEW s \in Sessions, Session(s)
      PROVE  [Phase!Next]_<<seen, Outcome, Progress>>
  <2>1. CASE Progress' = Progress
    BY <1>3, <2>1, SessionAdvances
  <2>2. CASE Progress' # Progress
    <3>1. Phase!Advance
      BY <1>3, <2>2, SessionAdvances DEF Phase!Advance, Outcome, Progress
    <3>2. QED
      BY <3>1 DEF Phase!Next
  <2>3. QED
    BY <2>1, <2>2
<1>4. CASE UNCHANGED vars
  BY <1>4 DEF vars, Outcome, Progress
<1>5. QED
  BY <1>1, <1>2, <1>3, <1>4 DEF Next

LEMMA InitIsPhase ==
    ASSUME Init
    PROVE  Phase!Init
<1>1. \A o \in Sessions : Outs[o] = 0
  BY DEF Init, Outs, Fresh
<1>2. Progress = 0
  BY <1>1, ProgressCounts, CountOfNothing
<1>3. Outcome = "replaying" /\ seen = "go"
  BY DEF Init, Outcome
<1>4. QED
  BY <1>2, <1>3 DEF Phase!Init, Outcome, Progress

-----------------------------------------------------------------------------
(* What the executors promise.                                             *)

\* The variables keep their types, for any number of sessions and workers.
THEOREM ExecutorsTypes == Spec => []TypeOK
<1>1. ExecutorsInv => TypeOK
  BY DEF ExecutorsInv
<1>2. QED
  BY <1>1, ExecutorsInvariant, PTL

\* Once stop_all is set a session writes what it has in hand and no more: its
\* batch and the one event behind it (worker of replay_controlled_concurrent,
\* run_session of replay_controlled_parallel_sessions).
THEOREM StopIsQuiet == Spec => []QuietSoon
<1>1. ASSUME ExecutorsInv PROVE QuietSoon
  <2>1. ASSUME NEW s \in Sessions PROVE late[s] <= 2
    <3>1. LateOK(s) /\ late[s] \in 0..3 /\ stop \in BOOLEAN
      BY <1>1, Here
    <3>2. Hand(s) \in 0..2
      BY DEF Hand
    <3>3. QED
      BY <3>1, <3>2 DEF LateOK
  <2>2. QED
    BY <2>1 DEF QuietSoon
<1>2. QED
  BY <1>1, ExecutorsInvariant, PTL

LEMMA Reported == ASSUME ExecutorsInv PROVE ReportedOnce
<1>1. ASSUME NEW s \in Sessions PROVE Len(told[s]) <= 1
  <2>1. params \in Params /\ ModeOK(s) /\ ReportOK(s)
    BY Here
  <2>2. told[s] \in {<<>>, <<"success">>, <<"failed">>, <<"skipped">>, <<"stopped">>}
    BY <2>1 DEF ModeOK, ReportOK
  <2>3. /\ Len(<<>>) = 0 /\ Len(<<"success">>) = 1 /\ Len(<<"failed">>) = 1
        /\ Len(<<"skipped">>) = 1 /\ Len(<<"stopped">>) = 1
    OBVIOUS
  <2>4. PICK r : r = told[s]
    OBVIOUS
  <2>5. PICK n : n = Len(r)
    OBVIOUS
  <2>6. n = 0 \/ n = 1
    BY <2>2, <2>3, <2>4, <2>5
  <2>7. n <= 1
    BY <2>6
  <2>8. QED
    BY <2>4, <2>5, <2>7
<1>2. ASSUME NEW s \in Sessions, main.pc = "ended", Concurrent, told[s] = <<>>
      PROVE  (sess[s].pc = "new" /\ main.error = "cancelled") \/ sess[s].err = "odd"
  <2>1. ReportOK(s) /\ ErrorOK(s) /\ MainOK
    BY Here, MainHere
  <2>2. Finished /\ (main.error # "cancelled" => Seen(s))
    BY <1>2, <2>1 DEF MainOK
  <2>3. CASE sess[s].pc = "new"
    BY <1>2, <2>2, <2>3 DEF Seen
  <2>4. CASE sess[s].pc # "new"
    <3>1. sess[s].pc \in {"done", "raised", "gone"}
      BY <2>2, <2>4 DEF Finished, Submitted, Ended
    <3>2. <<>> # <<"skipped">>
      OBVIOUS
    <3>3. sess[s].pc = "raised"
      BY <1>2, <2>1, <3>1, <3>2 DEF ReportOK
    <3>4. QED
      BY <1>2, <2>1, <3>3 DEF ErrorOK
  <2>5. QED
    BY <2>3, <2>4
<1>3. QED
  BY <1>1, <1>2 DEF ReportedOnce

LEMMA Complete == ASSUME ExecutorsInv PROVE ReturnIsComplete
<1>1. ASSUME main.pc = "ended", main.error = "none", NEW s \in Sessions
      PROVE  \/ sess[s].pc = "done" /\ sess[s].at = Events(s) /\ sess[s].batch = 0
             \/ Concurrent /\ told[s] = <<"failed">>
             \/ Strict /\ s # 1
  <2>1. /\ params \in Params /\ ModeOK(s) /\ ReportOK(s) /\ MainOK
        /\ sess[s].pc \in Places
    BY Here, MainHere
  <2>2. /\ ~stop /\ Finished /\ sess[s].pc # "raised"
        /\ Concurrent => Seen(s)
        /\ Strict => sess[1].pc # "new"
        /\ Parallel => sess[s].pc # "new"
    BY <1>1, <2>1 DEF MainOK
  <2>3. sess[s].pc \in {"new", "done", "gone"}
    BY <2>2 DEF Finished, Submitted, Ended
  <2>4. CASE Concurrent
    <3>1. told[s] \in {<<>>, <<"success">>, <<"failed">>}
      BY <2>1, <2>2, <2>4 DEF ReportOK
    <3>2. /\ <<>> # <<"skipped">> /\ <<"success">> # <<"skipped">>
          /\ <<"failed">> # <<"skipped">>
      OBVIOUS
    <3>3. sess[s].pc = "done"
      BY <2>1, <2>2, <2>3, <2>4, <3>1, <3>2 DEF ReportOK, Seen
    <3>4. told[s] \in {<<"success">>, <<"failed">>}
      BY <2>1, <2>4, <3>1, <3>3 DEF ReportOK
    <3>5. QED
      BY <2>1, <2>4, <3>3, <3>4 DEF ReportOK
  <2>5. CASE Strict
    BY <2>1, <2>2, <2>3, <2>5, OneMode DEF ModeOK
  <2>6. CASE Parallel
    BY <2>1, <2>2, <2>3, <2>6, OneMode DEF ModeOK
  <2>7. QED
    BY <2>1, <2>4, <2>5, <2>6, OneMode
<1>2. QED
  BY <1>1 DEF ReturnIsComplete

\* on_session_result is called once for a session, by its worker or by the
\* thread that cancels it, and an executor that returns has replayed every
\* event of every session it does not report as failed: neither a stop nor a
\* cancel nor a batch left behind looks like a success.
THEOREM ResultsHold == Spec => []ResultsAreTrue
<1>1. ExecutorsInv => ResultsAreTrue
  BY Reported, Complete DEF ResultsAreTrue
<1>2. QED
  BY <1>1, ExecutorsInvariant, PTL

\* As the replay phase of a run an executor ends once, after all its workers:
\* no event gets out after the end, and it ends as cancelled only when check
\* read a cancel (pool.shutdown(wait=True), the except clauses).
THEOREM ExecutorsImplementPhase == Spec => ImplementsReplayPhase
<1>1. Init => Phase!Init
  BY InitIsPhase
<1>2. ExecutorsInv /\ ExecutorsInv' /\ [Next]_vars
      => [Phase!Next]_<<seen, Outcome, Progress>>
  BY StepIsPhase
<1>3. QED
  BY <1>1, <1>2, ExecutorsInvariant, PTL
     DEF Spec, ImplementsReplayPhase, Phase!Spec, Phase!vars, Outcome, Progress

-----------------------------------------------------------------------------
(* The terminal gateway (gateway.py).                                      *)

\* The steps of the gateway, and where a session that is over goes.
Ending == {"restore", "reap", "finish", "exit", "killed"}
GatewayPlaces ==
    {"open", "install", "first", "batch", "poll", "select", "serve", "det", "in", "forward",
     "out", "check", "last"} \cup Ending

GatewayTypes ==
    /\ mode \in {"pty", "batch"} /\ pc \in GatewayPlaces
    /\ typed \in Nat /\ arrived \in Nat /\ inbox \in Nat /\ outbox \in Nat /\ printed \in Nat
    /\ forwarded \in Nat /\ shown \in Nat /\ stable \in Nat /\ idle \in Nat /\ signals \in Nat
    /\ logged \in [start : Nat, det : Nat, in : Nat, out : Nat, end : Nat]
    /\ open \in BOOLEAN /\ broken \in BOOLEAN /\ leaving \in BOOLEAN /\ dirty \in BOOLEAN
    /\ child \in {"alive", "stubborn", "dead"}
    /\ todo \subseteq {"stdin", "pty"}

\* A command without a terminal has no loop and no screens.
TtyOK ==
    /\ mode = "batch" =>
          pc \in {"open", "first", "batch", "out", "finish", "exit", "killed"} /\ idle = 0
    /\ mode = "pty" => pc # "batch"

\* An input is between the log and the child only from its keys to its write;
\* whoever leaves in between leaves for good.
InputOK ==
    /\ \/ logged.det = logged.in + (IF pc = "in" THEN 1 ELSE 0)
       \/ pc \in Ending /\ logged.det = logged.in + 1
    /\ \/ logged.in = forwarded + (IF pc = "forward" THEN 1 ELSE 0)
       \/ pc \in Ending /\ logged.in = forwarded + 1

\* The user has seen one piece that the log does not have only while it is
\* being appended, or when a signal or the sink came in between.
OutputOK ==
    \/ shown = logged.out + (IF pc = "out" THEN 1 ELSE 0)
    \/ pc \in Ending /\ shown = logged.out + 1 /\ (broken \/ signals > 0)

EndsOK ==
    /\ logged.start <= 1
    /\ pc \in {"open", "install", "first"} => logged.start = 0
    /\ pc = "exit" /\ ~broken => logged.start <= logged.end

\* The clock of the screen has run out for this screen, or not yet.
ScreenOK ==
    /\ idle >= Quiet => shown \in quieted
    /\ pc \in GatewayPlaces \ Ending => stable \in quieted \cup {0}

GatewayInv == GatewayTypes /\ TtyOK /\ InputOK /\ OutputOK /\ EndsOK /\ ScreenOK

-----------------------------------------------------------------------------
(* What every action needs.                                                *)

LogType == [start : Nat, det : Nat, in : Nat, out : Nat, end : Nat]

LEMMA Bounds == Quiet \in Nat \ {0}
BY SessionsAssumption DEF G!GatewayAssumption

LEMMA LogFields ==
    ASSUME logged \in LogType
    PROVE  /\ logged.start \in Nat /\ logged.det \in Nat /\ logged.in \in Nat
           /\ logged.out \in Nat /\ logged.end \in Nat
BY DEF LogType

\* An append adds an event of its kind, or it fails and the session leaves.
LEMMA Appends ==
    ASSUME logged \in LogType, mode \in {"pty", "batch"}, NEW after,
           NEW kind \in {"start", "det", "in", "out", "end"}, G!Append(kind, after)
    PROVE  \/ /\ broken /\ logged' = logged
              /\ pc' \in {"restore", "finish", "exit"}
              /\ mode = "pty" /\ pc # "finish" => pc' = "restore"
              /\ mode # "pty" /\ pc = "out" => pc' = "finish"
              /\ mode # "pty" /\ pc # "out" => pc' = "exit"
              /\ pc = "finish" => pc' = "exit"
           \/ /\ ~broken /\ pc' = after
              /\ logged' \in LogType
              /\ logged'.start = logged.start + (IF kind = "start" THEN 1 ELSE 0)
              /\ logged'.det = logged.det + (IF kind = "det" THEN 1 ELSE 0)
              /\ logged'.in = logged.in + (IF kind = "in" THEN 1 ELSE 0)
              /\ logged'.out = logged.out + (IF kind = "out" THEN 1 ELSE 0)
              /\ logged'.end = logged.end + (IF kind = "end" THEN 1 ELSE 0)
<1>1. CASE broken
  BY <1>1 DEF G!Append
<1>2. CASE ~broken
  <2>1. logged' = [logged EXCEPT ![kind] = @ + 1] /\ pc' = after
    BY <1>2 DEF G!Append, G!Log
  <2>2. QED
    BY <1>2, <2>1 DEF LogType
<1>3. QED
  BY <1>1, <1>2

LEMMA GatewayInit == G!Init => GatewayInv
<1> SUFFICES ASSUME G!Init PROVE GatewayInv
  OBVIOUS
<1>1. GatewayTypes
  BY DEF G!Init, GatewayTypes, GatewayPlaces, Ending
<1>2. TtyOK /\ InputOK /\ OutputOK /\ EndsOK
  BY DEF G!Init, TtyOK, InputOK, OutputOK, EndsOK, Ending
<1>3. ScreenOK
  BY Bounds DEF G!Init, ScreenOK
<1>4. QED
  BY <1>1, <1>2, <1>3 DEF GatewayInv

-----------------------------------------------------------------------------
(* The user, the child, the clock and signals.                             *)

LEMMA TypeStep ==
    ASSUME GatewayInv, G!Type
    PROVE  GatewayInv'
<1>1. GatewayTypes'
  BY DEF GatewayInv, GatewayTypes, GatewayPlaces, Ending, G!Type, G!Running, G!outside, G!pty,
     G!screens
<1>2. TtyOK' /\ EndsOK'
  BY DEF GatewayInv, GatewayTypes, TtyOK, EndsOK, G!Type, G!Running, G!outside, G!pty,
     G!screens
<1>3. InputOK' /\ OutputOK'
  BY DEF GatewayInv, GatewayTypes, InputOK, OutputOK, TtyOK, Ending, G!Type, G!Running,
     G!outside, G!pty, G!screens
<1>4. ScreenOK'
  BY Bounds DEF GatewayInv, GatewayTypes, ScreenOK, TtyOK, GatewayPlaces, Ending, G!Type,
     G!Running, G!outside, G!pty, G!screens
<1>5. QED
  BY <1>1, <1>2, <1>3, <1>4 DEF GatewayInv

LEMMA HangUpStep ==
    ASSUME GatewayInv, G!HangUp
    PROVE  GatewayInv'
<1>1. GatewayTypes'
  BY DEF GatewayInv, GatewayTypes, GatewayPlaces, Ending, G!HangUp, G!outside, G!pty, G!screens
<1>2. TtyOK' /\ EndsOK'
  BY DEF GatewayInv, GatewayTypes, TtyOK, EndsOK, G!HangUp, G!outside, G!pty, G!screens
<1>3. InputOK' /\ OutputOK'
  BY DEF GatewayInv, GatewayTypes, InputOK, OutputOK, TtyOK, Ending, G!HangUp, G!outside,
     G!pty, G!screens
<1>4. ScreenOK'
  BY Bounds DEF GatewayInv, GatewayTypes, ScreenOK, TtyOK, GatewayPlaces, Ending, G!HangUp,
     G!outside, G!pty, G!screens
<1>5. QED
  BY <1>1, <1>2, <1>3, <1>4 DEF GatewayInv

LEMMA ChildPrintsStep ==
    ASSUME GatewayInv, G!ChildPrints
    PROVE  GatewayInv'
<1>1. GatewayTypes'
  BY DEF GatewayInv, GatewayTypes, GatewayPlaces, Ending, G!ChildPrints, G!Alive, G!outside, G!pty,
     G!screens
<1>2. TtyOK' /\ EndsOK'
  BY DEF GatewayInv, GatewayTypes, TtyOK, EndsOK, G!ChildPrints, G!Alive, G!outside, G!pty,
     G!screens
<1>3. InputOK' /\ OutputOK'
  BY DEF GatewayInv, GatewayTypes, InputOK, OutputOK, TtyOK, Ending, G!ChildPrints,
     G!Alive, G!outside, G!pty, G!screens
<1>4. ScreenOK'
  BY Bounds DEF GatewayInv, GatewayTypes, ScreenOK, TtyOK, GatewayPlaces, Ending, G!ChildPrints,
     G!Alive, G!outside, G!pty, G!screens
<1>5. QED
  BY <1>1, <1>2, <1>3, <1>4 DEF GatewayInv

LEMMA ConsumeStep ==
    ASSUME GatewayInv, G!Consume
    PROVE  GatewayInv'
<1>1. GatewayTypes'
  BY DEF GatewayInv, GatewayTypes, GatewayPlaces, Ending, G!Consume, G!Alive, G!outside, G!pty,
     G!screens
<1>2. TtyOK' /\ EndsOK'
  BY DEF GatewayInv, GatewayTypes, TtyOK, EndsOK, G!Consume, G!Alive, G!outside, G!pty,
     G!screens
<1>3. InputOK' /\ OutputOK'
  BY DEF GatewayInv, GatewayTypes, InputOK, OutputOK, TtyOK, Ending, G!Consume, G!Alive,
     G!outside, G!pty, G!screens
<1>4. ScreenOK'
  BY Bounds DEF GatewayInv, GatewayTypes, ScreenOK, TtyOK, GatewayPlaces, Ending, G!Consume,
     G!Alive, G!outside, G!pty, G!screens
<1>5. QED
  BY <1>1, <1>2, <1>3, <1>4 DEF GatewayInv

LEMMA ChildExitsStep ==
    ASSUME GatewayInv, G!ChildExits
    PROVE  GatewayInv'
<1>1. GatewayTypes'
  BY DEF GatewayInv, GatewayTypes, GatewayPlaces, Ending, G!ChildExits, G!Alive, G!outside, G!pty,
     G!screens
<1>2. TtyOK' /\ EndsOK'
  BY DEF GatewayInv, GatewayTypes, TtyOK, EndsOK, G!ChildExits, G!Alive, G!outside, G!pty,
     G!screens
<1>3. InputOK' /\ OutputOK'
  BY DEF GatewayInv, GatewayTypes, InputOK, OutputOK, TtyOK, Ending, G!ChildExits, G!Alive,
     G!outside, G!pty, G!screens
<1>4. ScreenOK'
  BY Bounds DEF GatewayInv, GatewayTypes, ScreenOK, TtyOK, GatewayPlaces, Ending, G!ChildExits,
     G!Alive, G!outside, G!pty, G!screens
<1>5. QED
  BY <1>1, <1>2, <1>3, <1>4 DEF GatewayInv

LEMMA TickStep ==
    ASSUME GatewayInv, G!Tick
    PROVE  GatewayInv'
<1>1. GatewayTypes'
  BY DEF GatewayInv, GatewayTypes, GatewayPlaces, Ending, G!Tick, G!outside, G!pty, G!screens
<1>2. TtyOK' /\ EndsOK'
  BY DEF GatewayInv, GatewayTypes, TtyOK, EndsOK, G!Tick, G!outside, G!pty, G!screens
<1>3. InputOK' /\ OutputOK'
  BY DEF GatewayInv, GatewayTypes, InputOK, OutputOK, TtyOK, Ending, G!Tick, G!outside,
     G!pty, G!screens
<1>4. ScreenOK'
  BY Bounds DEF GatewayInv, GatewayTypes, ScreenOK, TtyOK, GatewayPlaces, Ending, G!Tick,
     G!outside, G!pty, G!screens
<1>5. QED
  BY <1>1, <1>2, <1>3, <1>4 DEF GatewayInv

LEMMA SinkBreaksStep ==
    ASSUME GatewayInv, G!SinkBreaks
    PROVE  GatewayInv'
<1>1. GatewayTypes'
  BY DEF GatewayInv, GatewayTypes, GatewayPlaces, Ending, G!SinkBreaks, G!Running, G!outside,
     G!pty, G!screens
<1>2. TtyOK' /\ EndsOK'
  BY DEF GatewayInv, GatewayTypes, TtyOK, EndsOK, G!SinkBreaks, G!Running, G!outside,
     G!pty, G!screens
<1>3. InputOK' /\ OutputOK'
  BY DEF GatewayInv, GatewayTypes, InputOK, OutputOK, TtyOK, Ending, G!SinkBreaks,
     G!Running, G!outside, G!pty, G!screens
<1>4. ScreenOK'
  BY Bounds DEF GatewayInv, GatewayTypes, ScreenOK, TtyOK, GatewayPlaces, Ending, G!SinkBreaks,
     G!Running, G!outside, G!pty, G!screens
<1>5. QED
  BY <1>1, <1>2, <1>3, <1>4 DEF GatewayInv

LEMMA SignalStep ==
    ASSUME GatewayInv, G!Signal
    PROVE  GatewayInv'
<1>1. GatewayTypes'
  BY DEF GatewayInv, GatewayTypes, GatewayPlaces, Ending, G!Signal, G!Running, G!Guarded,
     G!outside, G!pty, G!screens
<1>2. TtyOK' /\ EndsOK'
  BY DEF GatewayInv, GatewayTypes, TtyOK, EndsOK, G!Signal, G!Running, G!Guarded,
     G!outside, G!pty, G!screens
<1>3. InputOK' /\ OutputOK'
  BY DEF GatewayInv, GatewayTypes, InputOK, OutputOK, TtyOK, Ending, G!Signal, G!Running,
     G!Guarded, G!outside, G!pty, G!screens
<1>4. ScreenOK'
  BY Bounds DEF GatewayInv, GatewayTypes, ScreenOK, TtyOK, GatewayPlaces, Ending, G!Signal,
     G!Running, G!Guarded, G!outside, G!pty, G!screens
<1>5. QED
  BY <1>1, <1>2, <1>3, <1>4 DEF GatewayInv

-----------------------------------------------------------------------------
(* The gateway.                                                            *)

LEMMA SpawnStep ==
    ASSUME GatewayInv, G!Spawn
    PROVE  GatewayInv'
<1>1. GatewayTypes'
  BY DEF GatewayInv, GatewayTypes, GatewayPlaces, Ending, G!Spawn, G!outside, G!pty, G!screens
<1>2. TtyOK' /\ EndsOK'
  BY DEF GatewayInv, GatewayTypes, TtyOK, EndsOK, G!Spawn, G!outside, G!pty, G!screens
<1>3. InputOK' /\ OutputOK'
  BY DEF GatewayInv, GatewayTypes, InputOK, OutputOK, TtyOK, Ending, G!Spawn, G!outside,
     G!pty, G!screens
<1>4. ScreenOK'
  BY Bounds DEF GatewayInv, GatewayTypes, ScreenOK, TtyOK, GatewayPlaces, Ending, G!Spawn,
     G!outside, G!pty, G!screens
<1>5. QED
  BY <1>1, <1>2, <1>3, <1>4 DEF GatewayInv

LEMMA InstallStep ==
    ASSUME GatewayInv, G!Install
    PROVE  GatewayInv'
<1>1. GatewayTypes'
  BY DEF GatewayInv, GatewayTypes, GatewayPlaces, Ending, G!Install, G!outside, G!pty, G!screens
<1>2. TtyOK' /\ EndsOK'
  BY DEF GatewayInv, GatewayTypes, TtyOK, EndsOK, G!Install, G!outside, G!pty, G!screens
<1>3. InputOK' /\ OutputOK'
  BY DEF GatewayInv, GatewayTypes, InputOK, OutputOK, TtyOK, Ending, G!Install, G!outside,
     G!pty, G!screens
<1>4. ScreenOK'
  BY Bounds DEF GatewayInv, GatewayTypes, ScreenOK, TtyOK, GatewayPlaces, Ending, G!Install,
     G!outside, G!pty, G!screens
<1>5. QED
  BY <1>1, <1>2, <1>3, <1>4 DEF GatewayInv

LEMMA FirstStep ==
    ASSUME GatewayInv, G!First
    PROVE  GatewayInv'
<1>1. /\ logged \in LogType /\ mode \in {"pty", "batch"}
      /\ UNCHANGED <<mode, typed, open, arrived, child, inbox, outbox, printed, forwarded, shown,
                     broken, todo, leaving, stable, dirty, idle, quieted, signals>>
  BY DEF GatewayInv, GatewayTypes, LogType, G!First, G!outside, G!pty, G!screens
<1>2. PICK after : after = (IF mode = "pty" THEN "poll" ELSE "batch") /\ G!Append("start", after)
  BY DEF G!First
<1>3. \/ /\ broken /\ logged' = logged
         /\ pc' \in {"restore", "finish", "exit"}
         /\ mode = "pty" /\ pc # "finish" => pc' = "restore"
         /\ mode # "pty" /\ pc = "out" => pc' = "finish"
         /\ mode # "pty" /\ pc # "out" => pc' = "exit"
         /\ pc = "finish" => pc' = "exit"
      \/ /\ ~broken /\ pc' = after
         /\ logged' \in LogType
         /\ logged'.start = logged.start + (IF "start" = "start" THEN 1 ELSE 0)
         /\ logged'.det = logged.det + (IF "start" = "det" THEN 1 ELSE 0)
         /\ logged'.in = logged.in + (IF "start" = "in" THEN 1 ELSE 0)
         /\ logged'.out = logged.out + (IF "start" = "out" THEN 1 ELSE 0)
         /\ logged'.end = logged.end + (IF "start" = "end" THEN 1 ELSE 0)
  BY <1>1, <1>2, Appends
<1>4. GatewayTypes'
  BY <1>1, <1>2, <1>3, LogFields DEF GatewayInv, GatewayTypes, GatewayPlaces, Ending, LogType,
     G!First
<1>5. TtyOK' /\ EndsOK'
  BY <1>1, <1>2, <1>3, LogFields DEF GatewayInv, GatewayTypes, TtyOK, EndsOK, LogType,
     G!First
<1>6. InputOK' /\ OutputOK'
  BY <1>1, <1>2, <1>3, LogFields DEF GatewayInv, GatewayTypes, InputOK, OutputOK, TtyOK,
     Ending, LogType, G!First
<1>7. ScreenOK'
  BY <1>1, <1>2, <1>3, LogFields, Bounds DEF GatewayInv, GatewayTypes, ScreenOK, TtyOK,
     GatewayPlaces, Ending, LogType, G!First
<1>8. QED
  BY <1>4, <1>5, <1>6, <1>7 DEF GatewayInv

LEMMA TypedStep ==
    ASSUME GatewayInv, G!Batch
    PROVE  GatewayInv'
<1>1. GatewayTypes'
  BY DEF GatewayInv, GatewayTypes, GatewayPlaces, Ending, G!Batch, G!outside, G!pty, G!screens
<1>2. TtyOK' /\ EndsOK'
  BY DEF GatewayInv, GatewayTypes, TtyOK, EndsOK, G!Batch, G!outside, G!pty, G!screens
<1>3. InputOK' /\ OutputOK'
  BY DEF GatewayInv, GatewayTypes, InputOK, OutputOK, TtyOK, Ending, G!Batch, G!outside,
     G!pty, G!screens
<1>4. ScreenOK'
  BY Bounds DEF GatewayInv, GatewayTypes, ScreenOK, TtyOK, GatewayPlaces, Ending, G!Batch,
     G!outside, G!pty, G!screens
<1>5. QED
  BY <1>1, <1>2, <1>3, <1>4 DEF GatewayInv

LEMMA LoopStep ==
    ASSUME GatewayInv, G!Poll
    PROVE  GatewayInv'
<1>1. GatewayTypes'
  BY DEF GatewayInv, GatewayTypes, GatewayPlaces, Ending, G!Poll, G!Alive, G!outside, G!pty,
     G!screens
<1>2. TtyOK' /\ EndsOK'
  BY DEF GatewayInv, GatewayTypes, TtyOK, EndsOK, G!Poll, G!Alive, G!outside, G!pty,
     G!screens
<1>3. InputOK' /\ OutputOK'
  BY DEF GatewayInv, GatewayTypes, InputOK, OutputOK, TtyOK, Ending, G!Poll, G!Alive,
     G!outside, G!pty, G!screens
<1>4. ScreenOK'
  BY Bounds DEF GatewayInv, GatewayTypes, ScreenOK, TtyOK, GatewayPlaces, Ending, G!Poll, G!Alive,
     G!outside, G!pty, G!screens
<1>5. QED
  BY <1>1, <1>2, <1>3, <1>4 DEF GatewayInv

LEMMA SelectStep ==
    ASSUME GatewayInv, G!Select
    PROVE  GatewayInv'
<1>1. GatewayTypes'
  BY DEF GatewayInv, GatewayTypes, GatewayPlaces, Ending, G!Select, G!Alive, G!outside, G!pty,
     G!screens
<1>2. TtyOK' /\ EndsOK'
  BY DEF GatewayInv, GatewayTypes, TtyOK, EndsOK, G!Select, G!Alive, G!outside, G!pty,
     G!screens
<1>3. InputOK' /\ OutputOK'
  BY DEF GatewayInv, GatewayTypes, InputOK, OutputOK, TtyOK, Ending, G!Select, G!Alive,
     G!outside, G!pty, G!screens
<1>4. ScreenOK'
  BY Bounds DEF GatewayInv, GatewayTypes, ScreenOK, TtyOK, GatewayPlaces, Ending, G!Select,
     G!Alive, G!outside, G!pty, G!screens
<1>5. QED
  BY <1>1, <1>2, <1>3, <1>4 DEF GatewayInv

LEMMA ServeStdinStep ==
    ASSUME GatewayInv, G!ServeStdin
    PROVE  GatewayInv'
<1>1. GatewayTypes'
  <2>1. todo' \subseteq {"stdin", "pty"}
    BY DEF GatewayInv, GatewayTypes, G!ServeStdin, G!EndOfFile, G!outside, G!pty, G!screens
  <2>2. typed' \in Nat /\ outbox' \in Nat /\ shown' \in Nat /\ idle' \in Nat
    <3>1. CASE typed > 0
      BY <3>1 DEF GatewayInv, GatewayTypes, G!ServeStdin, G!EndOfFile, G!outside, G!pty,
         G!screens
    <3>2. CASE ~(typed > 0)
      BY <3>2 DEF GatewayInv, GatewayTypes, G!ServeStdin, G!EndOfFile, G!outside, G!pty,
         G!screens
    <3>3. QED
      BY <3>1, <3>2
  <2>3. /\ leaving' \in BOOLEAN /\ dirty' \in BOOLEAN /\ pc' \in GatewayPlaces
        /\ child' \in {"alive", "stubborn", "dead"}
    BY DEF GatewayInv, GatewayTypes, GatewayPlaces, Ending, G!ServeStdin, G!EndOfFile, G!outside,
       G!pty, G!screens
  <2>4. QED
    BY <2>1, <2>2, <2>3 DEF GatewayInv, GatewayTypes, G!ServeStdin, G!EndOfFile, G!outside,
       G!pty, G!screens
<1>2. TtyOK' /\ EndsOK'
  BY DEF GatewayInv, GatewayTypes, TtyOK, EndsOK, G!ServeStdin, G!EndOfFile, G!outside,
     G!pty, G!screens
<1>3. InputOK' /\ OutputOK'
  BY DEF GatewayInv, GatewayTypes, InputOK, OutputOK, TtyOK, Ending, G!ServeStdin,
     G!EndOfFile, G!outside, G!pty, G!screens
<1>4. ScreenOK'
  BY Bounds DEF GatewayInv, GatewayTypes, ScreenOK, TtyOK, GatewayPlaces, Ending, G!ServeStdin,
     G!EndOfFile, G!outside, G!pty, G!screens
<1>5. QED
  BY <1>1, <1>2, <1>3, <1>4 DEF GatewayInv

LEMMA ServePtyStep ==
    ASSUME GatewayInv, G!ServePty
    PROVE  GatewayInv'
<1>1. GatewayTypes'
  <2>1. todo' \subseteq {"stdin", "pty"}
    BY DEF GatewayInv, GatewayTypes, G!ServePty, G!EndOfFile, G!outside, G!pty, G!screens
  <2>2. typed' \in Nat /\ outbox' \in Nat /\ shown' \in Nat /\ idle' \in Nat
    <3>1. CASE outbox > 0
      BY <3>1 DEF GatewayInv, GatewayTypes, G!ServePty, G!EndOfFile, G!outside, G!pty,
         G!screens
    <3>2. CASE ~(outbox > 0)
      BY <3>2 DEF GatewayInv, GatewayTypes, G!ServePty, G!EndOfFile, G!outside, G!pty,
         G!screens
    <3>3. QED
      BY <3>1, <3>2
  <2>3. /\ leaving' \in BOOLEAN /\ dirty' \in BOOLEAN /\ pc' \in GatewayPlaces
        /\ child' \in {"alive", "stubborn", "dead"}
    BY DEF GatewayInv, GatewayTypes, GatewayPlaces, Ending, G!ServePty, G!EndOfFile, G!outside,
       G!pty, G!screens
  <2>4. QED
    BY <2>1, <2>2, <2>3 DEF GatewayInv, GatewayTypes, G!ServePty, G!EndOfFile, G!outside,
       G!pty, G!screens
<1>2. TtyOK' /\ EndsOK'
  BY DEF GatewayInv, GatewayTypes, TtyOK, EndsOK, G!ServePty, G!EndOfFile, G!outside,
     G!pty, G!screens
<1>3. InputOK' /\ OutputOK'
  BY DEF GatewayInv, GatewayTypes, InputOK, OutputOK, TtyOK, Ending, G!ServePty,
     G!EndOfFile, G!outside, G!pty, G!screens
<1>4. ScreenOK'
  BY Bounds DEF GatewayInv, GatewayTypes, ScreenOK, TtyOK, GatewayPlaces, Ending, G!ServePty,
     G!EndOfFile, G!outside, G!pty, G!screens
<1>5. QED
  BY <1>1, <1>2, <1>3, <1>4 DEF GatewayInv

LEMMA ServedStep ==
    ASSUME GatewayInv, G!Served
    PROVE  GatewayInv'
<1>1. GatewayTypes'
  <2>1. todo' \subseteq {"stdin", "pty"}
    BY DEF GatewayInv, GatewayTypes, G!Served, G!outside, G!pty, G!screens
  <2>2. typed' \in Nat /\ outbox' \in Nat /\ shown' \in Nat /\ idle' \in Nat
    <3>1. CASE outbox > 0
      BY <3>1 DEF GatewayInv, GatewayTypes, G!Served, G!outside, G!pty, G!screens
    <3>2. CASE ~(outbox > 0)
      BY <3>2 DEF GatewayInv, GatewayTypes, G!Served, G!outside, G!pty, G!screens
    <3>3. QED
      BY <3>1, <3>2
  <2>3. /\ leaving' \in BOOLEAN /\ dirty' \in BOOLEAN /\ pc' \in GatewayPlaces
        /\ child' \in {"alive", "stubborn", "dead"}
    BY DEF GatewayInv, GatewayTypes, GatewayPlaces, Ending, G!Served, G!outside, G!pty, G!screens
  <2>4. QED
    BY <2>1, <2>2, <2>3 DEF GatewayInv, GatewayTypes, G!Served, G!outside, G!pty, G!screens
<1>2. TtyOK' /\ EndsOK'
  BY DEF GatewayInv, GatewayTypes, TtyOK, EndsOK, G!Served, G!outside, G!pty, G!screens
<1>3. InputOK' /\ OutputOK'
  BY DEF GatewayInv, GatewayTypes, InputOK, OutputOK, TtyOK, Ending, G!Served, G!outside,
     G!pty, G!screens
<1>4. ScreenOK'
  BY Bounds DEF GatewayInv, GatewayTypes, ScreenOK, TtyOK, GatewayPlaces, Ending, G!Served,
     G!outside, G!pty, G!screens
<1>5. QED
  BY <1>1, <1>2, <1>3, <1>4 DEF GatewayInv

LEMMA RecordKeysStep ==
    ASSUME GatewayInv, G!RecordKeys
    PROVE  GatewayInv'
<1>1. /\ logged \in LogType /\ mode \in {"pty", "batch"}
      /\ UNCHANGED <<mode, typed, open, arrived, child, inbox, outbox, printed, forwarded, shown,
                     broken, todo, leaving, stable, dirty, idle, quieted, signals>>
  BY DEF GatewayInv, GatewayTypes, LogType, G!RecordKeys, G!outside, G!pty, G!screens
<1>2. PICK after : after = ("in") /\ G!Append("det", after)
  BY DEF G!RecordKeys
<1>3. \/ /\ broken /\ logged' = logged
         /\ pc' \in {"restore", "finish", "exit"}
         /\ mode = "pty" /\ pc # "finish" => pc' = "restore"
         /\ mode # "pty" /\ pc = "out" => pc' = "finish"
         /\ mode # "pty" /\ pc # "out" => pc' = "exit"
         /\ pc = "finish" => pc' = "exit"
      \/ /\ ~broken /\ pc' = after
         /\ logged' \in LogType
         /\ logged'.start = logged.start + (IF "det" = "start" THEN 1 ELSE 0)
         /\ logged'.det = logged.det + (IF "det" = "det" THEN 1 ELSE 0)
         /\ logged'.in = logged.in + (IF "det" = "in" THEN 1 ELSE 0)
         /\ logged'.out = logged.out + (IF "det" = "out" THEN 1 ELSE 0)
         /\ logged'.end = logged.end + (IF "det" = "end" THEN 1 ELSE 0)
  BY <1>1, <1>2, Appends
<1>4. GatewayTypes'
  BY <1>1, <1>2, <1>3, LogFields DEF GatewayInv, GatewayTypes, GatewayPlaces, Ending, LogType,
     G!RecordKeys
<1>5. TtyOK' /\ EndsOK'
  BY <1>1, <1>2, <1>3, LogFields DEF GatewayInv, GatewayTypes, TtyOK, EndsOK, LogType,
     G!RecordKeys
<1>6. InputOK' /\ OutputOK'
  BY <1>1, <1>2, <1>3, LogFields DEF GatewayInv, GatewayTypes, InputOK, OutputOK, TtyOK,
     Ending, LogType, G!RecordKeys
<1>7. ScreenOK'
  BY <1>1, <1>2, <1>3, LogFields, Bounds DEF GatewayInv, GatewayTypes, ScreenOK, TtyOK,
     GatewayPlaces, Ending, LogType, G!RecordKeys
<1>8. QED
  BY <1>4, <1>5, <1>6, <1>7 DEF GatewayInv

LEMMA RecordInputStep ==
    ASSUME GatewayInv, G!RecordInput
    PROVE  GatewayInv'
<1>1. /\ logged \in LogType /\ mode \in {"pty", "batch"}
      /\ UNCHANGED <<mode, typed, open, arrived, child, inbox, outbox, printed, forwarded, shown,
                     broken, todo, leaving, stable, dirty, idle, quieted, signals>>
  BY DEF GatewayInv, GatewayTypes, LogType, G!RecordInput, G!outside, G!pty, G!screens
<1>2. PICK after : after = ("forward") /\ G!Append("in", after)
  BY DEF G!RecordInput
<1>3. \/ /\ broken /\ logged' = logged
         /\ pc' \in {"restore", "finish", "exit"}
         /\ mode = "pty" /\ pc # "finish" => pc' = "restore"
         /\ mode # "pty" /\ pc = "out" => pc' = "finish"
         /\ mode # "pty" /\ pc # "out" => pc' = "exit"
         /\ pc = "finish" => pc' = "exit"
      \/ /\ ~broken /\ pc' = after
         /\ logged' \in LogType
         /\ logged'.start = logged.start + (IF "in" = "start" THEN 1 ELSE 0)
         /\ logged'.det = logged.det + (IF "in" = "det" THEN 1 ELSE 0)
         /\ logged'.in = logged.in + (IF "in" = "in" THEN 1 ELSE 0)
         /\ logged'.out = logged.out + (IF "in" = "out" THEN 1 ELSE 0)
         /\ logged'.end = logged.end + (IF "in" = "end" THEN 1 ELSE 0)
  BY <1>1, <1>2, Appends
<1>4. GatewayTypes'
  BY <1>1, <1>2, <1>3, LogFields DEF GatewayInv, GatewayTypes, GatewayPlaces, Ending, LogType,
     G!RecordInput
<1>5. TtyOK' /\ EndsOK'
  BY <1>1, <1>2, <1>3, LogFields DEF GatewayInv, GatewayTypes, TtyOK, EndsOK, LogType,
     G!RecordInput
<1>6. InputOK' /\ OutputOK'
  BY <1>1, <1>2, <1>3, LogFields DEF GatewayInv, GatewayTypes, InputOK, OutputOK, TtyOK,
     Ending, LogType, G!RecordInput
<1>7. ScreenOK'
  BY <1>1, <1>2, <1>3, LogFields, Bounds DEF GatewayInv, GatewayTypes, ScreenOK, TtyOK,
     GatewayPlaces, Ending, LogType, G!RecordInput
<1>8. QED
  BY <1>4, <1>5, <1>6, <1>7 DEF GatewayInv

LEMMA ForwardStep ==
    ASSUME GatewayInv, G!Forward
    PROVE  GatewayInv'
<1>1. GatewayTypes'
  BY DEF GatewayInv, GatewayTypes, GatewayPlaces, Ending, G!Forward, G!Alive, G!outside, G!pty,
     G!screens
<1>2. TtyOK' /\ EndsOK'
  BY DEF GatewayInv, GatewayTypes, TtyOK, EndsOK, G!Forward, G!Alive, G!outside, G!pty,
     G!screens
<1>3. InputOK' /\ OutputOK'
  BY DEF GatewayInv, GatewayTypes, InputOK, OutputOK, TtyOK, Ending, G!Forward, G!Alive,
     G!outside, G!pty, G!screens
<1>4. ScreenOK'
  BY Bounds DEF GatewayInv, GatewayTypes, ScreenOK, TtyOK, GatewayPlaces, Ending, G!Forward,
     G!Alive, G!outside, G!pty, G!screens
<1>5. QED
  BY <1>1, <1>2, <1>3, <1>4 DEF GatewayInv

LEMMA RecordOutputStep ==
    ASSUME GatewayInv, G!RecordOutput
    PROVE  GatewayInv'
<1>1. /\ logged \in LogType /\ mode \in {"pty", "batch"}
      /\ UNCHANGED <<mode, typed, open, arrived, child, inbox, outbox, printed, forwarded, shown,
                     broken, todo, leaving, stable, dirty, idle, quieted, signals>>
  BY DEF GatewayInv, GatewayTypes, LogType, G!RecordOutput, G!outside, G!pty, G!screens
<1>2. PICK after : after = (IF mode = "pty" THEN "serve" ELSE "finish") /\ G!Append("out", after)
  BY DEF G!RecordOutput
<1>3. \/ /\ broken /\ logged' = logged
         /\ pc' \in {"restore", "finish", "exit"}
         /\ mode = "pty" /\ pc # "finish" => pc' = "restore"
         /\ mode # "pty" /\ pc = "out" => pc' = "finish"
         /\ mode # "pty" /\ pc # "out" => pc' = "exit"
         /\ pc = "finish" => pc' = "exit"
      \/ /\ ~broken /\ pc' = after
         /\ logged' \in LogType
         /\ logged'.start = logged.start + (IF "out" = "start" THEN 1 ELSE 0)
         /\ logged'.det = logged.det + (IF "out" = "det" THEN 1 ELSE 0)
         /\ logged'.in = logged.in + (IF "out" = "in" THEN 1 ELSE 0)
         /\ logged'.out = logged.out + (IF "out" = "out" THEN 1 ELSE 0)
         /\ logged'.end = logged.end + (IF "out" = "end" THEN 1 ELSE 0)
  BY <1>1, <1>2, Appends
<1>4. GatewayTypes'
  BY <1>1, <1>2, <1>3, LogFields DEF GatewayInv, GatewayTypes, GatewayPlaces, Ending, LogType,
     G!RecordOutput
<1>5. TtyOK' /\ EndsOK'
  BY <1>1, <1>2, <1>3, LogFields DEF GatewayInv, GatewayTypes, TtyOK, EndsOK, LogType,
     G!RecordOutput
<1>6. InputOK' /\ OutputOK'
  BY <1>1, <1>2, <1>3, LogFields DEF GatewayInv, GatewayTypes, InputOK, OutputOK, TtyOK,
     Ending, LogType, G!RecordOutput
<1>7. ScreenOK'
  BY <1>1, <1>2, <1>3, LogFields, Bounds DEF GatewayInv, GatewayTypes, ScreenOK, TtyOK,
     GatewayPlaces, Ending, LogType, G!RecordOutput
<1>8. QED
  BY <1>4, <1>5, <1>6, <1>7 DEF GatewayInv

LEMMA CheckpointInLoopStep ==
    ASSUME GatewayInv, G!Checkpoint("check", FALSE, "poll")
    PROVE  GatewayInv'
<1>1. GatewayTypes'
  BY DEF GatewayInv, GatewayTypes, GatewayPlaces, Ending, G!Checkpoint, G!outside, G!pty, G!screens
<1>2. TtyOK' /\ EndsOK'
  BY DEF GatewayInv, GatewayTypes, TtyOK, EndsOK, G!Checkpoint, G!outside, G!pty, G!screens
<1>3. InputOK' /\ OutputOK'
  BY DEF GatewayInv, GatewayTypes, InputOK, OutputOK, TtyOK, Ending, G!Checkpoint,
     G!outside, G!pty, G!screens
<1>4. ScreenOK'
  BY Bounds DEF GatewayInv, GatewayTypes, ScreenOK, TtyOK, GatewayPlaces, Ending, G!Checkpoint,
     G!outside, G!pty, G!screens
<1>5. QED
  BY <1>1, <1>2, <1>3, <1>4 DEF GatewayInv

LEMMA CheckpointAtEndStep ==
    ASSUME GatewayInv, G!Checkpoint("last", TRUE, "restore")
    PROVE  GatewayInv'
<1>1. GatewayTypes'
  BY DEF GatewayInv, GatewayTypes, GatewayPlaces, Ending, G!Checkpoint, G!outside, G!pty, G!screens
<1>2. TtyOK' /\ EndsOK'
  BY DEF GatewayInv, GatewayTypes, TtyOK, EndsOK, G!Checkpoint, G!outside, G!pty, G!screens
<1>3. InputOK' /\ OutputOK'
  BY DEF GatewayInv, GatewayTypes, InputOK, OutputOK, TtyOK, Ending, G!Checkpoint,
     G!outside, G!pty, G!screens
<1>4. ScreenOK'
  BY Bounds DEF GatewayInv, GatewayTypes, ScreenOK, TtyOK, GatewayPlaces, Ending, G!Checkpoint,
     G!outside, G!pty, G!screens
<1>5. QED
  BY <1>1, <1>2, <1>3, <1>4 DEF GatewayInv

LEMMA RestoreStep ==
    ASSUME GatewayInv, G!Restore
    PROVE  GatewayInv'
<1>1. GatewayTypes'
  BY DEF GatewayInv, GatewayTypes, GatewayPlaces, Ending, G!Restore, G!outside, G!pty, G!screens
<1>2. TtyOK' /\ EndsOK'
  BY DEF GatewayInv, GatewayTypes, TtyOK, EndsOK, G!Restore, G!outside, G!pty, G!screens
<1>3. InputOK' /\ OutputOK'
  BY DEF GatewayInv, GatewayTypes, InputOK, OutputOK, TtyOK, Ending, G!Restore, G!outside,
     G!pty, G!screens
<1>4. ScreenOK'
  BY Bounds DEF GatewayInv, GatewayTypes, ScreenOK, TtyOK, GatewayPlaces, Ending, G!Restore,
     G!outside, G!pty, G!screens
<1>5. QED
  BY <1>1, <1>2, <1>3, <1>4 DEF GatewayInv

LEMMA ReapStep ==
    ASSUME GatewayInv, G!Reap
    PROVE  GatewayInv'
<1>1. GatewayTypes'
  BY DEF GatewayInv, GatewayTypes, GatewayPlaces, Ending, G!Reap, G!outside, G!pty, G!screens
<1>2. TtyOK' /\ EndsOK'
  BY DEF GatewayInv, GatewayTypes, TtyOK, EndsOK, G!Reap, G!outside, G!pty, G!screens
<1>3. InputOK' /\ OutputOK'
  BY DEF GatewayInv, GatewayTypes, InputOK, OutputOK, TtyOK, Ending, G!Reap, G!outside,
     G!pty, G!screens
<1>4. ScreenOK'
  BY Bounds DEF GatewayInv, GatewayTypes, ScreenOK, TtyOK, GatewayPlaces, Ending, G!Reap,
     G!outside, G!pty, G!screens
<1>5. QED
  BY <1>1, <1>2, <1>3, <1>4 DEF GatewayInv

LEMMA FinishStep ==
    ASSUME GatewayInv, G!Finish
    PROVE  GatewayInv'
<1>1. /\ logged \in LogType /\ mode \in {"pty", "batch"}
      /\ UNCHANGED <<mode, typed, open, arrived, child, inbox, outbox, printed, forwarded, shown,
                     broken, todo, leaving, stable, dirty, idle, quieted, signals>>
  BY DEF GatewayInv, GatewayTypes, LogType, G!Finish, G!outside, G!pty, G!screens
<1>2. PICK after : after = ("exit") /\ G!Append("end", after)
  BY DEF G!Finish
<1>3. \/ /\ broken /\ logged' = logged
         /\ pc' \in {"restore", "finish", "exit"}
         /\ mode = "pty" /\ pc # "finish" => pc' = "restore"
         /\ mode # "pty" /\ pc = "out" => pc' = "finish"
         /\ mode # "pty" /\ pc # "out" => pc' = "exit"
         /\ pc = "finish" => pc' = "exit"
      \/ /\ ~broken /\ pc' = after
         /\ logged' \in LogType
         /\ logged'.start = logged.start + (IF "end" = "start" THEN 1 ELSE 0)
         /\ logged'.det = logged.det + (IF "end" = "det" THEN 1 ELSE 0)
         /\ logged'.in = logged.in + (IF "end" = "in" THEN 1 ELSE 0)
         /\ logged'.out = logged.out + (IF "end" = "out" THEN 1 ELSE 0)
         /\ logged'.end = logged.end + (IF "end" = "end" THEN 1 ELSE 0)
  BY <1>1, <1>2, Appends
<1>4. GatewayTypes'
  BY <1>1, <1>2, <1>3, LogFields DEF GatewayInv, GatewayTypes, GatewayPlaces, Ending, LogType,
     G!Finish
<1>5. TtyOK' /\ EndsOK'
  BY <1>1, <1>2, <1>3, LogFields DEF GatewayInv, GatewayTypes, TtyOK, EndsOK, LogType,
     G!Finish
<1>6. InputOK' /\ OutputOK'
  BY <1>1, <1>2, <1>3, LogFields DEF GatewayInv, GatewayTypes, InputOK, OutputOK, TtyOK,
     Ending, LogType, G!Finish
<1>7. ScreenOK'
  BY <1>1, <1>2, <1>3, LogFields, Bounds DEF GatewayInv, GatewayTypes, ScreenOK, TtyOK,
     GatewayPlaces, Ending, LogType, G!Finish
<1>8. QED
  BY <1>4, <1>5, <1>6, <1>7 DEF GatewayInv

-----------------------------------------------------------------------------
(* The invariant, and what it says of the log.                             *)

LEMMA GatewayStep ==
    ASSUME GatewayInv, [G!Next]_(G!vars)
    PROVE  GatewayInv'
<1>1. CASE G!World
  BY <1>1, TypeStep, HangUpStep, ChildPrintsStep, ConsumeStep, ChildExitsStep, TickStep,
     SinkBreaksStep, SignalStep
  DEF G!World
<1>2. CASE G!Gateway
  BY <1>2, SpawnStep, InstallStep, FirstStep, TypedStep, LoopStep, SelectStep,
     ServeStdinStep, ServePtyStep, ServedStep, RecordKeysStep, RecordInputStep, ForwardStep,
     RecordOutputStep, CheckpointInLoopStep, CheckpointAtEndStep, RestoreStep, ReapStep,
     FinishStep
  DEF G!Gateway
<1>3. CASE UNCHANGED G!vars
  BY <1>3 DEF G!vars, G!outside, G!pty, G!screens, GatewayInv, GatewayTypes, TtyOK,
     InputOK, OutputOK, EndsOK, ScreenOK
<1>4. QED
  BY <1>1, <1>2, <1>3 DEF G!Next

LEMMA GatewayInvariant == G!Spec => []GatewayInv
BY GatewayInit, GatewayStep, PTL DEF G!Spec

\* The child is given no input that the log does not have with its keys, the
\* user sees no more than one piece of output that it does not have, a session
\* that ends by itself leaves a log with all it showed, and the screens that
\* inputs are recorded with stood still (TerminalGateway.run).
THEOREM RecordHolds == G!Spec => []RecordIsTrue
<1>1. ASSUME GatewayInv PROVE G!NothingUnrecorded
  <2>1. /\ forwarded <= logged.in /\ logged.in <= logged.det /\ logged.det <= logged.in + 1
        /\ logged.out <= shown /\ shown <= logged.out + 1
    BY <1>1, LogFields DEF GatewayInv, GatewayTypes, InputOK, OutputOK, Ending, LogType
  <2>2. pc = "exit" /\ ~broken => /\ logged.start <= logged.end
                                 /\ (signals = 0 => logged.out = shown)
    BY <1>1, LogFields DEF GatewayInv, GatewayTypes, OutputOK, EndsOK, LogType
  <2>3. QED
    BY <2>1, <2>2 DEF G!NothingUnrecorded
<1>2. ASSUME GatewayInv PROVE G!ScreenWasQuiet
  BY <1>2 DEF GatewayInv, GatewayTypes, ScreenOK, G!ScreenWasQuiet, G!Guarded, GatewayPlaces,
     Ending
<1>3. GatewayInv => RecordIsTrue
  BY <1>1, <1>2 DEF RecordIsTrue, G!RecordIsTrue
<1>4. QED
  BY <1>3, GatewayInvariant, PTL

=============================================================================
