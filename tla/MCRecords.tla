----------------------------- MODULE MCRecords -----------------------------
(***************************************************************************)
(* What is recorded and how it is read, for TLC: one process that writes   *)
(* one growing log and fails between any two steps, two processes that     *)
(* rotate the parts of a log under each other while it is verified, the    *)
(* screens that recorded output makes, the synthetic trail that a capture  *)
(* becomes, and the evidence bundle of a run.  These parts share no state, *)
(* so one run takes them in turn: turn is drawn once, the part it names    *)
(* moves and the others stay as they began.                                *)
(***************************************************************************)
EXTENDS MCAuditWriter

CONSTANTS Processes, PartLines, AllFaults, MaxParts,   \* the rotated log; bound: parts
          MaxEvents, MaxWritten, FaultySigned,         \* bounds: events of a batch, of the log
          Rows, Cols, Words, TabOrder, MaxWords,       \* TerminalEngine
          MinErpSeq,                                   \* SyntheticTrail
          Observed, TrailLines, RunFailures            \* Evidence

VARIABLES turn,
          calm, rdisk, rcreated, rmanifest, rtorn, rckpt, rfresher, rmemSt, rraw, rfh,
          rsize, rholder, rpc, rpending, rbatch, rbuffered, rsigned, racked,
          whole, bytes, player, shown, rest, fed,
          recorded, subs, entry, events, cursor, records, warned, tpc,
          trail, failures, row, bundle, gaps, todo, current, epc, exported, damaged, verdict

ofRotation == <<calm, rdisk, rcreated, rmanifest, rtorn, rckpt, rfresher, rmemSt, rraw,
                rfh, rsize, rholder, rpc, rpending, rbatch, rbuffered, rsigned, racked>>
ofScreen == <<whole, bytes, player, shown, rest, fed>>
ofTrail == <<recorded, subs, entry, events, cursor, records, warned, tpc>>
ofEvidence == <<trail, failures, row, bundle, gaps, todo, current, epc, exported, damaged,
                verdict>>

\* Text of every width, controls, and sequences: complete, cut short, cancelled.
RecordedWords ==
    {<<"x">>, <<"hi", "lo">>, <<"hi">>, <<"lf">>, <<"tab">>, <<"bs">>, <<"esc">>, <<"[">>,
     <<"esc", "D">>, <<"esc", "M">>, <<"esc", "c">>, <<"esc", "8">>, <<"esc", "(", "0">>,
     <<"esc", "[", "1", "m">>, <<"esc", "[", "J">>, <<"esc", "[", "1", "K">>,
     <<"esc", "[", "3", "2", "H">>, <<"esc", "[", "s">>, <<"esc", "[", "2", "3", "r">>,
     <<"esc", "[", "8", "1", "3", "t">>, <<"esc", "[", "8", "3", "3", "t">>,
     <<"esc", "]", "x", "bel">>, <<"esc", "]", "esc", "st">>, <<"esc", "]", "x">>}

\* No stop lies within the two or three columns here.
NoStops == <<>>

\* Sessions that fell into the shell, with and without the menu in front of it
\* and a terminal that says what it is, and sessions that began in the system.
Out(text) == [kind |-> "out", text |-> <<text>>, real |-> FALSE]
In(key) == [kind |-> "in", text |-> <<key>>, real |-> FALSE]
Det(keys, real) == [kind |-> "det", text |-> keys, real |-> real]
Opened == [kind |-> "start", text |-> <<>>, real |-> FALSE]
Preambles ==
    {<<Opened, Out("blank")>> \o a \o b \o c :
        a \in {<<>>, <<Out("wrapper"), In("id"), In("0"), Det(<<"0">>, TRUE)>>},
        b \in {<<Out("home")>>, <<Out("profile"), In("x"), Out("away")>>,
               <<Out("profile"), Det(<<"x">>, FALSE)>>},
        c \in {<<In("k")>>, <<In("k"), Out("home"), In("m")>>, <<Out("wrapper"), In("5")>>, <<>>}}
Screens(n) ==
    {<<Out("erp"), Out("draw")>> \o [i \in 1..n |-> Det(keys[i], TRUE)] :
        keys \in [1..n -> {<<"1">>, <<"2">>, <<"enter">>, <<"1", "2">>}]}
OddScreens ==
    {<<Out("erp"), Out("blank"), Det(<<"1">>, FALSE), Out("draw"), Det(<<"1">>, TRUE), Det(<<"2">>, TRUE)>>,
     <<Out("draw"), Det(<<"1">>, TRUE)>>, <<Out("erp"), Out("blank")>>}
Subs(originals, values) == [original : originals, value : values]
MCSessions ==
    {[recorded |-> <<Opened>>, subs |-> <<>>]}
    \cup
    [recorded : {p \o b : p \in Preambles, b \in Screens(2) \cup OddScreens},
     subs : {<<s>> : s \in Subs({<<"1", "2">>}, {<<"1">>, <<"7", "8", "9">>})}]
    \cup
    [recorded : {<<Opened>> \o b : b \in Screens(4)},
     subs : {<<s, t>> : s, t \in Subs({<<"1">>, <<"1", "2">>, <<"1", "1">>, <<"2", "1", "2">>},
                                     {<<>>, <<"1">>, <<"7", "8", "9">>})}]

R == INSTANCE MCAuditVerifier WITH
        Writers <- Processes, RotateLines <- PartLines, Faults <- AllFaults,
        MaxFiles <- MaxParts, MaxBatch <- MaxEvents, MaxSigned <- MaxWritten,
        disk <- rdisk, created <- rcreated, manifest <- rmanifest, torn <- rtorn,
        ckpt <- rckpt, fresher <- rfresher, memSt <- rmemSt, raw <- rraw, fh <- rfh,
        size <- rsize, holder <- rholder, pc <- rpc, pending <- rpending,
        batch <- rbatch, buffered <- rbuffered, signed <- rsigned, acked <- racked
T == INSTANCE TerminalEngine
S == INSTANCE SyntheticTrail WITH Sessions <- MCSessions, pc <- tpc
E == INSTANCE Evidence WITH Sessions <- Observed, MaxLines <- TrailLines,
        MaxFailures <- RunFailures, pc <- epc, manifest <- exported

\* The processes are interchangeable.
SwapProcesses == Permutations(Processes)

ASSUME RotationBounds == R!WriterAssumption
ASSUME T!EngineAssumption
ASSUME S!TrailAssumption
ASSUME EvidenceBounds == E!EvidenceAssumption

MCInit ==
    /\ turn \in {"one", "rotation", "screen", "trail", "evidence"}
    /\ turn # "rotation" => calm = TRUE
    /\ turn # "trail" => recorded = <<Opened>> /\ subs = <<>>
    /\ Init /\ R!MCInit /\ T!Init /\ S!Init /\ E!Init

MCNext ==
    /\ UNCHANGED turn
    /\ \/ /\ turn = "one"
          /\ UNCHANGED <<ofRotation, ofScreen, ofTrail, ofEvidence>>
          /\ Next
       \/ /\ turn = "rotation"
          /\ UNCHANGED <<vars, ofScreen, ofTrail, ofEvidence>>
          /\ R!MCNext
       \/ /\ turn = "screen"
          /\ UNCHANGED <<vars, ofRotation, ofTrail, ofEvidence>>
          /\ T!Next
       \/ /\ turn = "trail"
          /\ UNCHANGED <<vars, ofRotation, ofScreen, ofEvidence>>
          /\ S!Next
       \/ /\ turn = "evidence"
          /\ UNCHANGED <<vars, ofRotation, ofScreen, ofTrail>>
          /\ E!Next

MCSpec == MCInit /\ [][MCNext]_<<turn, vars, ofRotation, ofScreen, ofTrail, ofEvidence>>

-----------------------------------------------------------------------------
\* The properties of the parts, by the names the configuration needs: what
\* stays as it began is not looked at again.
ReaderAgrees == turn = "rotation" => R!VerifierAgrees
RotationIsClean == turn = "rotation" => R!RotationIsClean
ScreensFollow == turn = "screen" => T!ScreensFollow
EvidenceStands == turn = "evidence" => E!EvidenceStands
TrailIsFaithful == turn = "trail" => S!TrailIsFaithful

=============================================================================
