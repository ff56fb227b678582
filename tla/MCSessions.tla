---------------------------- MODULE MCSessions -----------------------------
(***************************************************************************)
(* What drives a terminal session on either side, for TLC: the executors of*)
(* a replay and the gateway that records.  They share no state, so one run *)
(* takes them in turn: turn is drawn once, the part it names moves and the *)
(* other stays as it began.                                                *)
(***************************************************************************)
EXTENDS ReplayExecutors

CONSTANTS Quiet, InRoom, OutRoom,            \* TerminalGateway
          MaxTyped, MaxPrinted, MaxSignals   \* TerminalGateway: bounds

VARIABLES turn,
          mode, pc, typed, open, child, inbox, outbox, printed, forwarded, shown,
          logged, broken, todo, leaving, stable, dirty, idle, signals, arrived,
          quieted

ofExecutors == <<params, seen, stop, reason, lock, sess, told, main, late>>
ofGateway == <<mode, pc, typed, open, child, inbox, outbox, printed, forwarded,
               shown, logged, broken, todo, leaving, stable, dirty, idle, signals,
               arrived, quieted>>

G == INSTANCE TerminalGateway

ASSUME SessionsAssumption == G!GatewayAssumption

all == <<turn, ofExecutors, ofGateway>>

Parts == {"executors", "gateway"}

MCInit ==
    /\ turn \in Parts
    /\ Init /\ G!Init
    /\ turn # "executors" => params = CHOOSE p \in Params : TRUE
    /\ turn # "gateway" => mode = "pty"

MCNext ==
    /\ UNCHANGED turn
    /\ \/ /\ turn = "executors" /\ Next
          /\ UNCHANGED <<ofGateway>>
       \/ /\ turn = "gateway" /\ G!Next
          /\ UNCHANGED <<ofExecutors>>

MCSpec == MCInit /\ [][MCNext]_all

\* The fairness of FairSpec in ReplayExecutors and in TerminalGateway.
MCFairSpec ==
    /\ MCSpec
    /\ WF_all(/\ UNCHANGED turn
              /\ \/ turn = "executors" /\ Main /\ UNCHANGED ofGateway
                 \/ turn = "gateway" /\ G!Gateway /\ UNCHANGED ofExecutors)
    /\ WF_all(turn = "gateway" /\ G!Consume /\ UNCHANGED <<turn, ofExecutors>>)
    /\ \A s \in Sessions :
          WF_all(turn = "executors" /\ Session(s) /\ UNCHANGED <<turn, ofGateway>>)

-----------------------------------------------------------------------------
\* The properties of the parts, by the names the configuration needs.
RecordIsTrue == G!RecordIsTrue

\* Executors end and sessions of the gateway end: no thread, child or lock
\* keeps one waiting for ever.
SessionsEnd ==
    /\ turn = "executors" => Ends
    /\ turn = "gateway" => G!SessionEnds

=============================================================================
