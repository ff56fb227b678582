---------------------------- MODULE MCServices -----------------------------
(***************************************************************************)
(* The two services others wait for, for TLC: the capture daemon, whose    *)
(* clients wait for an answer, and the runner, whose operators wait for a  *)
(* run to start or to end.  They share no state, so one run takes them in  *)
(* turn: turn is drawn once, the part it names moves and the other stays   *)
(* as it began.                                                            *)
(***************************************************************************)
EXTENDS CaptureDaemon

CONSTANTS MaxRuns, Threads, Handlers, Ops, LifeFaults  \* RunLifecycle

VARIABLES turn, status, rejected, parent, registry, runner, request, unserved

ofDaemon == vars
ofLife == <<status, rejected, parent, registry, runner, request, unserved>>
all == <<turn, ofDaemon, ofLife>>

R == INSTANCE RunLifecycle WITH thread <- runner, Faults <- LifeFaults

ASSUME R!LifecycleAssumption

MCInit == turn \in {"daemon", "life"} /\ Init /\ R!Init

InDaemon(A) == turn = "daemon" /\ A /\ UNCHANGED <<turn, ofLife>>
InLife(A) == turn = "life" /\ A /\ UNCHANGED <<turn, ofDaemon>>

\* The fairness of FairSpec in CaptureDaemon and in RunLifecycle.
MCSpec ==
    /\ MCInit
    /\ [][InDaemon(Next) \/ InLife(R!Next)]_all
    /\ \A x \in Conn : WF_all(InDaemon(Handler(x)))
    /\ WF_all(InDaemon(Writer))
    /\ WF_all(InDaemon(Shutdown))
    /\ \A h \in Handlers : WF_all(InLife(R!Handle(h)))
    /\ \A t \in Threads : WF_all(InLife(R!Advance(t)))

-----------------------------------------------------------------------------
\* The properties of the runner, by the names the configuration needs.
CancelEndsReplay == R!CancelEndsReplay
RunningIsReplayed == R!RunningIsReplayed

=============================================================================
