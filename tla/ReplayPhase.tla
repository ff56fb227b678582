---------------------------- MODULE ReplayPhase ----------------------------
(***************************************************************************)
(* What the thread of a run relies on while an executor replays: events of *)
(* the trail go out to the target, the executor ends once, and nothing     *)
(* goes out from then on; it reports a cancel only when check has read one.*)
(***************************************************************************)
EXTENDS Naturals

VARIABLES seen,     \* what check read last: "go", "pause" or "cancel"
          outcome,  \* "replaying", "returned", "cancelled" or "failed"
          progress  \* events left behind, none of them in a pending batch

vars == <<seen, outcome, progress>>

Init ==
    /\ seen = "go"
    /\ outcome = "replaying"
    /\ progress = 0

\* A cancel that was read once stays.
Poll ==
    /\ seen # "cancel"
    /\ seen' \in {"go", "pause", "cancel"}
    /\ UNCHANGED <<outcome, progress>>

Advance ==
    /\ outcome = "replaying"
    /\ progress' \in Nat
    /\ progress' > progress
    /\ UNCHANGED <<seen, outcome>>

End ==
    /\ outcome = "replaying"
    /\ outcome' \in {"returned", "failed"} \cup (IF seen = "cancel" THEN {"cancelled"} ELSE {})
    /\ UNCHANGED <<seen, progress>>

Next == Poll \/ Advance \/ End

Spec == Init /\ [][Next]_vars

=============================================================================
