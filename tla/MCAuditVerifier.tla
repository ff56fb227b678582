-------------------------- MODULE MCAuditVerifier --------------------------
(* The writers and the reader of their log, for TLC.  calm is drawn once:  *)
(* with it no failure happens and the clock tells the log and audit.state  *)
(* apart, without it every failure of Faults may.                          *)
EXTENDS MCAuditWriter

CONSTANT FaultySigned  \* bound: signatures made where failures happen

VARIABLE calm

CalmNext ==
    \E w \in Writers :
        \/ \E n \in 1..MaxBatch : Begin(w, n)
        \/ Reject(w)
        \/ OpenLog(w) /\ created' \ created \subseteq fresher'
        \/ Rotate(w) /\ UNCHANGED <<disk, torn>>
        \/ WriteLine(w) /\ fh[w] \in fresher'
        \/ Save(w)
        \/ Close(w)

MCInit == calm \in BOOLEAN /\ Init
MCNext == UNCHANGED calm /\ (IF calm THEN CalmNext ELSE Next /\ signed' <= FaultySigned)
MCSpec == MCInit /\ [][MCNext]_<<calm, vars>>

\* While nothing fails the chain is whole and a file with a manifest is not
\* written any more, wherever a batch crosses from one part into the next and
\* whichever process goes on with it (_maybe_rotate_locked, EnsureState).
RotationIsClean == calm => ChainOK /\ ManifestsOK

=============================================================================
