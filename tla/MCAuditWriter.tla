--------------------------- MODULE MCAuditWriter ---------------------------
(* AuditWriter on small instances, and what a reader makes of its files.   *)
EXTENDS AuditWriterInv, AuditVerifier

\* The writers are interchangeable.
Swap == Permutations(Writers)

\* A file as the verifier reads it: an unterminated piece is one more line.
Contents ==
    [f \in File |-> IF f \in torn THEN Append(disk[f], Unparsable) ELSE disk[f]]

\* verify_log raises exactly when the chain is broken, a line is damaged or a
\* closed part was written again - whatever failures produced the files.
VerifierAgrees ==
    VerifyLog(Contents, manifest, None) <=>
        /\ ChainOK
        /\ torn = {}
        /\ ManifestsOK

=============================================================================
