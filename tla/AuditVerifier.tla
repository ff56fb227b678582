--------------------------- MODULE AuditVerifier ---------------------------
(***************************************************************************)
(* verify_log and verify_manifests (dakota_gateway/verifier.py): one pass  *)
(* over the files in name order with a running seq_global and prev_hash.   *)
(* contents is the sequence of the files, each the sequence of its lines;  *)
(* a line that is not JSON is Unparsable.  Recomputing hash and hmac of a  *)
(* line is comparing a value with itself here: signatures are unforged.    *)
(***************************************************************************)
EXTENDS Naturals, Sequences, SequencesExt

Unparsable == [seq |-> 0, prev |-> 0, hash |-> 0]

\* The running state of the pass; ok becomes FALSE where the code raises.
Start == [expected |-> 1, prev |-> 0, ok |-> TRUE]

CheckLine(acc, line) ==
    [expected |-> acc.expected + 1,
     prev     |-> line.hash,
     ok       |-> /\ acc.ok
                  /\ line # Unparsable
                  /\ line.seq = acc.expected
                  /\ line.prev = acc.prev]

\* As if the pass started again in every file.
CheckChainPerFile(contents) ==
    \A f \in DOMAIN contents : FoldLeft(CheckLine, Start, contents[f]).ok

CheckChain(contents) == FoldLeft(CheckLine, Start, FlattenSeq(contents)).ok

\* The statistics a manifest records and the verifier accumulates again; the
\* content stands for file_sha256, the other fields skip lines without a seq.
FileStats(lines) ==
    LET events == SelectSeq(lines, LAMBDA line : line.seq # 0)
    IN [sha   |-> lines,
        first |-> IF events = <<>> THEN Unparsable ELSE Head(events),
        last  |-> IF events = <<>> THEN Unparsable ELSE Last(events)]

\* manifests[f] is the content f had when its manifest was written, or none.
CheckManifests(contents, manifests, none) ==
    \A f \in DOMAIN manifests :
        manifests[f] # none => FileStats(manifests[f]) = FileStats(contents[f])

VerifyLog(contents, manifests, none) ==
    CheckChain(contents) /\ CheckManifests(contents, manifests, none)

=============================================================================
