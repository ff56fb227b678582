------------------------------ MODULE Evidence ------------------------------
(***************************************************************************)
(* The evidence bundle of a run (dakota_gateway/evidence_bundle.py): built *)
(* from the trails that the replay observed, which may still be written,   *)
(* and from the rows of the run; then, on its own, verified.  Between the  *)
(* two a file may be damaged, lost or added.                               *)
(*                                                                         *)
(* A trail is a part and its manifest: how many lines it holds, whether the*)
(* last one is torn, and the number of lines its manifest names.           *)
(***************************************************************************)
EXTENDS Naturals, FiniteSets

CONSTANTS Sessions,      \* the sessions of the run
          MaxLines,      \* bound: the lines of a trail
          MaxFailures    \* bound: the failures of the run

VARIABLES trail,         \* the trails that the replay writes
          failures,      \* the rows of replay_failures
          row,           \* the times in the row of the run
          bundle, gaps,  \* what the builder has made so far
          todo, current, pc, \* the sessions to copy, the one being copied
          manifest,      \* the files that the manifest of the bundle names, as they were
          damaged, verdict

source == <<trail, failures, row>>
build == <<bundle, gaps, todo, current, pc, manifest>>
vars == <<source, build, damaged, verdict>>

\* The gap of a run that was never observed is no session.
EvidenceAssumption ==
    MaxLines \in Nat /\ MaxFailures \in Nat /\ "no_observed_trails" \notin Sessions

\* What the two times of the row say: "resumed" is a run that had finished and
\* was started again, its start behind its old end.
Times == {"never", "started", "finished", "resumed"}

Open == MaxLines + 1
NoTrail == [lines |-> 0, torn |-> FALSE, manifest |-> Open]
Nobody == [session |-> "nobody", manifest |-> FALSE]

\* verify_log of a trail: every line is whole, and a manifest names them all.
Verifies(t) == ~t.torn /\ t.manifest \in {Open, t.lines}

Init ==
    /\ trail = [s \in Sessions |-> NoTrail]
    /\ failures = 0 /\ row = "never"
    /\ bundle = [trails |-> <<>>, results |-> <<>>, failures |-> 0, summary |-> 0,
                 row |-> "never"]
    /\ gaps = {} /\ todo = {} /\ current = Nobody /\ pc = "run"
    /\ manifest = [listed |-> {}, trails |-> <<>>, failures |-> 0, row |-> "never"]
    /\ damaged = "no"
    /\ verdict = "none"

-----------------------------------------------------------------------------
(* The replay, external to the bundle.                                     *)

\* A line reaches the file in one piece or in two.
Write(s) ==
    /\ trail[s].manifest = Open /\ pc # "exported"
    /\ \/ /\ ~trail[s].torn /\ trail[s].lines < MaxLines
          /\ \E torn \in BOOLEAN :
                trail' = [trail EXCEPT ![s].lines = @ + 1, ![s].torn = torn]
       \/ trail[s].torn /\ trail' = [trail EXCEPT ![s].torn = FALSE]
    /\ UNCHANGED <<failures, row, build, damaged, verdict>>

Finish(s) ==
    /\ trail[s].manifest = Open /\ ~trail[s].torn /\ trail[s].lines > 0 /\ pc # "exported"
    /\ trail' = [trail EXCEPT ![s].manifest = trail[s].lines]
    /\ UNCHANGED <<failures, row, build, damaged, verdict>>

Fail ==
    /\ failures < MaxFailures /\ pc # "exported"
    /\ failures' = failures + 1
    /\ UNCHANGED <<trail, row, build, damaged, verdict>>

\* A run that had finished keeps its end when it is started again; within the
\* same millisecond the row is that of a run that finished.
Start ==
    /\ row \in {"never", "finished"} /\ pc # "exported"
    /\ row' = IF row = "never" THEN "started" ELSE "resumed"
    /\ UNCHANGED <<trail, failures, build, damaged, verdict>>

\* The end of the run, or of one that never started.
End ==
    /\ row # "finished" /\ pc # "exported"
    /\ row' = "finished"
    /\ UNCHANGED <<trail, failures, build, damaged, verdict>>

-----------------------------------------------------------------------------
(* build_run_evidence_bundle.                                              *)

\* The row of the run, whatever its status, and the sessions that have a part
\* now; none at all is a gap only when the run has no directory to look in.
Begin ==
    /\ pc = "run"
    /\ \E exists \in BOOLEAN :
          /\ ~exists => \A s \in Sessions : trail[s] = NoTrail
          /\ todo' = {s \in Sessions : trail[s].lines > 0}
          /\ gaps' = IF exists THEN gaps ELSE gaps \cup {"no_observed_trails"}
    /\ bundle' = [bundle EXCEPT !.row = row]
    /\ pc' = "next"
    /\ UNCHANGED <<source, current, manifest, damaged, verdict>>

With(f, s, v) == [x \in DOMAIN f \cup {s} |-> IF x = s THEN v ELSE f[x]]

\* The files of a session are listed, then copied one after the other, the part
\* first.
List ==
    /\ pc = "next"
    /\ \E s \in todo : current' = [session |-> s, manifest |-> trail[s].manifest # Open]
    /\ pc' = "part"
    /\ UNCHANGED <<source, bundle, gaps, todo, manifest, damaged, verdict>>

CopyPart ==
    /\ pc = "part"
    /\ LET s == current.session
       IN bundle' = [bundle EXCEPT !.trails = With(@, s, [trail[s] EXCEPT !.manifest = Open])]
    /\ pc' = "manifest"
    /\ UNCHANGED <<source, gaps, todo, current, manifest, damaged, verdict>>

\* As if what is verified were the trail that goes on being written.
VerifySource(s, copied) == Verifies(trail[s])

VerifyCopy(s, copied) == Verifies(copied)

\* A manifest that came after the listing is not copied.  The copy is verified,
\* and its failure is a gap.
CopyManifest ==
    /\ pc = "manifest"
    /\ LET s == current.session
           named == IF current.manifest THEN trail[s].manifest ELSE Open
           copied == [bundle.trails[s] EXCEPT !.manifest = named]
           ok == VerifyCopy(s, copied)
       IN  /\ bundle' = [bundle EXCEPT !.trails = With(@, s, copied),
                                       !.results = With(@, s, ok)]
           /\ gaps' = IF ok THEN gaps ELSE gaps \cup {s}
           /\ todo' = todo \ {s}
    /\ current' = Nobody
    /\ pc' = "next"
    /\ UNCHANGED <<source, manifest, damaged, verdict>>

\* The rows are read once, and the summary is counted from them.
ReadFailures ==
    /\ pc = "next" /\ todo = {}
    /\ bundle' = [bundle EXCEPT !.failures = failures, !.summary = failures]
    /\ pc' = "write"
    /\ UNCHANGED <<source, gaps, todo, current, manifest, damaged, verdict>>

WriteManifest ==
    /\ pc = "write"
    /\ manifest' = [listed |-> DOMAIN bundle.trails, trails |-> bundle.trails,
                    failures |-> bundle.failures, row |-> bundle.row]
    /\ pc' = "exported"
    /\ UNCHANGED <<source, bundle, gaps, todo, current, damaged, verdict>>

-----------------------------------------------------------------------------
(* On its way a file of the bundle changes.                                *)

Damage ==
    /\ pc = "exported" /\ damaged = "no" /\ verdict = "none"
    /\ \/ \E s \in DOMAIN bundle.trails :
             /\ bundle' = [bundle EXCEPT !.trails[s].lines = @ - 1]
             /\ damaged' = "cut"
       \/ \E s \in DOMAIN bundle.trails :
             /\ bundle' = [bundle EXCEPT !.trails = [x \in DOMAIN @ \ {s} |-> @[x]]]
             /\ damaged' = "lost"
       \/ \E s \in Sessions \ DOMAIN bundle.trails :
             /\ bundle' = [bundle EXCEPT !.trails = With(@, s, [NoTrail EXCEPT !.lines = 1])]
             /\ damaged' = "added"
       \/ /\ bundle' = [bundle EXCEPT !.failures = @ + 1]
          /\ damaged' = "failures"
       \/ /\ \E other \in Times \ {bundle.row} : bundle' = [bundle EXCEPT !.row = other]
          /\ damaged' = "row"
    /\ UNCHANGED <<source, gaps, todo, current, pc, manifest, verdict>>

\* verify_evidence_bundle.
ListedChanged ==
    \/ \E s \in manifest.listed :
          s \notin DOMAIN bundle.trails \/ bundle.trails[s] # manifest.trails[s]
    \/ bundle.row # manifest.row
Extra == DOMAIN bundle.trails \ manifest.listed # {}
Backdated == bundle.row = "resumed"
Inconsistent == bundle.summary # bundle.failures \/ bundle.failures # manifest.failures
Unlisted == manifest.listed = {} /\ "no_observed_trails" \notin gaps
TrailFails(s) == s \in DOMAIN bundle.trails /\ ~Verifies(bundle.trails[s])
Disagrees(s) == s \in DOMAIN bundle.trails /\ bundle.results[s] # Verifies(bundle.trails[s])

Verify ==
    /\ pc = "exported" /\ verdict = "none"
    /\ verdict' = IF \/ ListedChanged \/ Extra \/ Backdated \/ Inconsistent \/ Unlisted
                     \/ \E s \in manifest.listed : TrailFails(s) \/ Disagrees(s)
                    THEN "INVALID" ELSE "VALID"
    /\ UNCHANGED <<source, build, damaged>>

Next ==
    \/ \E s \in Sessions : Write(s) \/ Finish(s)
    \/ Fail \/ Start \/ End
    \/ Begin \/ List \/ CopyPart \/ CopyManifest \/ ReadFailures \/ WriteManifest
    \/ Damage \/ Verify

Spec == Init /\ [][Next]_vars

-----------------------------------------------------------------------------
(* Properties.                                                             *)

\* A file changed, lost or added since the export is found.
DamageIsFound == damaged # "no" => verdict # "VALID"

\* A bundle that nothing happened to is valid exactly when no trail is in its
\* gaps, taken while it was written; the two other cases in which it is not
\* have no gap that says so (README, Findings): a run that has a directory and
\* no trail in it, and a finished run that was started again.
GapsAreHonest ==
    damaged = "no" /\ verdict # "none" =>
        (verdict = "VALID" <=> gaps \cap Sessions = {} /\ ~Unlisted /\ ~Backdated)

\* What the export calls verified is whole in the bundle, whatever the replay
\* wrote since.
VerifiedIsWhole ==
    pc = "exported" /\ damaged = "no" =>
        \A s \in DOMAIN bundle.results :
            bundle.results[s] => ~bundle.trails[s].torn /\ bundle.trails[s].lines <= trail[s].lines

EvidenceStands == DamageIsFound /\ GapsAreHonest /\ VerifiedIsWhole
=============================================================================
