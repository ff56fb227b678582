--------------------------- MODULE AdaptiveReplay ---------------------------
(***************************************************************************)
(* One session under the adaptive policy (replay_control/executors.py,     *)
(* worker): typed characters are gathered into batches that leave in one   *)
(* write.  Beside it, as functions of the recorded trail: the evidence of  *)
(* type-ahead (synchronization.py), the plan of the scheduler and the      *)
(* tracker of shadow mode (adaptive_scheduler.py), which must agree on     *)
(* what may be batched.                                                    *)
(*                                                                         *)
(* An event of the trail has a kind and a time: a "key" is an input that   *)
(* may be batched, an "asked" one is compared with the screen first,       *)
(* "enter" stands for every barrier and "odd" for an unknown action, a     *)
(* "wait" has no bytes.                                                    *)
(***************************************************************************)
EXTENDS Integers, FiniteSets, SequencesExt

CONSTANTS Trails,    \* recorded sessions: sequences of events
          Loads,     \* load_params: the speed, and jitter_ms
          StableMs   \* silence after which the output was quiet

Kinds == {"out", "key", "asked", "enter", "odd", "wait", "checkpoint"}

AdaptiveAssumption ==
    /\ Trails \subseteq Seq([kind : Kinds, ts : Nat])
    /\ Loads \subseteq [speed : Nat \ {0}, jitter : Nat]
    /\ StableMs \in Nat

VARIABLES
    run,       \* what does not change: the trail, whether it is synthetic, or recorded
               \* and ended or cut off, and the load
    at,        \* events behind
    pending,   \* the batch
    converged, \* the wait before met the expected state
    diverged,  \* the guard saw a divergence and no resync since
    outcome,   \* "running", "done" or "failed"
    writes,    \* history: what each write carried
    skipped,   \* history: inputs that were not sent
    strayed    \* history: the guard saw a divergence

vars == <<run, at, pending, converged, diverged, outcome, writes, skipped, strayed>>

-----------------------------------------------------------------------------
(* The recorded session.                                                   *)

\* A synthetic trail is not searched for evidence (runner.py).
Synthetic == run.origin = "synthetic"

Events == DOMAIN run.trail
Kind(i) == run.trail[i].kind
Ts(i) == run.trail[i].ts

IsInput(i) == Kind(i) \notin {"out", "checkpoint"}
Batchable(i) == Kind(i) \in {"key", "asked"}
HasBytes(i) == IsInput(i) /\ Kind(i) # "wait"

Outs == {i \in Events : Kind(i) = "out"}
Inputs == {i \in Events : IsInput(i)}

\* The time since the input before, at the speed of the replay.
Scaled(i) ==
    LET before == {j \in Inputs : j < i}
    IN IF before = {} THEN 0 ELSE (Ts(i) - Ts(Max(before))) \div run.load.speed

\* Safe evidence: an input that came before the output in course was quiet,
\* with an answer after it, no checkpoint from the input before to that
\* answer, and a session that ended.
Evidence ==
    {i \in Inputs :
        LET ins == {j \in Inputs : j < i}
            before == {j \in Outs : j < i}
            after == {j \in Outs : j > i}
        IN /\ ins # {} /\ before # {} /\ after # {} /\ run.origin = "ended"
           /\ Ts(Max(before)) >= Ts(Max(ins))
           /\ Ts(i) < Ts(Max(before)) + StableMs
           /\ \A c \in (Max(ins) + 1)..Min(after) : Kind(c) # "checkpoint"}

-----------------------------------------------------------------------------
(* The plan of AdaptiveScheduler, made before anything runs.               *)

\* A positive gap is left out only with evidence or in a synthetic trail.
Collapsible(delta, i) == delta <= 0 \/ Synthetic \/ i \in Evidence

Decision(op, first, last, saved) == [op |-> op, first |-> first, last |-> last, saved |-> saved]

PlanRun(seqs) ==
    LET Delta(k) == Ts(seqs[k]) - Ts(seqs[k - 1])
        inner == 2..Len(seqs)
    IN CASE Len(seqs) = 0 -> <<>>
         [] Len(seqs) = 1 -> <<Decision("CONTINUE", seqs[1], seqs[1], 0)>>
         [] Len(seqs) > 1 /\ \A k \in inner : Collapsible(Delta(k), seqs[k]) ->
                <<Decision("BATCH", seqs[1], seqs[Len(seqs)],
                           Ts(seqs[Len(seqs)]) - Ts(seqs[1]))>>
         [] OTHER -> [k \in 1..Len(seqs) |->
                          Decision("FALLBACK_CONSERVATIVE", seqs[k], seqs[k], 0)]

\* As if a barrier were planned before the run it closes.
PlanStepBarrierFirst(acc, i) ==
    CASE Kind(i) = "out" -> acc
      [] Batchable(i) -> [acc EXCEPT !.seqs = Append(@, i)]
      [] OTHER -> [plan |-> acc.plan \o <<Decision("BARRIER", i, i, 0)>> \o PlanRun(acc.seqs),
                   seqs |-> <<>>]

PlanStep(acc, i) ==
    LET Close(op) == [plan |-> acc.plan \o PlanRun(acc.seqs) \o <<Decision(op, i, i, 0)>>,
                      seqs |-> <<>>]
    IN CASE Kind(i) = "checkpoint" -> Close("WAIT_FOR_STATE")
         [] Kind(i) = "out" -> acc
         [] Batchable(i) -> [acc EXCEPT !.seqs = Append(@, i)]
         [] Kind(i) = "odd" -> Close("FALLBACK_CONSERVATIVE")
         [] OTHER -> Close("BARRIER")

Indexes == [i \in Events |-> i]

\* plan_events
Plan ==
    LET end == FoldLeft(PlanStep, [plan |-> <<>>, seqs |-> <<>>], Indexes)
    IN end.plan \o PlanRun(end.seqs)

\* apply_decisions: what each write of the plan would carry.
Planned ==
    LET Covered(d) == SelectSeq(Indexes, LAMBDA i : HasBytes(i) /\ i \in d.first..d.last)
        Sends(d) == d.op # "WAIT_FOR_STATE" /\ Covered(d) # <<>>
        sending == SelectSeq(Plan, Sends)
    IN [k \in DOMAIN sending |-> Covered(sending[k])]

-----------------------------------------------------------------------------
(* ShadowTracker, told of the events one by one.                           *)

ShadowFlush(acc) ==
    LET seqs == acc.seqs
        safe == Len(seqs) > 1 /\ \A k \in 2..Len(seqs) : Collapsible(Scaled(seqs[k]), seqs[k])
        saved == FoldLeft(LAMBDA sum, i : sum + Scaled(i), 0, Tail(seqs))
    IN [seqs |-> <<>>,
        safe |-> IF safe THEN acc.safe \cup {<<seqs[1], seqs[Len(seqs)], saved>>} ELSE acc.safe]

Observe(acc, i) ==
    CASE Kind(i) = "out" -> acc
      [] Batchable(i) -> [acc EXCEPT !.seqs = Append(@, i)]
      [] OTHER -> ShadowFlush(acc)

\* The runs of inputs the tracker takes for safe, and what they would save.
ShadowSafe == ShadowFlush(FoldLeft(Observe, [seqs |-> <<>>, safe |-> {}], Indexes)).safe

-----------------------------------------------------------------------------
(* The worker, event by event.                                             *)

Coming == at + 1
Here(kinds) == outcome = "running" /\ at < Len(run.trail) /\ Kind(Coming) \in kinds

\* flush_pending
Flushed == IF pending = <<>> THEN writes ELSE Append(writes, pending)

Ignore ==
    /\ Here({"out"})
    /\ at' = Coming
    /\ UNCHANGED <<run, pending, converged, diverged, outcome, writes, skipped, strayed>>

\* The pacing of the next input: none after a wait that converged.
Pacing(jitter) == (IF converged THEN 0 ELSE Scaled(Coming)) + jitter

Wait ==
    /\ Here({"wait"})
    /\ writes' = Flushed
    /\ pending' = <<>>
    /\ converged' = FALSE
    /\ at' = Coming
    /\ UNCHANGED <<run, diverged, outcome, skipped, strayed>>

\* A key joins the batch unless a pause of the operator would be lost.
Batch ==
    /\ Here({"key"}) /\ ~diverged
    /\ \E jitter \in 0..run.load.jitter :
          IF pending = <<>> \/ Collapsible(Pacing(jitter), Coming)
          THEN pending' = Append(pending, Coming) /\ UNCHANGED writes
          ELSE pending' = <<Coming>> /\ writes' = Flushed
    /\ converged' = FALSE
    /\ at' = Coming
    /\ UNCHANGED <<run, diverged, outcome, skipped, strayed>>

\* As if the batch were written behind the barrier.
SendFirst ==
    /\ Here({"enter", "odd"}) \/ (Here({"key"}) /\ diverged)
    /\ writes' = Append(writes, <<Coming>>)
    /\ converged' = FALSE
    /\ at' = Coming
    /\ UNCHANGED <<run, pending, diverged, outcome, skipped, strayed>>

\* Barriers, and every input while the guard is in its conservative state.
Send ==
    /\ Here({"enter", "odd"}) \/ (Here({"key"}) /\ diverged)
    /\ writes' = Append(Flushed, <<Coming>>)
    /\ pending' = <<>>
    /\ converged' = FALSE
    /\ at' = Coming
    /\ UNCHANGED <<run, diverged, outcome, skipped, strayed>>

\* timed_checkpoint_wait: a match ends a divergence; a mismatch that the
\* synthetic substitution explains converges as well.
Met == converged' = TRUE /\ diverged' = FALSE /\ UNCHANGED strayed
Missed == converged' \in {FALSE, Synthetic} /\ diverged' = TRUE /\ strayed' = TRUE

\* A compared input: sent when the screen is the expected one, and after a
\* mismatch sent anyway, left out, or the end of the session.
Ask ==
    /\ Here({"asked"})
    /\ pending' = <<>>
    /\ at' = Coming
    /\ \/ /\ Met \/ Missed
          /\ writes' = Append(Flushed, <<Coming>>)
          /\ UNCHANGED <<outcome, skipped>>
       \/ Missed /\ writes' = Flushed /\ skipped' = skipped \cup {Coming} /\ UNCHANGED outcome
       \/ Missed /\ writes' = Flushed /\ skipped' = skipped \cup {Coming} /\ outcome' = "failed"
    /\ UNCHANGED run

\* A checkpoint: one that is not compared, one that is met, one met only by
\* the soft match, or the end of the session.
Checkpoint ==
    /\ Here({"checkpoint"})
    /\ writes' = Flushed
    /\ pending' = <<>>
    /\ at' = Coming
    /\ \/ UNCHANGED <<converged, diverged, outcome, strayed>>
       \/ Met /\ UNCHANGED outcome
       \/ Missed /\ outcome' \in {"running", "failed"}
    /\ UNCHANGED <<run, skipped>>

Finish ==
    /\ outcome = "running"
    /\ at = Len(run.trail)
    /\ writes' = Flushed
    /\ pending' = <<>>
    /\ outcome' = "done"
    /\ UNCHANGED <<run, at, converged, diverged, skipped, strayed>>

Init ==
    /\ run \in [trail : Trails, origin : {"ended", "cut", "synthetic"}, load : Loads]
    /\ at = 0
    /\ pending = <<>>
    /\ converged = FALSE
    /\ diverged = FALSE
    /\ outcome = "running"
    /\ writes = <<>>
    /\ skipped = {}
    /\ strayed = FALSE

Next == Ignore \/ Wait \/ Batch \/ Send \/ Ask \/ Checkpoint \/ Finish

Spec == Init /\ [][Next]_vars

-----------------------------------------------------------------------------
(* Properties.                                                             *)

\* Whatever is batched, split, skipped or compared, the target receives the
\* inputs of the trail once each and in their order, and what is not sent yet
\* is the open batch.
InputsInOrder ==
    LET all == Append(writes, pending)
    IN /\ \A k, l \in DOMAIN all : \A m \in DOMAIN all[k], n \in DOMAIN all[l] :
             k < l \/ (k = l /\ m < n) => all[k][m] < all[l][n]
       /\ UNION {ToSet(all[k]) : k \in DOMAIN all} = {i \in 1..at : HasBytes(i)} \ skipped

\* No write reaches over a checkpoint, a barrier, a marker of a wait or a
\* compared input (module docstring of adaptive_scheduler.py).
NoCrossing ==
    \A k \in DOMAIN writes :
        \A i \in writes[k][1]..writes[k][Len(writes[k])] :
            Len(writes[k]) > 1 => Kind(i) \in {"key", "out"}

\* A pause of the operator is left out inside a batch only with evidence of
\* type-ahead or in a synthetic trail, not because a wait before it converged.
CadenceKept ==
    \A k \in DOMAIN writes :
        \A n \in 2..Len(writes[k]) :
            LET i == writes[k][n]
            IN Scaled(i) > 0 => Synthetic \/ i \in Evidence

\* What the adaptive policy does to a trail changes its timing and nothing else.
BatchesKeepTheTrail == InputsInOrder /\ NoCrossing /\ CadenceKept

\* What the plan batches, the worker batches: no write of the plan is split by
\* it, unless an input is compared, the guard saw a divergence, or jitter is on.
PlanIsRealised ==
    outcome = "done" /\ ~strayed /\ run.load.jitter = 0 =>
        \A k \in DOMAIN Planned :
            (\A n \in DOMAIN Planned[k] : Kind(Planned[k][n]) = "key") =>
                \E w \in DOMAIN writes : ToSet(Planned[k]) \subseteq ToSet(writes[w])

\* The plan sends the inputs of the trail once each and in their order
\* (apply_decisions).
PlanInOrder ==
    at = 0 => FlattenSeq(Planned) = SelectSeq(Indexes, HasBytes)

\* The tracker of shadow mode, told of events one by one, takes for safe just
\* what the plan batches, with the same saving.
ShadowIsPlan ==
    at = 0 /\ run.load.speed = 1 =>
        ShadowSafe = {<<d.first, d.last, d.saved>> : d \in {e \in ToSet(Plan) : e.op = "BATCH"}}

\* The plan, the worker that carries it out and the tracker of shadow mode
\* agree on what is batched.
PlansAgree == PlanIsRealised /\ PlanInOrder /\ ShadowIsPlan

=============================================================================
