--------------------------- MODULE SyntheticTrail ---------------------------
(***************************************************************************)
(* How a recorded session becomes a synthetic one                          *)
(* (dakota_gateway/synthetic/synthetic_trail.py): what was recorded before *)
(* the system started is cut off and replaced by steps that enter it, the  *)
(* rest is renumbered, and typed values give way to synthetic ones, key by *)
(* key.  An event keeps the place it was recorded at; a text is a sequence *)
(* of keys, that of an output is the one thing the detection finds in it.  *)
(***************************************************************************)
EXTENDS Naturals, SequencesExt

CONSTANTS Sessions,  \* what is asked for: a capture, its events [kind, text, real],
                     \* and the substitutions [original, value] to make in it
          MinErpSeq  \* a system that starts this early has no preamble

Prompts == {"home", "away"}       \* the shell in the home directory, or elsewhere
Visible == Prompts \cup {"wrapper", "draw"}

TrailAssumption ==
    /\ MinErpSeq \in Nat
    /\ \A s \in Sessions : \A ev \in ToSet(s.recorded) :
           /\ ev.kind \in {"start", "out", "in", "det"}
           /\ ev.kind = "out" => Head(ev.text) \in Visible \cup {"profile", "erp", "blank"}

VARIABLES recorded, \* the capture
          subs,     \* the substitutions still to be made
          entry,    \* what detect_session_entry answered
          events,   \* the events kept so far, each with the place it was recorded at
          cursor,   \* where the last substitution was made
          records,  \* applied_detail
          warned,   \* substitutions that were skipped
          pc

vars == <<recorded, subs, entry, events, cursor, records, warned, pc>>

Nothing == <<>>
Number(r) == [i \in DOMAIN r |-> [kind |-> r[i].kind, text |-> r[i].text, real |-> r[i].real, at |-> i]]
FirstOf(S) == CHOOSE i \in S : \A j \in S : i <= j
LastOf(S) == CHOOSE i \in S : \A j \in S : j <= i

-----------------------------------------------------------------------------
(* detect_session_entry.                                                   *)

Outs(r, texts) == {i \in DOMAIN r : r[i].kind = "out" /\ r[i].text[1] \in texts}

\* What the terminal says of itself was not typed.
Typed(r, from, to) ==
    FlattenSeq([i \in DOMAIN r |->
        IF from < i /\ i < to /\ r[i].kind = "in" /\ r[i].text # <<"id">> THEN r[i].text ELSE <<>>])

\* As if what was typed at the shell belonged to the menu as well.
WrapperKeysOpen(r, wrapper, erp) == Typed(r, wrapper, erp)

\* Up to the first prompt of the shell after a key.
WrapperKeys(r, wrapper, erp) ==
    LET leaves == {i \in Outs(r, Prompts) : wrapper < i /\ i < erp /\ Typed(r, wrapper, i) # <<>>}
    IN  Typed(r, wrapper, IF leaves = {} THEN erp ELSE FirstOf(leaves))

\* The first visible output from the start of the system on: the code looks up
\* to the first input and then a little further.
Anchored(r, erp) == \E i \in Outs(r, Visible) : i > erp

Entry(r) ==
    LET erps == Outs(r, {"erp"})
        erp == FirstOf(erps)
        before(texts) == {i \in Outs(r, texts) : i < erp}
        prompts == before(Prompts)
        wrappers == before({"wrapper"})
        keys == IF wrappers = {} THEN <<>> ELSE WrapperKeys(r, LastOf(wrappers), erp)
        command == IF prompts = {} THEN <<>> ELSE Typed(r, LastOf(prompts), erp)
        away == r[LastOf(prompts)].text = <<"away">>
        menu == IF keys # <<>> THEN <<[wait |-> "wrapper", send |-> keys]>>
                ELSE IF wrappers = {} THEN <<[wait |-> "wrapper", send |-> <<"0">>]>>
                ELSE <<>>
        shell == IF command = <<>> THEN <<>>
                 ELSE <<[wait |-> "prompt", send |-> IF away THEN <<"cd">> \o command ELSE command]>>
    IN  IF \/ erps = {}
           \/ erp <= MinErpSeq
           \/ prompts = {} /\ before({"profile"}) = {}
           \/ ~Anchored(r, erp)
        THEN Nothing
        ELSE <<[start |-> erp, steps |-> menu \o shell \o <<[wait |-> "anchor", send |-> <<>>]>>]>>

-----------------------------------------------------------------------------
(* What is cut off, in front of a place of the recording.                  *)

Cut(evs, place) == SelectSeq(evs, LAMBDA ev : ev.at >= place \/ ev.kind = "start")

DropPreSessionBanner(evs) ==
    LET real == {i \in DOMAIN evs : evs[i].kind = "det" /\ evs[i].real}
    IN  IF real = {} THEN evs ELSE Cut(evs, evs[FirstOf(real)].at)

TrimBeforeSeq(evs) == IF entry = Nothing THEN evs ELSE Cut(evs, entry[1].start)

-----------------------------------------------------------------------------
(* _apply_substitutions.                                                   *)

IsDataKey(key) == Len(key) = 1 /\ key[1] # "enter"

TypedIn(evs, run) == FlattenSeq([k \in DOMAIN run |-> evs[run[k]].text])

\* The keys typed one by one that make up the value; a key that does not go on
\* with it starts anew with the next one.
Run(evs, original) ==
    FoldLeft(LAMBDA acc, i :
        LET run == Append(acc.run, i)
            typed == TypedIn(evs, run)
        IN  IF acc.found \/ i <= cursor \/ evs[i].kind # "det" THEN acc
            ELSE IF ~IsDataKey(evs[i].text) THEN [acc EXCEPT !.run = <<>>]
            ELSE IF typed = original THEN [run |-> run, found |-> TRUE]
            ELSE IF IsPrefix(typed, original) THEN [acc EXCEPT !.run = run]
            ELSE [acc EXCEPT !.run = <<>>],
        [run |-> <<>>, found |-> FALSE], [i \in DOMAIN evs |-> i])

\* As if what the value leaves over were always cleared.
ChunkCleared(evs, run, value, k) ==
    IF k > Len(value) THEN <<>>
    ELSE IF k < Len(run) THEN <<value[k]>> ELSE SubSeq(value, k, Len(value))

\* The k-th key of a run: one character of the value each, what is left with the
\* last one.  Keys beyond a value that begins the recorded one are of the next
\* field and stay.
Chunk(evs, run, value, k) ==
    IF k <= Len(value)
    THEN IF k < Len(run) THEN <<value[k]>> ELSE SubSeq(value, k, Len(value))
    ELSE IF value # <<>> /\ IsStrictPrefix(value, TypedIn(evs, run)) THEN evs[run[k]].text
    ELSE <<>>

Place(run, i) == CHOOSE k \in DOMAIN run : run[k] = i

Replace(run, value) ==
    [i \in DOMAIN events |->
        IF i \in ToSet(run) THEN [events[i] EXCEPT !.text = Chunk(events, run, value, Place(run, i))]
        ELSE events[i]]

-----------------------------------------------------------------------------
Init ==
    /\ \E s \in Sessions : recorded = s.recorded /\ subs = s.subs
    /\ entry = Nothing
    /\ events = Number(recorded)
    /\ cursor = 0
    /\ records = <<>>
    /\ warned = {}
    /\ pc = "detect"

Detect ==
    /\ pc = "detect"
    /\ entry' = Entry(recorded)
    /\ pc' = "cut"
    /\ UNCHANGED <<recorded, subs, events, cursor, records, warned>>

\* The banner goes first: what the first real input is depends on the preamble.
Cuts ==
    /\ pc = "cut"
    /\ events' = TrimBeforeSeq(DropPreSessionBanner(events))
    /\ pc' = "substitute"
    /\ UNCHANGED <<recorded, subs, entry, cursor, records, warned>>

Applied(run) ==
    /\ events' = Replace(run, Head(subs).value)
    /\ cursor' = Last(run)
    /\ records' = Append(records, [sub |-> Head(subs), first |-> Head(run), last |-> Last(run)])
    /\ UNCHANGED warned

Skipped ==
    /\ warned' = warned \cup {Head(subs)}
    /\ UNCHANGED <<events, cursor, records>>

\* A value of more than one character is looked for key by key first.
Substitute ==
    /\ pc = "substitute" /\ subs # <<>>
    /\ LET original == Head(subs).original
           run == Run(events, original)
           same == {i \in DOMAIN events : i > cursor /\ events[i].kind = "det"
                                                     /\ events[i].text = original}
       IN  IF Len(original) > 1 /\ run.found THEN Applied(run.run)
           ELSE IF same # {} THEN Applied(<<FirstOf(same)>>)
           ELSE Skipped
    /\ subs' = Tail(subs)
    /\ UNCHANGED <<recorded, entry, pc>>

Write ==
    /\ pc = "substitute" /\ subs = <<>>
    /\ pc' = "written"
    /\ UNCHANGED <<recorded, subs, entry, events, cursor, records, warned>>

Next == Detect \/ Cuts \/ Substitute \/ Write

Spec == Init /\ [][Next]_vars

-----------------------------------------------------------------------------
(* Properties.                                                             *)

Span(rec) == rec.first..rec.last
Inside(i) == \E k \in DOMAIN records : i \in Span(records[k])
Keys(rec, Text(_)) ==
    FlattenSeq([i \in 1..(rec.last - rec.first + 1) |->
        IF events[rec.first + i - 1].kind = "det" THEN Text(events[rec.first + i - 1]) ELSE <<>>])
Was(ev) == recorded[ev.at].text
Is(ev) == ev.text

\* Between the events a record names, what was typed is the original and what
\* will be typed is the value, with the keys of the next field if the value is
\* a beginning of what was typed.  No two records share an event, they are in
\* the order of the session, and outside of them every key is as recorded.
SubstitutionsAreExact ==
    /\ \A k \in DOMAIN records :
           LET rec == records[k]
               value == rec.sub.value
               was == Keys(rec, Was)
           IN  /\ was = rec.sub.original
               /\ Keys(rec, Is) = IF value # <<>> /\ IsPrefix(value, was) /\ rec.first # rec.last
                                  THEN was ELSE value
               /\ k > 1 => records[k - 1].last < rec.first
    /\ \A i \in DOMAIN events : ~Inside(i) => events[i].text = Was(events[i])

\* The trail goes on from the start of the system in the order it was recorded,
\* with nothing left out but a banner in front of the first real input, and
\* when a real input came before the system started the first drawing of the
\* system is still in it.
NothingIsLost ==
    pc # "detect" /\ pc # "cut" =>
        /\ \A i, j \in DOMAIN events : i < j => events[i].at < events[j].at
        /\ entry # Nothing =>
              LET start == entry[1].start
                  real == \E i \in 1..start : recorded[i].kind = "det" /\ recorded[i].real
                  kept == {events[i].at : i \in DOMAIN events}
              IN  /\ \A place \in kept : place >= start \/ recorded[place].kind = "start"
                  /\ real => start..Len(recorded) \subseteq kept

\* What enters the system was typed in the session, in that order and no key
\* twice, where the last prompt of the shell came after the last menu; only
\* "cd" and "0" are added.
Sent == FlattenSeq([k \in DOMAIN entry[1].steps |-> entry[1].steps[k].send])
EntryWasTyped ==
    entry # Nothing =>
        LET erp == entry[1].start
            wrappers == {i \in Outs(recorded, {"wrapper"}) : i < erp}
            prompts == {i \in Outs(recorded, Prompts) : i < erp}
            typed == Typed(recorded, IF wrappers = {} THEN 0 ELSE LastOf(wrappers), erp)
            known == SelectSeq(Sent, LAMBDA k : k # "cd" /\ (k # "0" \/ "0" \in ToSet(typed)))
        IN  (prompts # {} /\ wrappers # {} => LastOf(wrappers) < LastOf(prompts)) =>
                \E S \in SUBSET DOMAIN typed :
                    known = FlattenSeq([i \in DOMAIN typed |-> IF i \in S THEN <<typed[i]>> ELSE <<>>])

TrailIsFaithful == SubstitutionsAreExact /\ NothingIsLost /\ EntryWasTyped

=============================================================================
