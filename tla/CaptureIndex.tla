---------------------------- MODULE CaptureIndex ----------------------------
(***************************************************************************)
(* The index of a capture (get_capture_index of                            *)
(* control/services/session_index_cache.py): what is stored is taken as    *)
(* it is, completed by what was appended, or built anew, by requests that  *)
(* share the file and the temporary file, while the gateway appends lines, *)
(* a piece at a time, and rotates.  A line is two units long, so a file    *)
(* with a piece of a line has an odd size; every write has its own mtime.  *)
(***************************************************************************)
EXTENDS Naturals, Sequences

CONSTANTS Handlers,
          MaxWrites, \* bound: pieces written
          MaxFiles,  \* bound: audit files
          MaxServed  \* bound: requests served

Garbled == [files |-> <<>>, locs |-> <<>>, good |-> FALSE]
Empty == [files |-> <<>>, locs |-> <<>>, good |-> TRUE]
None == {}

VARIABLES log,     \* log[f]: size and mtime of the f-th audit file
          writes,  \* pieces written so far
          stored,  \* capture-index.json.gz, as a set of at most one index
          tmp,     \* its temporary file, likewise
          asked,   \* asked[h]: where h is, what it listed, the index it works on
          answer,  \* answer[h]: the index h returned, and the log when it began
          served

vars == <<log, writes, stored, tmp, asked, answer, served>>

Idle == [at |-> "idle", listed |-> <<>>, index |-> Empty, file |-> 0, stat |-> <<>>]
NoAnswer == [index |-> Empty, listed |-> <<>>]

Init ==
    /\ log = <<[size |-> 0, mtime |-> 0]>>
    /\ writes = 0
    /\ stored = None /\ tmp = None
    /\ asked = [h \in Handlers |-> Idle]
    /\ answer = [h \in Handlers |-> NoAnswer]
    /\ served = 0

OfRequests == <<stored, tmp, asked, answer, served>>

\* The writer completes a line or writes a piece of the next one ...
Append1(units) ==
    /\ writes < MaxWrites /\ writes' = writes + 1
    /\ log' = [log EXCEPT ![Len(log)] = [size |-> @.size + units, mtime |-> writes + 1]]
    /\ UNCHANGED OfRequests

Write == Append1(1) \/ (log[Len(log)].size % 2 = 0 /\ Append1(2))

\* ... or goes on in a new file, after a whole line.
Rotate ==
    /\ Len(log) < MaxFiles /\ log[Len(log)].size > 0 /\ log[Len(log)].size % 2 = 0
    /\ log' = Append(log, [size |-> 0, mtime |-> writes])
    /\ UNCHANGED <<writes, OfRequests>>

----------------------------------------------------------------------------
Same(info, file) == info.size = file.size /\ info.mtime = file.mtime

\* _classificar_delta: anything but growth at the end calls for a new index.
Classify(infos, listed) ==
    LET last == Len(infos)
        end == infos[last].indexed
        kept == \A f \in 1..(last - 1) : Same(infos[f], listed[f])
        appended == \/ listed[last].size > end
                    \/ listed[last].size = end /\ listed[last].mtime = infos[last].mtime
    IN IF last = 0 THEN IF listed = <<>> THEN "hit" ELSE "rebuild"
       ELSE IF last > Len(listed) \/ ~kept \/ ~appended THEN "rebuild"
       ELSE IF listed[last].size = end /\ last = Len(listed) THEN "hit" ELSE "delta"

Go(h, place) == asked' = [asked EXCEPT ![h].at = place]

\* The files as they are, the index as it is stored, and what to do with it.
\* A small capture without an index is not indexed at all.
List(h) ==
    /\ asked[h] = Idle /\ served < MaxServed
    /\ served' = served + 1
    /\ LET usable == {i \in stored : i.good}
           index == CHOOSE i \in usable : TRUE
           verdict == IF usable = {} THEN "rebuild" ELSE Classify(index.files, log)
       IN CASE verdict = "hit" ->
                 /\ answer' = [answer EXCEPT ![h] = [index |-> index, listed |-> log]]
                 /\ UNCHANGED asked
            [] verdict = "rebuild" ->
                 /\ asked' = [asked EXCEPT ![h] = [Idle EXCEPT !.at = "glob", !.listed = log]]
                 /\ answer' = [answer EXCEPT ![h] = NoAnswer]
            [] verdict = "delta" ->
                 /\ asked' = [asked EXCEPT ![h] = [at |-> "stat", listed |-> log, index |-> index,
                                                   file |-> Len(index.files), stat |-> log]]
                 /\ answer' = [answer EXCEPT ![h] = NoAnswer]
    /\ UNCHANGED <<log, writes, stored, tmp>>

\* build_capture_index lists the files again and begins with the first.
Glob(h) ==
    /\ asked[h].at = "glob"
    /\ asked' = [asked EXCEPT
                   ![h] = [@ EXCEPT !.at = "stat", !.file = 1, !.stat = log, !.index = Empty]]
    /\ UNCHANGED <<log, writes, stored, tmp, answer, served>>

\* What is known of file f when its scan begins: what the index says, or nothing.
Info(index, f) == IF f <= Len(index.files) THEN index.files[f] ELSE [size |-> 0, mtime |-> 0, indexed |-> 0]
SetInfo(index, f, info) ==
    IF f <= Len(index.files) THEN [index EXCEPT !.files[f] = info]
                             ELSE [index EXCEPT !.files = Append(@, info)]

\* _scan_arquivo_capture: size and mtime first ...
Stat(h) ==
    /\ asked[h].at = "stat"
    /\ LET f == asked[h].file
           info == [size |-> log[f].size, mtime |-> log[f].mtime, indexed |-> Info(asked[h].index, f).indexed]
       IN asked' = [asked EXCEPT
                      ![h] = [@ EXCEPT !.at = "read", !.index = SetInfo(asked[h].index, f, info)]]
    /\ UNCHANGED <<log, writes, stored, tmp, answer, served>>

\* As if a line that is being written were one.
LinesToPiece(f, from) == [k \in 1..((log[f].size + 1 - from) \div 2) |-> <<f, from + 2 * (k - 1)>>]

\* The whole lines from an offset on, by file and offset.
Lines(f, from) == [k \in 1..((log[f].size - from) \div 2) |-> <<f, from + 2 * (k - 1)>>]

Scanned(index, f, lines) ==
    [index EXCEPT !.locs = @ \o lines, !.files[f].indexed = @ + 2 * Len(lines)]

\* ... then the lines, from where the index ends, up to a piece of a line; and
\* the next of the files that were listed.
Read(h) ==
    /\ asked[h].at = "read"
    /\ LET f == asked[h].file
           lines == Lines(f, asked[h].index.files[f].indexed)
       IN asked' = [asked EXCEPT
                      ![h] = [@ EXCEPT !.at = IF f < Len(asked[h].stat) THEN "stat" ELSE "store",
                                       !.file = f + 1,
                                       !.index = Scanned(asked[h].index, f, lines)]]
    /\ UNCHANGED <<log, writes, stored, tmp, answer, served>>

\* store_capture_index: two requests may be writing the one temporary file ...
Store(h) ==
    /\ asked[h].at = "store"
    /\ \/ tmp' = {asked[h].index}
       \/ tmp # None /\ tmp' = {Garbled}
    /\ Go(h, "replace")
    /\ UNCHANGED <<log, writes, stored, answer, served>>

\* ... which then takes the place of the index, unless the other request has
\* moved it already; and the index is returned all the same.
Replace(h) ==
    /\ asked[h].at = "replace"
    /\ IF tmp = None THEN UNCHANGED stored ELSE stored' = tmp
    /\ tmp' = None
    /\ answer' = [answer EXCEPT ![h] = [index |-> asked[h].index, listed |-> asked[h].listed]]
    /\ asked' = [asked EXCEPT ![h] = Idle]
    /\ UNCHANGED <<log, writes, served>>

Next ==
    \/ Write \/ Rotate
    \/ \E h \in Handlers : List(h) \/ Glob(h) \/ Stat(h) \/ Read(h) \/ Store(h) \/ Replace(h)

Spec == Init /\ [][Next]_vars

----------------------------------------------------------------------------
Before(one, other) == one[1] < other[1] \/ (one[1] = other[1] /\ one[2] < other[2])

\* The lines of file f up to an offset.
WholeLines(f, end) == {<<f, 2 * n>> : n \in 0..((end \div 2) - 1)}

\* The lines of an index are those of its files up to where each ends, once each
\* and in order, and it ends neither inside a line nor beyond the files there are.
Exact(i, there) ==
    /\ \A k, l \in DOMAIN i.locs : k < l => Before(i.locs[k], i.locs[l])
    /\ {i.locs[k] : k \in DOMAIN i.locs} =
          UNION {WholeLines(f, i.files[f].indexed) : f \in DOMAIN i.files}
    /\ \A f \in DOMAIN i.files : i.files[f].indexed % 2 = 0 /\ i.files[f].indexed <= there[f].size

\* Every whole line up to where the index ends is in it once, in order, and no
\* piece of a line is, whatever was being written and whoever else was indexing
\* (_scan_arquivo_capture resumes where it stopped).
IndexIsExact == \A h \in Handlers : Exact(answer[h].index, log)

\* An index is never older than the request: all that was whole when it began
\* is in it (get_capture_index: "fresco").
IndexIsFresh ==
    \A h \in Handlers :
        LET listed == answer[h].listed
            files == answer[h].index.files
        IN \A f \in DOMAIN listed : f \in DOMAIN files /\ files[f].indexed >= 2 * (listed[f].size \div 2)

\* What get_capture_index answers, to whomever and whenever.
IndexIsSound == IndexIsExact /\ IndexIsFresh

=============================================================================
