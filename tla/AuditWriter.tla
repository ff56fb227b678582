---------------------------- MODULE AuditWriter ----------------------------
(***************************************************************************)
(* The processes that append to one hash-chained audit directory           *)
(* (dakota_gateway/audit_writer.py).  Every process keeps its own          *)
(* AuditWriter: a cached checkpoint, the raw audit.state it was read from  *)
(* and an open log descriptor.  append_many runs under a mutex and an      *)
(* flock, so one writer at a time is inside it; its steps are separate     *)
(* actions because a crash or an I/O error can fall between any two.       *)
(*                                                                         *)
(* A log file is the sequence of its lines and files are numbered in the   *)
(* order of their names.  A hash is a fresh number per signature (0 is the *)
(* empty prev_hash).  A line reaches the disk when it is written: a crash  *)
(* or an error that loses buffered lines came before they were written.    *)
(* Only the close of a full part can lose them and go on (Rotate).         *)
(***************************************************************************)
EXTENDS Naturals, Sequences, FiniteSets

CONSTANTS Writers,      \* processes holding an AuditWriter on the directory
          None,         \* no value (an absent file, an empty cache, no lock holder)
          RotateLines,  \* lines after which a part is closed; 0 disables rotation
          Faults,       \* the failures this instance admits
          MaxFiles,     \* bound: log files
          MaxBatch,     \* bound: events in one append_many
          MaxSigned     \* bound: signatures made

FaultKinds == {"crash",  \* the process dies inside append_many
               "io",     \* open, write, flush or close raises
               "save",   \* writing audit.state raises
               "lost",   \* audit.state disappears
               "tick",   \* the log and audit.state may get the same mtime
               "torn"}   \* the interrupted write leaves part of a line

Checkpoint == [seq : Nat, prev : Nat, cur : Nat]
Line == [seq : Nat, prev : Nat, hash : Nat]

ASSUME WriterAssumption ==
    /\ None \notin Writers
    /\ None \notin Checkpoint
    /\ None \notin Seq(Line)
    /\ RotateLines \in Nat
    /\ Faults \subseteq FaultKinds
    /\ MaxFiles \in Nat \ {0} /\ MaxBatch \in Nat \ {0} /\ MaxSigned \in Nat

File == 1..MaxFiles

VARIABLES
    disk,      \* disk[f]: the lines of log file f
    created,   \* the files that exist
    manifest,  \* manifest[f]: the content f had when its manifest was written
    torn,      \* files that end in an unterminated piece of a line
    ckpt,      \* audit.state
    fresher,   \* files whose mtime is later than the mtime of audit.state
    memSt,     \* memSt[w]: the cached checkpoint (_st)
    raw,       \* raw[w]: the audit.state it stands for (_state_raw)
    fh,        \* fh[w]: the open log file (_log_path), 0 if none
    size,      \* size[w]: lines counted in it (_log_size)
    holder,    \* the writer inside append_many (the flock)
    pc,        \* what it does next
    pending,   \* its signed lines not yet written
    batch,     \* the hashes of its batch
    buffered,  \* its lines written to the open file since the last flush
    signed,    \* signatures made so far
    acked      \* hashes whose append_many has returned

files == <<disk, created, manifest, torn>>
memory == <<memSt, raw, fh, size>>
call == <<holder, pc, pending, batch, buffered>>
vars == <<files, ckpt, fresher, memory, call, signed, acked>>

Junk == [seq |-> 0, prev |-> 0, hash |-> 0]   \* a line that is not JSON
Greatest(S) == CHOOSE x \in S : \A y \in S : y <= x

-----------------------------------------------------------------------------
(* Reading the state back.                                                 *)

Empty == [seq |-> 0, prev |-> 0, cur |-> 0]

\* _last_log_entry: the last line of the file that parses.
Entries(f) == {i \in 1..Len(disk[f]) : disk[f][i] # Junk}
HasEntry(f) == Entries(f) # {}
LastEntry(f) == disk[f][Greatest(Entries(f))]

\* As if a state that is still there were always taken as it is.
HealNever(st) == st

\* The entry is believed only when the log is strictly younger than the state.
Heal(st) ==
    IF /\ st.cur \in fresher
       /\ HasEntry(st.cur)
       /\ LastEntry(st.cur).seq >= st.seq
    THEN [st EXCEPT !.seq = LastEntry(st.cur).seq, !.prev = LastEntry(st.cur).hash]
    ELSE st

\* Without audit.state: the tail of the newest file; a file that already has
\* its manifest is not reopened.
Recover ==
    IF created # {} /\ HasEntry(Greatest(created))
    THEN LET last == Greatest(created)
         IN [seq  |-> LastEntry(last).seq,
             prev |-> LastEntry(last).hash,
             cur  |-> IF manifest[last] = None THEN last ELSE last + 1]
    ELSE Empty

Load == IF ckpt = None THEN Recover ELSE Heal(ckpt)

\* The cache holds while audit.state still reads as it did.
Fresh(w) == memSt[w] # None /\ raw[w] = ckpt
Ensured(w) == IF Fresh(w) THEN memSt[w] ELSE Load

\* As if a reload kept the descriptor of the file it had open.
EnsureStateOnly(w) ==
    /\ raw' = [raw EXCEPT ![w] = ckpt]
    /\ UNCHANGED <<fh, size>>

\* A reload also drops the descriptor: the current file may have rotated.
EnsureState(w) ==
    /\ raw' = [raw EXCEPT ![w] = ckpt]
    /\ fh' = [fh EXCEPT ![w] = IF Fresh(w) THEN @ ELSE 0]
    /\ size' = [size EXCEPT ![w] = IF Fresh(w) THEN @ ELSE 0]

-----------------------------------------------------------------------------
(* append_many.                                                            *)

Sign(st, n) ==
    [i \in 1..n |-> [seq  |-> st.seq + i,
                     prev |-> IF i = 1 THEN st.prev ELSE signed + i - 1,
                     hash |-> signed + i]]

\* Lock, ensure the state, sign the whole batch in memory.
Begin(w, n) ==
    /\ holder = None
    /\ signed + n <= MaxSigned
    /\ EnsureState(w)
    /\ LET st == Ensured(w)
       IN /\ memSt' = [memSt EXCEPT ![w] = [seq  |-> st.seq + n,
                                            prev |-> signed + n,
                                            cur  |-> st.cur]]
          /\ pending' = Sign(st, n)
    /\ batch' = (signed + 1)..(signed + n)
    /\ buffered' = 0
    /\ signed' = signed + n
    /\ holder' = w
    /\ pc' = "open"
    /\ UNCHANGED <<files, ckpt, fresher, acked>>

\* An invalid event: nothing is written and the cached numbers are restored.
Reject(w) ==
    /\ holder = None
    /\ EnsureState(w)
    /\ memSt' = [memSt EXCEPT ![w] = Ensured(w)]
    /\ UNCHANGED <<files, ckpt, fresher, call, signed, acked>>

\* The file to open: the current one, or one named after this second, which
\* is the newest file or a new one after it.
Target(st) ==
    IF st.cur # 0 THEN {st.cur} \cap File
    ELSE IF created = {} THEN {1}
    ELSE {Greatest(created), Greatest(created) + 1} \cap File

\* fresher after file f gets a new mtime.
Touched(f) == IF "tick" \in Faults THEN {fresher, fresher \cup {f}}
              ELSE {fresher \cup {f}}

OpenLog(w) ==
    /\ holder = w
    /\ pc \in {"open", "reopen"}
    /\ pc' = IF pc = "open" THEN "rotate" ELSE "write"
    /\ \/ /\ fh[w] # 0
          /\ UNCHANGED <<files, fresher, memory>>
       \/ /\ fh[w] = 0
          /\ \E f \in Target(memSt[w]) :
                /\ memSt' = [memSt EXCEPT ![w].cur = f]
                /\ fh' = [fh EXCEPT ![w] = f]
                /\ size' = [size EXCEPT ![w] = Len(disk[f])]
                /\ created' = created \cup {f}
                /\ fresher' \in IF f \in created THEN {fresher} ELSE Touched(f)
          /\ UNCHANGED <<disk, manifest, torn, raw>>
    /\ UNCHANGED <<ckpt, holder, pending, batch, buffered, signed, acked>>

RotationDue(w) == RotateLines > 0 /\ size[w] >= RotateLines

\* _close_log_locked swallows a failing flush: the last lines of the batch, not
\* flushed yet, may be missing in the part, and a piece of one be left.
CloseLog(f) ==
    \E lost \in IF "io" \in Faults THEN 0..buffered ELSE {0} :
        /\ disk' = [disk EXCEPT ![f] = SubSeq(@, 1, Len(@) - lost)]
        /\ \/ torn' = torn
           \/ lost > 0 /\ "torn" \in Faults /\ torn' = torn \cup {f}

\* Close the full part, write its manifest, move on to the next part.
Rotate(w) ==
    /\ holder = w
    /\ pc = "rotate"
    /\ pc' = "reopen"
    /\ \/ /\ ~RotationDue(w)
          /\ UNCHANGED <<disk, torn, manifest, memSt, fh, size, buffered>>
       \/ /\ RotationDue(w)
          /\ CloseLog(fh[w])
          /\ manifest' = [manifest EXCEPT ![fh[w]] = disk'[fh[w]]]
          /\ memSt' = [memSt EXCEPT ![w].cur = @ + 1]
          /\ fh' = [fh EXCEPT ![w] = 0]
          /\ size' = [size EXCEPT ![w] = 0]
          /\ buffered' = 0
    /\ UNCHANGED <<created, ckpt, fresher, raw, holder, pending, batch, signed, acked>>

\* As if the loop stopped one line early.
AfterLineShort == IF Len(pending) <= 2 THEN "save" ELSE "open"

\* The loop over the batch goes on, or ends with the flush.
AfterLine == IF Len(pending) = 1 THEN "save" ELSE "open"

\* A line written after a torn piece runs into it and parses no more.
WriteLine(w) ==
    /\ holder = w
    /\ pc = "write"
    /\ LET f == fh[w]
       IN /\ disk' = [disk EXCEPT ![f] =
                        Append(@, IF f \in torn THEN Junk ELSE Head(pending))]
          /\ torn' = torn \ {f}
          /\ fresher' \in Touched(f)
    /\ size' = [size EXCEPT ![w] = @ + 1]
    /\ pending' = Tail(pending)
    /\ buffered' = buffered + 1
    /\ pc' = AfterLine
    /\ UNCHANGED <<created, manifest, ckpt, memSt, raw, fh,
                   holder, batch, signed, acked>>

\* The flock is released and the call is over.
Release ==
    /\ holder' = None
    /\ pc' = "idle"
    /\ pending' = <<>>
    /\ batch' = {}
    /\ buffered' = 0

\* audit.state is replaced once per batch, after the flush.
Save(w) ==
    /\ holder = w
    /\ pc = "save"
    /\ ckpt' = memSt[w]
    /\ raw' = [raw EXCEPT ![w] = memSt[w]]
    /\ fresher' = {}
    /\ acked' = acked \cup batch
    /\ Release
    /\ UNCHANGED <<files, memSt, fh, size, signed>>

-----------------------------------------------------------------------------
(* Failures.                                                               *)

\* audit.state could not be written: the exception leaves the cache as it is.
SaveFails(w) ==
    /\ "save" \in Faults
    /\ holder = w
    /\ pc = "save"
    /\ Release
    /\ UNCHANGED <<files, ckpt, fresher, memory, signed, acked>>

\* As if only the descriptor were dropped.
ForgetDescriptor(w) ==
    /\ fh' = [fh EXCEPT ![w] = 0]
    /\ size' = [size EXCEPT ![w] = 0]
    /\ UNCHANGED <<memSt, raw>>

\* As if the size were cleared like the cache, to no value at all.
ForgetSize(w) ==
    /\ memSt' = [memSt EXCEPT ![w] = None]
    /\ raw' = [raw EXCEPT ![w] = None]
    /\ fh' = [fh EXCEPT ![w] = 0]
    /\ size' = [size EXCEPT ![w] = None]

\* The cache and the descriptor are gone (_invalidate_state_locked, close,
\* or the end of the process).
Forget(w) ==
    /\ memSt' = [memSt EXCEPT ![w] = None]
    /\ raw' = [raw EXCEPT ![w] = None]
    /\ fh' = [fh EXCEPT ![w] = 0]
    /\ size' = [size EXCEPT ![w] = 0]

\* What an interrupted write can leave behind: part of a line, and the mtime.
TornTail(w) ==
    \/ UNCHANGED <<torn, fresher>>
    \/ /\ "torn" \in Faults
       /\ pc = "write"
       /\ torn' = torn \cup {fh[w]}
       /\ fresher' \in Touched(fh[w])

Interrupted(w) ==
    /\ holder = w
    /\ Forget(w)
    /\ TornTail(w)
    /\ Release
    /\ UNCHANGED <<disk, created, manifest, ckpt, signed, acked>>

IoFails(w) == "io" \in Faults /\ Interrupted(w)

Crash(w) == "crash" \in Faults /\ Interrupted(w)

\* close, or the end of a process outside append_many; the next AuditWriter
\* of this process starts without a cache.
Close(w) ==
    /\ holder # w
    /\ Forget(w)
    /\ UNCHANGED <<files, ckpt, fresher, call, signed, acked>>

LoseState ==
    /\ "lost" \in Faults
    /\ ckpt' = None
    /\ UNCHANGED <<files, fresher, memory, call, signed, acked>>

-----------------------------------------------------------------------------
Init ==
    /\ disk = [f \in File |-> <<>>]
    /\ created = {}
    /\ manifest = [f \in File |-> None]
    /\ torn = {}
    /\ ckpt = None
    /\ fresher = {}
    /\ memSt = [w \in Writers |-> None]
    /\ raw = [w \in Writers |-> None]
    /\ fh = [w \in Writers |-> 0]
    /\ size = [w \in Writers |-> 0]
    /\ holder = None
    /\ pc = "idle"
    /\ pending = <<>>
    /\ batch = {}
    /\ buffered = 0
    /\ signed = 0
    /\ acked = {}

Next ==
    \/ \E w \in Writers :
        \/ \E n \in 1..MaxBatch : Begin(w, n)
        \/ Reject(w)
        \/ OpenLog(w)
        \/ Rotate(w)
        \/ WriteLine(w)
        \/ Save(w)
        \/ SaveFails(w)
        \/ IoFails(w)
        \/ Crash(w)
        \/ Close(w)
    \/ LoseState

Spec == Init /\ [][Next]_vars

-----------------------------------------------------------------------------
(* Properties.                                                             *)

\* The variables keep their types.
TypeOK ==
    /\ disk \in [File -> Seq(Line)]
    /\ created \in SUBSET File
    /\ manifest \in [File -> Seq(Line) \cup {None}]
    /\ torn \in SUBSET File
    /\ ckpt \in Checkpoint \cup {None}
    /\ fresher \in SUBSET File
    /\ memSt \in [Writers -> Checkpoint \cup {None}]
    /\ raw \in [Writers -> Checkpoint \cup {None}]
    /\ fh \in [Writers -> File \cup {0}]
    /\ size \in [Writers -> Nat]
    /\ holder \in Writers \cup {None}
    /\ pc \in {"idle", "open", "rotate", "reopen", "write", "save"}
    /\ pending \in Seq(Line)
    /\ batch \in SUBSET Nat
    /\ buffered \in Nat
    /\ signed \in Nat
    /\ acked \in SUBSET Nat

\* The lines of all files.
Lines == UNION {{disk[f][i] : i \in 1..Len(disk[f])} : f \in File}

\* The files with lines that come before file f.
Before(f) == {g \in File : g < f /\ disk[g] # <<>>}

\* The line a reader sees just before line i of file f.
LinkedTo(line, before) ==
    /\ line.seq = before.seq + 1
    /\ line.prev = before.hash

LineOK(f, i) ==
    IF i > 1 THEN LinkedTo(disk[f][i], disk[f][i - 1])
    ELSE IF Before(f) = {} THEN LinkedTo(disk[f][1], Junk)
    ELSE LET g == Greatest(Before(f))
         IN LinkedTo(disk[f][1], disk[g][Len(disk[g])])

\* The chain is whole at every instant, across files, processes and failures:
\* seq_global counts 1, 2, 3 ... and every prev_hash is the hash of the line
\* before (append_many, _heal_state_from_log_locked).
ChainOK == \A f \in File : \A i \in 1..Len(disk[f]) : LineOK(f, i)

\* An event whose append_many returned is in the log, whatever fails later
\* (append_many raises when a line of its batch did not get there).
AckedDurable == acked \subseteq {line.hash : line \in Lines}

\* A file is not written any more once it has a manifest
\* (_maybe_rotate_locked, _recover_state_from_logs_locked).
ManifestsOK == \A f \in File : manifest[f] # None => manifest[f] = disk[f]

\* audit.state never points past the log: it is written after the flush.
CheckpointBehindLog ==
    ckpt # None =>
        \E line \in Lines : line.seq = ckpt.seq /\ line.hash = ckpt.prev

\* A cache that _ensure_state_locked would keep is exactly where the log ends:
\* comparing the text of audit.state and invalidating after a failure are
\* enough to notice everything that happened to the log since it was filled.
FreshCacheIsCurrent ==
    holder = None =>
        \A w \in Writers : Fresh(w) =>
            /\ \A line \in Lines : line.seq <= memSt[w].seq
            /\ memSt[w].seq # 0 =>
                  \E line \in Lines :
                      line.seq = memSt[w].seq /\ line.hash = memSt[w].prev

=============================================================================
