--------------------------- MODULE AuditWriterInv ---------------------------
(* The inductive invariants behind the theorems of AuditWriterProofs.      *)
EXTENDS AuditWriter, SequencesExt

\* Where a call stands: a writer inside append_many has its state, an open
\* file where it is about to use one, and lines left until it saves.
CallOK ==
    /\ holder = None <=> pc = "idle"
    /\ \A w \in Writers : holder = w => memSt[w] # None
    /\ \A w \in Writers : holder = w /\ pc \in {"rotate", "write"} => fh[w] # 0
    /\ pc \in {"open", "rotate", "reopen", "write"} <=> pending # <<>>

\* What a batch confirms at the end is written or still pending.
InFlight == {pending[i] : i \in 1..Len(pending)}
BatchOK == batch \subseteq {line.hash : line \in Lines \cup InFlight}

\* The state a call will save names the last line of its batch.
TargetOK ==
    \A w \in Writers : holder = w =>
        \E line \in Lines \cup InFlight :
            line.seq = memSt[w].seq /\ line.hash = memSt[w].prev

\* Without torn writes, and without I/O errors where parts rotate, this is
\* inductive for any number of processes under every other fault.
DurableInv ==
    /\ CallOK
    /\ torn = {}
    /\ BatchOK
    /\ TargetOK
    /\ AckedDurable
    /\ CheckpointBehindLog

\* One process and no rotation: all lines are in the newest file, none is
\* damaged and no file is closed.
OneFile ==
    /\ torn = {}
    /\ \A f \in File : manifest[f] = None
    /\ \A f \in File : disk[f] # <<>> =>
            f \in created /\ \A g \in created : g <= f
    /\ \A f \in File : \A i \in 1..Len(disk[f]) : disk[f][i].hash > 0

LastLine(f) == disk[f][Len(disk[f])]

\* st is where the log ends.
AtTail(st) ==
    IF \A f \in File : disk[f] = <<>>
    THEN st.seq = 0 /\ st.prev = 0
    ELSE /\ st.cur \in File
         /\ disk[st.cur] # <<>>
         /\ st.seq = LastLine(st.cur).seq
         /\ st.prev = LastLine(st.cur).hash

\* audit.state is where the log ends, or its file is younger and ahead of it.
CkptOK ==
    ckpt # None =>
        /\ ckpt.cur \in File
        /\ disk[ckpt.cur] # <<>>
        /\ ckpt.seq <= LastLine(ckpt.cur).seq
        /\ ckpt.cur \notin fresher => AtTail(ckpt)

\* The open file is the current and the newest one.
DescriptorOK ==
    \A w \in Writers :
        /\ memSt[w] = None => fh[w] = 0
        /\ memSt[w] # None /\ fh[w] # 0 =>
              /\ fh[w] = memSt[w].cur
              /\ fh[w] \in created
              /\ \A g \in created : g <= fh[w]
        /\ memSt[w] # None /\ fh[w] = 0 /\ memSt[w].cur # 0 =>
              /\ memSt[w].cur \in File
              /\ disk[memSt[w].cur] # <<>>

\* The cache of the only process is where the log ends, kept or not.
CacheOK ==
    \A w \in Writers : holder # w /\ memSt[w] # None => AtTail(memSt[w])

\* The pending lines continue the log and end at the state to be saved.
PendingOK ==
    /\ \A i \in 1..Len(pending) : pending[i].hash > 0 /\ pending[i].seq > 0
    /\ \A i \in 2..Len(pending) : LinkedTo(pending[i], pending[i - 1])
    /\ \A w \in Writers : holder = w =>
          IF pending = <<>> THEN AtTail(memSt[w])
          ELSE /\ AtTail([seq |-> pending[1].seq - 1, prev |-> pending[1].prev,
                          cur |-> memSt[w].cur])
               /\ memSt[w].seq = pending[Len(pending)].seq
               /\ memSt[w].prev = pending[Len(pending)].hash

OneWriterInv ==
    /\ CallOK
    /\ OneFile
    /\ ChainOK
    /\ CkptOK
    /\ DescriptorOK
    /\ CacheOK
    /\ PendingOK

-----------------------------------------------------------------------------
(* The log of AuditLog that the files are.                                 *)

\* The hashes of all lines, file after file.
Log == LET lines == FlattenSeq(disk)
       IN [i \in 1..Len(lines) |-> lines[i].hash]

Abstract == INSTANCE AuditLog WITH Event <- 1..MaxSigned, log <- Log

\* Every step of the writers extends the abstract log by one event, confirms
\* its tail, or is invisible to the readers of the log.
ImplementsAuditLog == Abstract!Spec

\* Hashes are given in order, and the pending lines have the last ones.
HashesOK ==
    /\ signed <= MaxSigned
    /\ \A line \in Lines : line.hash <= signed - Len(pending)
    /\ \A i \in 1..Len(pending) : pending[i].hash = signed - Len(pending) + i

\* What a call has written of its batch is the tail of the log.
BatchTail ==
    holder # None =>
        \E first \in 1..signed :
            LET written == signed - Len(pending) - first + 1
            IN  /\ batch = first..signed
                /\ written \in 0..Len(Log)
                /\ \A j \in 1..written : Log[Len(Log) - written + j] = first + j - 1

LogInv == HashesOK /\ BatchTail

=============================================================================
