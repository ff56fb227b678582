---------------------------- MODULE RecordsProofs ---------------------------
(***************************************************************************)
(* The records, proved: the log that is rotated into parts, for any number *)
(* of writers and parts, and the evidence bundle of a run, for any trails  *)
(* and any exports.  What MCRecords checks on small instances, from an     *)
(* inductive invariant for each part.                                      *)
(***************************************************************************)
EXTENDS MCRecords, FiniteSetTheorems, SequenceTheorems, WellFoundedInduction, TLAPS

-----------------------------------------------------------------------------
(* The rotated log (dakota_gateway/audit_writer.py): while nothing fails,  *)
(* audit.state is where the log ends whenever no call is under way.        *)

\* The state that audit.state stands for.
Kept(state) == IF state = None THEN R!Empty ELSE state

Newest(f) == f \in rcreated /\ \A g \in rcreated : g <= f

\* The last file with lines, if any has.
LastWritten(f) == rdisk[f] # <<>> /\ \A g \in R!File : rdisk[g] # <<>> => g <= f

\* The log ends with the line of this number and this hash.
LogEndsAt(seq, prev) ==
    \/ (\A f \in R!File : rdisk[f] = <<>>) /\ seq = 0 /\ prev = 0
    \/ \E f \in R!File : /\ LastWritten(f)
                         /\ seq = rdisk[f][Len(rdisk[f])].seq
                         /\ prev = rdisk[f][Len(rdisk[f])].hash

\* The part that may be written: the newest, and not a closed one.
OpenAt(cur) ==
    IF cur = 0 THEN rcreated = {}
    ELSE cur \in R!File /\ Newest(cur) /\ rmanifest[cur] = None

RotationTypes ==
    /\ rdisk \in [R!File -> Seq(R!Line)]
    /\ rcreated \in SUBSET R!File
    /\ rmanifest \in [R!File -> Seq(R!Line) \cup {None}]
    /\ rckpt \in R!Checkpoint \cup {None}
    /\ rmemSt \in [Processes -> R!Checkpoint \cup {None}]
    /\ rraw \in [Processes -> R!Checkpoint \cup {None}]
    /\ rfh \in [Processes -> R!File \cup {0}]
    /\ rholder \in Processes \cup {None}
    /\ rpending \in Seq(R!Line)
    /\ rsigned \in Nat

\* Only files that exist have lines or a manifest, and a closed part is as its
\* manifest says.
FilesKept ==
    /\ rtorn = {}
    /\ \A f \in R!File : rdisk[f] # <<>> => f \in rcreated
    /\ \A f \in R!File : rmanifest[f] # None => f \in rcreated /\ rmanifest[f] = rdisk[f]

\* A cache is the state it was read from, and a descriptor that of its part.
CacheKept(w) ==
    /\ rmemSt[w] # None => rmemSt[w] = Kept(rraw[w])
    /\ rfh[w] # 0 => rmemSt[w] # None /\ rfh[w] = rmemSt[w].cur

AtRest ==
    /\ rfresher = {}
    /\ LogEndsAt(Kept(rckpt).seq, Kept(rckpt).prev)
    /\ OpenAt(Kept(rckpt).cur)

\* What is left of a batch continues the log and ends in the state to be saved.
BatchContinues(st) ==
    IF rpc = "save" THEN LogEndsAt(st.seq, st.prev)
    ELSE /\ rpending # <<>>
         /\ rpending[1].seq # 0
         /\ LogEndsAt(rpending[1].seq - 1, rpending[1].prev)
         /\ \A i \in 2..Len(rpending) : R!LinkedTo(rpending[i], rpending[i - 1])
         /\ st.seq = rpending[Len(rpending)].seq
         /\ st.prev = rpending[Len(rpending)].hash

\* After a part was closed the next one does not exist yet.
PartChosen(cur, file) ==
    /\ file # 0 => file = cur
    /\ rpc \in {"rotate", "write", "save"} => file # 0
    /\ IF rpc = "reopen" /\ file = 0
       THEN cur # 0 /\ Newest(cur - 1)
       ELSE OpenAt(cur)

InCall(w) ==
    /\ rmemSt[w] # None
    /\ rpc \in {"open", "rotate", "reopen", "write", "save"}
    /\ BatchContinues(rmemSt[w])
    /\ PartChosen(rmemSt[w].cur, rfh[w])

CalmInv ==
    /\ RotationTypes
    /\ FilesKept
    /\ R!ChainOK
    /\ \A w \in Processes : rholder # w => CacheKept(w)
    /\ rholder = None => AtRest
    /\ \A w \in Processes : rholder = w => InCall(w)

LEMMA PartBounds ==
    /\ None \notin Processes /\ None \notin R!Checkpoint /\ None \notin Seq(R!Line)
    /\ MaxParts \in Nat \ {0} /\ MaxEvents \in Nat \ {0} /\ R!File = 1..MaxParts
BY RotationBounds DEF R!WriterAssumption, R!File

LEMMA GreatestIs ==
    ASSUME NEW Files \in SUBSET Nat, NEW m \in Files, \A f \in Files : f <= m
    PROVE  R!Greatest(Files) = m
<1>1. \A f \in Files : (\A g \in Files : g <= f) => f = m
  OBVIOUS
<1>2. QED
  BY <1>1 DEF R!Greatest

\* When no call is under way, a writer goes on from where the log ends.
LEMMA EnsuredAtRest ==
    ASSUME CalmInv, rholder = None, NEW w \in Processes
    PROVE  R!Ensured(w) = Kept(rckpt) /\ Kept(rckpt) \in R!Checkpoint
<1>1. RotationTypes /\ CacheKept(w) /\ AtRest
  BY PartBounds DEF CalmInv
<1>2. Kept(rckpt) \in R!Checkpoint
  BY <1>1 DEF RotationTypes, Kept, R!Empty, R!Checkpoint
<1>3. R!Load = Kept(rckpt)
  <2>1. CASE rckpt = None
    <3>1. rcreated = {}
      BY <1>1, <2>1 DEF AtRest, Kept, R!Empty, OpenAt
    <3>2. R!Recover = R!Empty
      BY <3>1 DEF R!Recover
    <3>3. QED
      BY <2>1, <3>2 DEF R!Load, Kept
  <2>2. CASE rckpt # None
    <3>1. R!Heal(rckpt) = rckpt
      BY <1>1 DEF AtRest, R!Heal
    <3>2. QED
      BY <2>2, <3>1 DEF R!Load, Kept
  <2>3. QED
    BY <2>1, <2>2
<1>4. R!Fresh(w) => rmemSt[w] = Kept(rckpt)
  BY <1>1 DEF CacheKept, R!Fresh
<1>5. QED
  BY <1>2, <1>3, <1>4 DEF R!Ensured

\* A descriptor that a reload keeps is that of the current part.
LEMMA DescriptorKept ==
    ASSUME CalmInv, rholder = None, NEW w \in Processes, R!EnsureState(w)
    PROVE  /\ rraw' \in [Processes -> R!Checkpoint \cup {None}] /\ rraw'[w] = rckpt
           /\ rfh' \in [Processes -> R!File \cup {0}]
           /\ rfh'[w] # 0 => rfh'[w] = Kept(rckpt).cur
           /\ \A v \in Processes : v # w => rraw'[v] = rraw[v] /\ rfh'[v] = rfh[v]
<1>1. RotationTypes /\ CacheKept(w)
  BY PartBounds DEF CalmInv
<1>2. R!Fresh(w) /\ rfh[w] # 0 => rfh[w] = Kept(rckpt).cur
  BY <1>1 DEF CacheKept, R!Fresh
<1>3. /\ rraw' = [rraw EXCEPT ![w] = rckpt]
      /\ rfh' = [rfh EXCEPT ![w] = IF R!Fresh(w) THEN rfh[w] ELSE 0]
  BY DEF R!EnsureState
<1>4. /\ rraw \in [Processes -> R!Checkpoint \cup {None}] /\ rckpt \in R!Checkpoint \cup {None}
      /\ rfh \in [Processes -> R!File \cup {0}]
  BY <1>1 DEF RotationTypes
<1>5. rraw' \in [Processes -> R!Checkpoint \cup {None}] /\ rraw'[w] = rckpt
  BY <1>3, <1>4
<1>6. rfh'[w] = IF R!Fresh(w) THEN rfh[w] ELSE 0
  BY <1>3, <1>4
<1>7. rfh' \in [Processes -> R!File \cup {0}]
  BY <1>3, <1>4
<1>8. \A v \in Processes : v # w => rraw'[v] = rraw[v] /\ rfh'[v] = rfh[v]
  BY <1>3, <1>4
<1>9. QED
  BY <1>2, <1>5, <1>6, <1>7, <1>8

LEMMA SignedLines ==
    ASSUME NEW st \in R!Checkpoint, NEW n \in Nat \ {0}, rsigned \in Nat
    PROVE  /\ R!Sign(st, n) \in Seq(R!Line) /\ Len(R!Sign(st, n)) = n
           /\ \A i \in 1..n : R!Sign(st, n)[i] =
                 [seq  |-> st.seq + i,
                  prev |-> IF i = 1 THEN st.prev ELSE rsigned + i - 1,
                  hash |-> rsigned + i]
<1>1. \A i \in 1..n : [seq  |-> st.seq + i,
                        prev |-> IF i = 1 THEN st.prev ELSE rsigned + i - 1,
                        hash |-> rsigned + i] \in R!Line
  BY DEF R!Checkpoint, R!Line
<1>2. QED
  BY <1>1 DEF R!Sign

LEMMA CalmBegin ==
    ASSUME CalmInv, NEW w \in Processes, NEW n \in 1..MaxEvents, R!Begin(w, n)
    PROVE  CalmInv'
<1> DEFINE st == Kept(rckpt)
           ahead == [seq |-> st.seq + n, prev |-> rsigned + n, cur |-> st.cur]
<1>1. /\ rholder = None /\ R!EnsureState(w) /\ R!Ensured(w) = st /\ st \in R!Checkpoint
      /\ rsigned \in Nat /\ n \in Nat \ {0}
  BY EnsuredAtRest, PartBounds DEF R!Begin, CalmInv, RotationTypes
<1>2. /\ rmemSt' = [rmemSt EXCEPT ![w] = ahead]
      /\ rpending' = R!Sign(st, n)
      /\ rsigned' = rsigned + n /\ rholder' = w /\ rpc' = "open"
      /\ UNCHANGED <<rdisk, rcreated, rmanifest, rtorn, rckpt, rfresher>>
  BY <1>1 DEF R!Begin, R!files
<1>3. RotationTypes /\ FilesKept /\ R!ChainOK /\ AtRest /\ \A v \in Processes : CacheKept(v)
  BY <1>1, PartBounds DEF CalmInv
<1>4. /\ rraw' \in [Processes -> R!Checkpoint \cup {None}] /\ rraw'[w] = rckpt
      /\ rfh' \in [Processes -> R!File \cup {0}]
      /\ rfh'[w] # 0 => rfh'[w] = st.cur
      /\ \A v \in Processes : v # w => rraw'[v] = rraw[v] /\ rfh'[v] = rfh[v]
  BY <1>1, DescriptorKept
<1>5. /\ rpending' \in Seq(R!Line) /\ Len(rpending') = n
      /\ \A i \in 1..n : rpending'[i] = [seq  |-> st.seq + i,
                                         prev |-> IF i = 1 THEN st.prev ELSE rsigned + i - 1,
                                         hash |-> rsigned + i]
  BY <1>1, <1>2, SignedLines
<1>6. ahead \in R!Checkpoint /\ st.seq \in Nat /\ st.cur \in Nat
  BY <1>1 DEF R!Checkpoint
<1> HIDE DEF st
<1>7. /\ rmemSt' \in [Processes -> R!Checkpoint \cup {None}] /\ rmemSt'[w] = ahead
      /\ \A v \in Processes : v # w => rmemSt'[v] = rmemSt[v]
  BY <1>2, <1>3, <1>6 DEF RotationTypes
<1>8. RotationTypes'
  BY <1>1, <1>2, <1>3, <1>4, <1>5, <1>7 DEF RotationTypes
<1>9. FilesKept' /\ R!ChainOK'
  BY <1>2, <1>3 DEF FilesKept, R!ChainOK, R!LineOK, R!Before, R!LinkedTo
<1>10. \A v \in Processes : (rholder # v => CacheKept(v))'
  BY <1>2, <1>3, <1>4, <1>7 DEF CacheKept
<1>11. (rholder = None => AtRest)'
  BY <1>2, PartBounds
<1>12. (\A v \in Processes : rholder = v => InCall(v))'
  <2>1. SUFFICES InCall(w)'
    BY <1>2
  <2>2. rmemSt'[w] # None
    BY <1>6, <1>7, PartBounds
  <2>3. BatchContinues(rmemSt[w])'
    <3>1. rpending' # <<>> /\ rpending'[1].seq = st.seq + 1 /\ rpending'[1].prev = st.prev
      BY <1>1, <1>5
    <3>2. LogEndsAt(st.seq, st.prev)
      BY <1>3 DEF AtRest, st
    <3>3. (LogEndsAt(rpending[1].seq - 1, rpending[1].prev))'
      <4>1. rpending'[1].seq - 1 = st.seq
        BY <1>6, <3>1
      <4>2. QED
        BY <1>2, <3>1, <3>2, <4>1 DEF LogEndsAt, LastWritten
    <3>4. \A i \in 2..Len(rpending') : R!LinkedTo(rpending'[i], rpending'[i - 1])
      <4>1. TAKE i \in 2..Len(rpending')
      <4>2. i \in 1..n /\ i - 1 \in 1..n /\ i # 1
        BY <1>1, <1>5
      <4>3. /\ rpending'[i].seq = st.seq + i /\ rpending'[i].prev = rsigned + i - 1
            /\ rpending'[i - 1].seq = st.seq + (i - 1) /\ rpending'[i - 1].hash = rsigned + (i - 1)
        BY <1>5, <4>2
      <4>4. st.seq + i = (st.seq + (i - 1)) + 1 /\ rsigned + i - 1 = rsigned + (i - 1)
        <5>1. st.seq \in Int /\ rsigned \in Int /\ i \in Int
          BY <1>1, <1>6, <4>2
        <5> HIDE DEF st
        <5>2. QED
          BY <5>1
      <4>5. QED
        BY <4>3, <4>4 DEF R!LinkedTo
    <3>5. rpending'[Len(rpending')].seq = st.seq + n /\ rpending'[Len(rpending')].hash = rsigned + n
      BY <1>1, <1>5
    <3>6. rpc' # "save" /\ rpending'[1].seq # 0
      BY <1>2, <1>6, <3>1
    <3>7. rmemSt'[w].seq = st.seq + n /\ rmemSt'[w].prev = rsigned + n
      BY <1>7
    <3>8. QED
      BY <3>1, <3>3, <3>4, <3>5, <3>6, <3>7 DEF BatchContinues, R!LinkedTo
  <2>4. PartChosen(rmemSt[w].cur, rfh[w])'
    <3>1. rmemSt'[w].cur = st.cur
      BY <1>7
    <3>2. OpenAt(st.cur)
      BY <1>3 DEF AtRest, st
    <3>3. OpenAt(rmemSt[w].cur)'
      BY <1>2, <3>1, <3>2 DEF OpenAt, Newest
    <3>4. QED
      BY <1>2, <1>4, <3>1, <3>3 DEF PartChosen
  <2>5. QED
    BY <1>2, <2>2, <2>3, <2>4 DEF InCall
<1>13. QED
  BY <1>8, <1>9, <1>10, <1>11, <1>12 DEF CalmInv

LEMMA CalmReject ==
    ASSUME CalmInv, NEW w \in Processes, R!Reject(w)
    PROVE  CalmInv'
<1> DEFINE st == Kept(rckpt)
<1>1. /\ rholder = None /\ R!EnsureState(w) /\ R!Ensured(w) = st /\ st \in R!Checkpoint
  BY EnsuredAtRest DEF R!Reject
<1>2. /\ rmemSt' = [rmemSt EXCEPT ![w] = st]
      /\ UNCHANGED <<rdisk, rcreated, rmanifest, rtorn, rckpt, rfresher, rpending, rsigned,
                     rholder, rpc>>
  BY <1>1 DEF R!Reject, R!files, R!call
<1>3. RotationTypes /\ FilesKept /\ R!ChainOK /\ AtRest /\ \A v \in Processes : CacheKept(v)
  BY <1>1, PartBounds DEF CalmInv
<1>4. /\ rraw' \in [Processes -> R!Checkpoint \cup {None}] /\ rraw'[w] = rckpt
      /\ rfh' \in [Processes -> R!File \cup {0}]
      /\ rfh'[w] # 0 => rfh'[w] = st.cur
      /\ \A v \in Processes : v # w => rraw'[v] = rraw[v] /\ rfh'[v] = rfh[v]
  BY <1>1, DescriptorKept
<1>5. /\ rmemSt' \in [Processes -> R!Checkpoint \cup {None}] /\ rmemSt'[w] = st
      /\ \A v \in Processes : v # w => rmemSt'[v] = rmemSt[v]
  BY <1>1, <1>2, <1>3 DEF RotationTypes
<1>6. RotationTypes'
  BY <1>2, <1>3, <1>4, <1>5 DEF RotationTypes
<1>7. FilesKept' /\ R!ChainOK'
  BY <1>2, <1>3 DEF FilesKept, R!ChainOK, R!LineOK, R!Before, R!LinkedTo
<1>8. \A v \in Processes : CacheKept(v)'
  <2>1. CacheKept(w)'
    <3>1. st # None
      BY <1>1, PartBounds
    <3>2. QED
      BY <1>4, <1>5, <3>1 DEF CacheKept
  <2>2. ASSUME NEW v \in Processes, v # w PROVE CacheKept(v)'
    BY <1>3, <1>4, <1>5, <2>2 DEF CacheKept
  <2>3. QED
    BY <2>1, <2>2
<1>9. AtRest'
  BY <1>2, <1>3 DEF AtRest, LogEndsAt, LastWritten, OpenAt, Newest, Kept
<1>10. \A v \in Processes : rholder' # v
  BY <1>1, <1>2, PartBounds
<1>11. QED
  BY <1>6, <1>7, <1>8, <1>9, <1>10 DEF CalmInv

\* Who is inside append_many, and where.
LEMMA Inside ==
    ASSUME CalmInv, NEW w \in Processes, rholder = w
    PROVE  /\ RotationTypes /\ FilesKept /\ R!ChainOK /\ InCall(w)
           /\ \A v \in Processes : v # w => CacheKept(v)
           /\ rmemSt[w] \in R!Checkpoint /\ rmemSt[w].cur \in Nat
<1>1. RotationTypes /\ InCall(w)
  BY DEF CalmInv
<1>2. rmemSt[w] \in R!Checkpoint
  BY <1>1 DEF RotationTypes, InCall
<1>3. rmemSt[w].cur \in Nat
  BY <1>2 DEF R!Checkpoint
<1>4. QED
  BY <1>1, <1>2, <1>3 DEF CalmInv

\* Moving the state of a writer on to a part.
LEMMA PartMoves ==
    ASSUME RotationTypes, NEW w \in Processes, rmemSt[w] \in R!Checkpoint, NEW c \in Nat
    PROVE  LET moved == [rmemSt EXCEPT ![w].cur = c]
           IN  /\ moved \in [Processes -> R!Checkpoint \cup {None}]
               /\ moved[w] # None /\ moved[w].cur = c
               /\ moved[w].seq = rmemSt[w].seq /\ moved[w].prev = rmemSt[w].prev
               /\ \A v \in Processes : v # w => moved[v] = rmemSt[v]
<1> DEFINE new == [rmemSt[w] EXCEPT !.cur = c]
<1>1. new \in R!Checkpoint /\ new.cur = c /\ new.seq = rmemSt[w].seq /\ new.prev = rmemSt[w].prev
  BY DEF R!Checkpoint
<1>2. new # None
  BY <1>1, PartBounds
<1>3. [rmemSt EXCEPT ![w].cur = c] = [rmemSt EXCEPT ![w] = new]
  OBVIOUS
<1>4. rmemSt \in [Processes -> R!Checkpoint \cup {None}]
  BY DEF RotationTypes
<1> HIDE DEF new
<1>5. QED
  BY <1>1, <1>2, <1>3, <1>4

\* What a call leaves alone while the files and the batch stay as they are.
LEMMA CallGoesOn ==
    ASSUME CalmInv, NEW w \in Processes, rholder = w, rholder' = w,
           UNCHANGED <<rdisk, rtorn, rraw, rpending, rsigned, rckpt>>,
           rcreated' \in SUBSET R!File,
           rmanifest' \in [R!File -> Seq(R!Line) \cup {None}],
           rmemSt' \in [Processes -> R!Checkpoint \cup {None}],
           rfh' \in [Processes -> R!File \cup {0}],
           \A v \in Processes : v # w => rmemSt'[v] = rmemSt[v] /\ rfh'[v] = rfh[v],
           FilesKept', InCall(w)'
    PROVE  CalmInv'
<1>1. RotationTypes /\ R!ChainOK /\ \A v \in Processes : v # w => CacheKept(v)
  BY Inside
<1>2. RotationTypes'
  BY <1>1 DEF RotationTypes
<1>3. R!ChainOK'
  BY <1>1, ZenonT(60) DEF R!ChainOK, R!LineOK, R!Before, R!LinkedTo
<1>4. \A v \in Processes : (rholder # v => CacheKept(v))'
  BY <1>1 DEF CacheKept
<1>5. w # None
  BY PartBounds
<1>6. QED
  BY <1>2, <1>3, <1>4, <1>5 DEF CalmInv

\* A batch that is not written further continues the log as it did.
LEMMA BatchStays ==
    ASSUME NEW w \in Processes, BatchContinues(rmemSt[w]), rpc # "save", rpc' # "save",
           UNCHANGED <<rdisk, rpending>>,
           rmemSt'[w].seq = rmemSt[w].seq, rmemSt'[w].prev = rmemSt[w].prev
    PROVE  BatchContinues(rmemSt[w])'
BY DEF BatchContinues, LogEndsAt, LastWritten, R!LinkedTo

LEMMA CalmOpen ==
    ASSUME CalmInv, NEW w \in Processes, R!OpenLog(w)
    PROVE  CalmInv'
<1>1. /\ rholder = w /\ rholder' = w /\ rpc \in {"open", "reopen"}
      /\ rpc' = IF rpc = "open" THEN "rotate" ELSE "write"
      /\ UNCHANGED <<rdisk, rmanifest, rtorn, rraw, rckpt, rpending, rsigned>>
  BY DEF R!OpenLog, R!files, R!memory
<1>2. /\ RotationTypes /\ FilesKept /\ InCall(w)
      /\ rmemSt[w] \in R!Checkpoint /\ rmemSt[w].cur \in Nat
  BY <1>1, Inside
<1>3. /\ BatchContinues(rmemSt[w]) /\ PartChosen(rmemSt[w].cur, rfh[w]) /\ rmemSt[w] # None
  BY <1>2 DEF InCall
<1>4. rpc' \in {"rotate", "write"}
  BY <1>1
<1>5. CASE rfh[w] # 0 /\ UNCHANGED <<R!files, rfresher, R!memory>>
  <2>1. UNCHANGED <<rcreated, rmemSt, rfh>>
    BY <1>5 DEF R!files, R!memory
  <2>2. FilesKept'
    BY <1>1, <1>2, <2>1 DEF FilesKept
  <2>3. BatchContinues(rmemSt[w])'
    BY <1>1, <1>3, <1>4, <2>1, BatchStays
  <2>4. OpenAt(rmemSt[w].cur) /\ rfh[w] = rmemSt[w].cur
    BY <1>3, <1>5 DEF PartChosen
  <2>5. PartChosen(rmemSt[w].cur, rfh[w])'
    BY <1>1, <1>4, <1>5, <2>1, <2>4 DEF PartChosen, OpenAt, Newest
  <2>6. InCall(w)'
    BY <1>3, <1>4, <2>1, <2>3, <2>5 DEF InCall
  <2>7. QED
    BY <1>1, <1>2, <2>1, <2>2, <2>6, CallGoesOn DEF RotationTypes
<1>6. CASE rfh[w] = 0 /\ \E f \in R!Target(rmemSt[w]) :
              /\ rmemSt' = [rmemSt EXCEPT ![w].cur = f]
              /\ rfh' = [rfh EXCEPT ![w] = f]
              /\ rcreated' = rcreated \cup {f}
  <2>1. PICK f \in R!Target(rmemSt[w]) :
              /\ rmemSt' = [rmemSt EXCEPT ![w].cur = f]
              /\ rfh' = [rfh EXCEPT ![w] = f]
              /\ rcreated' = rcreated \cup {f}
    BY <1>6
  <2>2. /\ f \in R!File
        /\ rmemSt[w].cur # 0 => f = rmemSt[w].cur
        /\ rmemSt[w].cur = 0 /\ rcreated = {} => f = 1
    BY PartBounds DEF R!Target
  <2>3. f \in Nat /\ f # 0
    BY <2>2, PartBounds
  <2>4. \A g \in rcreated : g <= f
    <3>1. CASE rmemSt[w].cur = 0
      <4>1. rcreated = {}
        BY <1>3, <3>1 DEF PartChosen, OpenAt
      <4>2. QED
        BY <4>1
    <3>2. CASE rmemSt[w].cur # 0 /\ rpc = "reopen"
      <4>1. \A g \in rcreated : g <= f - 1
        BY <1>3, <1>6, <2>2, <3>2 DEF PartChosen, Newest
      <4>2. rcreated \in SUBSET Nat
        BY <1>2, PartBounds DEF RotationTypes
      <4>3. QED
        BY <2>3, <4>1, <4>2
    <3>3. CASE rmemSt[w].cur # 0 /\ rpc # "reopen"
      BY <1>3, <2>2, <3>3 DEF PartChosen, OpenAt, Newest
    <3>4. QED
      BY <3>1, <3>2, <3>3
  <2>5. rmanifest[f] = None
    <3>1. CASE f \in rcreated
      <4>1. rmemSt[w].cur # 0 /\ rpc # "reopen"
        <5>1. CASE rmemSt[w].cur = 0
          BY <1>3, <3>1, <5>1 DEF PartChosen, OpenAt
        <5>2. CASE rmemSt[w].cur # 0 /\ rpc = "reopen"
          <6>1. f <= f - 1
            BY <1>3, <1>6, <2>2, <3>1, <5>2 DEF PartChosen, Newest
          <6>2. QED
            BY <2>3, <6>1
        <5>3. QED
          BY <5>1, <5>2
      <4>2. QED
        BY <1>3, <2>2, <4>1 DEF PartChosen, OpenAt
    <3>2. CASE f \notin rcreated
      BY <1>2, <2>2, <3>2 DEF FilesKept
    <3>3. QED
      BY <3>1, <3>2
  <2>6. /\ rmemSt' \in [Processes -> R!Checkpoint \cup {None}]
        /\ rmemSt'[w] # None /\ rmemSt'[w].cur = f
        /\ rmemSt'[w].seq = rmemSt[w].seq /\ rmemSt'[w].prev = rmemSt[w].prev
        /\ \A v \in Processes : v # w => rmemSt'[v] = rmemSt[v]
    BY <1>2, <2>1, <2>3, PartMoves
  <2>7. /\ rfh' \in [Processes -> R!File \cup {0}] /\ rfh'[w] = f
        /\ \A v \in Processes : v # w => rfh'[v] = rfh[v]
    BY <1>2, <2>1, <2>2 DEF RotationTypes
  <2>8. rcreated' \in SUBSET R!File /\ rmanifest' \in [R!File -> Seq(R!Line) \cup {None}]
    BY <1>1, <1>2, <2>1, <2>2 DEF RotationTypes
  <2>9. FilesKept'
    BY <1>1, <1>2, <2>1 DEF FilesKept
  <2>10. BatchContinues(rmemSt[w])'
    BY <1>1, <1>3, <1>4, <2>6, BatchStays
  <2>11. (OpenAt(rmemSt[w].cur))'
    <3>1. Newest(f)'
      BY <2>1, <2>3, <2>4 DEF Newest
    <3>2. OpenAt(f)'
      BY <1>1, <2>2, <2>3, <2>5, <3>1 DEF OpenAt
    <3>3. QED
      BY <2>6, <3>2 DEF OpenAt, Newest
  <2>12. PartChosen(rmemSt[w].cur, rfh[w])'
    BY <1>4, <2>3, <2>6, <2>7, <2>11 DEF PartChosen
  <2>13. InCall(w)'
    BY <1>4, <2>6, <2>10, <2>12 DEF InCall
  <2>14. QED
    BY <1>1, <2>6, <2>7, <2>8, <2>9, <2>13, CallGoesOn
<1>7. QED
  BY <1>5, <1>6 DEF R!OpenLog

LEMMA CalmRotate ==
    ASSUME CalmInv, NEW w \in Processes, R!Rotate(w), UNCHANGED <<rdisk, rtorn>>
    PROVE  CalmInv'
<1>1. /\ rholder = w /\ rholder' = w /\ rpc = "rotate" /\ rpc' = "reopen"
      /\ UNCHANGED <<rdisk, rcreated, rtorn, rraw, rckpt, rpending, rsigned>>
  BY DEF R!Rotate
<1>2. /\ RotationTypes /\ FilesKept /\ InCall(w)
      /\ rmemSt[w] \in R!Checkpoint /\ rmemSt[w].cur \in Nat
  BY <1>1, Inside
<1>3. /\ BatchContinues(rmemSt[w]) /\ PartChosen(rmemSt[w].cur, rfh[w]) /\ rmemSt[w] # None
  BY <1>2 DEF InCall
<1>4. /\ rfh[w] # 0 /\ rfh[w] = rmemSt[w].cur /\ OpenAt(rmemSt[w].cur)
  BY <1>1, <1>3 DEF PartChosen
<1>5. CASE UNCHANGED <<rmanifest, rmemSt, rfh>>
  <2>1. FilesKept'
    BY <1>1, <1>2, <1>5 DEF FilesKept
  <2>2. BatchContinues(rmemSt[w])'
    BY <1>1, <1>3, <1>5, BatchStays
  <2>3. PartChosen(rmemSt[w].cur, rfh[w])'
    BY <1>1, <1>4, <1>5 DEF PartChosen, OpenAt, Newest
  <2>4. InCall(w)'
    BY <1>1, <1>3, <1>5, <2>2, <2>3 DEF InCall
  <2>5. QED
    BY <1>1, <1>2, <1>5, <2>1, <2>4, CallGoesOn DEF RotationTypes
<1>6. CASE /\ rmanifest' = [rmanifest EXCEPT ![rfh[w]] = rdisk[rfh[w]]]
           /\ rmemSt' = [rmemSt EXCEPT ![w].cur = rmemSt[w].cur + 1]
           /\ rfh' = [rfh EXCEPT ![w] = 0]
  <2> DEFINE f == rfh[w]
  <2>1. f \in R!File /\ Newest(f) /\ f = rmemSt[w].cur /\ f \in Nat
    BY <1>2, <1>4 DEF OpenAt
  <2> HIDE DEF f
  <2>2. rmanifest' = [rmanifest EXCEPT ![f] = rdisk[f]]
    BY <1>6 DEF f
  <2>3. /\ rmanifest' \in [R!File -> Seq(R!Line) \cup {None}]
        /\ rmanifest'[f] = rdisk[f]
        /\ \A g \in R!File : g # f => rmanifest'[g] = rmanifest[g]
    BY <1>2, <2>1, <2>2 DEF RotationTypes
  <2>4. /\ rmemSt' \in [Processes -> R!Checkpoint \cup {None}]
        /\ rmemSt'[w] # None /\ rmemSt'[w].cur = f + 1
        /\ rmemSt'[w].seq = rmemSt[w].seq /\ rmemSt'[w].prev = rmemSt[w].prev
        /\ \A v \in Processes : v # w => rmemSt'[v] = rmemSt[v]
    <3>1. rmemSt' = [rmemSt EXCEPT ![w].cur = f + 1] /\ f + 1 \in Nat
      BY <1>6, <2>1
    <3>2. QED
      BY <1>2, <3>1, PartMoves
  <2>5. /\ rfh' \in [Processes -> R!File \cup {0}] /\ rfh'[w] = 0
        /\ \A v \in Processes : v # w => rfh'[v] = rfh[v]
    BY <1>2, <1>6 DEF RotationTypes
  <2>6. FilesKept'
    BY <1>1, <1>2, <2>1, <2>3 DEF FilesKept, Newest
  <2>7. BatchContinues(rmemSt[w])'
    BY <1>1, <1>3, <2>4, BatchStays
  <2>8. PartChosen(rmemSt[w].cur, rfh[w])'
    <3>1. rmemSt'[w].cur # 0 /\ rmemSt'[w].cur - 1 = f
      BY <2>1, <2>4
    <3>2. (Newest(rmemSt[w].cur - 1))'
      BY <1>1, <2>1, <3>1 DEF Newest
    <3>3. QED
      BY <1>1, <2>5, <3>1, <3>2 DEF PartChosen
  <2>9. InCall(w)'
    BY <1>1, <2>4, <2>7, <2>8 DEF InCall
  <2>10. QED
    BY <1>1, <1>2, <2>3, <2>4, <2>5, <2>6, <2>9, CallGoesOn DEF RotationTypes
<1>7. QED
  BY <1>5, <1>6 DEF R!Rotate

\* A bounded set of parts has a last one.
LEMMA LastPart ==
    ASSUME NEW n \in Nat, NEW Files \in SUBSET (1..n), Files # {}
    PROVE  R!Greatest(Files) \in Files /\ \A f \in Files : f <= R!Greatest(Files)
<1> DEFINE Bounds == {k \in Nat : \A f \in Files : f <= k}
           Less == {pair \in Nat \X Nat : pair[1] < pair[2]}
<1>1. IsWellFoundedOn(Less, Nat)
  BY NatLessThanWellFounded DEF OpToRel
<1>2. PICK m \in Bounds : \A k \in Bounds : ~(<<k, m>> \in Less)
  <2>1. n \in Bounds
    OBVIOUS
  <2> HIDE DEF Less
  <2>2. QED
    BY <1>1, <2>1, WFMin
<1>3. m \in Nat /\ m - 1 \notin Bounds
  <2>1. ASSUME m - 1 \in Bounds PROVE FALSE
    <3>1. <<m - 1, m>> \in Nat \X Nat
      BY <2>1
    <3>2. <<m - 1, m>> \in Less
      BY <3>1
    <3>3. QED
      BY <1>2, <2>1, <3>2
  <2>2. QED
    BY <2>1
<1>4. m \in Files
  <2>1. PICK f \in Files : TRUE
    OBVIOUS
  <2>2. m >= 1
    BY <2>1
  <2>3. QED
    BY <1>3, <2>2
<1>5. \A f \in Files : f <= m
  OBVIOUS
<1>6. QED
  BY <1>4, <1>5, GreatestIs

\* A line that continues the log is in place at the end of the newest part.
LEMMA LineInPlace ==
    ASSUME RotationTypes, FilesKept, R!ChainOK, NEW f \in R!File, Newest(f),
           NEW line \in R!Line, line.seq # 0, LogEndsAt(line.seq - 1, line.prev),
           rdisk' = [rdisk EXCEPT ![f] = Append(rdisk[f], line)]
    PROVE  /\ rdisk' \in [R!File -> Seq(R!Line)] /\ rdisk'[f] # <<>>
           /\ \A g \in R!File : g # f => rdisk'[g] = rdisk[g]
           /\ R!ChainOK' /\ (LogEndsAt(line.seq, line.hash))'
<1>1. R!File \subseteq Nat /\ R!File = 1..MaxParts /\ rdisk[f] \in Seq(R!Line)
  BY PartBounds DEF RotationTypes
<1>2. /\ rdisk' \in [R!File -> Seq(R!Line)] /\ rdisk'[f] = Append(rdisk[f], line)
      /\ \A g \in R!File : g # f => rdisk'[g] = rdisk[g]
  <2>1. Append(rdisk[f], line) \in Seq(R!Line)
    BY <1>1, AppendProperties
  <2>2. QED
    BY <2>1 DEF RotationTypes
<1>3. /\ Len(rdisk[f]) \in Nat /\ Len(rdisk'[f]) = Len(rdisk[f]) + 1
      /\ \A i \in 1..Len(rdisk[f]) : rdisk'[f][i] = rdisk[f][i]
      /\ rdisk'[f][Len(rdisk[f]) + 1] = line
  BY <1>1, <1>2, AppendProperties
<1>4. rdisk'[f] # <<>>
  BY <1>3
<1>5. \A g \in R!File : rdisk[g] # <<>> => g <= f
  BY DEF FilesKept, Newest
<1>6. line.seq \in Nat /\ line.prev \in Nat
  BY DEF R!Line
<1>7. (LogEndsAt(line.seq, line.hash))'
  <2>1. LastWritten(f)'
    BY <1>1, <1>2, <1>4, <1>5 DEF LastWritten
  <2>2. rdisk'[f][Len(rdisk'[f])] = line
    BY <1>3
  <2>3. QED
    BY <2>1, <2>2 DEF LogEndsAt
<1>8. \A g \in R!File : (rdisk[g] # <<>> \/ g = f) => R!Before(g)' = R!Before(g)
  <2>1. TAKE g \in R!File
  <2>2. HAVE rdisk[g] # <<>> \/ g = f
  <2>3. g <= f
    BY <1>1, <1>5, <2>2
  <2>4. \A h \in R!File : h < g => rdisk'[h] = rdisk[h]
    BY <1>1, <1>2, <2>3
  <2>5. QED
    BY <2>4 DEF R!Before
<1>9. ASSUME NEW last \in Nat, last = Len(rdisk[f]) + 1
      PROVE  R!LineOK(f, last)'
  <2>1. CASE Len(rdisk[f]) > 0
    <3>1. rdisk[f] # <<>>
      BY <2>1
    <3>2. LastWritten(f)
      BY <1>5, <3>1 DEF LastWritten
    <3>3. \A g \in R!File : LastWritten(g) => g = f
      BY <1>1, <3>2 DEF LastWritten
    <3>4. /\ line.seq - 1 = rdisk[f][Len(rdisk[f])].seq
          /\ line.prev = rdisk[f][Len(rdisk[f])].hash
      BY <3>1, <3>3 DEF LogEndsAt
    <3>5. rdisk[f][Len(rdisk[f])] \in R!Line
      BY <1>1, <2>1
    <3>6. line.seq = rdisk[f][Len(rdisk[f])].seq + 1
      BY <1>6, <3>4, <3>5 DEF R!Line
    <3>7. R!LinkedTo(rdisk'[f][Len(rdisk[f]) + 1], rdisk'[f][Len(rdisk[f])])
      <4>1. rdisk'[f][Len(rdisk[f])] = rdisk[f][Len(rdisk[f])]
        BY <1>3, <2>1
      <4>2. QED
        BY <1>3, <3>4, <3>6, <4>1 DEF R!LinkedTo
    <3>8. last > 1 /\ last - 1 = Len(rdisk[f])
      BY <1>3, <1>9, <2>1
    <3>9. R!LinkedTo(rdisk'[f][last], rdisk'[f][last - 1])
      BY <1>9, <3>7, <3>8
    <3>10. QED
      BY <3>8, <3>9 DEF R!LineOK, R!LinkedTo
  <2>2. CASE Len(rdisk[f]) = 0
    <3>1. rdisk[f] = <<>> /\ rdisk'[f][1] = line /\ last = 1
      BY <1>1, <1>3, <1>9, <2>2
    <3>2. R!Before(f)' = R!Before(f)
      BY <1>8
    <3>3. CASE \A g \in R!File : rdisk[g] = <<>>
      <4>1. R!Before(f) = {}
        BY <3>3 DEF R!Before
      <4>2. line.seq - 1 = 0 /\ line.prev = 0
        BY <3>3 DEF LogEndsAt, LastWritten
      <4>3. R!LinkedTo(line, R!Junk)
        BY <1>6, <4>2 DEF R!LinkedTo, R!Junk
      <4>4. QED
        BY <3>1, <3>2, <4>1, <4>3 DEF R!LineOK, R!LinkedTo, R!Junk
    <3>4. CASE ~\A g \in R!File : rdisk[g] = <<>>
      <4>1. PICK g \in R!File : /\ LastWritten(g)
                                /\ line.seq - 1 = rdisk[g][Len(rdisk[g])].seq
                                /\ line.prev = rdisk[g][Len(rdisk[g])].hash
        BY <3>4 DEF LogEndsAt
      <4>2. g # f /\ g < f /\ rdisk[g] # <<>> /\ rdisk'[g] = rdisk[g]
        BY <1>1, <1>2, <1>5, <3>1, <4>1 DEF LastWritten
      <4>3. g \in R!Before(f) /\ R!Before(f) \in SUBSET Nat /\ \A h \in R!Before(f) : h <= g
        BY <1>1, <4>1, <4>2 DEF R!Before, LastWritten
      <4>4. R!Greatest(R!Before(f)) = g
        BY <4>3, GreatestIs
      <4>5. rdisk[g] \in Seq(R!Line) /\ Len(rdisk[g]) \in 1..Len(rdisk[g])
        BY <4>2 DEF RotationTypes
      <4>6. rdisk[g][Len(rdisk[g])] \in R!Line
        BY <4>5
      <4>7. line.seq = rdisk[g][Len(rdisk[g])].seq + 1
        BY <1>6, <4>1, <4>6 DEF R!Line
      <4>8. R!LinkedTo(line, rdisk'[g][Len(rdisk'[g])])
        BY <4>1, <4>2, <4>7 DEF R!LinkedTo
      <4>9. (R!Greatest(R!Before(f)))' = g /\ R!Before(f)' # {}
        <5>1. (R!Greatest(R!Before(f)))' = R!Greatest(R!Before(f))
          BY <3>2 DEF R!Greatest
        <5>2. QED
          BY <3>2, <4>3, <4>4, <5>1
      <4>10. QED
        BY <3>1, <4>8, <4>9 DEF R!LineOK, R!LinkedTo
    <3>5. QED
      BY <3>3, <3>4
  <2>3. QED
    BY <1>3, <2>1, <2>2
<1>10. ASSUME NEW g \in R!File, NEW i \in 1..Len(rdisk[g])
       PROVE  R!LineOK(g, i)'
  <2>1. rdisk[g] # <<>> /\ Len(rdisk[g]) \in Nat /\ R!LineOK(g, i)
    <3>1. rdisk[g] \in Seq(R!Line)
      BY DEF RotationTypes
    <3>2. R!LineOK(g, i)
      BY DEF R!ChainOK
    <3>3. QED
      BY <3>1, <3>2
  <2>2. /\ rdisk'[g][i] = rdisk[g][i]
        /\ i > 1 => rdisk'[g][i - 1] = rdisk[g][i - 1]
    <3>1. CASE g = f
      BY <1>3, <3>1
    <3>2. CASE g # f
      BY <1>2, <3>2
    <3>3. QED
      BY <3>1, <3>2
  <2>3. R!Before(g)' = R!Before(g)
    BY <1>8, <2>1
  <2>4. CASE i > 1
    BY <2>1, <2>2, <2>4 DEF R!LineOK, R!LinkedTo
  <2>5. CASE i = 1 /\ R!Before(g) = {}
    BY <2>1, <2>2, <2>3, <2>5 DEF R!LineOK, R!LinkedTo, R!Junk
  <2>6. CASE i = 1 /\ R!Before(g) # {}
    <3> DEFINE h == R!Greatest(R!Before(g))
    <3>1. h' = h
      BY <2>3 DEF R!Greatest
    <3>2. h \in R!Before(g)
      <4>1. R!Before(g) \in SUBSET (1..MaxParts) /\ MaxParts \in Nat
        BY <1>1, PartBounds DEF R!Before
      <4>2. QED
        BY <2>6, <4>1, LastPart
    <3>3. h \in R!File /\ h < g
      BY <3>2 DEF R!Before
    <3>4. rdisk'[h] = rdisk[h]
      <4>1. g <= f
        BY <1>5, <2>1
      <4>2. QED
        BY <1>1, <1>2, <3>3, <4>1
    <3>5. R!LinkedTo(rdisk[g][1], rdisk[h][Len(rdisk[h])])
      BY <2>1, <2>6 DEF R!LineOK
    <3>6. R!LinkedTo(rdisk'[g][1], rdisk'[h][Len(rdisk'[h])])
      BY <2>2, <2>6, <3>4, <3>5
    <3> HIDE DEF h
    <3>7. (R!LinkedTo(rdisk[g][1], rdisk[h][Len(rdisk[h])]))'
      BY <3>1, <3>6 DEF R!LinkedTo
    <3>8. QED
      BY <2>3, <2>6, <3>7 DEF R!LineOK, h, R!LinkedTo
  <2>7. QED
    BY <2>4, <2>5, <2>6
<1>11. R!ChainOK'
  <2>1. SUFFICES ASSUME NEW g \in R!File, NEW i \in 1..Len(rdisk'[g])
                 PROVE  R!LineOK(g, i)'
    BY DEF R!ChainOK, R!File
  <2>2. CASE i \in 1..Len(rdisk[g])
    BY <1>10, <2>2
  <2>3. CASE i \notin 1..Len(rdisk[g])
    <3>1. g = f
      BY <1>2, <2>3
    <3>2. i = Len(rdisk[f]) + 1
      BY <1>3, <2>1, <2>3, <3>1
    <3>3. QED
      BY <1>9, <3>1, <3>2
  <2>4. QED
    BY <2>2, <2>3
<1>12. QED
  BY <1>2, <1>4, <1>7, <1>11

LEMMA CalmWrite ==
    ASSUME CalmInv, NEW w \in Processes, R!WriteLine(w)
    PROVE  CalmInv'
<1>1. /\ rholder = w /\ rholder' = w /\ rpc = "write"
      /\ rpc' = IF Len(rpending) = 1 THEN "save" ELSE "open"
      /\ rpending' = Tail(rpending)
      /\ UNCHANGED <<rcreated, rmanifest, rckpt, rmemSt, rraw, rfh, rsigned>>
  BY DEF R!WriteLine, R!AfterLine
<1>2. /\ RotationTypes /\ FilesKept /\ R!ChainOK /\ InCall(w)
      /\ \A v \in Processes : v # w => CacheKept(v)
      /\ rmemSt[w] \in R!Checkpoint /\ rmemSt[w].cur \in Nat
  BY <1>1, Inside
<1>3. /\ BatchContinues(rmemSt[w]) /\ PartChosen(rmemSt[w].cur, rfh[w]) /\ rmemSt[w] # None
  BY <1>2 DEF InCall
<1>4. /\ rfh[w] # 0 /\ rfh[w] = rmemSt[w].cur /\ OpenAt(rfh[w])
      /\ rpending # <<>> /\ rpending \in Seq(R!Line)
  BY <1>1, <1>2, <1>3 DEF PartChosen, BatchContinues, RotationTypes
<1>5. PICK f \in R!File, line \in R!Line : f = rfh[w] /\ line = rpending[1]
  <2>1. rfh[w] \in R!File /\ rpending[1] \in R!Line
    BY <1>4 DEF OpenAt
  <2>2. QED
    BY <2>1
<1>6. Newest(f) /\ rmanifest[f] = None
  BY <1>4, <1>5 DEF OpenAt
<1>7. /\ line.seq # 0 /\ LogEndsAt(line.seq - 1, line.prev)
      /\ \A i \in 2..Len(rpending) : R!LinkedTo(rpending[i], rpending[i - 1])
      /\ rmemSt[w].seq = rpending[Len(rpending)].seq
      /\ rmemSt[w].prev = rpending[Len(rpending)].hash
  BY <1>1, <1>3, <1>5 DEF BatchContinues
<1>8. Len(rpending) \in Nat /\ Len(rpending) # 0
  BY <1>4
<1>9. /\ rdisk' = [rdisk EXCEPT ![f] = Append(rdisk[f], line)]
      /\ rtorn' = {}
  BY <1>2, <1>5 DEF R!WriteLine, FilesKept
<1>10. rpending' \in Seq(R!Line) /\ Len(rpending') = Len(rpending) - 1
      /\ \A i \in 1..Len(rpending') : rpending'[i] = rpending[i + 1]
  BY <1>1, <1>4, HeadTailProperties
<1>11. /\ rdisk' \in [R!File -> Seq(R!Line)] /\ rdisk'[f] # <<>>
       /\ \A g \in R!File : g # f => rdisk'[g] = rdisk[g]
       /\ R!ChainOK' /\ (LogEndsAt(line.seq, line.hash))'
  BY <1>2, <1>7, <1>9, <1>6, LineInPlace
<1>12. RotationTypes'
  BY <1>1, <1>2, <1>10, <1>11 DEF RotationTypes
<1>13. FilesKept'
  <2>1. f \in rcreated
    BY <1>6 DEF Newest
  <2>2. QED
    BY <1>1, <1>2, <1>9, <1>11, <1>6, <2>1 DEF FilesKept
<1>14. \A v \in Processes : (rholder # v => CacheKept(v))'
  BY <1>1, <1>2 DEF CacheKept
<1>15. InCall(w)'
  <2>1. PartChosen(rmemSt[w].cur, rfh[w])'
    <3>1. OpenAt(rmemSt[w].cur)'
      BY <1>1, <1>4 DEF OpenAt, Newest
    <3>2. rfh'[w] = rmemSt'[w].cur /\ rfh'[w] # 0 /\ rpc' # "reopen"
      BY <1>1, <1>4
    <3>3. QED
      BY <3>1, <3>2 DEF PartChosen
  <2>2. CASE Len(rpending) = 1
    <3>1. rmemSt'[w].seq = line.seq /\ rmemSt'[w].prev = line.hash /\ rpc' = "save"
      BY <1>1, <1>5, <1>7, <2>2
    <3>2. (LogEndsAt(rmemSt[w].seq, rmemSt[w].prev))'
      BY <1>11, <3>1 DEF LogEndsAt, LastWritten
    <3>3. QED
      BY <1>1, <1>3, <2>1, <3>1, <3>2 DEF InCall, BatchContinues
  <2>3. CASE Len(rpending) # 1
    <3>1. Len(rpending') >= 1 /\ rpc' = "open" /\ rpending' # <<>>
      <4>1. Len(rpending') >= 1 /\ rpc' = "open"
        BY <1>1, <1>8, <1>10, <2>3
      <4>2. QED
        BY <1>10, <4>1
    <3>2. rpending'[1] = rpending[2] /\ R!LinkedTo(rpending[2], line)
      BY <1>5, <1>7, <1>8, <1>10, <2>3, <3>1
    <3>3. rpending'[1].seq = line.seq + 1 /\ rpending'[1].prev = line.hash /\ line.seq \in Nat
      BY <3>2 DEF R!LinkedTo, R!Line
    <3>4. rpending'[1].seq # 0 /\ rpending'[1].seq - 1 = line.seq
      BY <3>3
    <3>5. (LogEndsAt(rpending[1].seq - 1, rpending[1].prev))'
      BY <1>11, <3>3, <3>4 DEF LogEndsAt, LastWritten
    <3>6. \A i \in 2..Len(rpending') : R!LinkedTo(rpending'[i], rpending'[i - 1])
      <4>1. TAKE i \in 2..Len(rpending')
      <4>2. i + 1 \in 2..Len(rpending) /\ (i + 1) - 1 = i
        BY <1>8, <1>10
      <4>3. rpending'[i] = rpending[i + 1]
        BY <1>8, <1>10
      <4>4. rpending'[i - 1] = rpending[i]
        <5>1. i - 1 \in 1..Len(rpending') /\ (i - 1) + 1 = i
          BY <1>8, <1>10
        <5>2. QED
          BY <1>10, <5>1
      <4>5. R!LinkedTo(rpending[i + 1], rpending[i])
        BY <1>7, <4>2
      <4>6. QED
        BY <4>3, <4>4, <4>5
    <3>7. rpending'[Len(rpending')] = rpending[Len(rpending)]
      <4>1. Len(rpending') \in 1..Len(rpending') /\ Len(rpending') + 1 = Len(rpending)
        BY <1>8, <1>10, <3>1
      <4>2. QED
        BY <1>10, <4>1
    <3>8. BatchContinues(rmemSt[w])'
      BY <1>1, <1>7, <3>1, <3>4, <3>5, <3>6, <3>7 DEF BatchContinues, R!LinkedTo
    <3>9. QED
      BY <1>1, <1>3, <2>1, <3>1, <3>8 DEF InCall
  <2>4. QED
    BY <2>2, <2>3
<1>16. w # None
  BY PartBounds
<1>17. QED
  BY <1>1, <1>11, <1>12, <1>13, <1>14, <1>15, <1>16 DEF CalmInv

LEMMA CalmSave ==
    ASSUME CalmInv, NEW w \in Processes, R!Save(w)
    PROVE  CalmInv'
<1>1. /\ rholder = w /\ rpc = "save" /\ rckpt' = rmemSt[w]
      /\ rraw' = [rraw EXCEPT ![w] = rmemSt[w]]
      /\ rfresher' = {} /\ rholder' = None /\ rpending' = <<>>
      /\ UNCHANGED <<rdisk, rcreated, rmanifest, rtorn, rmemSt, rfh, rsigned>>
  BY DEF R!Save, R!Release, R!files
<1>2. /\ RotationTypes /\ FilesKept /\ R!ChainOK /\ InCall(w)
      /\ \A v \in Processes : v # w => CacheKept(v)
      /\ rmemSt[w] \in R!Checkpoint /\ rmemSt[w].cur \in Nat
  BY <1>1, Inside
<1>3. /\ BatchContinues(rmemSt[w]) /\ PartChosen(rmemSt[w].cur, rfh[w]) /\ rmemSt[w] # None
  BY <1>2 DEF InCall
<1>4. /\ LogEndsAt(rmemSt[w].seq, rmemSt[w].prev)
      /\ rfh[w] = rmemSt[w].cur /\ OpenAt(rmemSt[w].cur)
  BY <1>1, <1>3 DEF PartChosen, BatchContinues
<1>5. /\ rraw' \in [Processes -> R!Checkpoint \cup {None}] /\ rraw'[w] = rmemSt[w]
      /\ \A v \in Processes : v # w => rraw'[v] = rraw[v]
  BY <1>1, <1>2 DEF RotationTypes
<1>6. RotationTypes'
  BY <1>1, <1>2, <1>5 DEF RotationTypes
<1>7. FilesKept' /\ R!ChainOK'
  BY <1>1, <1>2 DEF FilesKept, R!ChainOK, R!LineOK, R!Before, R!LinkedTo
<1>8. \A v \in Processes : CacheKept(v)'
  <2>1. CacheKept(w)'
    BY <1>1, <1>3, <1>4, <1>5 DEF CacheKept, Kept
  <2>2. ASSUME NEW v \in Processes, v # w PROVE CacheKept(v)'
    BY <1>1, <1>2, <1>5, <2>2 DEF CacheKept
  <2>3. QED
    BY <2>1, <2>2
<1>9. AtRest'
  <2>1. Kept(rckpt)' = rmemSt[w]
    BY <1>1, <1>3 DEF Kept
  <2>2. (LogEndsAt(Kept(rckpt).seq, Kept(rckpt).prev))'
    BY <1>1, <1>4, <2>1 DEF LogEndsAt, LastWritten
  <2>3. (OpenAt(Kept(rckpt).cur))'
    BY <1>1, <1>4, <2>1 DEF OpenAt, Newest
  <2>4. QED
    BY <1>1, <2>2, <2>3 DEF AtRest
<1>10. QED
  BY <1>1, <1>6, <1>7, <1>8, <1>9, PartBounds DEF CalmInv

LEMMA CalmClose ==
    ASSUME CalmInv, NEW w \in Processes, R!Close(w)
    PROVE  CalmInv'
<1>1. /\ rholder # w
      /\ rmemSt' = [rmemSt EXCEPT ![w] = None]
      /\ rraw' = [rraw EXCEPT ![w] = None]
      /\ rfh' = [rfh EXCEPT ![w] = 0]
      /\ UNCHANGED <<rdisk, rcreated, rmanifest, rtorn, rckpt, rfresher, rholder, rpc,
                     rpending, rsigned>>
  BY DEF R!Close, R!Forget, R!files, R!call
<1>2. RotationTypes /\ FilesKept /\ R!ChainOK
  BY DEF CalmInv
<1>3. /\ rmemSt' \in [Processes -> R!Checkpoint \cup {None}]
      /\ rraw' \in [Processes -> R!Checkpoint \cup {None}]
      /\ rfh' \in [Processes -> R!File \cup {0}]
      /\ rmemSt'[w] = None /\ rfh'[w] = 0
      /\ \A v \in Processes : v # w =>
            rmemSt'[v] = rmemSt[v] /\ rfh'[v] = rfh[v] /\ rraw'[v] = rraw[v]
  BY <1>1, <1>2 DEF RotationTypes
<1>4. RotationTypes'
  BY <1>1, <1>2, <1>3 DEF RotationTypes
<1>5. FilesKept' /\ R!ChainOK'
  BY <1>1, <1>2 DEF FilesKept, R!ChainOK, R!LineOK, R!Before, R!LinkedTo
<1>6. ASSUME NEW v \in Processes, rholder' # v PROVE CacheKept(v)'
  <2>1. CASE v = w
    BY <1>3, <2>1 DEF CacheKept
  <2>2. CASE v # w
    <3>1. CacheKept(v)
      BY <1>1, <1>6 DEF CalmInv
    <3>2. QED
      BY <1>3, <2>2, <3>1 DEF CacheKept
  <2>3. QED
    BY <2>1, <2>2
<1>7. rholder = None => AtRest'
  <2>1. SUFFICES ASSUME AtRest PROVE AtRest'
    BY DEF CalmInv
  <2>2. QED
    BY <1>1, <2>1 DEF AtRest, LogEndsAt, LastWritten, OpenAt, Newest, Kept
<1>8. ASSUME NEW v \in Processes, rholder = v PROVE InCall(v)'
  <2>1. InCall(v) /\ rmemSt'[v] = rmemSt[v] /\ rfh'[v] = rfh[v]
    BY <1>1, <1>3, <1>8 DEF CalmInv
  <2>2. BatchContinues(rmemSt[v])'
    BY <1>1, <2>1 DEF InCall, BatchContinues, LogEndsAt, LastWritten, R!LinkedTo
  <2>3. PartChosen(rmemSt[v].cur, rfh[v])'
    BY <1>1, <2>1 DEF InCall, PartChosen, OpenAt, Newest
  <2>4. QED
    BY <1>1, <2>1, <2>2, <2>3 DEF InCall
<1>9. QED
  BY <1>1, <1>4, <1>5, <1>6, <1>7, <1>8 DEF CalmInv

LEMMA CalmStart == R!Init => CalmInv
<1> SUFFICES ASSUME R!Init PROVE CalmInv
  OBVIOUS
<1>1. RotationTypes
  BY PartBounds DEF R!Init, RotationTypes
<1>2. FilesKept /\ R!ChainOK
  BY DEF R!Init, FilesKept, R!ChainOK
<1>3. \A w \in Processes : CacheKept(w) /\ rholder # w
  BY PartBounds DEF R!Init, CacheKept
<1>4. AtRest
  <2>1. Kept(rckpt) = R!Empty /\ R!Empty.seq = 0 /\ R!Empty.prev = 0 /\ R!Empty.cur = 0
    BY DEF R!Init, Kept, R!Empty
  <2>2. QED
    BY <2>1 DEF R!Init, AtRest, LogEndsAt, OpenAt
<1>5. QED
  BY <1>1, <1>2, <1>3, <1>4 DEF CalmInv

\* RotationIsClean: while nothing fails, the chain of the lines is whole from
\* part to part and a part with a manifest is not written again, whichever
\* process goes on with the log and wherever a batch crosses into the next part
\* (append_many, _maybe_rotate_locked), for any number of processes and parts.
THEOREM RotationStaysClean == R!MCSpec => []RotationIsClean
<1> DEFINE Inv == calm => CalmInv
<1>1. R!MCInit => Inv
  BY CalmStart DEF R!MCInit
<1>2. Inv /\ [R!MCNext]_<<calm, R!vars>> => Inv'
  <2>1. SUFFICES ASSUME CalmInv, calm, calm' = calm, R!CalmNext \/ UNCHANGED R!vars
                 PROVE  CalmInv'
    BY DEF R!MCNext
  <2>2. CASE UNCHANGED R!vars
    <3>1. UNCHANGED <<rdisk, rcreated, rmanifest, rtorn, rckpt, rfresher, rmemSt, rraw, rfh,
                      rholder, rpc, rpending, rsigned>>
      BY <2>2 DEF R!vars, R!files, R!memory, R!call
    <3>2. RotationTypes' /\ FilesKept'
      BY <2>1, <3>1 DEF CalmInv, RotationTypes, FilesKept
    <3>3. R!ChainOK'
      BY <2>1, <3>1 DEF CalmInv, R!ChainOK, R!LineOK, R!Before, R!LinkedTo
    <3>4. (\A w \in Processes : rholder # w => CacheKept(w))'
      BY <2>1, <3>1 DEF CalmInv, CacheKept
    <3>5. (rholder = None => AtRest)'
      BY <2>1, <3>1 DEF CalmInv, AtRest, LogEndsAt, LastWritten, OpenAt, Newest, Kept
    <3>6. (\A w \in Processes : rholder = w => InCall(w))'
      <4>1. SUFFICES ASSUME NEW w \in Processes, InCall(w) PROVE InCall(w)'
        BY <2>1, <3>1 DEF CalmInv
      <4>2. BatchContinues(rmemSt[w])'
        BY <3>1, <4>1 DEF InCall, BatchContinues, LogEndsAt, LastWritten, R!LinkedTo
      <4>3. PartChosen(rmemSt[w].cur, rfh[w])'
        BY <3>1, <4>1 DEF InCall, PartChosen, OpenAt, Newest
      <4>4. QED
        BY <3>1, <4>1, <4>2, <4>3 DEF InCall
    <3>7. QED
      BY <3>2, <3>3, <3>4, <3>5, <3>6 DEF CalmInv
  <2>3. CASE R!CalmNext
    <3>1. PICK w \in Processes :
             \/ \E n \in 1..MaxEvents : R!Begin(w, n)
             \/ R!Reject(w) \/ R!OpenLog(w) \/ R!WriteLine(w) \/ R!Save(w) \/ R!Close(w)
             \/ R!Rotate(w) /\ UNCHANGED <<rdisk, rtorn>>
      BY <2>3 DEF R!CalmNext
    <3>2. QED
      BY <2>1, <3>1, CalmBegin, CalmReject, CalmOpen, CalmRotate, CalmWrite, CalmSave, CalmClose
  <2>4. QED
    BY <2>1, <2>2, <2>3
<1>3. Inv => RotationIsClean
  BY DEF RotationIsClean, R!RotationIsClean, CalmInv, FilesKept, R!ManifestsOK
<1>4. QED
  BY <1>1, <1>2, <1>3, PTL DEF R!MCSpec

-----------------------------------------------------------------------------
(* The evidence bundle of a run (dakota_gateway/evidence_bundle.py).       *)

TrailRecord == [lines : Nat, torn : BOOLEAN, manifest : Nat]
IsBundle(b) == b = [trails |-> b.trails, results |-> b.results,
                    failures |-> b.failures, summary |-> b.summary, row |-> b.row]

EvidenceTypes ==
    /\ trail \in [Observed -> TrailRecord]
    /\ failures \in Nat
    /\ row \in E!Times
    /\ epc \in {"run", "next", "part", "manifest", "write", "exported"}
    /\ todo \subseteq Observed
    /\ IsBundle(bundle)
    /\ damaged \in {"no", "cut", "lost", "added", "failures", "row"}
    /\ verdict \in {"none", "VALID", "INVALID"}

\* Which sessions are in the bundle, and which are still to come.
CopiedInTurn ==
    /\ DOMAIN bundle.results \subseteq Observed
    /\ DOMAIN bundle.results \cap todo = {}
    /\ epc = "run" => DOMAIN bundle.results = {}
    /\ epc \in {"part", "manifest"} => current.session \in todo
    /\ DOMAIN bundle.trails =
          DOMAIN bundle.results \cup (IF epc = "manifest" THEN {current.session} ELSE {})

\* A copy holds no more than its trail, and a result is that of its copy.
CopiesAreJudged ==
    /\ \A s \in DOMAIN bundle.trails :
          /\ bundle.trails[s] \in TrailRecord
          /\ bundle.trails[s].lines <= trail[s].lines
    /\ \A s \in DOMAIN bundle.results :
          bundle.results[s] = E!Verifies(bundle.trails[s])
    /\ gaps \cap Observed = {s \in DOMAIN bundle.results : ~E!Verifies(bundle.trails[s])}

\* What is exported is listed as it is.
ListedAsBuilt ==
    /\ epc \in {"write", "exported"} =>
          bundle.failures \in Nat /\ bundle.summary = bundle.failures
    /\ epc = "exported" => exported = [listed |-> DOMAIN bundle.trails, trails |-> bundle.trails,
                                       failures |-> bundle.failures, row |-> bundle.row]

Invalid ==
    \/ E!ListedChanged \/ E!Extra \/ E!Backdated \/ E!Inconsistent \/ E!Unlisted
    \/ \E s \in exported.listed : E!TrailFails(s) \/ E!Disagrees(s)

\* Nothing is damaged or verified before the export; damage shows; and a verdict
\* is of the bundle as it stays.
Verified ==
    /\ epc # "exported" => damaged = "no" /\ verdict = "none"
    /\ damaged # "no" => E!ListedChanged \/ E!Extra \/ E!Inconsistent
    /\ verdict = "VALID" => ~Invalid
    /\ verdict = "INVALID" => Invalid

EvidenceInv ==
    /\ EvidenceTypes
    /\ damaged = "no" => CopiedInTurn /\ CopiesAreJudged /\ ListedAsBuilt
    /\ Verified

LEMMA TrailsSet ==
    ASSUME NEW b, IsBundle(b), NEW x
    PROVE  /\ IsBundle([b EXCEPT !.trails = x])
           /\ [b EXCEPT !.trails = x].trails = x
           /\ [b EXCEPT !.trails = x].results = b.results
           /\ [b EXCEPT !.trails = x].failures = b.failures
           /\ [b EXCEPT !.trails = x].summary = b.summary
<1>1. PICK a, c, d, e, f :
        b = [trails |-> a, results |-> c, failures |-> d, summary |-> e, row |-> f]
  BY DEF IsBundle
<1>2. QED
  BY <1>1 DEF IsBundle

LEMMA ResultsSet ==
    ASSUME NEW b, IsBundle(b), NEW x
    PROVE  /\ IsBundle([b EXCEPT !.results = x])
           /\ [b EXCEPT !.results = x].trails = b.trails
           /\ [b EXCEPT !.results = x].results = x
<1>1. PICK a, c, d, e, f :
        b = [trails |-> a, results |-> c, failures |-> d, summary |-> e, row |-> f]
  BY DEF IsBundle
<1>2. QED
  BY <1>1 DEF IsBundle

LEMMA FailuresSet ==
    ASSUME NEW b, IsBundle(b), NEW x
    PROVE  /\ IsBundle([b EXCEPT !.failures = x])
           /\ [b EXCEPT !.failures = x].trails = b.trails
           /\ [b EXCEPT !.failures = x].results = b.results
           /\ [b EXCEPT !.failures = x].failures = x
           /\ [b EXCEPT !.failures = x].summary = b.summary
<1>1. PICK a, c, d, e, f :
        b = [trails |-> a, results |-> c, failures |-> d, summary |-> e, row |-> f]
  BY DEF IsBundle
<1>2. QED
  BY <1>1 DEF IsBundle

LEMMA SummarySet ==
    ASSUME NEW b, IsBundle(b), NEW x
    PROVE  /\ IsBundle([b EXCEPT !.failures = x, !.summary = x])
           /\ [b EXCEPT !.failures = x, !.summary = x].trails = b.trails
           /\ [b EXCEPT !.failures = x, !.summary = x].results = b.results
           /\ [b EXCEPT !.failures = x, !.summary = x].failures = x
           /\ [b EXCEPT !.failures = x, !.summary = x].summary = x
<1> DEFINE m == [b EXCEPT !.failures = x]
<1>1. [b EXCEPT !.failures = x, !.summary = x] = [m EXCEPT !.summary = x]
  BY Zenon
<1>2. IsBundle(m) /\ m.trails = b.trails /\ m.results = b.results /\ m.failures = x
  BY FailuresSet
<1> HIDE DEF m
<1>3. PICK a, c, d, e, f :
        m = [trails |-> a, results |-> c, failures |-> d, summary |-> e, row |-> f]
  BY <1>2 DEF IsBundle
<1>4. /\ IsBundle([m EXCEPT !.summary = x])
      /\ [m EXCEPT !.summary = x].trails = m.trails
      /\ [m EXCEPT !.summary = x].results = m.results
      /\ [m EXCEPT !.summary = x].failures = m.failures
      /\ [m EXCEPT !.summary = x].summary = x
  BY <1>3 DEF IsBundle
<1>5. QED
  BY <1>1, <1>2, <1>4, Zenon

LEMMA RowSet ==
    ASSUME NEW b, IsBundle(b), NEW x
    PROVE  /\ IsBundle([b EXCEPT !.row = x])
           /\ [b EXCEPT !.row = x].trails = b.trails
           /\ [b EXCEPT !.row = x].results = b.results
           /\ [b EXCEPT !.row = x].row = x
<1>1. PICK a, c, d, e, f :
        b = [trails |-> a, results |-> c, failures |-> d, summary |-> e, row |-> f]
  BY DEF IsBundle
<1>2. QED
  BY <1>1 DEF IsBundle

LEMMA EvidenceStarts == E!Init => EvidenceInv
<1> SUFFICES ASSUME E!Init PROVE EvidenceInv
  OBVIOUS
<1> USE EvidenceBounds DEF E!EvidenceAssumption
<1>1. EvidenceTypes
  <2>1. E!NoTrail \in TrailRecord
    BY DEF E!NoTrail, E!Open, TrailRecord
  <2>2. QED
    BY <2>1 DEF E!Init, EvidenceTypes, IsBundle, E!Times
<1>2. /\ bundle.trails = <<>> /\ bundle.results = <<>> /\ gaps = {} /\ epc = "run"
      /\ DOMAIN bundle.trails = {} /\ DOMAIN bundle.results = {}
  BY DEF E!Init
<1>3. CopiedInTurn
  BY <1>2 DEF CopiedInTurn
<1>4. CopiesAreJudged
  BY <1>2 DEF CopiesAreJudged
<1>5. ListedAsBuilt
  BY <1>2 DEF ListedAsBuilt
<1>6. Verified
  BY DEF E!Init, Verified
<1>7. QED
  BY <1>1, <1>3, <1>4, <1>5, <1>6 DEF EvidenceInv

\* The replay goes on: its trails only grow, and the bundle stays.
LEMMA ReplayGoesOn ==
    ASSUME EvidenceInv, epc # "exported",
           UNCHANGED <<bundle, gaps, todo, current, epc, exported, damaged, verdict>>,
           trail' \in [Observed -> TrailRecord], failures' \in Nat, row' \in E!Times,
           \A s \in Observed : trail[s].lines <= trail'[s].lines
    PROVE  EvidenceInv'
<1>1. EvidenceTypes'
  BY DEF EvidenceInv, EvidenceTypes
<1>2. Verified'
  BY DEF EvidenceInv, Verified
<1>3. ASSUME damaged = "no" PROVE (CopiedInTurn /\ CopiesAreJudged /\ ListedAsBuilt)'
  <2>1. CopiedInTurn' /\ ListedAsBuilt'
    BY <1>3 DEF EvidenceInv, CopiedInTurn, ListedAsBuilt
  <2>2. DOMAIN bundle.trails \subseteq Observed
    BY <1>3 DEF EvidenceInv, EvidenceTypes, CopiedInTurn
  <2>3. \A s \in DOMAIN bundle.trails : bundle.trails[s].lines <= trail'[s].lines
    <3>1. TAKE s \in DOMAIN bundle.trails
    <3>2. /\ bundle.trails[s].lines \in Nat /\ trail[s].lines \in Nat /\ trail'[s].lines \in Nat
          /\ bundle.trails[s].lines <= trail[s].lines /\ trail[s].lines <= trail'[s].lines
      BY <1>3, <2>2 DEF EvidenceInv, EvidenceTypes, CopiesAreJudged, TrailRecord
    <3>3. QED
      BY <3>2
  <2>4. CopiesAreJudged'
    BY <1>3, <2>3 DEF EvidenceInv, CopiesAreJudged
  <2>5. QED
    BY <2>1, <2>4
<1>4. QED
  BY <1>1, <1>2, <1>3 DEF EvidenceInv

LEMMA ReplayStep ==
    ASSUME EvidenceInv,
           (\E s \in Observed : E!Write(s) \/ E!Finish(s)) \/ E!Fail \/ E!Start \/ E!End
    PROVE  EvidenceInv'
<1>1. CASE E!Fail \/ E!Start \/ E!End
  <2>1. failures' \in Nat /\ row' \in E!Times /\ trail' = trail /\ epc # "exported"
    BY <1>1 DEF E!Fail, E!Start, E!End, E!Times, EvidenceInv, EvidenceTypes
  <2>2. \A s \in Observed : trail[s].lines <= trail'[s].lines
    BY <2>1 DEF EvidenceInv, EvidenceTypes, TrailRecord
  <2>3. QED
    BY <1>1, <2>1, <2>2, ReplayGoesOn DEF E!Fail, E!Start, E!End, E!build, EvidenceInv,
       EvidenceTypes
<1>2. ASSUME NEW s \in Observed, E!Write(s) \/ E!Finish(s)
      PROVE  EvidenceInv'
  <2>1. PICK t \in TrailRecord : trail' = [trail EXCEPT ![s] = t] /\ trail[s].lines <= t.lines
    <3>1. trail[s] \in TrailRecord /\ trail \in [Observed -> TrailRecord]
      BY DEF EvidenceInv, EvidenceTypes
    <3>2. CASE E!Finish(s)
      <4>1. [trail[s] EXCEPT !.manifest = trail[s].lines] \in TrailRecord
        BY <3>1 DEF TrailRecord
      <4>2. trail' = [trail EXCEPT ![s] = [trail[s] EXCEPT !.manifest = trail[s].lines]]
        BY <3>2 DEF E!Finish
      <4>3. [trail[s] EXCEPT !.manifest = trail[s].lines].lines >= trail[s].lines
        BY <3>1 DEF TrailRecord
      <4>4. QED
        BY <4>1, <4>2, <4>3
    <3>3. CASE E!Write(s) /\ ~trail[s].torn
      <4>1. PICK half \in BOOLEAN :
               trail' = [trail EXCEPT ![s].lines = @ + 1, ![s].torn = half]
        BY <3>3 DEF E!Write
      <4>2. PICK n \in Nat : n = trail[s].lines + 1 /\ trail[s].lines <= n
        BY <3>1 DEF TrailRecord
      <4> DEFINE t == [trail[s] EXCEPT !.lines = n, !.torn = half]
      <4>3. t \in TrailRecord /\ t.lines = n
        BY <3>1, <4>1, <4>2 DEF TrailRecord
      <4>4. trail' = [trail EXCEPT ![s] = t]
        BY <3>1, <4>1, <4>2 DEF TrailRecord
      <4> HIDE DEF t
      <4>5. QED
        BY <4>2, <4>3, <4>4
    <3>4. CASE E!Write(s) /\ trail[s].torn
      <4>1. [trail[s] EXCEPT !.torn = FALSE] \in TrailRecord
        BY <3>1 DEF TrailRecord
      <4>2. trail' = [trail EXCEPT ![s] = [trail[s] EXCEPT !.torn = FALSE]]
        BY <3>4 DEF E!Write
      <4>3. [trail[s] EXCEPT !.torn = FALSE].lines >= trail[s].lines
        BY <3>1 DEF TrailRecord
      <4>4. QED
        BY <4>1, <4>2, <4>3
    <3>5. QED
      BY <1>2, <3>2, <3>3, <3>4
  <2>2. trail' \in [Observed -> TrailRecord]
    BY <2>1 DEF EvidenceInv, EvidenceTypes
  <2>3. \A x \in Observed : trail[x].lines <= trail'[x].lines
    BY <2>1 DEF EvidenceInv, EvidenceTypes, TrailRecord
  <2>4. /\ epc # "exported" /\ failures' = failures /\ row' = row
        /\ UNCHANGED <<bundle, gaps, todo, current, epc, exported, damaged, verdict>>
    BY <1>2 DEF E!Write, E!Finish, E!build
  <2>5. QED
    BY <2>2, <2>3, <2>4, ReplayGoesOn DEF EvidenceInv, EvidenceTypes
<1>3. QED
  BY <1>1, <1>2

\* The builder works on what nothing has touched.
LEMMA BuilderStep ==
    ASSUME EvidenceInv,
           E!Begin \/ E!List \/ E!CopyPart \/ E!CopyManifest \/ E!ReadFailures \/ E!WriteManifest
    PROVE  /\ damaged = "no" /\ verdict = "none" /\ UNCHANGED <<damaged, verdict, trail, failures, row>>
           /\ EvidenceTypes /\ CopiedInTurn /\ CopiesAreJudged /\ ListedAsBuilt
           /\ epc # "exported" /\ DOMAIN bundle.trails \subseteq Observed
<1>1. /\ epc # "exported" /\ UNCHANGED <<damaged, verdict, trail, failures, row>>
  BY DEF E!Begin, E!List, E!CopyPart, E!CopyManifest, E!ReadFailures, E!WriteManifest, E!source
<1>2. /\ damaged = "no" /\ verdict = "none"
  BY <1>1 DEF EvidenceInv, Verified
<1>3. EvidenceTypes /\ CopiedInTurn /\ CopiesAreJudged /\ ListedAsBuilt
  BY <1>2 DEF EvidenceInv
<1>4. DOMAIN bundle.trails \subseteq Observed
  BY <1>3 DEF EvidenceTypes, CopiedInTurn
<1>5. QED
  BY <1>1, <1>2, <1>3, <1>4

LEMMA BeginStep == ASSUME EvidenceInv, E!Begin PROVE EvidenceInv'
<1> USE EvidenceBounds DEF E!EvidenceAssumption
<1>1. /\ damaged = "no" /\ verdict = "none" /\ UNCHANGED <<damaged, verdict, trail, failures, row>>
      /\ EvidenceTypes /\ CopiedInTurn /\ CopiesAreJudged /\ ListedAsBuilt
  BY BuilderStep
<1>2. /\ epc = "run" /\ epc' = "next" /\ todo' \subseteq Observed
      /\ gaps' = gaps \/ gaps' = gaps \cup {"no_observed_trails"}
      /\ UNCHANGED <<current, exported>>
      /\ bundle' = [bundle EXCEPT !.row = row]
  BY DEF E!Begin
<1>3. /\ IsBundle(bundle') /\ bundle'.trails = bundle.trails
      /\ bundle'.results = bundle.results
  BY <1>1, <1>2, RowSet DEF EvidenceTypes
<1>4. EvidenceTypes'
  BY <1>1, <1>2, <1>3 DEF EvidenceTypes
<1>5. CopiedInTurn'
  BY <1>1, <1>2, <1>3 DEF CopiedInTurn
<1>6. gaps' \cap Observed = gaps \cap Observed
  BY <1>2
<1>7. CopiesAreJudged'
  BY <1>1, <1>2, <1>6, <1>3 DEF CopiesAreJudged
<1>8. ListedAsBuilt' /\ Verified'
  BY <1>1, <1>2 DEF ListedAsBuilt, Verified
<1>9. QED
  BY <1>4, <1>5, <1>7, <1>8 DEF EvidenceInv

LEMMA ListStep == ASSUME EvidenceInv, E!List PROVE EvidenceInv'
<1>1. /\ damaged = "no" /\ verdict = "none" /\ UNCHANGED <<damaged, verdict, trail, failures, row>>
      /\ EvidenceTypes /\ CopiedInTurn /\ CopiesAreJudged /\ ListedAsBuilt
  BY BuilderStep
<1>2. /\ epc = "next" /\ epc' = "part" /\ current'.session \in todo
      /\ UNCHANGED <<bundle, gaps, todo, exported>>
  BY DEF E!List
<1>3. EvidenceTypes'
  BY <1>1, <1>2 DEF EvidenceTypes
<1>4. CopiedInTurn'
  BY <1>1, <1>2 DEF CopiedInTurn
<1>5. CopiesAreJudged' /\ ListedAsBuilt' /\ Verified'
  BY <1>1, <1>2 DEF CopiesAreJudged, ListedAsBuilt, Verified
<1>6. QED
  BY <1>3, <1>4, <1>5 DEF EvidenceInv

LEMMA CopyPartStep == ASSUME EvidenceInv, E!CopyPart PROVE EvidenceInv'
<1> USE EvidenceBounds DEF E!EvidenceAssumption
<1> DEFINE s == current.session
           copy == [trail[s] EXCEPT !.manifest = E!Open]
           copies == E!With(bundle.trails, s, copy)
<1>1. /\ damaged = "no" /\ verdict = "none" /\ UNCHANGED <<damaged, verdict, trail, failures, row>>
      /\ EvidenceTypes /\ CopiedInTurn /\ CopiesAreJudged /\ ListedAsBuilt
  BY BuilderStep
<1>2. /\ epc = "part" /\ epc' = "manifest" /\ UNCHANGED <<gaps, todo, current, exported>>
      /\ bundle' = [bundle EXCEPT !.trails = copies]
  BY DEF E!CopyPart
<1>3. s \in todo /\ s \in Observed /\ s \notin DOMAIN bundle.results
      /\ DOMAIN bundle.trails = DOMAIN bundle.results
  BY <1>1, <1>2 DEF EvidenceTypes, CopiedInTurn
<1>4. copy \in TrailRecord /\ copy.lines = trail[s].lines /\ trail[s].lines \in Nat
  <2>1. E!Open \in Nat /\ trail[s] \in TrailRecord
    BY <1>1, <1>3 DEF EvidenceTypes, E!Open
  <2>2. QED
    BY <2>1 DEF TrailRecord
<1> HIDE DEF copy
<1>5. /\ DOMAIN copies = DOMAIN bundle.trails \cup {s} /\ copies[s] = copy
      /\ \A x \in DOMAIN bundle.trails : x # s => copies[x] = bundle.trails[x]
  BY DEF E!With
<1> HIDE DEF copies
<1>6. /\ IsBundle(bundle') /\ bundle'.trails = copies /\ bundle'.results = bundle.results
  BY <1>1, <1>2, TrailsSet DEF EvidenceTypes
<1>7. EvidenceTypes'
  BY <1>1, <1>2, <1>6 DEF EvidenceTypes
<1>8. CopiedInTurn'
  BY <1>1, <1>2, <1>3, <1>5, <1>6 DEF CopiedInTurn
<1>9. CopiesAreJudged'
  <2>1. \A x \in DOMAIN bundle'.trails :
           bundle'.trails[x] \in TrailRecord /\ bundle'.trails[x].lines <= trail'[x].lines
    <3>1. TAKE x \in DOMAIN bundle'.trails
    <3>2. CASE x = s
      BY <1>1, <1>4, <1>5, <1>6, <3>2
    <3>3. CASE x # s
      BY <1>1, <1>5, <1>6, <3>3 DEF CopiesAreJudged
    <3>4. QED
      BY <3>2, <3>3
  <2>2. \A x \in DOMAIN bundle.results : bundle'.trails[x] = bundle.trails[x]
    BY <1>3, <1>5, <1>6
  <2>3. QED
    BY <1>1, <1>2, <1>6, <2>1, <2>2 DEF CopiesAreJudged
<1>10. ListedAsBuilt' /\ Verified'
  BY <1>1, <1>2 DEF ListedAsBuilt, Verified
<1>11. QED
  BY <1>7, <1>8, <1>9, <1>10 DEF EvidenceInv

LEMMA CopyManifestStep == ASSUME EvidenceInv, E!CopyManifest PROVE EvidenceInv'
<1> USE EvidenceBounds DEF E!EvidenceAssumption
<1> DEFINE s == current.session
           named == IF current.manifest THEN trail[s].manifest ELSE E!Open
           copy == [bundle.trails[s] EXCEPT !.manifest = named]
           ok == E!Verifies(copy)
           copies == E!With(bundle.trails, s, copy)
           marks == E!With(bundle.results, s, ok)
<1>1. /\ damaged = "no" /\ verdict = "none" /\ UNCHANGED <<damaged, verdict, trail, failures, row>>
      /\ EvidenceTypes /\ CopiedInTurn /\ CopiesAreJudged /\ ListedAsBuilt
  BY BuilderStep
<1>2. /\ epc = "manifest" /\ epc' = "next" /\ todo' = todo \ {s} /\ UNCHANGED exported
      /\ gaps' = (IF ok THEN gaps ELSE gaps \cup {s})
      /\ bundle' = [bundle EXCEPT !.trails = copies, !.results = marks]
  BY DEF E!CopyManifest, E!VerifyCopy
<1>3. /\ s \in todo /\ s \in Observed /\ s \notin DOMAIN bundle.results
      /\ DOMAIN bundle.trails = DOMAIN bundle.results \cup {s}
  BY <1>1, <1>2 DEF EvidenceTypes, CopiedInTurn
<1>4. copy \in TrailRecord /\ copy.lines <= trail[s].lines
  <2>1. E!Open \in Nat /\ trail[s] \in TrailRecord
    BY <1>1, <1>3 DEF EvidenceTypes, E!Open
  <2>2. named \in Nat
    BY <2>1 DEF TrailRecord
  <2>3. bundle.trails[s] \in TrailRecord /\ bundle.trails[s].lines <= trail[s].lines
    BY <1>1, <1>3 DEF CopiesAreJudged
  <2> HIDE DEF named
  <2>4. copy \in TrailRecord /\ copy.lines = bundle.trails[s].lines
    BY <2>2, <2>3 DEF TrailRecord
  <2>5. QED
    BY <2>3, <2>4
<1> HIDE DEF copy
<1>5. /\ DOMAIN copies = DOMAIN bundle.trails \cup {s} /\ copies[s] = copy
      /\ \A x \in DOMAIN bundle.trails : x # s => copies[x] = bundle.trails[x]
  BY DEF E!With
<1>6. /\ DOMAIN marks = DOMAIN bundle.results \cup {s} /\ marks[s] = ok
      /\ \A x \in DOMAIN bundle.results : x # s => marks[x] = bundle.results[x]
  BY DEF E!With
<1> HIDE DEF copies, marks
<1>7. /\ IsBundle(bundle') /\ bundle'.trails = copies /\ bundle'.results = marks
  <2>1. IsBundle(bundle)
    BY <1>1 DEF EvidenceTypes
  <2> DEFINE half == [bundle EXCEPT !.trails = copies]
  <2>2. bundle' = [half EXCEPT !.results = marks]
    BY <1>2, Zenon
  <2>3. IsBundle(half) /\ half.trails = copies
    BY <2>1, TrailsSet
  <2> HIDE DEF half
  <2>4. QED
    BY <2>2, <2>3, ResultsSet
<1>8. EvidenceTypes'
  BY <1>1, <1>2, <1>7 DEF EvidenceTypes
<1>9. CopiedInTurn'
  BY <1>1, <1>2, <1>3, <1>5, <1>6, <1>7 DEF CopiedInTurn
<1>10. CopiesAreJudged'
  <2>1. \A x \in DOMAIN bundle'.trails :
           bundle'.trails[x] \in TrailRecord /\ bundle'.trails[x].lines <= trail'[x].lines
    <3>1. TAKE x \in DOMAIN bundle'.trails
    <3>2. CASE x = s
      BY <1>1, <1>4, <1>5, <1>7, <3>2
    <3>3. CASE x # s
      BY <1>1, <1>5, <1>7, <3>3 DEF CopiesAreJudged
    <3>4. QED
      BY <3>2, <3>3
  <2>2. \A x \in DOMAIN bundle'.results : bundle'.results[x] = E!Verifies(bundle'.trails[x])
    <3>1. TAKE x \in DOMAIN bundle'.results
    <3>2. CASE x = s
      BY <1>5, <1>6, <1>7, <3>2
    <3>3. CASE x # s
      BY <1>1, <1>3, <1>5, <1>6, <1>7, <3>3, Zenon DEF CopiesAreJudged
    <3>4. QED
      BY <3>2, <3>3
  <2>3. gaps' \cap Observed = {x \in DOMAIN bundle'.results : ~E!Verifies(bundle'.trails[x])}
    <3>1. \A x \in DOMAIN bundle.results : copies[x] = bundle.trails[x]
      BY <1>3, <1>5
    <3>2. gaps \cap Observed = {x \in DOMAIN bundle.results : ~E!Verifies(bundle.trails[x])}
      BY <1>1 DEF CopiesAreJudged
    <3>3. gaps' \cap Observed = (gaps \cap Observed) \cup (IF ok THEN {} ELSE {s})
      BY <1>2, <1>3
    <3> HIDE DEF s
    <3>4. QED
      BY <1>5, <1>6, <1>7, <3>1, <3>2, <3>3
  <2>4. QED
    BY <2>1, <2>2, <2>3 DEF CopiesAreJudged
<1>11. ListedAsBuilt' /\ Verified'
  BY <1>1, <1>2 DEF ListedAsBuilt, Verified
<1>12. QED
  BY <1>8, <1>9, <1>10, <1>11 DEF EvidenceInv

LEMMA ReadFailuresStep == ASSUME EvidenceInv, E!ReadFailures PROVE EvidenceInv'
<1>1. /\ damaged = "no" /\ verdict = "none" /\ UNCHANGED <<damaged, verdict, trail, failures, row>>
      /\ EvidenceTypes /\ CopiedInTurn /\ CopiesAreJudged /\ ListedAsBuilt
  BY BuilderStep
<1>2. /\ epc = "next" /\ epc' = "write" /\ UNCHANGED <<gaps, todo, current, exported>>
      /\ bundle' = [bundle EXCEPT !.failures = failures, !.summary = failures]
  BY DEF E!ReadFailures
<1>3. /\ IsBundle(bundle') /\ bundle'.trails = bundle.trails /\ bundle'.results = bundle.results
      /\ bundle'.failures = failures /\ bundle'.summary = failures
  BY <1>1, <1>2, SummarySet DEF EvidenceTypes
<1>4. EvidenceTypes'
  BY <1>1, <1>2, <1>3 DEF EvidenceTypes
<1>5. CopiedInTurn' /\ CopiesAreJudged'
  BY <1>1, <1>2, <1>3 DEF CopiedInTurn, CopiesAreJudged
<1>6. ListedAsBuilt' /\ Verified'
  BY <1>1, <1>2, <1>3 DEF ListedAsBuilt, Verified, EvidenceTypes
<1>7. QED
  BY <1>4, <1>5, <1>6 DEF EvidenceInv

LEMMA WriteManifestStep == ASSUME EvidenceInv, E!WriteManifest PROVE EvidenceInv'
<1>1. /\ damaged = "no" /\ verdict = "none" /\ UNCHANGED <<damaged, verdict, trail, failures, row>>
      /\ EvidenceTypes /\ CopiedInTurn /\ CopiesAreJudged /\ ListedAsBuilt
  BY BuilderStep
<1>2. /\ epc = "write" /\ epc' = "exported" /\ UNCHANGED <<bundle, gaps, todo, current>>
      /\ exported' = [listed |-> DOMAIN bundle.trails, trails |-> bundle.trails,
                      failures |-> bundle.failures, row |-> bundle.row]
  BY DEF E!WriteManifest
<1>3. EvidenceTypes'
  BY <1>1, <1>2 DEF EvidenceTypes
<1>4. CopiedInTurn' /\ CopiesAreJudged' /\ ListedAsBuilt' /\ Verified'
  BY <1>1, <1>2 DEF CopiedInTurn, CopiesAreJudged, ListedAsBuilt, Verified
<1>5. QED
  BY <1>3, <1>4 DEF EvidenceInv

\* Whatever happens to a file, the manifest tells.
LEMMA DamageStep == ASSUME EvidenceInv, E!Damage PROVE EvidenceInv'
<1>1. /\ epc = "exported" /\ damaged = "no" /\ verdict = "none"
      /\ damaged' \in {"cut", "lost", "added", "failures", "row"}
      /\ UNCHANGED <<trail, failures, row, gaps, todo, current, epc, exported, verdict>>
  BY DEF E!Damage, E!source
<1>2. EvidenceTypes /\ CopiedInTurn /\ CopiesAreJudged /\ ListedAsBuilt
  BY <1>1 DEF EvidenceInv
<1>3. /\ exported.listed = DOMAIN bundle.trails /\ exported.trails = bundle.trails
      /\ exported.failures = bundle.failures /\ exported.row = bundle.row
      /\ bundle.failures \in Nat
  BY <1>1, <1>2 DEF ListedAsBuilt
<1>4. IsBundle(bundle') /\ (E!ListedChanged \/ E!Extra \/ E!Inconsistent)'
  <2>1. CASE \E s \in DOMAIN bundle.trails : bundle' = [bundle EXCEPT !.trails[s].lines = @ - 1]
    <3>1. PICK s \in DOMAIN bundle.trails : bundle' = [bundle EXCEPT !.trails[s].lines = @ - 1]
      BY <2>1
    <3> DEFINE cut == [bundle.trails EXCEPT ![s] = [bundle.trails[s] EXCEPT !.lines = @ - 1]]
    <3>2. bundle.trails[s] \in TrailRecord
      BY <1>2 DEF CopiesAreJudged
    <3>3. cut[s].lines = bundle.trails[s].lines - 1 /\ bundle.trails[s].lines \in Nat
      BY <3>2 DEF TrailRecord
    <3>4. cut[s] # bundle.trails[s]
      <4>1. cut[s].lines # bundle.trails[s].lines
        BY <3>3
      <4> HIDE DEF cut
      <4>2. QED
        BY <4>1
    <3>5. bundle' = [bundle EXCEPT !.trails = cut]
      BY <3>1
    <3> HIDE DEF cut
    <3>6. IsBundle(bundle') /\ bundle'.trails = cut
      BY <1>2, <3>5, TrailsSet DEF EvidenceTypes
    <3>7. E!ListedChanged'
      BY <1>1, <1>3, <3>4, <3>6 DEF E!ListedChanged
    <3>8. QED
      BY <3>6, <3>7
  <2>2. CASE \E s \in DOMAIN bundle.trails :
                bundle' = [bundle EXCEPT !.trails = [x \in DOMAIN @ \ {s} |-> @[x]]]
    <3>1. PICK s \in DOMAIN bundle.trails :
                bundle' = [bundle EXCEPT !.trails = [x \in DOMAIN @ \ {s} |-> @[x]]]
      BY <2>2
    <3> DEFINE left == [x \in DOMAIN bundle.trails \ {s} |-> bundle.trails[x]]
    <3>2. bundle' = [bundle EXCEPT !.trails = left] /\ s \notin DOMAIN left
      BY <3>1
    <3> HIDE DEF left
    <3>3. IsBundle(bundle') /\ bundle'.trails = left
      BY <1>2, <3>2, TrailsSet DEF EvidenceTypes
    <3>4. E!ListedChanged'
      BY <1>1, <1>3, <3>2, <3>3 DEF E!ListedChanged
    <3>5. QED
      BY <3>3, <3>4
  <2>3. CASE \E s \in Observed \ DOMAIN bundle.trails :
                bundle' = [bundle EXCEPT !.trails = E!With(@, s, [E!NoTrail EXCEPT !.lines = 1])]
    <3>1. PICK s \in Observed \ DOMAIN bundle.trails :
                bundle' = [bundle EXCEPT !.trails = E!With(@, s, [E!NoTrail EXCEPT !.lines = 1])]
      BY <2>3
    <3> DEFINE more == E!With(bundle.trails, s, [E!NoTrail EXCEPT !.lines = 1])
    <3>2. bundle' = [bundle EXCEPT !.trails = more] /\ s \in DOMAIN more
      BY <3>1 DEF E!With
    <3> HIDE DEF more
    <3>3. IsBundle(bundle') /\ bundle'.trails = more
      BY <1>2, <3>2, TrailsSet DEF EvidenceTypes
    <3>4. E!Extra'
      BY <1>1, <1>3, <3>1, <3>2, <3>3 DEF E!Extra
    <3>5. QED
      BY <3>3, <3>4
  <2>4. CASE bundle' = [bundle EXCEPT !.failures = @ + 1]
    <3>1. PICK n \in Nat : n = bundle.failures + 1
      BY <1>3
    <3>2. bundle' = [bundle EXCEPT !.failures = n]
      BY <2>4, <3>1
    <3>3. IsBundle(bundle') /\ bundle'.failures = n
      BY <1>2, <3>2, FailuresSet DEF EvidenceTypes
    <3>4. E!Inconsistent'
      BY <1>1, <1>3, <3>1, <3>3 DEF E!Inconsistent
    <3>5. QED
      BY <3>3, <3>4
  <2>5. CASE \E other \in E!Times \ {bundle.row} : bundle' = [bundle EXCEPT !.row = other]
    <3>1. PICK other \in E!Times \ {bundle.row} : bundle' = [bundle EXCEPT !.row = other]
      BY <2>5
    <3>2. IsBundle(bundle') /\ bundle'.row = other
      BY <1>2, <3>1, RowSet DEF EvidenceTypes
    <3>3. E!ListedChanged'
      BY <1>1, <1>3, <3>1, <3>2 DEF E!ListedChanged
    <3>4. QED
      BY <3>2, <3>3
  <2>6. QED
    BY <2>1, <2>2, <2>3, <2>4, <2>5 DEF E!Damage
<1>5. EvidenceTypes'
  BY <1>1, <1>2, <1>4 DEF EvidenceTypes
<1>6. Verified'
  BY <1>1, <1>4 DEF Verified
<1>7. QED
  BY <1>1, <1>5, <1>6 DEF EvidenceInv

LEMMA VerifyStep == ASSUME EvidenceInv, E!Verify PROVE EvidenceInv'
<1>1. /\ epc = "exported" /\ verdict = "none"
      /\ verdict' = (IF Invalid THEN "INVALID" ELSE "VALID")
      /\ UNCHANGED <<trail, failures, row, bundle, gaps, todo, current, epc, exported, damaged>>
  BY DEF E!Verify, Invalid, E!source, E!build
<1>2. Invalid' = Invalid
  BY <1>1 DEF Invalid, E!ListedChanged, E!Extra, E!Backdated, E!Inconsistent, E!Unlisted, E!TrailFails,
              E!Disagrees
<1>3. EvidenceTypes'
  BY <1>1 DEF EvidenceInv, EvidenceTypes
<1>4. (CopiedInTurn /\ CopiesAreJudged /\ ListedAsBuilt)' = (CopiedInTurn /\ CopiesAreJudged /\ ListedAsBuilt)
  BY <1>1 DEF CopiedInTurn, CopiesAreJudged, ListedAsBuilt
<1>5. Verified'
  <2>1. (damaged # "no" => E!ListedChanged \/ E!Extra \/ E!Inconsistent)'
    BY <1>1 DEF EvidenceInv, Verified, E!ListedChanged, E!Extra, E!Inconsistent
  <2>2. (verdict' = "VALID" => ~Invalid') /\ (verdict' = "INVALID" => Invalid')
    BY <1>1, <1>2
  <2>3. QED
    BY <1>1, <2>1, <2>2 DEF Verified
<1>6. QED
  BY <1>1, <1>3, <1>4, <1>5 DEF EvidenceInv

LEMMA EvidenceKeeps == EvidenceInv /\ [E!Next]_(E!vars) => EvidenceInv'
<1> SUFFICES ASSUME EvidenceInv, [E!Next]_(E!vars) PROVE EvidenceInv'
  OBVIOUS
<1>1. CASE UNCHANGED E!vars
  BY <1>1 DEF E!vars, E!source, E!build, EvidenceInv, EvidenceTypes, CopiedInTurn,
       CopiesAreJudged, ListedAsBuilt, Verified, Invalid, E!ListedChanged, E!Extra,
       E!Backdated, E!Inconsistent, E!Unlisted, E!TrailFails, E!Disagrees
<1>2. QED
  BY <1>1, ReplayStep, BeginStep, ListStep, CopyPartStep, CopyManifestStep, ReadFailuresStep,
     WriteManifestStep, DamageStep, VerifyStep DEF E!Next

LEMMA EvidenceIsSound == EvidenceInv => E!EvidenceStands
<1> SUFFICES ASSUME EvidenceInv PROVE E!EvidenceStands
  OBVIOUS
<1>1. E!DamageIsFound
  BY DEF EvidenceInv, Verified, Invalid, E!DamageIsFound
<1>2. ASSUME damaged = "no", epc = "exported"
      PROVE  /\ DOMAIN bundle.trails = DOMAIN bundle.results
             /\ CopiesAreJudged /\ EvidenceTypes
             /\ exported.listed = DOMAIN bundle.trails /\ exported.trails = bundle.trails
             /\ exported.failures = bundle.failures /\ exported.row = bundle.row
             /\ bundle.summary = bundle.failures
  BY <1>2 DEF EvidenceInv, CopiedInTurn, ListedAsBuilt
<1>3. E!GapsAreHonest
  <2>1. SUFFICES ASSUME damaged = "no", verdict # "none"
                 PROVE  verdict = "VALID" <=>
                          gaps \cap Observed = {} /\ ~E!Unlisted /\ ~E!Backdated
    BY DEF E!GapsAreHonest
  <2>2. epc = "exported" /\ (verdict = "VALID" <=> ~Invalid)
    BY <2>1 DEF EvidenceInv, EvidenceTypes, Verified
  <2>3. ~E!ListedChanged /\ ~E!Extra /\ ~E!Inconsistent
    BY <1>2, <2>1, <2>2 DEF E!ListedChanged, E!Extra, E!Inconsistent
  <2>4. \A s \in DOMAIN bundle.trails : ~E!Disagrees(s)
    BY <1>2, <2>1, <2>2, Zenon DEF E!Disagrees, CopiesAreJudged
  <2>5. \A s \in DOMAIN bundle.trails : E!TrailFails(s) <=> ~E!Verifies(bundle.trails[s])
    BY DEF E!TrailFails
  <2>6. Invalid <=> \/ E!Unlisted \/ E!Backdated
                    \/ \E s \in DOMAIN bundle.trails : ~E!Verifies(bundle.trails[s])
    BY <1>2, <2>1, <2>2, <2>3, <2>4, <2>5 DEF Invalid
  <2>7. gaps \cap Observed = {s \in DOMAIN bundle.trails : ~E!Verifies(bundle.trails[s])}
    BY <1>2, <2>1, <2>2 DEF CopiesAreJudged
  <2>8. QED
    BY <2>2, <2>6, <2>7
<1>4. E!VerifiedIsWhole
  <2>1. SUFFICES ASSUME epc = "exported", damaged = "no", NEW s \in DOMAIN bundle.results,
                        bundle.results[s]
                 PROVE  ~bundle.trails[s].torn /\ bundle.trails[s].lines <= trail[s].lines
    BY DEF E!VerifiedIsWhole
  <2>2. s \in DOMAIN bundle.trails /\ E!Verifies(bundle.trails[s])
    BY <1>2, <2>1, Zenon DEF CopiesAreJudged
  <2>3. QED
    BY <1>2, <2>1, <2>2 DEF CopiesAreJudged, E!Verifies
<1>5. QED
  BY <1>1, <1>3, <1>4 DEF E!EvidenceStands

\* However the replay writes on under the export, and whatever happens to one file
\* of the bundle afterwards: damage is found; an untouched bundle is valid exactly
\* when no trail is in its gaps, it lists a trail or says that there is none to
\* list, and its run does not end before it starts; and what it calls verified is
\* whole (evidence_bundle.py, build_run_evidence_bundle and verify_evidence_bundle).
THEOREM EvidenceKeepsStanding == E!Spec => []EvidenceStands
<1>1. EvidenceInv => EvidenceStands
  BY EvidenceIsSound DEF EvidenceStands
<1>2. QED
  BY <1>1, EvidenceStarts, EvidenceKeeps, PTL DEF E!Spec
=============================================================================
