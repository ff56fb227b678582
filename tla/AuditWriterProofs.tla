------------------------- MODULE AuditWriterProofs -------------------------
(***************************************************************************)
(* What holds of AuditWriter for every set of writers, every batch size,   *)
(* every rotation threshold and every bound; and that a single writer      *)
(* implements AuditLog: its files are an append-only log in which a batch  *)
(* is confirmed when it is the tail, and its cache, when it is kept, is    *)
(* where that log ends.                                                    *)
(***************************************************************************)
EXTENDS AuditWriterInv, SequenceTheorems, WellFoundedInduction, TLAPS

-----------------------------------------------------------------------------
(* A nonempty set of file or line numbers has a greatest member.           *)

LEMMA GreatestMember ==
    ASSUME NEW n \in Nat, NEW S \in SUBSET (1..n), S # {}
    PROVE  /\ Greatest(S) \in S
           /\ \A y \in S : y <= Greatest(S)
<1> DEFINE Bounds == {k \in Nat : \A y \in S : y <= k}
           Less == {pair \in Nat \X Nat : pair[1] < pair[2]}
<1>1. IsWellFoundedOn(Less, Nat)
  BY NatLessThanWellFounded DEF OpToRel
<1>2. PICK m \in Bounds : \A k \in Bounds : ~(<<k, m>> \in Less)
  <2>1. n \in Bounds
    OBVIOUS
  <2> HIDE DEF Less
  <2>2. QED
    BY <1>1, <2>1, WFMin
<1>3. \A k \in Bounds : m <= k
  <2> SUFFICES ASSUME NEW k \in Bounds, k < m PROVE FALSE
    OBVIOUS
  <2>1. <<k, m>> \in Nat \X Nat
    OBVIOUS
  <2>2. <<k, m>> \in Less
    BY <2>1
  <2>3. QED
    BY <1>2, <2>2
<1>4. m \in S
  <2>1. PICK y \in S : TRUE
    OBVIOUS
  <2>2. m >= 1
    BY <2>1
  <2>3. m - 1 \notin Bounds
    BY <1>3, <2>2
  <2>4. QED
    BY <2>2, <2>3
<1>5. m \in S /\ \A y \in S : y <= m
  BY <1>4
<1>6. QED
  BY <1>5 DEF Greatest

-----------------------------------------------------------------------------
(* Type correctness.                                                       *)

USE WriterAssumption DEF File

LEMMA EntryLemma ==
    ASSUME TypeOK, NEW f \in File, HasEntry(f)
    PROVE  LastEntry(f) \in Line
<1>1. Entries(f) \in SUBSET (1..Len(disk[f])) /\ Len(disk[f]) \in Nat
  BY DEF TypeOK, Entries
<1>2. Greatest(Entries(f)) \in 1..Len(disk[f])
  BY <1>1, GreatestMember DEF HasEntry
<1>3. QED
  BY <1>2 DEF LastEntry, TypeOK

LEMMA CreatedLemma ==
    ASSUME TypeOK, created # {}
    PROVE  /\ Greatest(created) \in created
           /\ Greatest(created) \in File
           /\ \A g \in created : g <= Greatest(created)
BY GreatestMember DEF TypeOK

LEMMA LoadType ==
    ASSUME TypeOK
    PROVE  Load \in Checkpoint
<1>1. Recover \in Checkpoint
  <2>1. CASE created # {} /\ HasEntry(Greatest(created))
    BY <2>1, CreatedLemma, EntryLemma DEF Recover, Checkpoint, Line
  <2>2. CASE ~(created # {} /\ HasEntry(Greatest(created)))
    BY <2>2 DEF Recover, Empty, Checkpoint
  <2>3. QED
    BY <2>1, <2>2
<1>2. ASSUME ckpt # None PROVE Heal(ckpt) \in Checkpoint
  <2>1. ckpt \in Checkpoint
    BY <1>2 DEF TypeOK
  <2>2. CASE ckpt.cur \in fresher /\ HasEntry(ckpt.cur) /\ LastEntry(ckpt.cur).seq >= ckpt.seq
    <3>1. LastEntry(ckpt.cur) \in Line
      BY <2>2, EntryLemma DEF TypeOK
    <3>2. QED
      BY <2>1, <2>2, <3>1 DEF Heal, Checkpoint, Line
  <2>3. QED
    BY <2>1, <2>2 DEF Heal
<1>3. QED
  BY <1>1, <1>2 DEF Load

LEMMA EnsuredType ==
    ASSUME TypeOK, NEW w \in Writers
    PROVE  /\ Ensured(w) \in Checkpoint
           /\ Ensured(w) # None
BY LoadType DEF Ensured, Fresh, TypeOK

LEMMA SignLemma ==
    ASSUME NEW st \in Checkpoint, NEW n \in Nat \ {0}, signed \in Nat
    PROVE  /\ Sign(st, n) \in Seq(Line)
           /\ Len(Sign(st, n)) = n
           /\ DOMAIN Sign(st, n) = 1..n
           /\ \A i \in 1..n :
                 Sign(st, n)[i] = [seq  |-> st.seq + i,
                                   prev |-> IF i = 1 THEN st.prev ELSE signed + i - 1,
                                   hash |-> signed + i]
<1>1. \A i \in 1..n : [seq  |-> st.seq + i,
                        prev |-> IF i = 1 THEN st.prev ELSE signed + i - 1,
                        hash |-> signed + i] \in Line
  BY DEF Checkpoint, Line
<1>2. QED
  BY <1>1 DEF Sign


LEMMA CurType ==
    ASSUME TypeOK, NEW w \in Writers, memSt[w] \in Checkpoint, NEW c \in Nat
    PROVE  LET m == [memSt EXCEPT ![w].cur = c]
           IN  m \in [Writers -> Checkpoint \cup {None}] /\ m[w] # None
<1> DEFINE new == [memSt[w] EXCEPT !.cur = c]
<1>1. new \in Checkpoint
  BY DEF Checkpoint
<1>2. new # None
  BY <1>1
<1>3. [memSt EXCEPT ![w].cur = c] = [memSt EXCEPT ![w] = new]
  OBVIOUS
<1>4. memSt \in [Writers -> Checkpoint \cup {None}]
  BY DEF TypeOK
<1> HIDE DEF new
<1>5. QED
  BY <1>1, <1>2, <1>3, <1>4

LEMMA EnsureType ==
    ASSUME TypeOK, NEW w \in Writers, EnsureState(w)
    PROVE  /\ raw' \in [Writers -> Checkpoint \cup {None}]
           /\ fh' \in [Writers -> File \cup {0}]
           /\ size' \in [Writers -> Nat]
BY DEF TypeOK, EnsureState

\* What Begin hands to Sign.
LEMMA SignArguments ==
    ASSUME TypeOK, NEW w \in Writers, NEW n \in 1..MaxBatch
    PROVE  Ensured(w) \in Checkpoint /\ n \in Nat \ {0} /\ signed \in Nat
<1>1. Ensured(w) \in Checkpoint
  BY EnsuredType
<1>2. n \in Nat \ {0}
  BY WriterAssumption
<1>3. signed \in Nat
  BY DEF TypeOK
<1>4. QED
  BY <1>1, <1>2, <1>3

LEMMA ForgetType ==
    ASSUME TypeOK, NEW w \in Writers, Forget(w)
    PROVE  /\ memSt' \in [Writers -> Checkpoint \cup {None}]
           /\ raw' \in [Writers -> Checkpoint \cup {None}]
           /\ fh' \in [Writers -> File \cup {0}]
           /\ size' \in [Writers -> Nat]
           /\ \A v \in Writers : v # w => memSt'[v] = memSt[v] /\ fh'[v] = fh[v]
BY DEF TypeOK, Forget

\* Closing a part leaves it a sequence of lines.
LEMMA CloseType ==
    ASSUME TypeOK, NEW f \in File, CloseLog(f)
    PROVE  disk' \in [File -> Seq(Line)] /\ torn' \in SUBSET File
<1>1. PICK lost \in Nat : disk' = [disk EXCEPT ![f] = SubSeq(@, 1, Len(@) - lost)]
  <2>1. buffered \in Nat
    BY DEF TypeOK
  <2>2. (IF "io" \in Faults THEN 0..buffered ELSE {0}) \subseteq Nat
    BY <2>1
  <2>3. QED
    BY <2>2, Zenon DEF CloseLog
<1>2. disk \in [File -> Seq(Line)] /\ disk[f] \in Seq(Line) /\ Len(disk[f]) \in Nat
  BY DEF TypeOK
<1>3. SubSeq(disk[f], 1, Len(disk[f]) - lost) \in Seq(Line)
  <2>1. \A i \in 1..(Len(disk[f]) - lost) : disk[f][i] \in Line
    BY <1>1, <1>2
  <2>2. QED
    BY <1>1, <1>2, <2>1
<1>4. torn' \in SUBSET File
  BY DEF CloseLog, TypeOK
<1>5. QED
  BY <1>1, <1>2, <1>3, <1>4

LEMMA TypeStep == TypeOK /\ CallOK /\ [Next]_vars => TypeOK' /\ CallOK'
<1> SUFFICES ASSUME TypeOK, CallOK, [Next]_vars
             PROVE  TypeOK' /\ CallOK'
  OBVIOUS
<1>1. ASSUME NEW w \in Writers, NEW n \in 1..MaxBatch, Begin(w, n)
      PROVE  TypeOK' /\ CallOK'
  <2> DEFINE st == Ensured(w)
             new == [seq |-> st.seq + n, prev |-> signed + n, cur |-> st.cur]
  <2>1. st \in Checkpoint /\ n \in Nat \ {0} /\ signed \in Nat
    BY SignArguments
  <2>2. pending' = Sign(st, n) /\ pending' \in Seq(Line) /\ pending' # <<>>
    BY <1>1, <2>1, SignLemma DEF Begin
  <2> HIDE DEF st
  <2>3. new \in Checkpoint /\ new # None
    <3>1. new \in Checkpoint
      BY <2>1 DEF Checkpoint
    <3>2. QED
      BY <3>1
  <2>4. memSt' = [memSt EXCEPT ![w] = new]
    BY <1>1 DEF Begin, st
  <2> HIDE DEF new
  <2>5. memSt' \in [Writers -> Checkpoint \cup {None}] /\ memSt'[w] # None
    <3>1. memSt \in [Writers -> Checkpoint \cup {None}]
      BY DEF TypeOK
    <3>2. QED
      BY <2>3, <2>4, <3>1
  <2>a. /\ raw' \in [Writers -> Checkpoint \cup {None}]
        /\ fh' \in [Writers -> File \cup {0}]
        /\ size' \in [Writers -> Nat]
    BY <1>1, EnsureType DEF Begin
  <2>b. signed' \in Nat /\ batch' \in SUBSET Nat
    BY <1>1, <2>1 DEF Begin
  <2>6. TypeOK'
    BY <1>1, <2>a, <2>b, <2>2, <2>5 DEF Begin, TypeOK, files
  <2>7. CallOK'
    BY <1>1, <2>2, <2>5 DEF Begin, CallOK
  <2>8. QED
    BY <2>6, <2>7
<1>2. ASSUME NEW w \in Writers, Reject(w)
      PROVE  TypeOK' /\ CallOK'
  BY <1>2, EnsuredType DEF Reject, TypeOK, CallOK, EnsureState, files, call
<1>3. ASSUME NEW w \in Writers, OpenLog(w)
      PROVE  TypeOK' /\ CallOK'
  <2>1. CASE fh[w] # 0
    BY <1>3, <2>1 DEF OpenLog, TypeOK, CallOK, files, memory
  <2>2. CASE fh[w] = 0
    <3>1. PICK f \in Target(memSt[w]) :
            /\ memSt' = [memSt EXCEPT ![w].cur = f]
            /\ fh' = [fh EXCEPT ![w] = f]
            /\ size' = [size EXCEPT ![w] = Len(disk[f])]
            /\ created' = created \cup {f}
            /\ fresher' \in IF f \in created THEN {fresher} ELSE Touched(f)
      BY <1>3, <2>2 DEF OpenLog
    <3>2. memSt[w] \in Checkpoint
      BY <1>3 DEF OpenLog, TypeOK, CallOK
    <3>3. f \in File
      BY <3>1, <3>2, CreatedLemma DEF Target, TypeOK
    <3>4. fresher' \in SUBSET File
      BY <3>1, <3>3 DEF Touched, TypeOK
    <3>5. /\ memSt' \in [Writers -> Checkpoint \cup {None}]
          /\ memSt'[w] # None
      BY <3>1, <3>2, <3>3, CurType
    <3>6. Len(disk[f]) \in Nat
      BY <3>3 DEF TypeOK
    <3>7. TypeOK'
      BY <1>3, <2>2, <3>1, <3>3, <3>4, <3>5, <3>6 DEF OpenLog, TypeOK
    <3>8. CallOK'
      BY <1>3, <2>2, <3>1, <3>3, <3>5 DEF OpenLog, TypeOK, CallOK
    <3>9. QED
      BY <3>7, <3>8
  <2>3. QED
    BY <2>1, <2>2
<1>4. ASSUME NEW w \in Writers, Rotate(w)
      PROVE  TypeOK' /\ CallOK'
  <2>1. memSt[w] \in Checkpoint /\ fh[w] \in File
    BY <1>4 DEF Rotate, TypeOK, CallOK
  <2>2. CASE RotationDue(w)
    <3>0. memSt' = [memSt EXCEPT ![w].cur = memSt[w].cur + 1]
      BY <1>4, <2>2 DEF Rotate
    <3>a. memSt[w].cur + 1 \in Nat
      BY <2>1 DEF Checkpoint
    <3>1. memSt' \in [Writers -> Checkpoint \cup {None}] /\ memSt'[w] # None
      BY <2>1, <3>0, <3>a, CurType
    <3>c. disk' \in [File -> Seq(Line)] /\ torn' \in SUBSET File
      BY <1>4, <2>1, <2>2, CloseType DEF Rotate
    <3>2. manifest' \in [File -> Seq(Line) \cup {None}]
      <4>1. manifest' = [manifest EXCEPT ![fh[w]] = disk'[fh[w]]]
        BY <1>4, <2>2 DEF Rotate
      <4>2. /\ manifest \in [File -> Seq(Line) \cup {None}]
            /\ disk'[fh[w]] \in Seq(Line)
        BY <2>1, <3>c DEF TypeOK
      <4>3. QED
        BY <2>1, <4>1, <4>2
    <3>b. fh' \in [Writers -> File \cup {0}] /\ size' \in [Writers -> Nat]
      <4>1. fh' = [fh EXCEPT ![w] = 0] /\ size' = [size EXCEPT ![w] = 0]
        BY <1>4, <2>2 DEF Rotate
      <4>2. fh \in [Writers -> File \cup {0}] /\ size \in [Writers -> Nat]
        BY DEF TypeOK
      <4>3. QED
        BY <4>1, <4>2
    <3>3. TypeOK'
      BY <1>4, <2>2, <3>1, <3>c, <3>2, <3>b DEF Rotate, TypeOK
    <3>4. CallOK'
      BY <1>4, <2>2, <3>1 DEF Rotate, TypeOK, CallOK
    <3>5. QED
      BY <3>3, <3>4
  <2>3. CASE ~RotationDue(w)
    BY <1>4, <2>3 DEF Rotate, TypeOK, CallOK
  <2>4. QED
    BY <2>2, <2>3
<1>5. ASSUME NEW w \in Writers, WriteLine(w)
      PROVE  TypeOK' /\ CallOK'
  <2>1. fh[w] \in File /\ pending # <<>> /\ pending \in Seq(Line)
    BY <1>5 DEF WriteLine, AfterLine, TypeOK, CallOK
  <2>2. Head(pending) \in Line /\ Tail(pending) \in Seq(Line)
    BY <2>1, HeadTailProperties
  <2>a. Junk \in Line
    BY DEF Junk, Line
  <2>3. Len(pending) = 1 <=> Tail(pending) = <<>>
    <3>1. Len(Tail(pending)) = Len(pending) - 1 /\ Len(pending) \in Nat
      BY <2>1, HeadTailProperties, LenProperties
    <3>2. Len(Tail(pending)) = 0 <=> Tail(pending) = <<>>
      BY <2>2, EmptySeq
    <3>3. QED
      BY <3>1, <3>2
  <2>4. disk' \in [File -> Seq(Line)]
    BY <1>5, <2>1, <2>2, <2>a DEF WriteLine, TypeOK
  <2>5. fresher' \in SUBSET File
    BY <1>5, <2>1 DEF WriteLine, Touched, TypeOK
  <2>b. size' \in [Writers -> Nat] /\ torn' \in SUBSET File
    <3>1. size' = [size EXCEPT ![w] = size[w] + 1] /\ torn' \in SUBSET torn
      BY <1>5 DEF WriteLine
    <3>2. size \in [Writers -> Nat] /\ torn \in SUBSET File
      BY DEF TypeOK
    <3>3. QED
      BY <3>1, <3>2
  <2>c. buffered' \in Nat
    BY <1>5 DEF WriteLine, TypeOK
  <2>6. TypeOK'
    BY <1>5, <2>2, <2>4, <2>5, <2>b, <2>c DEF WriteLine, AfterLine, TypeOK
  <2>7. CallOK'
    BY <1>5, <2>3 DEF WriteLine, AfterLine, CallOK
  <2>8. QED
    BY <2>6, <2>7
<1>6. ASSUME NEW w \in Writers, Save(w)
      PROVE  TypeOK' /\ CallOK'
  BY <1>6 DEF Save, Release, TypeOK, CallOK, files
<1>7. ASSUME NEW w \in Writers, SaveFails(w)
      PROVE  TypeOK' /\ CallOK'
  BY <1>7 DEF SaveFails, Release, TypeOK, CallOK, files, memory
<1>8. ASSUME NEW w \in Writers, Interrupted(w)
      PROVE  TypeOK' /\ CallOK'
  <2>0. Forget(w) /\ TornTail(w) /\ Release /\ holder = w
    BY <1>8 DEF Interrupted
  <2>1. torn' \in SUBSET File /\ fresher' \in SUBSET File
    <3>1. CASE UNCHANGED <<torn, fresher>>
      BY <3>1 DEF TypeOK
    <3>2. CASE pc = "write" /\ torn' = torn \cup {fh[w]} /\ fresher' \in Touched(fh[w])
      <4>1. fh[w] \in File
        BY <2>0, <3>2 DEF TypeOK, CallOK
      <4>2. QED
        BY <3>2, <4>1 DEF Touched, TypeOK
    <3>3. QED
      BY <2>0, <3>1, <3>2 DEF TornTail
  <2>a. /\ memSt' \in [Writers -> Checkpoint \cup {None}]
        /\ raw' \in [Writers -> Checkpoint \cup {None}]
        /\ fh' \in [Writers -> File \cup {0}]
        /\ size' \in [Writers -> Nat]
    BY <2>0, ForgetType
  <2>2. TypeOK'
    BY <1>8, <2>0, <2>1, <2>a DEF Interrupted, Release, TypeOK
  <2>3. CallOK'
    BY <1>8 DEF Interrupted, Release, CallOK
  <2>4. QED
    BY <2>2, <2>3
<1>9. ASSUME NEW w \in Writers, Close(w)
      PROVE  TypeOK' /\ CallOK'
  <2>a. /\ memSt' \in [Writers -> Checkpoint \cup {None}]
        /\ raw' \in [Writers -> Checkpoint \cup {None}]
        /\ fh' \in [Writers -> File \cup {0}]
        /\ size' \in [Writers -> Nat]
        /\ \A v \in Writers : v # w => memSt'[v] = memSt[v] /\ fh'[v] = fh[v]
    BY <1>9, ForgetType DEF Close
  <2>1. TypeOK'
    BY <1>9, <2>a DEF Close, TypeOK, files, call
  <2>2. CallOK'
    BY <1>9, <2>a DEF Close, CallOK, call
  <2>3. QED
    BY <2>1, <2>2
<1>10. CASE LoseState
  BY <1>10 DEF LoseState, TypeOK, CallOK, files, memory, call
<1>11. CASE UNCHANGED vars
  BY <1>11 DEF vars, files, memory, call, TypeOK, CallOK
<1>12. QED
  BY <1>1, <1>2, <1>3, <1>4, <1>5, <1>6, <1>7, <1>8, <1>9, <1>10, <1>11
     DEF Next, IoFails, Crash

LEMMA TypeInit == Init => TypeOK /\ CallOK
BY DEF Init, TypeOK, CallOK

\* TypeOK holds in every run of the writers, whatever fails.
THEOREM TypeCorrect == Spec => [](TypeOK /\ CallOK)
BY TypeInit, TypeStep, PTL DEF Spec


-----------------------------------------------------------------------------
(* Nothing confirmed is lost and audit.state never runs ahead of the log.  *)

LEMMA LinesLemma ==
    \A line : line \in Lines <=>
        \E f \in File : \E i \in 1..Len(disk[f]) : line = disk[f][i]
BY DEF Lines

LEMMA InFlightLemma ==
    \A line : line \in InFlight <=> \E i \in 1..Len(pending) : line = pending[i]
BY DEF InFlight

LEMMA SameLines == disk' = disk => Lines' = Lines
BY DEF Lines

\* The file a line goes to, and what it then holds.
LEMMA WriteShape ==
    ASSUME TypeOK, CallOK, torn = {}, NEW w \in Writers, WriteLine(w)
    PROVE  /\ fh[w] \in File
           /\ pending \in Seq(Line) /\ pending # <<>>
           /\ Head(pending) = pending[1] /\ pending[1] \in Line
           /\ disk'[fh[w]] = Append(disk[fh[w]], pending[1])
           /\ \A g \in File : g # fh[w] => disk'[g] = disk[g]
           /\ pending' = Tail(pending)
<1>1. fh[w] \in File /\ pending # <<>> /\ pending \in Seq(Line)
  BY DEF WriteLine, TypeOK, CallOK
<1>2. Head(pending) = pending[1] /\ pending[1] \in Line
  BY <1>1, HeadTailProperties
<1>3. disk \in [File -> Seq(Line)]
  BY DEF TypeOK
<1>4. disk' = [disk EXCEPT ![fh[w]] = Append(@, Head(pending))]
  BY <1>1, <1>3 DEF WriteLine
<1>5. QED
  BY <1>1, <1>2, <1>3, <1>4 DEF WriteLine

LEMMA WriteMoves ==
    ASSUME TypeOK, CallOK, torn = {}, NEW w \in Writers, WriteLine(w)
    PROVE  /\ Lines \subseteq Lines'
           /\ Lines \cup InFlight \subseteq Lines' \cup InFlight'
<1> DEFINE f == fh[w]
<1>1. /\ f \in File
      /\ pending \in Seq(Line) /\ pending # <<>>
      /\ pending[1] \in Line
      /\ disk'[f] = Append(disk[f], pending[1])
      /\ \A g \in File : g # f => disk'[g] = disk[g]
      /\ pending' = Tail(pending)
  BY WriteShape
<1>2. disk[f] \in Seq(Line)
  BY <1>1 DEF TypeOK
<1>3. /\ Len(disk'[f]) = Len(disk[f]) + 1
      /\ Len(disk[f]) \in Nat
      /\ \A i \in 1..Len(disk[f]) : disk'[f][i] = disk[f][i]
      /\ disk'[f][Len(disk[f]) + 1] = pending[1]
  BY <1>1, <1>2, AppendProperties, LenProperties
<1> HIDE DEF f
<1>4. ASSUME NEW line \in Lines PROVE line \in Lines'
  <2>1. PICK g \in File : \E i \in 1..Len(disk[g]) : line = disk[g][i]
    BY <1>4 DEF Lines
  <2>2. PICK i \in 1..Len(disk[g]) : line = disk[g][i]
    BY <2>1
  <2>3. i \in 1..Len(disk'[g]) /\ line = disk'[g][i]
    <3>1. CASE g = f
      BY <1>3, <2>2, <3>1
    <3>2. CASE g # f
      BY <1>1, <2>2, <3>2
    <3>3. QED
      BY <3>1, <3>2
  <2>4. QED
    BY <2>3 DEF Lines
<1>5. pending[1] \in Lines'
  <2>1. Len(disk[f]) + 1 \in 1..Len(disk'[f])
    BY <1>3
  <2>2. QED
    BY <1>1, <1>3, <2>1 DEF Lines
<1>6. ASSUME NEW line \in InFlight PROVE line \in Lines' \cup InFlight'
  <2>1. PICK i \in 1..Len(pending) : line = pending[i]
    BY <1>6 DEF InFlight
  <2>2. CASE i = 1
    BY <1>5, <2>1, <2>2
  <2>3. CASE i # 1
    <3>1. Len(pending) \in Nat /\ Len(pending') = Len(pending) - 1
      BY <1>1, HeadTailProperties, LenProperties
    <3>2. i - 1 \in 1..Len(pending')
      BY <2>1, <2>3, <3>1
    <3>3. pending'[i - 1] = pending[i]
      BY <1>1, <2>1, <3>2, HeadTailProperties
    <3>4. QED
      BY <2>1, <3>2, <3>3 DEF InFlight
  <2>4. QED
    BY <2>2, <2>3
<1>7. QED
  BY <1>4, <1>6

LEMMA BeginMoves ==
    ASSUME TypeOK, NEW w \in Writers, NEW n \in 1..MaxBatch, Begin(w, n)
    PROVE  /\ \A i \in 1..n : \E line \in InFlight' : line.hash = signed + i
           /\ \E line \in InFlight' :
                 line.seq = memSt'[w].seq /\ line.hash = memSt'[w].prev
<1> DEFINE st == Ensured(w)
<1>1. st \in Checkpoint /\ n \in Nat \ {0} /\ signed \in Nat
  BY SignArguments
<1>2. pending' = Sign(st, n)
  BY DEF Begin
<1> HIDE DEF st
<1>3. /\ Len(pending') = n
      /\ \A i \in 1..n :
            pending'[i] = [seq  |-> st.seq + i,
                           prev |-> IF i = 1 THEN st.prev ELSE signed + i - 1,
                           hash |-> signed + i]
  BY <1>1, <1>2, SignLemma
<1>4. \A i \in 1..n : pending'[i] \in InFlight'
  BY <1>3 DEF InFlight
<1>5. memSt'[w] = [seq |-> st.seq + n, prev |-> signed + n, cur |-> st.cur]
  BY DEF Begin, TypeOK, st
<1>6. n \in 1..n
  BY <1>1
<1>7. QED
  BY <1>3, <1>4, <1>5, <1>6


\* No failure leaves part of a line, and none is met while a full part is
\* closed in the middle of a batch: either nothing rotates, or open, write,
\* flush and close do not fail.
NothingDropped == "torn" \notin Faults /\ ("io" \notin Faults \/ RotateLines = 0)

\* Then a rotation leaves the lines where they are.
LEMMA RotateKeepsLines ==
    ASSUME NothingDropped, TypeOK, CallOK, NEW w \in Writers, Rotate(w)
    PROVE  disk' = disk /\ torn' = torn
<1>1. CASE RotationDue(w)
  <2>1. "io" \notin Faults /\ "torn" \notin Faults
    BY <1>1 DEF NothingDropped, RotationDue
  <2>2. /\ disk' = [disk EXCEPT ![fh[w]] = SubSeq(@, 1, Len(@) - 0)]
        /\ torn' = torn
    BY <1>1, <2>1 DEF Rotate, CloseLog
  <2>3. fh[w] \in File /\ disk \in [File -> Seq(Line)] /\ disk[fh[w]] \in Seq(Line)
    BY DEF Rotate, TypeOK, CallOK
  <2>4. SubSeq(disk[fh[w]], 1, Len(disk[fh[w]]) - 0) = disk[fh[w]]
    BY <2>3
  <2>5. QED
    BY <2>2, <2>3, <2>4
<1>2. CASE ~RotationDue(w)
  BY <1>2 DEF Rotate
<1>3. QED
  BY <1>1, <1>2

\* A step that leaves the files and audit.state alone and ends the call, or
\* touches no call.
LEMMA DurableQuiet ==
    ASSUME DurableInv, CallOK', torn' = torn, disk' = disk, acked' = acked,
           \/ ckpt' = ckpt
           \/ ckpt' = None,
           \/ Release
           \/ /\ holder' = holder /\ pending' = pending /\ batch' = batch
              /\ \A w \in Writers : holder = w =>
                    memSt'[w].seq = memSt[w].seq /\ memSt'[w].prev = memSt[w].prev
    PROVE  DurableInv'
<1>1. Lines' = Lines
  BY SameLines
<1>2. AckedDurable' /\ CheckpointBehindLog' /\ torn' = {}
  BY <1>1 DEF DurableInv, AckedDurable, CheckpointBehindLog
<1>3. BatchOK' /\ TargetOK'
  <2>1. CASE Release
    <3>1. batch' = {} /\ \A w \in Writers : holder' # w
      BY <2>1 DEF Release
    <3>2. QED
      BY <3>1 DEF BatchOK, TargetOK
  <2>2. CASE /\ holder' = holder /\ pending' = pending /\ batch' = batch
             /\ \A w \in Writers : holder = w =>
                   memSt'[w].seq = memSt[w].seq /\ memSt'[w].prev = memSt[w].prev
    <3>1. InFlight' = InFlight
      BY <2>2 DEF InFlight
    <3>2. QED
      BY <1>1, <2>2, <3>1 DEF DurableInv, BatchOK, TargetOK
  <2>3. QED
    BY <2>1, <2>2
<1>4. QED
  BY <1>2, <1>3 DEF DurableInv

LEMMA DurableStep ==
    NothingDropped => (TypeOK /\ DurableInv /\ [Next]_vars => DurableInv')
<1> SUFFICES ASSUME NothingDropped, TypeOK, DurableInv, [Next]_vars
             PROVE  DurableInv'
  OBVIOUS
<1>0. CallOK /\ CallOK' /\ TypeOK' /\ torn = {}
  BY TypeStep DEF DurableInv
<1>1. ASSUME NEW w \in Writers, NEW n \in 1..MaxBatch, Begin(w, n)
      PROVE  DurableInv'
  <2>1. disk' = disk /\ torn' = torn /\ ckpt' = ckpt /\ acked' = acked
    BY <1>1 DEF Begin, files
  <2>2. Lines' = Lines
    BY <2>1, SameLines
  <2>3. AckedDurable' /\ CheckpointBehindLog' /\ torn' = {}
    BY <2>1, <2>2, <1>0 DEF DurableInv, AckedDurable, CheckpointBehindLog
  <2>4. BatchOK'
    <3>1. batch' = (signed + 1)..(signed + n) /\ signed \in Nat /\ n \in Nat
      BY <1>1 DEF Begin, TypeOK
    <3>2. ASSUME NEW h \in batch' PROVE \E line \in InFlight' : line.hash = h
      <4>1. h - signed \in 1..n /\ signed + (h - signed) = h
        BY <3>1, <3>2
      <4>2. QED
        BY <1>1, <4>1, BeginMoves
    <3>3. QED
      BY <3>2 DEF BatchOK
  <2>5. TargetOK'
    <3>1. holder' = w
      BY <1>1 DEF Begin
    <3>2. \E line \in InFlight' : line.seq = memSt'[w].seq /\ line.hash = memSt'[w].prev
      BY <1>1, BeginMoves
    <3>3. QED
      BY <3>1, <3>2 DEF TargetOK
  <2>6. QED
    BY <1>0, <2>3, <2>4, <2>5 DEF DurableInv
<1>2. ASSUME NEW w \in Writers, Reject(w)
      PROVE  DurableInv'
  <2>1. holder = None
    BY <1>2 DEF Reject
  <2>2. QED
    BY <1>0, <1>2, <2>1, DurableQuiet DEF Reject, files, call
<1>3. ASSUME NEW w \in Writers, OpenLog(w)
      PROVE  DurableInv'
  <2>1. memSt' = memSt \/ \E c \in File : memSt' = [memSt EXCEPT ![w].cur = c]
    BY <1>3, <1>0, CreatedLemma DEF OpenLog, memory, Target
  <2>2. memSt \in [Writers -> Checkpoint \cup {None}] /\ memSt[w] \in Checkpoint
    BY <1>0, <1>3 DEF OpenLog, TypeOK, CallOK
  <2>3. holder = w /\ memSt'[w].seq = memSt[w].seq /\ memSt'[w].prev = memSt[w].prev
    BY <1>3, <2>1, <2>2 DEF OpenLog, Checkpoint
  <2>4. /\ disk' = disk /\ torn' = torn /\ ckpt' = ckpt /\ acked' = acked
        /\ holder' = holder /\ pending' = pending /\ batch' = batch
    BY <1>3 DEF OpenLog, files
  <2>5. QED
    BY <1>0, <2>3, <2>4, DurableQuiet
<1>4. ASSUME NEW w \in Writers, Rotate(w)
      PROVE  DurableInv'
  <2>1. memSt' = memSt \/ memSt' = [memSt EXCEPT ![w].cur = @ + 1]
    BY <1>4 DEF Rotate
  <2>2. memSt \in [Writers -> Checkpoint \cup {None}] /\ memSt[w] \in Checkpoint
    BY <1>0, <1>4 DEF Rotate, TypeOK, CallOK
  <2>3. holder = w /\ memSt'[w].seq = memSt[w].seq /\ memSt'[w].prev = memSt[w].prev
    BY <1>4, <2>1, <2>2 DEF Rotate, Checkpoint
  <2>4. /\ disk' = disk /\ torn' = torn /\ ckpt' = ckpt /\ acked' = acked
        /\ holder' = holder /\ pending' = pending /\ batch' = batch
    BY <1>0, <1>4, RotateKeepsLines DEF Rotate
  <2>5. QED
    BY <1>0, <2>3, <2>4, DurableQuiet
<1>5. ASSUME NEW w \in Writers, WriteLine(w)
      PROVE  DurableInv'
  <2>1. Lines \subseteq Lines' /\ Lines \cup InFlight \subseteq Lines' \cup InFlight'
    BY <1>0, <1>5, WriteMoves
  <2>2. /\ ckpt' = ckpt /\ acked' = acked /\ batch' = batch
        /\ holder' = holder /\ memSt' = memSt
    BY <1>5 DEF WriteLine
  <2>3. torn' = {}
    BY <1>0, <1>5 DEF WriteLine
  <2>4. AckedDurable'
    BY <2>1, <2>2 DEF DurableInv, AckedDurable
  <2>5. CheckpointBehindLog'
    BY <2>1, <2>2 DEF DurableInv, CheckpointBehindLog
  <2>6. BatchOK'
    BY <2>1, <2>2 DEF DurableInv, BatchOK
  <2>7. TargetOK'
    BY <2>1, <2>2 DEF DurableInv, TargetOK
  <2>8. QED
    BY <1>0, <2>3, <2>4, <2>5, <2>6, <2>7 DEF DurableInv
<1>6. ASSUME NEW w \in Writers, Save(w)
      PROVE  DurableInv'
  <2>1. /\ disk' = disk /\ torn' = torn /\ holder = w /\ pc = "save"
        /\ ckpt' = memSt[w] /\ acked' = acked \cup batch /\ Release
    BY <1>6 DEF Save, files
  <2>2. pending = <<>>
    BY <1>0, <2>1 DEF CallOK
  <2>3. InFlight = {}
    BY <2>2 DEF InFlight
  <2>4. Lines' = Lines
    BY <2>1, SameLines
  <2>5. AckedDurable'
    BY <2>1, <2>3, <2>4 DEF DurableInv, AckedDurable, BatchOK
  <2>6. CheckpointBehindLog'
    BY <2>1, <2>3, <2>4 DEF DurableInv, CheckpointBehindLog, TargetOK
  <2>7. BatchOK' /\ TargetOK'
    BY <2>1 DEF Release, BatchOK, TargetOK
  <2>8. QED
    BY <1>0, <2>1, <2>5, <2>6, <2>7 DEF DurableInv
<1>7. ASSUME NEW w \in Writers, SaveFails(w)
      PROVE  DurableInv'
  BY <1>0, <1>7, DurableQuiet DEF SaveFails, files
<1>8. ASSUME NEW w \in Writers, Interrupted(w)
      PROVE  DurableInv'
  <2>1. torn' = torn
    BY <1>8 DEF Interrupted, TornTail, NothingDropped
  <2>2. QED
    BY <1>0, <1>8, <2>1, DurableQuiet DEF Interrupted
<1>9. ASSUME NEW w \in Writers, Close(w)
      PROVE  DurableInv'
  <2>1. \A v \in Writers : holder = v => memSt'[v] = memSt[v]
    BY <1>9, ForgetType DEF Close
  <2>2. QED
    BY <1>0, <1>9, <2>1, DurableQuiet DEF Close, files, call
<1>10. CASE LoseState
  BY <1>0, <1>10, DurableQuiet DEF LoseState, files, memory, call
<1>11. CASE UNCHANGED vars
  BY <1>0, <1>11, DurableQuiet DEF vars, files, memory, call
<1>12. QED
  BY <1>1, <1>2, <1>3, <1>4, <1>5, <1>6, <1>7, <1>8, <1>9, <1>10, <1>11
     DEF Next, IoFails, Crash

LEMMA DurableInit == Init => DurableInv
BY DEF Init, DurableInv, CallOK, BatchOK, TargetOK, AckedDurable, CheckpointBehindLog

\* However many processes write, and through any number of crashes, failed
\* saves, losses of audit.state and saves within one tick of the clock, an
\* event whose append_many returned is in the log: with I/O errors where no
\* part is rotated, without them where parts are.  An error that is met while
\* a full part is closed does lose confirmed events (_close_log_locked).
THEOREM AckedEventsSurvive ==
    ASSUME NothingDropped
    PROVE  Spec => []AckedDurable
<1>1. TypeOK /\ DurableInv /\ [Next]_vars => DurableInv'
  BY DurableStep
<1>2. DurableInv => AckedDurable
  BY DEF DurableInv
<1>3. QED
  BY <1>1, <1>2, TypeCorrect, DurableInit, PTL DEF Spec

\* Under the same conditions audit.state never names an event that is not in
\* the log: the checkpoint is written after the lines it stands for.
THEOREM CheckpointNeverAhead ==
    ASSUME NothingDropped
    PROVE  Spec => []CheckpointBehindLog
<1>1. TypeOK /\ DurableInv /\ [Next]_vars => DurableInv'
  BY DurableStep
<1>2. DurableInv => CheckpointBehindLog
  BY DEF DurableInv
<1>3. QED
  BY <1>1, <1>2, TypeCorrect, DurableInit, PTL DEF Spec


-----------------------------------------------------------------------------
(* One process, no rotation: the chain survives every crash and failure.   *)

OneProcess ==
    /\ \A v, w \in Writers : v = w
    /\ RotateLines = 0
    /\ "torn" \notin Faults
    /\ "tick" \notin Faults

LEMMA LastLineLemma ==
    ASSUME TypeOK, OneFile, NEW f \in File, disk[f] # <<>>
    PROVE  /\ Len(disk[f]) \in Nat \ {0}
           /\ LastLine(f) \in Line
           /\ HasEntry(f)
           /\ LastEntry(f) = LastLine(f)
<1>1. disk[f] \in Seq(Line)
  BY DEF TypeOK
<1>2. Len(disk[f]) \in Nat \ {0}
  BY <1>1, EmptySeq
<1>3. Entries(f) = 1..Len(disk[f])
  <2>1. \A i \in 1..Len(disk[f]) : disk[f][i] # Junk
    BY DEF OneFile, Junk
  <2>2. QED
    BY <2>1 DEF Entries
<1>4. Len(disk[f]) \in 1..Len(disk[f])
  BY <1>2
<1>5. Greatest(Entries(f)) = Len(disk[f])
  <2>1. /\ Greatest(1..Len(disk[f])) \in 1..Len(disk[f])
        /\ \A y \in 1..Len(disk[f]) : y <= Greatest(1..Len(disk[f]))
    BY <1>2, <1>4, GreatestMember
  <2>2. QED
    BY <1>2, <1>3, <1>4, <2>1
<1>6. QED
  BY <1>1, <1>2, <1>3, <1>4, <1>5 DEF HasEntry, LastEntry, LastLine

\* Only one file has lines.
LEMMA OneFileOnly ==
    ASSUME TypeOK, OneFile, NEW f \in File, f \in created,
           \A g \in created : g <= f
    PROVE  \A g \in File : disk[g] # <<>> => g = f
BY DEF OneFile

LEMMA LoadAtTail ==
    ASSUME TypeOK, OneFile, CkptOK
    PROVE  /\ AtTail(Load)
           /\ Load.cur # 0 => Load.cur \in File /\ disk[Load.cur] # <<>>
<1>1. CASE ckpt = None
  <2>1. CASE created # {} /\ HasEntry(Greatest(created))
    <3> DEFINE last == Greatest(created)
    <3>1. last \in File /\ last \in created
      BY <2>1, CreatedLemma
    <3>2. disk[last] # <<>>
      <4>1. PICK i \in 1..Len(disk[last]) : TRUE
        BY <2>1 DEF HasEntry, Entries
      <4>2. disk[last] = <<>> => Len(disk[last]) = 0
        OBVIOUS
      <4>3. QED
        BY <4>1, <4>2
    <3>3. LastEntry(last) = LastLine(last) /\ manifest[last] = None
      BY <3>1, <3>2, LastLineLemma DEF OneFile
    <3>4. Load = [seq |-> LastLine(last).seq, prev |-> LastLine(last).hash, cur |-> last]
      BY <1>1, <2>1, <3>3 DEF Load, Recover
    <3> HIDE DEF last
    <3>5. QED
      BY <3>1, <3>2, <3>4 DEF AtTail
  <2>2. CASE ~(created # {} /\ HasEntry(Greatest(created)))
    <3>1. Load = Empty
      BY <1>1, <2>2 DEF Load, Recover
    <3>2. ASSUME NEW f \in File, disk[f] # <<>> PROVE FALSE
      <4>1. f \in created /\ \A g \in created : g <= f
        BY <3>2 DEF OneFile
      <4>2. Greatest(created) \in File /\ Greatest(created) \in created
            /\ f <= Greatest(created)
        BY <4>1, CreatedLemma
      <4>3. Greatest(created) = f
        BY <4>1, <4>2
      <4>4. QED
        BY <2>2, <3>2, <4>1, <4>3, LastLineLemma
    <3>3. QED
      BY <3>1, <3>2 DEF AtTail, Empty
  <2>3. QED
    BY <2>1, <2>2
<1>2. CASE ckpt # None
  <2>1. ckpt \in Checkpoint /\ ckpt.cur \in File /\ disk[ckpt.cur] # <<>>
        /\ ckpt.seq <= LastLine(ckpt.cur).seq
    BY <1>2 DEF CkptOK, TypeOK
  <2>2. LastEntry(ckpt.cur) = LastLine(ckpt.cur) /\ HasEntry(ckpt.cur)
        /\ LastLine(ckpt.cur) \in Line
    BY <2>1, LastLineLemma
  <2>3. Load = Heal(ckpt)
    BY <1>2 DEF Load
  <2>4. CASE ckpt.cur \in fresher
    <3>1. LastLine(ckpt.cur).seq >= ckpt.seq
      BY <2>1, <2>2 DEF Line, Checkpoint
    <3>2. Load = [ckpt EXCEPT !.seq = LastLine(ckpt.cur).seq,
                              !.prev = LastLine(ckpt.cur).hash]
      BY <2>2, <2>3, <2>4, <3>1 DEF Heal
    <3>3. /\ Load.seq = LastLine(ckpt.cur).seq
          /\ Load.prev = LastLine(ckpt.cur).hash
          /\ Load.cur = ckpt.cur
      BY <2>1, <3>2 DEF Checkpoint
    <3>4. QED
      BY <2>1, <3>3 DEF AtTail
  <2>5. CASE ckpt.cur \notin fresher
    BY <1>2, <2>1, <2>3, <2>5 DEF CkptOK, Heal
  <2>6. QED
    BY <2>4, <2>5
<1>3. QED
  BY <1>1, <1>2

LEMMA EnsuredAtTail ==
    ASSUME TypeOK, OneWriterInv, NEW w \in Writers, holder = None
    PROVE  /\ AtTail(Ensured(w))
           /\ Fresh(w) => Ensured(w) = memSt[w]
           /\ ~Fresh(w) /\ Ensured(w).cur # 0 =>
                 Ensured(w).cur \in File /\ disk[Ensured(w).cur] # <<>>
<1>1. CASE Fresh(w)
  <2>1. Ensured(w) = memSt[w] /\ memSt[w] # None /\ holder # w
    BY <1>1 DEF Ensured, Fresh
  <2>2. QED
    BY <1>1, <2>1 DEF OneWriterInv, CacheOK
<1>2. CASE ~Fresh(w)
  BY <1>2, LoadAtTail DEF OneWriterInv, Ensured
<1>3. QED
  BY <1>1, <1>2


LEMMA BeginKeeps ==
    ASSUME OneProcess, TypeOK, OneWriterInv, CallOK',
           NEW w \in Writers, NEW n \in 1..MaxBatch, Begin(w, n)
    PROVE  OneWriterInv'
<1> DEFINE st == Ensured(w)
           new == [seq |-> st.seq + n, prev |-> signed + n, cur |-> st.cur]
<1>1. /\ holder = None /\ holder' = w
      /\ disk' = disk /\ created' = created /\ manifest' = manifest /\ torn' = torn
      /\ ckpt' = ckpt /\ fresher' = fresher
      /\ memSt' = [memSt EXCEPT ![w] = new]
      /\ pending' = Sign(st, n)
      /\ fh' = [fh EXCEPT ![w] = IF Fresh(w) THEN @ ELSE 0]
  BY DEF Begin, files, EnsureState
<1>2. st \in Checkpoint /\ n \in Nat \ {0} /\ signed \in Nat
  BY SignArguments
<1>3. /\ AtTail(st)
      /\ Fresh(w) => st = memSt[w]
      /\ ~Fresh(w) /\ st.cur # 0 => st.cur \in File /\ disk[st.cur] # <<>>
  BY <1>1, EnsuredAtTail
<1>a. Fresh(w) => memSt[w] # None
  BY DEF Fresh
<1> HIDE DEF st
<1>4. /\ pending' \in Seq(Line) /\ Len(pending') = n /\ pending' # <<>>
      /\ \A k \in 1..n :
            pending'[k] = [seq  |-> st.seq + k,
                           prev |-> IF k = 1 THEN st.prev ELSE signed + k - 1,
                           hash |-> signed + k]
  BY <1>1, <1>2, SignLemma
<1>5. memSt'[w] = new
  BY <1>1 DEF TypeOK
<1>6. fh'[w] = IF Fresh(w) THEN fh[w] ELSE 0
  BY <1>1 DEF TypeOK
<1>7. OneFile' /\ ChainOK' /\ CkptOK'
  BY <1>1 DEF OneWriterInv, OneFile, ChainOK, LineOK, Before, CkptOK, AtTail, LastLine
<1>8. DescriptorOK'
  <2>1. new # None
    <3>1. new \in Checkpoint
      BY <1>2 DEF Checkpoint
    <3>2. QED
      BY <3>1
  <2>2. SUFFICES ASSUME NEW v \in Writers
        PROVE  /\ fh'[w] # 0 => /\ fh'[w] = st.cur
                                /\ fh'[w] \in created
                                /\ \A g \in created : g <= fh'[w]
               /\ fh'[w] = 0 /\ st.cur # 0 => st.cur \in File /\ disk[st.cur] # <<>>
    <3>1. \A v \in Writers : v = w
      BY DEF OneProcess
    <3>2. memSt'[w].cur = st.cur /\ memSt'[w] # None
      BY <1>5, <2>1
    <3>3. QED
      BY <1>1, <2>2, <3>1, <3>2 DEF DescriptorOK
  <2>3. CASE Fresh(w)
    BY <1>3, <1>6, <1>a, <2>3 DEF OneWriterInv, DescriptorOK
  <2>4. CASE ~Fresh(w)
    BY <1>3, <1>6, <2>4
  <2>5. QED
    BY <2>3, <2>4
<1>9. CacheOK'
  BY <1>1 DEF OneProcess, CacheOK
<1>10. PendingOK'
  <2>1. \A k \in 1..Len(pending') : pending'[k].hash > 0 /\ pending'[k].seq > 0
    BY <1>2, <1>4 DEF Checkpoint
  <2>2. \A k \in 2..Len(pending') : LinkedTo(pending'[k], pending'[k - 1])
    <3>1. SUFFICES ASSUME NEW k \in 2..n
                   PROVE LinkedTo(pending'[k], pending'[k - 1])
      BY <1>4
    <3>2. /\ pending'[k].seq = st.seq + k /\ pending'[k].prev = signed + k - 1
          /\ pending'[k - 1].seq = st.seq + (k - 1)
          /\ pending'[k - 1].hash = signed + (k - 1)
      BY <1>2, <1>4
    <3>3. QED
      BY <1>2, <3>2 DEF LinkedTo, Checkpoint
  <2>3. [seq |-> pending'[1].seq - 1, prev |-> pending'[1].prev, cur |-> memSt'[w].cur] = st
    <3>1. 1 \in 1..n
      BY <1>2
    <3>2. pending'[1].seq = st.seq + 1 /\ pending'[1].prev = st.prev
      BY <1>4, <3>1
    <3>3. pending'[1].seq - 1 = st.seq /\ memSt'[w].cur = st.cur
      BY <1>2, <1>5, <3>2 DEF Checkpoint
    <3>4. QED
      BY <1>2, <3>2, <3>3 DEF Checkpoint
  <2>4. memSt'[w].seq = pending'[n].seq /\ memSt'[w].prev = pending'[n].hash
    <3>1. n \in 1..n
      BY <1>2
    <3>2. QED
      BY <1>4, <1>5, <3>1
  <2>5. AtTail([seq |-> pending[1].seq - 1, prev |-> pending[1].prev, cur |-> memSt[w].cur])'
    BY <1>1, <1>3, <2>3 DEF AtTail, LastLine
  <2>6. \A v \in Writers : v = w
    BY DEF OneProcess
  <2>7. QED
    BY <1>4, <2>1, <2>2, <2>4, <2>5, <2>6 DEF PendingOK
<1>11. QED
  BY <1>7, <1>8, <1>9, <1>10 DEF OneWriterInv


LEMMA OpenKeeps ==
    ASSUME OneProcess, TypeOK, OneWriterInv, CallOK', TypeOK',
           NEW w \in Writers, OpenLog(w)
    PROVE  OneWriterInv'
<1>0. \A v \in Writers : v = w
  BY DEF OneProcess
<1>1. /\ holder = w /\ holder' = w /\ disk' = disk /\ ckpt' = ckpt /\ pending' = pending
      /\ manifest' = manifest /\ torn' = torn /\ raw' = raw
  BY DEF OpenLog, files, memory
<1>2. memSt[w] \in Checkpoint /\ memSt[w] # None /\ pending # <<>> /\ pending \in Seq(Line)
  BY <1>1 DEF OneWriterInv, CallOK, OpenLog, TypeOK
<1>3. CASE fh[w] # 0
  <2>1. created' = created /\ fresher' = fresher /\ memSt' = memSt /\ fh' = fh
    BY <1>3 DEF OpenLog, files, memory
  <2>2. OneFile'
    BY <1>1, <2>1 DEF OneWriterInv, OneFile
  <2>3. ChainOK'
    BY <1>1 DEF OneWriterInv, ChainOK, LineOK, Before
  <2>4. CkptOK'
    BY <1>1, <2>1 DEF OneWriterInv, CkptOK, AtTail, LastLine
  <2>5. DescriptorOK'
    BY <1>1, <2>1 DEF OneWriterInv, DescriptorOK
  <2>6. CacheOK'
    BY <1>1, <2>1 DEF OneWriterInv, CacheOK, AtTail, LastLine
  <2>7. PendingOK'
    BY <1>1, <2>1 DEF OneWriterInv, PendingOK, AtTail, LastLine
  <2>8. QED
    BY <2>2, <2>3, <2>4, <2>5, <2>6, <2>7 DEF OneWriterInv
<1>4. CASE fh[w] = 0
  <2>1. PICK f \in Target(memSt[w]) :
          /\ memSt' = [memSt EXCEPT ![w].cur = f]
          /\ fh' = [fh EXCEPT ![w] = f]
          /\ created' = created \cup {f}
          /\ fresher' \in IF f \in created THEN {fresher} ELSE Touched(f)
    BY <1>4 DEF OpenLog
  <2>2. f \in File
    BY <2>1, <1>2, CreatedLemma DEF Target, TypeOK
  <2>3. fresher \subseteq fresher'
    BY <2>1 DEF Touched
  <2>4. /\ memSt'[w].cur = f /\ memSt'[w].seq = memSt[w].seq
        /\ memSt'[w].prev = memSt[w].prev /\ fh'[w] = f /\ memSt'[w] # None
    <3>1. memSt'[w] = [memSt[w] EXCEPT !.cur = f]
      BY <2>1 DEF TypeOK
    <3>2. fh'[w] = f
      BY <2>1 DEF TypeOK
    <3>3. memSt'[w] # None
      BY <1>1 DEF CallOK
    <3>4. QED
      BY <1>2, <3>1, <3>2, <3>3 DEF Checkpoint
  <2>5. CASE memSt[w].cur # 0
    <3>1. f = memSt[w].cur
      BY <2>1, <2>5 DEF Target
    <3>2. disk[f] # <<>>
      BY <1>2, <1>4, <2>5, <3>1 DEF OneWriterInv, DescriptorOK
    <3>3. f \in created /\ created' = created /\ \A g \in created : g <= f
      BY <2>1, <2>2, <3>2 DEF OneWriterInv, OneFile
    <3>4. OneFile' /\ ChainOK'
      BY <1>1, <3>3 DEF OneWriterInv, OneFile, ChainOK, LineOK, Before
    <3>5. CkptOK'
      BY <1>1, <2>3 DEF OneWriterInv, CkptOK, AtTail, LastLine
    <3>6. DescriptorOK'
      BY <1>0, <2>2, <2>4, <3>3 DEF DescriptorOK
    <3>7. CacheOK'
      BY <1>0, <1>1 DEF CacheOK
    <3>8. PendingOK'
      BY <1>0, <1>1, <1>2, <2>4, <3>1 DEF OneWriterInv, PendingOK, AtTail, LastLine
    <3>9. QED
      BY <3>4, <3>5, <3>6, <3>7, <3>8 DEF OneWriterInv
  <2>6. CASE memSt[w].cur = 0
    <3>1. \A g \in File : disk[g] = <<>>
      <4>1. AtTail([seq |-> pending[1].seq - 1, prev |-> pending[1].prev, cur |-> memSt[w].cur])
        BY <1>1, <1>2 DEF OneWriterInv, PendingOK
      <4>2. 0 \notin File
        OBVIOUS
      <4>3. QED
        BY <2>6, <4>1, <4>2 DEF AtTail
    <3>2. \A g \in created : g <= f
      <4>1. CASE created = {}
        BY <4>1
      <4>2. CASE created # {}
        <5>1. f = Greatest(created) \/ f = Greatest(created) + 1
          BY <2>1, <2>6, <4>2 DEF Target
        <5>2. Greatest(created) \in File /\ \A g \in created : g <= Greatest(created)
          BY <4>2, CreatedLemma
        <5>3. created \subseteq File
          BY DEF TypeOK
        <5>4. QED
          BY <5>1, <5>2, <5>3
      <4>3. QED
        BY <4>1, <4>2
    <3>3. \A g \in created' : g <= f
      BY <2>1, <2>2, <3>2
    <3>4. OneFile' /\ ChainOK'
      <4>1. \A g \in File : Len(disk[g]) = 0
        BY <3>1
      <4>2. QED
        BY <1>1, <3>1, <4>1 DEF OneWriterInv, OneFile, ChainOK
    <3>5. CkptOK'
      BY <1>1, <3>1 DEF OneWriterInv, CkptOK
    <3>6. DescriptorOK'
      BY <1>0, <2>1, <2>2, <2>4, <3>3 DEF DescriptorOK
    <3>7. CacheOK'
      BY <1>0, <1>1 DEF CacheOK
    <3>8. PendingOK'
      BY <1>0, <1>1, <1>2, <2>4, <3>1 DEF OneWriterInv, PendingOK, AtTail
    <3>9. QED
      BY <3>4, <3>5, <3>6, <3>7, <3>8 DEF OneWriterInv
  <2>7. QED
    BY <2>5, <2>6
<1>5. QED
  BY <1>3, <1>4


\* The file the only process writes to: the newest, current one, and the only
\* one with lines.
LEMMA WriteFile ==
    ASSUME TypeOK, OneWriterInv, NEW w \in Writers, WriteLine(w)
    PROVE  /\ fh[w] = memSt[w].cur
           /\ fh[w] \in created
           /\ \A g \in created : g <= fh[w]
           /\ \A g \in File : disk[g] # <<>> => g = fh[w]
<1>1. fh[w] # 0 /\ memSt[w] # None /\ fh[w] \in File
  BY DEF WriteLine, OneWriterInv, CallOK, TypeOK
<1>2. /\ fh[w] = memSt[w].cur /\ fh[w] \in created
      /\ \A g \in created : g <= fh[w]
  BY <1>1 DEF OneWriterInv, DescriptorOK
<1>3. QED
  BY <1>1, <1>2, OneFileOnly DEF OneWriterInv

LEMMA WriteKeeps ==
    ASSUME OneProcess, TypeOK, OneWriterInv, CallOK', TypeOK',
           NEW w \in Writers, WriteLine(w)
    PROVE  OneWriterInv'
<1>f. PICK f : f = fh[w]
  OBVIOUS
<1>l. PICK len : len = Len(disk[f])
  OBVIOUS
<1>h. PICK head : head = pending[1]
  OBVIOUS
<1>0. \A v \in Writers : v = w
  BY DEF OneProcess
<1>1. /\ holder = w /\ holder' = w /\ ckpt' = ckpt /\ created' = created
      /\ manifest' = manifest /\ memSt' = memSt /\ raw' = raw /\ fh' = fh
      /\ torn = {} /\ torn' = {} /\ CallOK
  BY DEF WriteLine, OneWriterInv, OneFile
<1>2. /\ f \in File
      /\ pending \in Seq(Line) /\ pending # <<>>
      /\ head \in Line
      /\ disk'[f] = Append(disk[f], head)
      /\ \A g \in File : g # f => disk'[g] = disk[g]
      /\ pending' = Tail(pending)
  BY <1>f, <1>h, <1>1, WriteShape
<1>3. /\ f = memSt[w].cur /\ f \in created
      /\ \A g \in created : g <= f
      /\ \A g \in File : disk[g] # <<>> => g = f
  BY <1>f, WriteFile
<1>b. disk[f] \in Seq(Line)
  BY <1>2 DEF TypeOK
<1>c. len \in Nat
  BY <1>b, <1>l, LenProperties
<1>4. /\ Len(disk'[f]) = len + 1
      /\ \A k \in 1..len : disk'[f][k] = disk[f][k]
      /\ disk'[f][len + 1] = head
  <2>1. /\ Len(Append(disk[f], head)) = len + 1
        /\ \A k \in 1..len : Append(disk[f], head)[k] = disk[f][k]
        /\ Append(disk[f], head)[len + 1] = head
    BY <1>2, <1>b, <1>l, AppendProperties
  <2>2. QED
    BY <1>2, <2>1
<1>d. disk'[f] # <<>>
  <2>1. disk'[f] = <<>> => Len(disk'[f]) = 0
    OBVIOUS
  <2>2. QED
    BY <1>c, <1>4, <2>1
<1>5. LastLine(f)' = head
  BY <1>1, <1>4, <1>c, <1>d DEF LastLine
<1>6. /\ Len(pending) \in Nat \ {0} /\ Len(pending') = Len(pending) - 1
      /\ \A k \in 1..Len(pending') : pending'[k] = pending[k + 1]
      /\ pending' \in Seq(Line)
  BY <1>2, HeadTailProperties, EmptySeq
<1>7. f \in fresher'
  BY <1>f DEF WriteLine, Touched, OneProcess
<1>8. AtTail([seq |-> head.seq - 1, prev |-> head.prev, cur |-> memSt[w].cur])
  BY <1>1, <1>2, <1>h DEF OneWriterInv, PendingOK
<1>9. head.hash > 0 /\ head.seq > 0
  <2>1. 1 \in 1..Len(pending)
    BY <1>6
  <2>2. QED
    BY <1>h, <2>1 DEF OneWriterInv, PendingOK
<1>10. IF len = 0 THEN head.seq = 1 /\ head.prev = 0
       ELSE LinkedTo(head, disk[f][len])
  <2>1. CASE len = 0
    <3>1. disk[f] = <<>>
      BY <1>2, <1>l, <2>1, EmptySeq DEF TypeOK
    <3>2. \A g \in File : disk[g] = <<>>
      BY <1>3, <3>1
    <3>3. head.seq - 1 = 0 /\ head.prev = 0
      BY <1>8, <3>2 DEF AtTail
    <3>4. QED
      BY <1>2, <2>1, <3>3 DEF Line
  <2>2. CASE len # 0
    <3>1. disk[f] # <<>>
      <4>1. disk[f] = <<>> => Len(disk[f]) = 0
        OBVIOUS
      <4>2. QED
        BY <1>l, <2>2, <4>1
    <3>2. head.seq - 1 = LastLine(f).seq /\ head.prev = LastLine(f).hash
      BY <1>2, <1>3, <1>8, <3>1 DEF AtTail
    <3>3. LastLine(f) \in Line /\ LastLine(f) = disk[f][len]
      BY <1>2, <1>l, <3>1, LastLineLemma DEF OneWriterInv, LastLine
    <3>4. head.seq = LastLine(f).seq + 1
      <4>1. head.seq \in Nat /\ LastLine(f).seq \in Nat
        BY <1>2, <3>3 DEF Line
      <4>2. QED
        BY <3>2, <4>1
    <3>5. QED
      BY <2>2, <3>2, <3>3, <3>4 DEF LinkedTo
  <2>3. QED
    BY <2>1, <2>2
<1>11. OneFile'
  <2>1. \A g \in File : disk'[g] # <<>> => g = f
    BY <1>2, <1>3
  <2>2. \A g \in File : \A k \in 1..Len(disk'[g]) : disk'[g][k].hash > 0
    <3>1. SUFFICES ASSUME NEW g \in File, NEW k \in 1..Len(disk'[g])
                   PROVE disk'[g][k].hash > 0
      OBVIOUS
    <3>2. CASE g # f
      BY <1>2, <3>2 DEF OneWriterInv, OneFile
    <3>3. CASE g = f
      <4>1. CASE k = len + 1
        BY <1>4, <1>c, <1>d, <1>9, <3>3, <4>1
      <4>2. CASE k # len + 1
        <5>1. k \in 1..len
          BY <1>4, <1>c, <1>d, <3>3, <4>2
        <5>2. disk[f][k].hash > 0
          BY <1>2, <1>l, <5>1 DEF OneWriterInv, OneFile
        <5>3. QED
          BY <1>4, <1>c, <1>d, <3>3, <5>1, <5>2
      <4>3. QED
        BY <4>1, <4>2
    <3>4. QED
      BY <3>2, <3>3
  <2>3. QED
    BY <1>1, <1>3, <2>1, <2>2 DEF OneWriterInv, OneFile
<1>12. ChainOK'
  <2>1. SUFFICES ASSUME NEW g \in File, NEW k \in 1..Len(disk'[g])
                 PROVE LineOK(g, k)'
    BY DEF ChainOK
  <2>2. CASE g # f
    <3>1. disk[g] = <<>> /\ disk'[g] = disk[g]
      BY <1>2, <1>3, <2>2
    <3>2. Len(disk'[g]) = 0
      BY <3>1
    <3>3. QED
      BY <3>2
  <2>3. CASE g = f
    <3>1. Before(f)' = {}
      <4>1. SUFFICES ASSUME NEW h \in File, h < f, disk'[h] # <<>> PROVE FALSE
        BY DEF Before
      <4>2. h # f
        BY <1>2, <4>1
      <4>3. QED
        BY <1>2, <1>3, <4>1, <4>2
    <3>2. Before(f) = {}
      <4>1. SUFFICES ASSUME NEW h \in File, h < f, disk[h] # <<>> PROVE FALSE
        BY DEF Before
      <4>2. h # f
        BY <1>2, <4>1
      <4>3. QED
        BY <1>3, <4>1, <4>2
    <3>3. CASE k = len + 1
      <4>1. CASE len = 0
        <5>1. LinkedTo(disk'[f][1], Junk)
          BY <1>4, <1>c, <1>d, <1>10, <4>1 DEF LinkedTo, Junk
        <5>2. k = 1
          BY <3>3, <4>1
        <5>3. QED
          BY <2>3, <3>1, <5>1, <5>2 DEF LineOK
      <4>2. CASE len # 0
        <5>1. len \in 1..len /\ k > 1 /\ k - 1 = len
          BY <1>4, <1>c, <1>d, <3>3, <4>2
        <5>2. disk'[f][k] = head /\ disk'[f][k - 1] = disk[f][len]
          BY <1>4, <1>c, <1>d, <3>3, <5>1
        <5>3. LinkedTo(disk'[f][k], disk'[f][k - 1])
          BY <1>10, <4>2, <5>2
        <5>4. QED
          BY <2>3, <5>1, <5>3 DEF LineOK, LinkedTo
      <4>3. QED
        BY <4>1, <4>2
    <3>4. CASE k # len + 1
      <4>1. k \in 1..len
        BY <1>4, <1>c, <1>d, <2>3, <3>4
      <4>2. LineOK(f, k)
        BY <1>2, <1>l, <4>1 DEF OneWriterInv, ChainOK
      <4>3. CASE k > 1
        <5>1. k - 1 \in 1..len
          BY <1>4, <1>c, <1>d, <4>1, <4>3
        <5>2. QED
          BY <1>4, <1>c, <1>d, <2>3, <4>1, <4>2, <4>3, <5>1 DEF LineOK, LinkedTo
      <4>4. CASE ~(k > 1)
        <5>1. k = 1
          BY <4>1, <4>4
        <5>2. QED
          BY <1>4, <1>c, <1>d, <2>3, <3>1, <3>2, <4>1, <4>2, <5>1 DEF LineOK, LinkedTo
      <4>5. QED
        BY <4>3, <4>4
    <3>5. QED
      BY <3>3, <3>4
  <2>4. QED
    BY <2>2, <2>3
<1>13. CkptOK'
  <2>1. SUFFICES ASSUME ckpt # None
                 PROVE /\ ckpt.cur \in File /\ disk'[ckpt.cur] # <<>>
                       /\ ckpt.seq <= LastLine(ckpt.cur)'.seq
                       /\ ckpt.cur \in fresher'
    BY <1>1 DEF CkptOK
  <2>2. /\ ckpt.cur \in File /\ disk[ckpt.cur] # <<>>
        /\ ckpt.seq <= LastLine(ckpt.cur).seq /\ ckpt \in Checkpoint
    BY <2>1 DEF OneWriterInv, CkptOK, TypeOK
  <2>3. ckpt.cur = f
    BY <1>3, <2>2
  <2>4. len # 0
    BY <1>l, <2>2, <2>3, EmptySeq DEF TypeOK
  <2>5. LastLine(f) = disk[f][len]
    BY <1>l DEF LastLine
  <2>6. head.seq = LastLine(f).seq + 1
    BY <1>10, <2>4, <2>5 DEF LinkedTo
  <2>7. LastLine(f) \in Line
    BY <1>2, <2>2, <2>3, LastLineLemma DEF OneWriterInv
  <2>8. ckpt.seq <= head.seq
    BY <2>2, <2>3, <2>6, <2>7 DEF Line, Checkpoint
  <2>9. LastLine(ckpt.cur)' = head
    BY <1>1, <1>5, <2>3
  <2>10. QED
    BY <1>2, <1>4, <1>c, <1>d, <1>7, <2>3, <2>8, <2>9
<1>14. DescriptorOK'
  <2>1. \A g \in File : disk[g] # <<>> => disk'[g] # <<>>
    BY <1>2, <1>4, <1>c, <1>d
  <2>2. QED
    BY <1>1, <2>1 DEF OneWriterInv, DescriptorOK
<1>15. CacheOK'
  BY <1>0, <1>1 DEF CacheOK
<1>16. PendingOK'
  <2>1. \A k \in 1..Len(pending') : pending'[k].hash > 0 /\ pending'[k].seq > 0
    <3>1. \A k \in 1..Len(pending') : k + 1 \in 1..Len(pending)
      BY <1>6
    <3>2. QED
      BY <1>6, <3>1 DEF OneWriterInv, PendingOK
  <2>2. \A k \in 2..Len(pending') : LinkedTo(pending'[k], pending'[k - 1])
    <3>1. SUFFICES ASSUME NEW k \in 2..Len(pending')
                   PROVE LinkedTo(pending'[k], pending'[k - 1])
      OBVIOUS
    <3>2. k + 1 \in 2..Len(pending) /\ k - 1 \in 1..Len(pending') /\ k \in 1..Len(pending')
      BY <1>6
    <3>3. pending'[k] = pending[k + 1] /\ pending'[k - 1] = pending[k]
      BY <1>6, <3>2
    <3>4. LinkedTo(pending[k + 1], pending[(k + 1) - 1])
      BY <3>2 DEF OneWriterInv, PendingOK
    <3>5. QED
      BY <3>3, <3>4
  <2>3. CASE pending' = <<>>
    <3>1. Len(pending) = 1
      BY <1>6, <2>3
    <3>2. memSt[w].seq = head.seq /\ memSt[w].prev = head.hash
      BY <1>h, <1>1, <1>2, <3>1 DEF OneWriterInv, PendingOK
    <3>3. AtTail(memSt[w])'
      BY <1>1, <1>2, <1>3, <1>4, <1>c, <1>d, <1>5, <3>2 DEF AtTail
    <3>4. QED
      BY <1>0, <1>1, <2>1, <2>2, <2>3, <3>3 DEF PendingOK
  <2>4. CASE pending' # <<>>
    <3>1. Len(pending') \in Nat \ {0}
      BY <1>6, <2>4, EmptySeq
    <3>2. 1 \in 1..Len(pending') /\ 2 \in 2..Len(pending)
          /\ Len(pending') \in 1..Len(pending')
      BY <1>6, <3>1
    <3>3. pending'[1] = pending[2] /\ pending'[Len(pending')] = pending[Len(pending)]
      BY <1>6, <3>2
    <3>4. LinkedTo(pending[2], pending[2 - 1])
      BY <3>2 DEF OneWriterInv, PendingOK
    <3>5. pending[2].seq = head.seq + 1 /\ pending[2].prev = head.hash
      BY <1>h, <3>4 DEF LinkedTo
    <3>6. pending'[1].seq - 1 = head.seq /\ pending'[1].prev = head.hash
      <4>1. head.seq \in Nat
        BY <1>2 DEF Line
      <4>2. QED
        BY <3>3, <3>5, <4>1
    <3>7. AtTail([seq |-> pending[1].seq - 1, prev |-> pending[1].prev,
                  cur |-> memSt[w].cur])'
      BY <1>1, <1>2, <1>3, <1>4, <1>c, <1>d, <1>5, <3>6 DEF AtTail
    <3>8. memSt[w].seq = pending[Len(pending)].seq
          /\ memSt[w].prev = pending[Len(pending)].hash
      BY <1>1, <1>2 DEF OneWriterInv, PendingOK
    <3>9. QED
      BY <1>0, <1>1, <2>1, <2>2, <2>4, <3>3, <3>7, <3>8 DEF PendingOK
  <2>5. QED
    BY <2>3, <2>4
<1>17. QED
  BY <1>11, <1>12, <1>13, <1>14, <1>15, <1>16 DEF OneWriterInv


\* A step that leaves the log, the caches and the call alone.
LEMMA MemoryQuiet ==
    ASSUME OneWriterInv,
           disk' = disk, created' = created, memSt' = memSt, fh' = fh,
           holder' = holder, pending' = pending
    PROVE  DescriptorOK' /\ CacheOK' /\ PendingOK'
<1>1. DescriptorOK'
  BY DEF OneWriterInv, DescriptorOK
<1>2. CacheOK'
  BY DEF OneWriterInv, CacheOK, AtTail, LastLine
<1>3. PendingOK'
  BY DEF OneWriterInv, PendingOK, AtTail, LastLine
<1>4. QED
  BY <1>1, <1>2, <1>3

\* A step that leaves the files, the checkpoint and the mtimes alone.
LEMMA FilesQuiet ==
    ASSUME OneWriterInv, UNCHANGED files
    PROVE  /\ OneFile' /\ ChainOK'
           /\ UNCHANGED <<ckpt, fresher>> => CkptOK'
<1>1. disk' = disk /\ created' = created /\ manifest' = manifest /\ torn' = torn
  BY DEF files
<1>2. OneFile' /\ ChainOK'
  BY <1>1 DEF OneWriterInv, OneFile, ChainOK, LineOK, Before
<1>3. UNCHANGED <<ckpt, fresher>> => CkptOK'
  BY <1>1 DEF OneWriterInv, CkptOK, AtTail, LastLine
<1>4. QED
  BY <1>2, <1>3

LEMMA RejectKeeps ==
    ASSUME OneProcess, TypeOK, OneWriterInv, CallOK',
           NEW w \in Writers, Reject(w)
    PROVE  OneWriterInv'
<1>0. \A v \in Writers : v = w
  BY DEF OneProcess
<1>1. /\ holder = None /\ holder' = None /\ pending' = pending
      /\ disk' = disk /\ created' = created
      /\ UNCHANGED files /\ UNCHANGED <<ckpt, fresher>>
      /\ memSt' = [memSt EXCEPT ![w] = Ensured(w)]
      /\ fh' = [fh EXCEPT ![w] = IF Fresh(w) THEN @ ELSE 0]
  BY DEF Reject, files, call, EnsureState
<1>2. memSt'[w] = Ensured(w) /\ fh'[w] = IF Fresh(w) THEN fh[w] ELSE 0
  BY <1>1 DEF TypeOK
<1>3. /\ AtTail(Ensured(w))
      /\ Fresh(w) => Ensured(w) = memSt[w]
      /\ ~Fresh(w) /\ Ensured(w).cur # 0 =>
            Ensured(w).cur \in File /\ disk[Ensured(w).cur] # <<>>
  BY <1>1, EnsuredAtTail
<1>4. Ensured(w) # None
  <2>1. Ensured(w) \in Checkpoint
    BY EnsuredType
  <2>2. QED
    BY <2>1
<1>5. OneFile' /\ ChainOK' /\ CkptOK'
  BY <1>1, FilesQuiet
<1>6. DescriptorOK'
  <2>1. CASE Fresh(w)
    BY <1>0, <1>1, <1>2, <1>3, <2>1 DEF OneWriterInv, DescriptorOK
  <2>2. CASE ~Fresh(w)
    BY <1>0, <1>1, <1>2, <1>3, <1>4, <2>2 DEF DescriptorOK
  <2>3. QED
    BY <2>1, <2>2
<1>7. CacheOK'
  <2>1. AtTail(memSt[w])'
    BY <1>1, <1>2, <1>3 DEF AtTail, LastLine
  <2>2. QED
    BY <1>0, <2>1 DEF CacheOK
<1>8. PendingOK'
  <2>1. w # None
    OBVIOUS
  <2>2. QED
    BY <1>0, <1>1, <2>1 DEF OneWriterInv, PendingOK
<1>9. QED
  BY <1>5, <1>6, <1>7, <1>8 DEF OneWriterInv

\* Where a call ends: nothing is pending and nobody is inside.
LEMMA ReleaseLeaves ==
    ASSUME Release
    PROVE  PendingOK'
<1>1. pending' = <<>> /\ holder' = None
  BY DEF Release
<1>2. Len(pending') = 0
  BY <1>1
<1>3. \A w \in Writers : holder' # w
  BY <1>1
<1>4. QED
  BY <1>2, <1>3 DEF PendingOK

\* When a call is about to save, its state is where the log ends.
LEMMA SaveAtTail ==
    ASSUME TypeOK, OneWriterInv, DurableInv, NEW w \in Writers,
           holder = w, pc = "save"
    PROVE  /\ AtTail(memSt[w])
           /\ memSt[w] \in Checkpoint
           /\ memSt[w].cur \in File
           /\ disk[memSt[w].cur] # <<>>
<1>1. pending = <<>> /\ memSt[w] # None
  BY DEF OneWriterInv, CallOK
<1>2. memSt[w] \in Checkpoint
  BY <1>1 DEF TypeOK
<1>3. AtTail(memSt[w])
  BY <1>1 DEF OneWriterInv, PendingOK
<1>4. InFlight = {}
  BY <1>1 DEF InFlight
<1>5. PICK line \in Lines : TRUE
  BY <1>4 DEF DurableInv, TargetOK
<1>6. PICK f \in File : Len(disk[f]) # 0
  BY <1>5 DEF Lines
<1>7. disk[f] # <<>>
  <2>1. disk[f] = <<>> => Len(disk[f]) = 0
    OBVIOUS
  <2>2. QED
    BY <1>6, <2>1
<1>8. QED
  BY <1>2, <1>3, <1>6, <1>7 DEF AtTail

LEMMA SaveKeeps ==
    ASSUME OneProcess, TypeOK, OneWriterInv, DurableInv, CallOK',
           NEW w \in Writers, Save(w)
    PROVE  OneWriterInv'
<1>0. \A v \in Writers : v = w
  BY DEF OneProcess
<1>1. /\ holder = w /\ pc = "save" /\ Release
      /\ disk' = disk /\ created' = created /\ UNCHANGED files
      /\ ckpt' = memSt[w] /\ fresher' = {} /\ memSt' = memSt /\ fh' = fh
  BY DEF Save, files
<1>2. /\ AtTail(memSt[w])
      /\ memSt[w] \in Checkpoint
      /\ memSt[w].cur \in File
      /\ disk[memSt[w].cur] # <<>>
  BY <1>1, SaveAtTail
<1>3. memSt[w].seq = LastLine(memSt[w].cur).seq
  BY <1>2 DEF AtTail
<1>4. OneFile' /\ ChainOK'
  BY <1>1, FilesQuiet
<1>5. CkptOK'
  <2>1. AtTail(ckpt)'
    BY <1>1, <1>2 DEF AtTail, LastLine
  <2>2. LastLine(ckpt.cur)' = LastLine(memSt[w].cur)
    BY <1>1 DEF LastLine
  <2>3. memSt[w].seq \in Nat
    BY <1>2 DEF Checkpoint
  <2>4. ckpt'.seq <= LastLine(ckpt.cur)'.seq
    BY <1>1, <1>3, <2>2, <2>3
  <2>5. QED
    BY <1>1, <1>2, <2>1, <2>4 DEF CkptOK
<1>6. DescriptorOK'
  BY <1>1 DEF OneWriterInv, DescriptorOK
<1>7. CacheOK'
  <2>1. AtTail(memSt[w])'
    BY <1>1, <1>2 DEF AtTail, LastLine
  <2>2. QED
    BY <1>0, <2>1 DEF CacheOK
<1>8. PendingOK'
  BY <1>1, ReleaseLeaves
<1>9. QED
  BY <1>4, <1>5, <1>6, <1>7, <1>8 DEF OneWriterInv

\* Saving fails: the log has the batch, and so has the cache.
LEMMA SaveFailsKeeps ==
    ASSUME OneProcess, TypeOK, OneWriterInv, DurableInv, CallOK',
           NEW w \in Writers, SaveFails(w)
    PROVE  OneWriterInv'
<1>0. \A v \in Writers : v = w
  BY DEF OneProcess
<1>1. /\ holder = w /\ pc = "save" /\ Release
      /\ disk' = disk /\ created' = created
      /\ UNCHANGED files /\ UNCHANGED <<ckpt, fresher>>
      /\ memSt' = memSt /\ fh' = fh
  BY DEF SaveFails, files, memory
<1>2. AtTail(memSt[w])
  BY <1>1, SaveAtTail
<1>3. OneFile' /\ ChainOK' /\ CkptOK'
  BY <1>1, FilesQuiet
<1>4. DescriptorOK'
  BY <1>1 DEF OneWriterInv, DescriptorOK
<1>5. CacheOK'
  <2>1. AtTail(memSt[w])'
    BY <1>1, <1>2 DEF AtTail, LastLine
  <2>2. QED
    BY <1>0, <2>1 DEF CacheOK
<1>6. PendingOK'
  BY <1>1, ReleaseLeaves
<1>7. QED
  BY <1>3, <1>4, <1>5, <1>6 DEF OneWriterInv

\* The process forgets what it cached, at whatever point.
LEMMA ForgetKeeps ==
    ASSUME OneProcess, TypeOK, OneWriterInv, CallOK', NEW w \in Writers,
           Forget(w), UNCHANGED files, UNCHANGED <<ckpt, fresher>>, PendingOK'
    PROVE  OneWriterInv'
<1>0. \A v \in Writers : v = w
  BY DEF OneProcess
<1>1. memSt'[w] = None /\ fh'[w] = 0
  BY DEF Forget, TypeOK
<1>2. OneFile' /\ ChainOK' /\ CkptOK'
  BY FilesQuiet
<1>3. DescriptorOK' /\ CacheOK'
  BY <1>0, <1>1 DEF DescriptorOK, CacheOK
<1>4. QED
  BY <1>2, <1>3 DEF OneWriterInv

LEMMA OneWriterStep ==
    ASSUME OneProcess, TypeOK, OneWriterInv, DurableInv, TypeOK', CallOK',
           [Next]_vars
    PROVE  OneWriterInv'
<1>1. ASSUME NEW w \in Writers, NEW n \in 1..MaxBatch, Begin(w, n)
      PROVE  OneWriterInv'
  BY <1>1, BeginKeeps
<1>2. ASSUME NEW w \in Writers, Reject(w)
      PROVE  OneWriterInv'
  BY <1>2, RejectKeeps
<1>3. ASSUME NEW w \in Writers, OpenLog(w)
      PROVE  OneWriterInv'
  BY <1>3, OpenKeeps
<1>4. ASSUME NEW w \in Writers, Rotate(w)
      PROVE  OneWriterInv'
  <2>1. ~RotationDue(w)
    BY DEF OneProcess, RotationDue
  <2>2. /\ UNCHANGED files /\ UNCHANGED <<ckpt, fresher>>
        /\ disk' = disk /\ created' = created
        /\ memSt' = memSt /\ fh' = fh /\ holder' = holder /\ pending' = pending
    BY <1>4, <2>1 DEF Rotate, files
  <2>3. OneFile' /\ ChainOK' /\ CkptOK'
    BY <2>2, FilesQuiet
  <2>4. DescriptorOK' /\ CacheOK' /\ PendingOK'
    BY <2>2, MemoryQuiet
  <2>5. QED
    BY <2>3, <2>4 DEF OneWriterInv
<1>5. ASSUME NEW w \in Writers, WriteLine(w)
      PROVE  OneWriterInv'
  BY <1>5, WriteKeeps
<1>6. ASSUME NEW w \in Writers, Save(w)
      PROVE  OneWriterInv'
  BY <1>6, SaveKeeps
<1>7. ASSUME NEW w \in Writers, SaveFails(w)
      PROVE  OneWriterInv'
  BY <1>7, SaveFailsKeeps
<1>8. ASSUME NEW w \in Writers, Interrupted(w)
      PROVE  OneWriterInv'
  <2>1. torn' = torn /\ fresher' = fresher
    BY <1>8 DEF Interrupted, TornTail, OneProcess
  <2>2. Forget(w) /\ UNCHANGED files /\ UNCHANGED <<ckpt, fresher>> /\ Release
    BY <1>8, <2>1 DEF Interrupted, files
  <2>3. QED
    BY <2>2, ReleaseLeaves, ForgetKeeps
<1>9. ASSUME NEW w \in Writers, Close(w)
      PROVE  OneWriterInv'
  <2>1. Forget(w) /\ UNCHANGED files /\ UNCHANGED <<ckpt, fresher>>
        /\ holder # w /\ holder' = holder /\ pending' = pending
    BY <1>9 DEF Close, call
  <2>2. \A v \in Writers : v = w
    BY DEF OneProcess
  <2>3. PendingOK'
    BY <2>1, <2>2 DEF OneWriterInv, PendingOK
  <2>4. QED
    BY <2>1, <2>3, ForgetKeeps
<1>10. CASE LoseState
  <2>1. /\ UNCHANGED files /\ ckpt' = None
        /\ disk' = disk /\ created' = created
        /\ memSt' = memSt /\ fh' = fh /\ holder' = holder /\ pending' = pending
    BY <1>10 DEF LoseState, files, memory, call
  <2>2. OneFile' /\ ChainOK'
    BY <2>1, FilesQuiet
  <2>3. CkptOK'
    BY <2>1 DEF CkptOK
  <2>4. DescriptorOK' /\ CacheOK' /\ PendingOK'
    BY <2>1, MemoryQuiet
  <2>5. QED
    BY <2>2, <2>3, <2>4 DEF OneWriterInv
<1>11. CASE UNCHANGED vars
  <2>1. /\ UNCHANGED files /\ UNCHANGED <<ckpt, fresher>>
        /\ disk' = disk /\ created' = created
        /\ memSt' = memSt /\ fh' = fh /\ holder' = holder /\ pending' = pending
    BY <1>11 DEF vars, files, memory, call
  <2>2. OneFile' /\ ChainOK' /\ CkptOK'
    BY <2>1, FilesQuiet
  <2>3. DescriptorOK' /\ CacheOK' /\ PendingOK'
    BY <2>1, MemoryQuiet
  <2>4. QED
    BY <2>2, <2>3 DEF OneWriterInv
<1>12. QED
  BY <1>1, <1>2, <1>3, <1>4, <1>5, <1>6, <1>7, <1>8, <1>9, <1>10, <1>11
     DEF Next, IoFails, Crash

LEMMA OneWriterInit == Init => OneWriterInv
<1> SUFFICES ASSUME Init PROVE OneWriterInv
  OBVIOUS
<1>1. CallOK
  BY DEF Init, CallOK
<1>2. /\ \A f \in File : disk[f] = <<>> /\ Len(disk[f]) = 0
      /\ pending = <<>> /\ Len(pending) = 0 /\ ckpt = None
      /\ \A w \in Writers : memSt[w] = None /\ fh[w] = 0 /\ holder # w
  BY DEF Init
<1>3. OneFile
  BY <1>2 DEF Init, OneFile
<1>4. ChainOK /\ CkptOK /\ DescriptorOK /\ CacheOK /\ PendingOK
  BY <1>2 DEF ChainOK, CkptOK, DescriptorOK, CacheOK, PendingOK
<1>5. QED
  BY <1>1, <1>3, <1>4 DEF OneWriterInv

\* A directory with a single writer and no rotation keeps one unbroken chain,
\* numbered from 1 without gap or repetition, through any number of crashes,
\* I/O errors, failed saves and losses of audit.state.
THEOREM ChainSurvives ==
    ASSUME OneProcess
    PROVE  Spec => []ChainOK
<1>1. NothingDropped
  BY DEF OneProcess, NothingDropped
<1>2. TypeOK /\ DurableInv /\ [Next]_vars => DurableInv'
  BY <1>1, DurableStep
<1>3. /\ TypeOK /\ OneWriterInv /\ DurableInv /\ TypeOK' /\ CallOK' /\ [Next]_vars
      => OneWriterInv'
  BY OneWriterStep
<1>4. OneWriterInv => ChainOK
  BY DEF OneWriterInv
<1>5. QED
  BY <1>2, <1>3, <1>4, TypeCorrect, DurableInit, OneWriterInit, PTL DEF Spec

-----------------------------------------------------------------------------
(* The log, where only one file has lines.                                 *)

LogOf(f) == [i \in 1..Len(disk[f]) |-> disk[f][i].hash]

LEMMA SmallestNumber ==
    ASSUME NEW S \in SUBSET Nat, S # {}
    PROVE  \E m \in S : \A k \in S : m <= k
<1> DEFINE Less == {pair \in Nat \X Nat : pair[1] < pair[2]}
<1>1. IsWellFoundedOn(Less, Nat)
  BY NatLessThanWellFounded DEF OpToRel
<1>2. PICK m \in S : \A k \in S : ~(<<k, m>> \in Less)
  <2> HIDE DEF Less
  <2>1. QED
    BY <1>1, WFMin
<1>3. ASSUME NEW k \in S, k < m PROVE FALSE
  <2>1. <<k, m>> \in Nat \X Nat
    OBVIOUS
  <2>2. <<k, m>> \in Less
    BY <1>3, <2>1
  <2>3. QED
    BY <1>2, <2>2
<1>4. QED
  BY <1>3

\* Sequences that are empty but for one are that one, put together.
LEMMA FlattenOne ==
    ASSUME NEW S, NEW n \in Nat \ {0}, NEW seqs \in [1..n -> Seq(S)],
           NEW f \in 1..n, \A g \in 1..n : g # f => seqs[g] = <<>>
    PROVE  FlattenSeq(seqs) = seqs[f]
<1> DEFINE Shape(F) == F = [i \in 1..n |-> IF i = 1 THEN seqs[i] ELSE F[i - 1] \o seqs[i]]
           one == [i \in 1..n |-> IF i < f THEN <<>> ELSE seqs[f]]
           flat == CHOOSE F : Shape(F)
<1>1. Len(seqs) = n
  OBVIOUS
<1>2. seqs[f] \o <<>> = seqs[f] /\ <<>> \o seqs[f] = seqs[f] /\ <<>> \o <<>> = <<>>
  BY ConcatEmptySeq, EmptySeq
<1>3. Shape(one)
  <2> DEFINE rec == [i \in 1..n |-> IF i = 1 THEN seqs[i] ELSE one[i - 1] \o seqs[i]]
  <2>1. /\ one = [i \in 1..n |-> one[i]]
        /\ \A i \in 1..n : one[i] = IF i < f THEN <<>> ELSE seqs[f]
    OBVIOUS
  <2> HIDE DEF one
  <2>2. \A i \in 1..n : rec[i] = IF i = 1 THEN seqs[i] ELSE one[i - 1] \o seqs[i]
    OBVIOUS
  <2>3. rec = [i \in 1..n |-> rec[i]]
    OBVIOUS
  <2> HIDE DEF rec
  <2>4. ASSUME NEW i \in 1..n PROVE one[i] = rec[i]
    <3>1. CASE i = 1
      <4>1. rec[i] = seqs[i]
        BY <2>2, <3>1, Zenon
      <4>2. one[i] = seqs[i]
        BY <2>1, <3>1
      <4>3. QED
        BY <4>1, <4>2
    <3>2. CASE i > 1
      <4>1. i - 1 \in 1..n
        BY <3>2
      <4>2. rec[i] = one[i - 1] \o seqs[i]
        <5>1. i # 1
          BY <3>2
        <5>2. QED
          BY <2>2, <5>1, Zenon
      <4>3. CASE i < f
        <5>1. one[i - 1] = <<>> /\ seqs[i] = <<>> /\ one[i] = <<>>
          BY <2>1, <3>2, <4>1, <4>3
        <5>2. QED
          BY <1>2, <4>2, <5>1
      <4>4. CASE i = f
        <5>1. one[i - 1] = <<>> /\ one[i] = seqs[f]
          BY <2>1, <3>2, <4>1, <4>4
        <5>2. QED
          BY <1>2, <4>2, <4>4, <5>1
      <4>5. CASE i > f
        <5>1. one[i - 1] = seqs[f] /\ seqs[i] = <<>> /\ one[i] = seqs[f]
          BY <2>1, <3>2, <4>1, <4>5
        <5>2. QED
          BY <1>2, <4>2, <5>1
      <4>6. QED
        BY <4>3, <4>4, <4>5
    <3>3. QED
      BY <3>1, <3>2
  <2>5. one = rec
    BY <2>1, <2>3, <2>4
  <2>6. QED
    BY <2>5 DEF rec
<1>4. Shape(flat)
  <2> HIDE DEF one, Shape
  <2>1. QED
    BY <1>3
<1> HIDE DEF flat
<1>5. \A i \in 1..n : flat[i] = IF i = 1 THEN seqs[i] ELSE flat[i - 1] \o seqs[i]
  <2>1. flat = [i \in 1..n |-> IF i = 1 THEN seqs[i] ELSE flat[i - 1] \o seqs[i]]
    BY <1>4
  <2>2. QED
    BY <2>1
<1>6. \A i \in 1..n : one[i] = IF i = 1 THEN seqs[i] ELSE one[i - 1] \o seqs[i]
  BY <1>3
<1>7. ASSUME NEW k \in 1..n, flat[k] # one[k] PROVE FALSE
  <2> DEFINE Wrong == {i \in 1..n : flat[i] # one[i]}
  <2>1. PICK m \in Wrong : \A i \in Wrong : m <= i
    <3>1. k \in Wrong
      BY <1>7
    <3>2. Wrong \in SUBSET (1..n) /\ (1..n) \in SUBSET Nat
      OBVIOUS
    <3> HIDE DEF Wrong
    <3>3. Wrong \in SUBSET Nat /\ Wrong # {}
      BY <3>1, <3>2
    <3>4. QED
      BY <3>3, SmallestNumber
  <2>2. m \in 1..n /\ flat[m] # one[m]
    BY <2>1
  <2> HIDE DEF one
  <2>3. m # 1
    BY <1>5, <1>6, <2>2
  <2>4. m - 1 \in 1..n /\ m - 1 \notin Wrong
    BY <2>1, <2>2, <2>3
  <2>5. flat[m - 1] = one[m - 1]
    BY <2>4
  <2>6. QED
    BY <1>5, <1>6, <2>2, <2>3, <2>5
<1>8. FlattenSeq(seqs) = flat[n]
  BY <1>1 DEF FlattenSeq, flat
<1>9. QED
  BY <1>7, <1>8

USE WriterAssumption DEF File

LEMMA OneLog ==
    ASSUME TypeOK, NEW f \in File, \A g \in File : g # f => disk[g] = <<>>
    PROVE  /\ Log = LogOf(f)
           /\ Log \in Seq(Nat)
           /\ Len(Log) = Len(disk[f]) /\ Len(Log) \in Nat
           /\ \A i \in 1..Len(Log) : Log[i] = disk[f][i].hash
<1>1. disk \in [1..MaxFiles -> Seq(Line)]
  BY DEF TypeOK
<1>2. MaxFiles \in Nat \ {0} /\ f \in 1..MaxFiles
  OBVIOUS
<1>3. FlattenSeq(disk) = disk[f]
  BY <1>1, <1>2, FlattenOne, SMTT(30)
<1>4. Log = LogOf(f)
  BY <1>3 DEF Log, LogOf
<1>5. disk[f] \in Seq(Line) /\ Len(disk[f]) \in Nat
  BY <1>1, <1>2
<1>6. \A i \in 1..Len(disk[f]) : disk[f][i].hash \in Nat
  <2>1. \A i \in 1..Len(disk[f]) : disk[f][i] \in Line
    BY <1>5, ElementOfSeq
  <2>2. QED
    BY <2>1 DEF Line
<1>7. QED
  BY <1>4, <1>5, <1>6 DEF LogOf

LEMMA SameLog == disk' = disk => Log' = Log
BY DEF Log

\* Some file holds all the lines.
LEMMA OneHolds ==
    ASSUME TypeOK, OneFile
    PROVE  \E f \in File : \A g \in File : g # f => disk[g] = <<>>
<1>1. CASE \A f \in File : disk[f] = <<>>
  <2>1. 1 \in File
    OBVIOUS
  <2>2. QED
    BY <1>1, <2>1
<1>2. CASE \E f \in File : disk[f] # <<>>
  <2>1. PICK f \in File : disk[f] # <<>>
    BY <1>2
  <2>2. f \in created /\ \A g \in created : g <= f
    BY <2>1 DEF OneFile
  <2>3. QED
    BY <2>2, OneFileOnly
<1>3. QED
  BY <1>1, <1>2

\* The events of the log are the hashes of its lines.
LEMMA LogIsLines ==
    ASSUME TypeOK, OneFile
    PROVE  /\ Len(Log) \in Nat
           /\ Log \in Seq(Nat)
           /\ \A i \in 1..Len(Log) : \E line \in Lines : line.hash = Log[i]
<1>1. PICK f \in File : \A g \in File : g # f => disk[g] = <<>>
  BY OneHolds
<1>2. /\ Len(Log) = Len(disk[f]) /\ Len(Log) \in Nat /\ Log \in Seq(Nat)
      /\ \A i \in 1..Len(Log) : Log[i] = disk[f][i].hash
  BY <1>1, OneLog
<1>3. \A i \in 1..Len(disk[f]) : disk[f][i] \in Lines
  BY LinesLemma
<1>4. QED
  BY <1>2, <1>3

\* A line that is written is one more event of the log.
LEMMA WriteExtends ==
    ASSUME TypeOK, TypeOK', OneWriterInv, NEW w \in Writers, WriteLine(w)
    PROVE  /\ Len(Log) \in Nat
           /\ Log' = Append(Log, pending[1].hash)
           /\ Len(Log') = Len(Log) + 1
           /\ \A i \in 1..Len(Log) : Log'[i] = Log[i]
           /\ Log'[Len(Log) + 1] = pending[1].hash
<1>1. PICK f \in File : f = fh[w]
  BY DEF WriteLine, OneWriterInv, CallOK, TypeOK
<1>2. \A g \in File : g # f => disk[g] = <<>>
  BY <1>1, WriteFile
<1>3. torn = {} /\ CallOK
  BY DEF OneWriterInv, OneFile
<1>4. /\ pending[1] \in Line
      /\ disk'[f] = Append(disk[f], pending[1])
      /\ \A g \in File : g # f => disk'[g] = disk[g]
  BY <1>1, <1>3, WriteShape
<1>5. /\ Log \in Seq(Nat)
      /\ Len(Log) = Len(disk[f]) /\ Len(Log) \in Nat
      /\ \A i \in 1..Len(Log) : Log[i] = disk[f][i].hash
  BY <1>2, OneLog
<1>6. disk' \in [1..MaxFiles -> Seq(Line)] /\ MaxFiles \in Nat \ {0} /\ f \in 1..MaxFiles
  BY DEF TypeOK
<1>7. FlattenSeq(disk') = disk'[f]
  <2>1. \A g \in 1..MaxFiles : g # f => disk'[g] = <<>>
    BY <1>2, <1>4
  <2>2. QED
    BY <1>6, <2>1, FlattenOne, SMTT(30)
<1>8. Log' = [i \in 1..Len(disk'[f]) |-> disk'[f][i].hash]
  BY <1>7 DEF Log
<1>9. disk[f] \in Seq(Line)
  BY DEF TypeOK
<1>10. /\ Len(disk'[f]) = Len(disk[f]) + 1
       /\ \A i \in 1..Len(disk[f]) : disk'[f][i] = disk[f][i]
       /\ disk'[f][Len(disk[f]) + 1] = pending[1]
  BY <1>4, <1>9
<1>11. /\ Len(Log') = Len(Log) + 1
       /\ \A i \in 1..Len(Log) : Log'[i] = Log[i]
       /\ Log'[Len(Log) + 1] = pending[1].hash
  <2>1. PICK n \in Nat : n = Len(Log)
    BY <1>5
  <2>2. Log' = [i \in 1..(n + 1) |-> disk'[f][i].hash]
    BY <1>5, <1>8, <1>10, <2>1
  <2>3. Len(Log') = n + 1 /\ \A i \in 1..(n + 1) : Log'[i] = disk'[f][i].hash
    BY <2>2
  <2>4. \A i \in 1..n : disk'[f][i].hash = Log[i]
    BY <1>5, <1>10, <2>1
  <2>5. disk'[f][n + 1].hash = pending[1].hash
    BY <1>5, <1>10, <2>1
  <2>6. QED
    BY <2>1, <2>3, <2>4, <2>5
<1>12. pending[1].hash \in Nat
  BY <1>4 DEF Line
<1>13. Log' = Append(Log, pending[1].hash)
  <2>1. PICK n \in Nat : n = Len(Log)
    BY <1>5
  <2>2. Log' = [i \in 1..(n + 1) |-> disk'[f][i].hash]
    BY <1>5, <1>8, <1>10, <2>1
  <2>3. Log' \in Seq(Nat)
    <3>1. \A i \in 1..(n + 1) : disk'[f][i].hash \in Nat
      <4>1. disk'[f] \in Seq(Line) /\ Len(disk'[f]) = n + 1
        BY <1>5, <1>6, <1>10, <2>1
      <4>2. \A i \in 1..(n + 1) : disk'[f][i] \in Line
        BY <4>1, ElementOfSeq
      <4>3. QED
        BY <4>2 DEF Line
    <3>2. QED
      BY <2>2, <3>1
  <2>4. PICK app : app = Append(Log, pending[1].hash)
    OBVIOUS
  <2>5. /\ app \in Seq(Nat) /\ Len(app) = n + 1
        /\ \A i \in 1..n : app[i] = Log[i]
        /\ app[n + 1] = pending[1].hash
    BY <1>5, <1>12, <2>1, <2>4
  <2>6. ASSUME NEW i \in 1..(n + 1) PROVE Log'[i] = app[i]
    <3>1. CASE i \in 1..n
      BY <1>11, <2>1, <2>5, <3>1
    <3>2. CASE i = n + 1
      BY <1>11, <2>1, <2>5, <3>2
    <3>3. QED
      BY <3>1, <3>2
  <2>7. Len(Log') = n + 1
    BY <1>11, <2>1
  <2>8. Log' = app
    BY <2>3, <2>5, <2>6, <2>7, SeqEqual
  <2>9. QED
    BY <2>4, <2>8
<1>14. QED
  BY <1>5, <1>11, <1>13

-----------------------------------------------------------------------------
(* The hashes of a call, in the log and still to be written.               *)

LEMMA PendingLength ==
    ASSUME TypeOK
    PROVE  /\ Len(pending) \in Nat /\ signed \in Nat
           /\ \A line \in Lines : line.hash \in Nat
<1>1. ASSUME NEW line \in Lines PROVE line.hash \in Nat
  <2>1. PICK f \in File : \E i \in 1..Len(disk[f]) : line = disk[f][i]
    BY LinesLemma
  <2>2. disk[f] \in Seq(Line)
    BY DEF TypeOK
  <2>3. line \in Line
    BY <2>1, <2>2, ElementOfSeq
  <2>4. QED
    BY <2>3 DEF Line
<1>2. QED
  BY <1>1 DEF TypeOK

LEMMA QuietKeepsLog ==
    ASSUME LogInv, UNCHANGED <<disk, signed, pending, batch, holder>>
    PROVE  LogInv'
<1>1. Log' = Log /\ Lines' = Lines
  BY SameLog, SameLines
<1>2. QED
  BY <1>1 DEF LogInv, HashesOK, BatchTail

LEMMA ReleaseKeepsLog ==
    ASSUME TypeOK, LogInv, UNCHANGED <<disk, signed>>, Release
    PROVE  LogInv'
<1>1. Lines' = Lines
  BY SameLines
<1>2. holder' = None /\ pending' = <<>> /\ Len(pending') = 0
  BY DEF Release
<1>3. HashesOK'
  BY <1>1, <1>2, PendingLength DEF LogInv, HashesOK
<1>4. BatchTail'
  BY <1>2 DEF BatchTail
<1>5. QED
  BY <1>3, <1>4 DEF LogInv

LEMMA BeginKeepsLog ==
    ASSUME TypeOK, OneWriterInv, LogInv, NEW w \in Writers, NEW n \in 1..MaxBatch, Begin(w, n)
    PROVE  LogInv'
<1> DEFINE st == Ensured(w)
<1>1. /\ holder = None /\ disk' = disk /\ signed' = signed + n /\ signed + n <= MaxSigned
      /\ batch' = (signed + 1)..(signed + n) /\ holder' = w
      /\ pending' = Sign(st, n)
  BY DEF Begin, files
<1>2. pending = <<>> /\ Len(pending) = 0
  BY <1>1 DEF OneWriterInv, CallOK
<1>3. st \in Checkpoint /\ n \in Nat \ {0} /\ signed \in Nat
  BY SignArguments
<1> HIDE DEF st
<1>4. /\ Len(pending') = n
      /\ \A i \in 1..n : pending'[i].hash = signed + i
  <2>1. PICK p : p = Sign(st, n)
    OBVIOUS
  <2>2. /\ Len(p) = n
        /\ \A i \in 1..n : p[i] = [seq  |-> st.seq + i,
                                   prev |-> IF i = 1 THEN st.prev ELSE signed + i - 1,
                                   hash |-> signed + i]
    BY <1>3, <2>1, SignLemma
  <2>3. \A i \in 1..n : p[i].hash = signed + i
    BY <2>2
  <2>4. QED
    BY <1>1, <2>1, <2>2, <2>3
<1>5. Lines' = Lines /\ Log' = Log
  BY <1>1, SameLines, SameLog
<1>6. HashesOK'
  <2>1. \A line \in Lines : line.hash <= signed
    BY <1>2, PendingLength DEF LogInv, HashesOK
  <2>2. signed' - Len(pending') = signed
    BY <1>1, <1>3, <1>4
  <2>3. QED
    BY <1>1, <1>4, <1>5, <2>1, <2>2 DEF HashesOK
<1>7. BatchTail'
  <2>1. Len(Log) \in Nat
    BY LogIsLines DEF OneWriterInv
  <2>2. signed + 1 \in 1..signed'
    BY <1>1, <1>3
  <2>3. signed' - Len(pending') - (signed + 1) + 1 = 0
    BY <1>1, <1>3, <1>4
  <2>4. batch' = (signed + 1)..signed'
    BY <1>1
  <2>5. QED
    BY <1>5, <2>1, <2>2, <2>3, <2>4 DEF BatchTail
<1>8. QED
  BY <1>6, <1>7 DEF LogInv

LEMMA WriteKeepsLog ==
    ASSUME TypeOK, TypeOK', OneWriterInv, LogInv, NEW w \in Writers, WriteLine(w)
    PROVE  LogInv'
<1>1. /\ holder = w /\ holder' = w /\ signed' = signed /\ batch' = batch
      /\ pending' = Tail(pending)
  BY DEF WriteLine
<1>2. torn = {} /\ CallOK /\ w # None
  BY DEF OneWriterInv, OneFile
<1>3. PICK m \in Nat : m = Len(pending)
  BY PendingLength
<1>4. /\ pending \in Seq(Line) /\ pending # <<>> /\ m >= 1
      /\ Len(pending') = m - 1
      /\ \A i \in 1..(m - 1) : pending'[i] = pending[i + 1]
  <2>1. pending \in Seq(Line) /\ pending # <<>>
    BY <1>2, WriteShape
  <2>2. QED
    BY <1>1, <1>3, <2>1, HeadTailProperties, EmptySeq
<1>5. signed \in Nat /\ pending[1].hash = signed - m + 1
  BY <1>3, <1>4, PendingLength DEF LogInv, HashesOK
<1>6. ASSUME NEW line \in Lines' PROVE line \in Lines \/ line = pending[1]
  <2>0. PICK g \in File : \E k \in 1..Len(disk'[g]) : line = disk'[g][k]
    BY <1>6 DEF Lines
  <2>1. PICK i \in 1..Len(disk'[g]) : line = disk'[g][i]
    BY <2>0
  <2>2. /\ disk'[fh[w]] = Append(disk[fh[w]], pending[1])
        /\ \A h \in File : h # fh[w] => disk'[h] = disk[h]
        /\ fh[w] \in File
    BY <1>2, WriteShape
  <2>3. CASE g # fh[w]
    BY <2>1, <2>2, <2>3, LinesLemma
  <2>4. CASE g = fh[w]
    <3>1. disk[g] \in Seq(Line)
      BY DEF TypeOK
    <3>2. PICK n \in Nat : n = Len(disk[g])
      BY <3>1
    <3>3. PICK app : app = Append(disk[g], pending[1])
      OBVIOUS
    <3>4. Len(app) = n + 1 /\ (\A k \in 1..n : app[k] = disk[g][k]) /\ app[n + 1] = pending[1]
      BY <3>1, <3>2, <3>3
    <3>5. disk'[g] = app
      BY <2>2, <2>4, <3>3
    <3>6. i \in 1..(n + 1) /\ line = app[i]
      BY <2>1, <3>4, <3>5
    <3>7. CASE i \in 1..n
      BY <3>2, <3>4, <3>6, <3>7, LinesLemma
    <3>8. CASE i = n + 1
      BY <3>4, <3>6, <3>8
    <3>9. QED
      BY <3>6, <3>7, <3>8
  <2>5. QED
    BY <2>3, <2>4
<1>7. HashesOK'
  <2>1. signed' - Len(pending') = signed - m + 1
    BY <1>1, <1>3, <1>4, <1>5
  <2>2. \A line \in Lines' : line.hash <= signed - m + 1
    <3>1. ASSUME NEW line \in Lines PROVE line.hash <= signed - m + 1
      BY <1>3, <1>5, PendingLength DEF LogInv, HashesOK
    <3>2. QED
      BY <1>5, <1>6, <3>1
  <2>3. ASSUME NEW i \in 1..(m - 1) PROVE pending'[i].hash = signed - m + 1 + i
    <3>1. i + 1 \in 1..m /\ pending'[i] = pending[i + 1]
      BY <1>4
    <3>2. pending[i + 1].hash = signed - m + (i + 1)
      BY <1>3, <3>1 DEF LogInv, HashesOK
    <3>3. QED
      BY <1>3, <1>5, <3>1, <3>2
  <2>4. signed' <= MaxSigned
    BY <1>1 DEF LogInv, HashesOK
  <2>5. QED
    BY <1>4, <2>1, <2>2, <2>3, <2>4 DEF HashesOK
<1>8. BatchTail'
  <2>1. PICK first \in 1..signed :
            /\ batch = first..signed
            /\ signed - m - first + 1 \in 0..Len(Log)
            /\ \A j \in 1..(signed - m - first + 1) :
                  Log[Len(Log) - (signed - m - first + 1) + j] = first + j - 1
    BY <1>1, <1>2, <1>3 DEF LogInv, BatchTail
  <2>2. PICK n \in Nat : n = Len(Log)
    BY WriteExtends
  <2>3. PICK k \in 0..n : k = signed - m - first + 1
    BY <2>1, <2>2
  <2>4. /\ Len(Log') = n + 1
        /\ \A i \in 1..n : Log'[i] = Log[i]
        /\ Log'[n + 1] = pending[1].hash
    BY <2>2, WriteExtends
  <2>5. signed' - Len(pending') - first + 1 = k + 1
    BY <1>1, <1>3, <1>4, <1>5, <2>3
  <2>6. ASSUME NEW j \in 1..(k + 1) PROVE Log'[(n + 1) - (k + 1) + j] = first + j - 1
    <3>1. CASE j \in 1..k
      <4>1. n - k + j \in 1..n /\ (n + 1) - (k + 1) + j = n - k + j
        BY <3>1
      <4>2. Log[n - k + j] = first + j - 1
        BY <2>1, <2>2, <2>3, <3>1
      <4>3. QED
        BY <2>4, <4>1, <4>2
    <3>2. CASE j = k + 1
      <4>1. (n + 1) - (k + 1) + j = n + 1
        BY <3>2
      <4>2. pending[1].hash = first + j - 1
        BY <1>3, <1>5, <2>3, <3>2
      <4>3. QED
        BY <2>4, <4>1, <4>2
    <3>3. QED
      BY <3>1, <3>2
  <2>7. first \in 1..signed' /\ batch' = first..signed' /\ k + 1 \in 0..Len(Log')
    BY <1>1, <2>1, <2>2, <2>3, <2>4
  <2>8. QED
    BY <2>4, <2>5, <2>6, <2>7 DEF BatchTail
<1>9. QED
  BY <1>7, <1>8 DEF LogInv

LEMMA LogStep ==
    ASSUME OneProcess, TypeOK, TypeOK', OneWriterInv, LogInv, [Next]_vars
    PROVE  LogInv'
<1>1. ASSUME NEW w \in Writers, NEW n \in 1..MaxBatch, Begin(w, n) PROVE LogInv'
  BY <1>1, BeginKeepsLog
<1>2. ASSUME NEW w \in Writers, Reject(w) PROVE LogInv'
  BY <1>2, QuietKeepsLog DEF Reject, files, call
<1>3. ASSUME NEW w \in Writers, OpenLog(w) PROVE LogInv'
  BY <1>3, QuietKeepsLog DEF OpenLog, files
<1>4. ASSUME NEW w \in Writers, Rotate(w) PROVE LogInv'
  <2>1. ~RotationDue(w)
    BY DEF OneProcess, RotationDue
  <2>2. QED
    BY <1>4, <2>1, QuietKeepsLog DEF Rotate
<1>5. ASSUME NEW w \in Writers, WriteLine(w) PROVE LogInv'
  BY <1>5, WriteKeepsLog
<1>6. ASSUME NEW w \in Writers, Save(w) PROVE LogInv'
  BY <1>6, ReleaseKeepsLog DEF Save, files
<1>7. ASSUME NEW w \in Writers, SaveFails(w) PROVE LogInv'
  BY <1>7, ReleaseKeepsLog DEF SaveFails, files
<1>8. ASSUME NEW w \in Writers, Interrupted(w) PROVE LogInv'
  BY <1>8, ReleaseKeepsLog DEF Interrupted
<1>9. ASSUME NEW w \in Writers, Close(w) PROVE LogInv'
  BY <1>9, QuietKeepsLog DEF Close, files, call
<1>10. CASE LoseState
  BY <1>10, QuietKeepsLog DEF LoseState, files, call
<1>11. CASE UNCHANGED vars
  BY <1>11, QuietKeepsLog DEF vars, files, call
<1>12. QED
  BY <1>1, <1>2, <1>3, <1>4, <1>5, <1>6, <1>7, <1>8, <1>9, <1>10, <1>11
     DEF Next, IoFails, Crash

LEMMA LogInit == Init => LogInv
<1> SUFFICES ASSUME Init PROVE LogInv
  OBVIOUS
<1>1. /\ \A f \in File : Len(disk[f]) = 0
      /\ pending = <<>> /\ Len(pending) = 0 /\ signed = 0 /\ holder = None
  BY DEF Init
<1>2. Lines = {}
  BY <1>1 DEF Lines
<1>3. QED
  BY <1>1, <1>2 DEF LogInv, HashesOK, BatchTail

-----------------------------------------------------------------------------
(* Steps of the writer as steps of the log.                                *)

LEMMA WriteIsExtend ==
    ASSUME TypeOK, TypeOK', OneWriterInv, LogInv, NEW w \in Writers, WriteLine(w)
    PROVE  Abstract!Extend
<1> DEFINE e == pending[1].hash
<1>1. Log' = Append(Log, e)
  BY WriteExtends
<1>2. acked' = acked
  BY DEF WriteLine
<1>3. PICK m \in Nat : m = Len(pending)
  BY PendingLength
<1>4. m >= 1
  BY <1>3, EmptySeq DEF WriteLine, OneWriterInv, CallOK, TypeOK
<1>5. signed \in Nat /\ e = signed - m + 1 /\ signed <= MaxSigned
  BY <1>3, <1>4, PendingLength DEF LogInv, HashesOK
<1>6. e > 0
  BY <1>3, <1>4 DEF OneWriterInv, PendingOK
<1>7. e \in 1..MaxSigned
  BY <1>4, <1>5, <1>6
<1>8. ASSUME NEW i \in 1..Len(Log) PROVE Log[i] # e
  <2>1. PICK line \in Lines : line.hash = Log[i]
    BY LogIsLines DEF OneWriterInv
  <2>2. line.hash \in Nat /\ line.hash <= signed - m
    BY <1>3, PendingLength DEF LogInv, HashesOK
  <2>3. QED
    BY <1>5, <2>1, <2>2
<1>9. e \in 1..MaxSigned \ Abstract!InLog
  BY <1>7, <1>8 DEF Abstract!InLog
<1> HIDE DEF e
<1>10. QED
  BY <1>1, <1>2, <1>9 DEF Abstract!Extend

LEMMA SaveIsAcknowledge ==
    ASSUME TypeOK, OneWriterInv, LogInv, NEW w \in Writers, Save(w)
    PROVE  Abstract!Acknowledge
<1>1. /\ holder = w /\ pc = "save" /\ w # None
      /\ disk' = disk /\ acked' = acked \cup batch
  BY DEF Save, files
<1>2. pending = <<>> /\ Len(pending) = 0 /\ signed \in Nat
  BY <1>1, PendingLength DEF OneWriterInv, CallOK
<1>3. PICK first \in 1..signed :
          /\ batch = first..signed
          /\ signed - first + 1 \in 0..Len(Log)
          /\ \A j \in 1..(signed - first + 1) :
                Log[Len(Log) - (signed - first + 1) + j] = first + j - 1
  <2>1. PICK first \in 1..signed :
          /\ batch = first..signed
          /\ signed - Len(pending) - first + 1 \in 0..Len(Log)
          /\ \A j \in 1..(signed - Len(pending) - first + 1) :
                Log[Len(Log) - (signed - Len(pending) - first + 1) + j] = first + j - 1
    BY <1>1 DEF LogInv, BatchTail
  <2>2. signed - Len(pending) - first + 1 = signed - first + 1
    BY <1>2
  <2>3. QED
    BY <2>1, <2>2
<1>4. PICK n \in Nat : n = Len(Log)
  BY LogIsLines DEF OneWriterInv
<1>5. PICK k \in 1..n : k = signed - first + 1
  BY <1>2, <1>3, <1>4
<1>6. \A j \in 1..k : Log[n - k + j] = first + j - 1
  BY <1>3, <1>4, <1>5
<1>7. n - k + 1 \in 1..n
  BY <1>5
<1>8. batch = {Log[i] : i \in (n - k + 1)..n}
  <2>1. ASSUME NEW x \in batch PROVE \E i \in (n - k + 1)..n : x = Log[i]
    <3>1. x \in first..signed
      BY <1>3
    <3>2. x - first + 1 \in 1..k /\ n - k + (x - first + 1) \in (n - k + 1)..n
      BY <1>2, <1>4, <1>5, <3>1
    <3>3. Log[n - k + (x - first + 1)] = first + (x - first + 1) - 1
      BY <1>6, <3>2
    <3>4. QED
      BY <1>2, <3>1, <3>2, <3>3
  <2>2. ASSUME NEW i \in (n - k + 1)..n PROVE Log[i] \in batch
    <3>1. i - (n - k) \in 1..k /\ n - k + (i - (n - k)) = i
      <4>1. k \in Nat /\ 1 <= k /\ k <= n
        OBVIOUS
      <4>2. i \in Int /\ n - k + 1 <= i /\ i <= n
        BY <4>1
      <4>3. n - k + (i - (n - k)) = i
        BY <4>1, <4>2
      <4>4. i - (n - k) \in Int /\ 1 <= i - (n - k) /\ i - (n - k) <= k
        BY <4>1, <4>2
      <4>5. QED
        BY <4>1, <4>3, <4>4
    <3>2. Log[n - k + (i - (n - k))] = first + (i - (n - k)) - 1
      BY <1>6, <3>1
    <3>3. first + (i - (n - k)) - 1 \in first..signed
      BY <1>2, <1>5, <3>1
    <3>4. QED
      BY <1>3, <3>1, <3>2, <3>3
  <2>3. QED
    BY <2>1, <2>2
<1>9. acked' = acked \cup {Log[i] : i \in (n - k + 1)..Len(Log)} /\ Log' = Log
  BY <1>1, <1>4, <1>8, SameLog
<1>10. n - k + 1 \in 1..Len(Log)
  BY <1>4, <1>7
<1>11. QED
  BY <1>9, <1>10 DEF Abstract!Acknowledge

LEMMA StepIsAbstract ==
    ASSUME OneProcess, TypeOK, TypeOK', OneWriterInv, LogInv, [Next]_vars
    PROVE  [Abstract!Next]_<<Log, acked>>
<1>1. ASSUME NEW w \in Writers, NEW n \in 1..MaxBatch, Begin(w, n)
      PROVE  UNCHANGED <<Log, acked>>
  BY <1>1, SameLog DEF Begin, files
<1>2. ASSUME NEW w \in Writers, Reject(w) PROVE UNCHANGED <<Log, acked>>
  BY <1>2, SameLog DEF Reject, files
<1>3. ASSUME NEW w \in Writers, OpenLog(w) PROVE UNCHANGED <<Log, acked>>
  <2>1. disk' = disk /\ acked' = acked
    BY <1>3 DEF OpenLog, files
  <2>2. QED
    BY <2>1, SameLog
<1>4. ASSUME NEW w \in Writers, Rotate(w) PROVE UNCHANGED <<Log, acked>>
  <2>1. disk' = disk /\ acked' = acked
    BY <1>4 DEF Rotate, RotationDue, OneProcess
  <2>2. QED
    BY <2>1, SameLog
<1>5. ASSUME NEW w \in Writers, WriteLine(w) PROVE Abstract!Next
  BY <1>5, WriteIsExtend DEF Abstract!Next
<1>6. ASSUME NEW w \in Writers, Save(w) PROVE Abstract!Next
  BY <1>6, SaveIsAcknowledge DEF Abstract!Next
<1>7. ASSUME NEW w \in Writers, SaveFails(w) PROVE UNCHANGED <<Log, acked>>
  BY <1>7, SameLog DEF SaveFails, files
<1>8. ASSUME NEW w \in Writers, Interrupted(w) PROVE UNCHANGED <<Log, acked>>
  BY <1>8, SameLog DEF Interrupted
<1>9. ASSUME NEW w \in Writers, Close(w) PROVE UNCHANGED <<Log, acked>>
  BY <1>9, SameLog DEF Close, files
<1>10. CASE LoseState
  BY <1>10, SameLog DEF LoseState, files
<1>11. CASE UNCHANGED vars
  BY <1>11, SameLog DEF vars, files
<1>12. QED
  BY <1>1, <1>2, <1>3, <1>4, <1>5, <1>6, <1>7, <1>8, <1>9, <1>10, <1>11
     DEF Next, IoFails, Crash

LEMMA InitIsAbstract == Init => Abstract!Init
<1> SUFFICES ASSUME Init PROVE Abstract!Init
  OBVIOUS
<1>1. TypeOK /\ OneFile
  BY TypeInit, OneWriterInit DEF OneWriterInv
<1>2. PICK f \in File : \A g \in File : g # f => disk[g] = <<>>
  BY <1>1, OneHolds
<1>3. Log \in Seq(Nat) /\ Len(Log) = Len(disk[f])
  BY <1>1, <1>2, OneLog
<1>4. Len(disk[f]) = 0
  BY DEF Init
<1>5. Log = <<>>
  BY <1>3, <1>4, EmptySeq
<1>6. QED
  BY <1>5 DEF Init, Abstract!Init

\* The files of a single writer, through every crash, I/O error, failed save
\* and loss of audit.state, are the append-only log of AuditLog: an event
\* enters it once and at its end, and append_many returns when its batch is
\* the tail (append_many, _heal_state_from_log_locked).
THEOREM WriterImplementsLog ==
    ASSUME OneProcess
    PROVE  Spec => ImplementsAuditLog
<1>1. NothingDropped
  BY DEF OneProcess, NothingDropped
<1>2. TypeOK /\ DurableInv /\ [Next]_vars => DurableInv'
  BY <1>1, DurableStep
<1>3. /\ TypeOK /\ OneWriterInv /\ DurableInv /\ TypeOK' /\ CallOK' /\ [Next]_vars
      => OneWriterInv'
  BY OneWriterStep
<1>4. TypeOK /\ TypeOK' /\ OneWriterInv /\ LogInv /\ [Next]_vars => LogInv'
  BY LogStep
<1>5. TypeOK /\ TypeOK' /\ OneWriterInv /\ LogInv /\ [Next]_vars
      => [Abstract!Next]_<<Log, acked>>
  BY StepIsAbstract
<1>6. QED
  BY <1>2, <1>3, <1>4, <1>5, TypeCorrect, DurableInit, OneWriterInit, LogInit,
     InitIsAbstract, PTL DEF Spec, ImplementsAuditLog, Abstract!Spec

-----------------------------------------------------------------------------
(* A cache that is kept is where the log ends.                             *)

\* The sequence numbers of a chained file grow by one from line to line, so
\* the last line has the greatest.
LEMMA LastIsGreatest ==
    ASSUME TypeOK, ChainOK, NEW f \in File, NEW i \in 1..Len(disk[f])
    PROVE  disk[f][i].seq <= LastLine(f).seq
<1>1. PICK n \in Nat : n = Len(disk[f])
  BY DEF TypeOK
<1>2. \A j \in 1..n : disk[f][j].seq \in Nat
  <2>1. disk[f] \in Seq(Line)
    BY DEF TypeOK
  <2>2. \A j \in 1..n : disk[f][j] \in Line
    BY <1>1, <2>1, ElementOfSeq
  <2>3. QED
    BY <2>2 DEF Line
<1>3. \A j \in 2..n : disk[f][j].seq = disk[f][j - 1].seq + 1
  <2>1. SUFFICES ASSUME NEW j \in 2..n PROVE disk[f][j].seq = disk[f][j - 1].seq + 1
    OBVIOUS
  <2>2. LineOK(f, j)
    BY <1>1 DEF ChainOK
  <2>3. LinkedTo(disk[f][j], disk[f][j - 1])
    BY <1>1, <2>2 DEF LineOK
  <2>4. QED
    BY <2>3 DEF LinkedTo
<1>4. LastLine(f) = disk[f][n] /\ i \in 1..n
  BY <1>1 DEF LastLine
<1> DEFINE seq(j) == disk[f][j].seq
           Above == {k \in 0..(n - 1) : seq(n - k) > seq(n)}
<1>5. (\A j \in 1..n : seq(j) \in Nat) /\ (\A j \in 2..n : seq(j) = seq(j - 1) + 1)
  BY <1>2, <1>3
<1> HIDE DEF seq
<1>6. Above = {}
  <2>1. SUFFICES ASSUME Above # {} PROVE FALSE
    OBVIOUS
  <2>2. PICK k \in Above : \A m \in Above : k <= m
    <3>1. Above \in SUBSET Nat
      OBVIOUS
    <3> HIDE DEF Above
    <3>2. QED
      BY <2>1, <3>1, SmallestNumber
  <2>3. k \in 0..(n - 1) /\ seq(n - k) > seq(n)
    BY <2>2
  <2>4. k # 0
    <3>1. SUFFICES ASSUME k = 0 PROVE FALSE
      OBVIOUS
    <3>2. n - k = n /\ n \in 1..n
      BY <1>4, <3>1
    <3>3. seq(n) > seq(n) /\ seq(n) \in Nat
      BY <1>5, <2>3, <3>2
    <3>4. QED
      BY <3>3
  <2>5. k - 1 \in 0..(n - 1) /\ n - (k - 1) \in 2..n /\ n - (k - 1) - 1 = n - k
        /\ n - k \in 1..n /\ n \in 1..n
    BY <2>3, <2>4
  <2>6. seq(n - (k - 1)) = seq(n - k) + 1 /\ seq(n - k) \in Nat /\ seq(n) \in Nat
    BY <1>5, <2>5
  <2>7. seq(n - (k - 1)) > seq(n)
    BY <2>3, <2>6
  <2>8. k - 1 \in Above
    BY <2>5, <2>7
  <2>9. k - 1 < k
    BY <2>3
  <2>10. QED
    BY <2>2, <2>3, <2>8, <2>9
<1>7. n - i \in 0..(n - 1) /\ n - (n - i) = i /\ n \in 1..n
  BY <1>4
<1>8. ~(seq(i) > seq(n)) /\ seq(i) \in Nat /\ seq(n) \in Nat
  BY <1>4, <1>5, <1>6, <1>7
<1>9. QED
  BY <1>4, <1>8 DEF seq

LEMMA CachesAtTail ==
    ASSUME TypeOK, OneWriterInv
    PROVE  FreshCacheIsCurrent
<1> SUFFICES ASSUME holder = None, NEW w \in Writers, Fresh(w)
             PROVE  /\ \A line \in Lines : line.seq <= memSt[w].seq
                    /\ memSt[w].seq # 0 =>
                          \E line \in Lines :
                              line.seq = memSt[w].seq /\ line.hash = memSt[w].prev
  BY DEF FreshCacheIsCurrent
<1>1. AtTail(memSt[w])
  BY DEF OneWriterInv, CacheOK, Fresh, WriterAssumption
<1>2. CASE \A f \in File : disk[f] = <<>>
  <2>1. Lines = {}
    <3>1. SUFFICES ASSUME NEW line \in Lines PROVE FALSE
      OBVIOUS
    <3>2. PICK f \in File : \E i \in 1..Len(disk[f]) : line = disk[f][i]
      BY LinesLemma
    <3>3. Len(disk[f]) = 0
      BY <1>2
    <3>4. QED
      BY <3>2, <3>3
  <2>2. memSt[w].seq = 0
    BY <1>1, <1>2 DEF AtTail
  <2>3. QED
    BY <2>1, <2>2
<1>3. CASE \E f \in File : disk[f] # <<>>
  <2>1. /\ memSt[w].cur \in File
        /\ disk[memSt[w].cur] # <<>>
        /\ memSt[w].seq = LastLine(memSt[w].cur).seq
        /\ memSt[w].prev = LastLine(memSt[w].cur).hash
    BY <1>1, <1>3 DEF AtTail
  <2>2. PICK c \in File : c = memSt[w].cur
    BY <2>1
  <2>3. c \in created /\ \A g \in created : g <= c
    BY <2>1, <2>2 DEF OneWriterInv, OneFile
  <2>4. \A g \in File : g # c => disk[g] = <<>>
    BY <2>3, OneFileOnly DEF OneWriterInv
  <2>5. ASSUME NEW line \in Lines PROVE line.seq <= memSt[w].seq
    <3>1. PICK f \in File : \E i \in 1..Len(disk[f]) : line = disk[f][i]
      BY LinesLemma
    <3>2. PICK i \in 1..Len(disk[f]) : line = disk[f][i]
      BY <3>1
    <3>3. f = c
      <4>1. SUFFICES ASSUME f # c PROVE FALSE
        OBVIOUS
      <4>2. Len(disk[f]) = 0
        BY <2>4, <4>1
      <4>3. QED
        BY <3>2, <4>2
    <3>4. line.seq <= LastLine(f).seq
      BY <3>2, LastIsGreatest DEF OneWriterInv
    <3>5. QED
      BY <2>1, <2>2, <3>3, <3>4
  <2>6. \E line \in Lines : line.seq = memSt[w].seq /\ line.hash = memSt[w].prev
    <3>1. disk[c] \in Seq(Line) /\ disk[c] # <<>>
      BY <2>1, <2>2 DEF TypeOK
    <3>2. Len(disk[c]) \in 1..Len(disk[c])
      BY <3>1
    <3>3. LastLine(c) \in Lines
      BY <3>2, LinesLemma DEF LastLine
    <3>4. QED
      BY <2>1, <2>2, <3>3
  <2>7. QED
    BY <2>5, <2>6
<1>4. QED
  BY <1>2, <1>3

\* Whatever happened to the log and to audit.state since a cache was filled,
\* the cache is dropped or it is where the log ends (_ensure_state_locked,
\* the comparison of the raw text of audit.state).
THEOREM CachesAreCurrent ==
    ASSUME OneProcess
    PROVE  Spec => []FreshCacheIsCurrent
<1>1. NothingDropped
  BY DEF OneProcess, NothingDropped
<1>2. TypeOK /\ DurableInv /\ [Next]_vars => DurableInv'
  BY <1>1, DurableStep
<1>3. /\ TypeOK /\ OneWriterInv /\ DurableInv /\ TypeOK' /\ CallOK' /\ [Next]_vars
      => OneWriterInv'
  BY OneWriterStep
<1>4. TypeOK /\ OneWriterInv => FreshCacheIsCurrent
  BY CachesAtTail
<1>5. QED
  BY <1>2, <1>3, <1>4, TypeCorrect, DurableInit, OneWriterInit, PTL DEF Spec

=============================================================================
