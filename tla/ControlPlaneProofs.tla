------------------------- MODULE ControlPlaneProofs -------------------------
(***************************************************************************)
(* The limiter of requests, the connections of the control server, the     *)
(* captures and the pool of connections to the database, for any number of *)
(* addresses, connections, requests and threads: what the runs check on    *)
(* small instances, proved from one inductive invariant for each part.     *)
(***************************************************************************)
EXTENDS MCControlPlane, FiniteSetTheorems, WellFoundedInduction, TLAPS

-----------------------------------------------------------------------------
(* The limiter of requests (rate_limit.py): counting what was admitted.    *)

\* What a was admitted up to time T, from lo to hi: one element for each request.
Admissions(a, T, lo, hi) ==
    {e \in (0..T) \X (1..MaxAdmitted) : lo <= e[1] /\ e[1] <= hi /\ e[2] <= a[e[1]]}

Amount(a, T, lo, hi) == Cardinality(Admissions(a, T, lo, hi))

LEMMA Limits ==
    MaxAdmitted \in Nat \ {0} /\ Window \in Nat \ {0} /\ MaxTime \in Nat
BY LimiterBounds DEF A!LimiterAssumption

\* The parts count with the same Cardinality.
LEMMA SameCount ==
    \A Group : A!Cardinality(Group) = Cardinality(Group)
           /\ N!Cardinality(Group) = Cardinality(Group)
           /\ C!Cardinality(Group) = Cardinality(Group)
BY DEF A!Cardinality, N!Cardinality, C!Cardinality, Cardinality

LEMMA ProductFinite ==
    ASSUME NEW T \in Nat, NEW n \in Nat
    PROVE  IsFiniteSet((0..T) \X (1..n))
<1>1. IsFiniteSet(0..T) /\ IsFiniteSet(1..n)
  BY FS_Interval
<1>2. QED
  BY <1>1, FS_Product

LEMMA AdmissionsFinite ==
    ASSUME NEW a, NEW T \in Nat, NEW lo, NEW hi
    PROVE  IsFiniteSet(Admissions(a, T, lo, hi)) /\ Amount(a, T, lo, hi) \in Nat
<1>1. IsFiniteSet((0..T) \X (1..MaxAdmitted))
  BY ProductFinite, Limits
<1>2. Admissions(a, T, lo, hi) \in SUBSET ((0..T) \X (1..MaxAdmitted))
  BY DEF Admissions
<1>3. IsFiniteSet(Admissions(a, T, lo, hi))
  BY <1>1, <1>2, FS_Subset
<1>4. QED
  BY <1>3, FS_CardinalityType DEF Amount

\* A shorter stretch has no more than a longer one, and two parts of a stretch
\* together have what it has at least.
LEMMA AmountGrows ==
    ASSUME NEW a, NEW T \in Nat, NEW lo \in Int, NEW hi \in Int,
           NEW lo2 \in Int, NEW hi2 \in Int, lo2 <= lo, hi <= hi2
    PROVE  Amount(a, T, lo, hi) <= Amount(a, T, lo2, hi2)
<1>1. Admissions(a, T, lo, hi) \in SUBSET Admissions(a, T, lo2, hi2)
  BY DEF Admissions
<1>2. QED
  BY <1>1, AdmissionsFinite, FS_Subset DEF Amount

LEMMA AmountSplits ==
    ASSUME NEW a, NEW T \in Nat, NEW lo \in Int, NEW hi \in Int, NEW mid \in Int
    PROVE  Amount(a, T, lo, hi) <= Amount(a, T, lo, mid - 1) + Amount(a, T, mid, hi)
<1> DEFINE X == Admissions(a, T, lo, mid - 1)
           Y == Admissions(a, T, mid, hi)
<1>1. Admissions(a, T, lo, hi) \in SUBSET (X \cup Y)
  BY DEF Admissions
<1>2. IsFiniteSet(X) /\ IsFiniteSet(Y) /\ Cardinality(X) \in Nat /\ Cardinality(Y) \in Nat
  BY AdmissionsFinite, FS_CardinalityType
<1>3. Cardinality(X \cap Y) \in Nat
  <2>1. X \cap Y \in SUBSET X
    OBVIOUS
  <2>2. QED
    BY <1>2, <2>1, FS_Subset, FS_CardinalityType
<1>4. IsFiniteSet(X \cup Y) /\ Cardinality(X \cup Y) <= Cardinality(X) + Cardinality(Y)
  <2> HIDE DEF X, Y
  <2>1. /\ IsFiniteSet(X \cup Y)
        /\ Cardinality(X \cup Y) = Cardinality(X) + Cardinality(Y) - Cardinality(X \cap Y)
    BY <1>2, FS_Union
  <2>2. QED
    BY <1>2, <1>3, <2>1
<1>5. Cardinality(Admissions(a, T, lo, hi)) <= Cardinality(X \cup Y)
  <2> HIDE DEF X, Y
  <2>1. QED
    BY <1>1, <1>4, FS_Subset
<1>6. Cardinality(Admissions(a, T, lo, hi)) \in Nat /\ Cardinality(X \cup Y) \in Nat
  BY <1>4, AdmissionsFinite, FS_CardinalityType
<1>7. QED
  BY <1>2, <1>4, <1>5, <1>6 DEF Amount

\* A stretch without a request is worth nothing.
LEMMA AmountNone ==
    ASSUME NEW a, NEW T \in Nat, NEW lo \in Int, NEW hi \in Int,
           \A t \in 0..T : lo <= t /\ t <= hi => a[t] = 0
    PROVE  Amount(a, T, lo, hi) = 0
<1>1. Admissions(a, T, lo, hi) = {}
  BY DEF Admissions
<1>2. QED
  BY <1>1, FS_EmptySet DEF Amount

\* The amount depends on the stretch alone.
LEMMA AmountSame ==
    ASSUME NEW a, NEW b, NEW T \in Nat, NEW U \in Nat, NEW lo \in Int, NEW hi \in Int,
           hi <= T, hi <= U, \A t \in 0..T : lo <= t /\ t <= hi => a[t] = b[t]
    PROVE  Amount(a, T, lo, hi) = Amount(b, U, lo, hi)
<1>1. Admissions(a, T, lo, hi) = Admissions(b, U, lo, hi)
  BY DEF Admissions
<1>2. QED
  BY <1>1 DEF Amount

\* One request more at the end of the stretch.
LEMMA AmountMore ==
    ASSUME NEW T \in Nat, NEW M \in Nat, T <= M,
           NEW a \in [0..M -> Nat], NEW lo \in Int, lo <= T, a[T] < MaxAdmitted
    PROVE  Amount([a EXCEPT ![T] = @ + 1], T, lo, T) = Amount(a, T, lo, T) + 1
<1> DEFINE b == [a EXCEPT ![T] = @ + 1]
           new == <<T, a[T] + 1>>
<1>0. \A t \in 0..T : b[t] = IF t = T THEN a[T] + 1 ELSE a[t]
  OBVIOUS
<1>1. new \in (0..T) \X (1..MaxAdmitted) /\ new \notin Admissions(a, T, lo, T)
  BY Limits DEF Admissions
<1>2. Admissions(b, T, lo, T) = Admissions(a, T, lo, T) \cup {new}
  <2>1. ASSUME NEW e \in (0..T) \X (1..MaxAdmitted)
        PROVE  e[2] <= b[e[1]] <=> e[2] <= a[e[1]] \/ e = new
    <3>1. PICK t \in 0..T, n \in 1..MaxAdmitted : e = <<t, n>>
      OBVIOUS
    <3>2. a[t] \in Nat /\ a[T] \in Nat /\ n \in Nat
      BY Limits
    <3> HIDE DEF b
    <3>3. CASE t = T
      BY <1>0, <3>1, <3>2, <3>3
    <3>4. CASE t # T
      BY <1>0, <3>1, <3>2, <3>4
    <3>5. QED
      BY <3>3, <3>4
  <2> HIDE DEF b
  <2>2. \A e : e \in Admissions(b, T, lo, T) <=> e \in Admissions(a, T, lo, T) \cup {new}
    BY <2>1, <1>1 DEF Admissions
  <2>3. QED
    BY <2>2
<1>3. Amount(b, T, lo, T) = Amount(a, T, lo, T) + 1
  <2> HIDE DEF b, new
  <2>1. IsFiniteSet(Admissions(a, T, lo, T))
    BY AdmissionsFinite
  <2>2. QED
    BY <1>1, <1>2, <2>1, FS_AddElement DEF Amount
<1>4. QED
  BY <1>3

-----------------------------------------------------------------------------
(* What the limiter remembers at time T of an address that was admitted a. *)

WindowType == [start : Nat, count : Nat]
HistoryType == [0..MaxTime -> Nat]

\* The window has counted what was admitted since it began, and the window
\* before it no more than it may.
Remembered(T, a, w) ==
    /\ w.start <= T /\ w.count \in 1..MaxAdmitted
    /\ a[w.start] > 0 /\ a[T] <= w.count
    /\ Amount(a, T, w.start, T) = w.count
    /\ Amount(a, T, w.start - Window + 1, w.start - 1) <= MaxAdmitted

Forgotten(T, a) ==
    /\ Amount(a, T, T - Window + 1, T) <= MaxAdmitted
    /\ \A t \in 0..T : a[t] > 0 =>
          T - t >= Window \/ \E u \in 0..t : a[u] > 0 /\ T - u >= Window

Fits(T, a, w) ==
    /\ \A t \in 0..MaxTime : t > T => a[t] = 0
    /\ a[T] > 0 => w # A!NoWindow /\ T - w.start < Window
    /\ w # A!NoWindow => Remembered(T, a, w)
    /\ w = A!NoWindow => Forgotten(T, a)

LimiterInv ==
    /\ time \in 0..MaxTime
    /\ hits \in [Addresses -> WindowType]
    /\ admitted \in [Addresses -> HistoryType]
    /\ \A k \in Addresses : Fits(time, admitted[k], hits[k])

LEMMA OldWindowForgotten ==
    ASSUME NEW T \in 0..MaxTime, NEW a \in HistoryType, NEW w \in WindowType,
           Fits(T, a, w), T - w.start >= Window
    PROVE  Fits(T, a, A!NoWindow)
<1>1. CASE w = A!NoWindow
  BY <1>1
<1>2. CASE w # A!NoWindow
  <2>1. Remembered(T, a, w) /\ T \in Nat /\ w.start \in Nat
    BY <1>2, Limits DEF Fits, WindowType
  <2>2. Amount(a, T, T - Window + 1, T) <= MaxAdmitted
    <3>1. Amount(a, T, T - Window + 1, T) <= Amount(a, T, w.start, T)
      BY <2>1, AmountGrows, Limits
    <3>2. Amount(a, T, T - Window + 1, T) \in Nat
      BY <2>1, AdmissionsFinite
    <3>3. QED
      BY <2>1, <3>1, <3>2, Limits DEF Remembered
  <2>3. ASSUME NEW t \in 0..T, a[t] > 0
        PROVE  T - t >= Window \/ \E u \in 0..t : a[u] > 0 /\ T - u >= Window
    <3>1. CASE t < w.start
      BY <3>1, <2>1, Limits
    <3>2. CASE w.start <= t
      BY <3>2, <2>1, Limits DEF Remembered
    <3>3. QED
      BY <3>1, <3>2, <2>1
  <2>4. ~(a[T] > 0)
    BY <2>1, Limits DEF Fits
  <2>5. QED
    BY <2>2, <2>3, <2>4 DEF Fits, Forgotten
<1>3. QED
  BY <1>1, <1>2

LEMMA TimePasses ==
    ASSUME NEW T \in 0..MaxTime, NEW a \in HistoryType, NEW w \in WindowType,
           Fits(T, a, w), T < MaxTime
    PROVE  Fits(T + 1, a, w)
<1>0. T \in Nat /\ T + 1 \in 0..MaxTime /\ a[T + 1] = 0 /\ w.start \in Nat
  BY Limits DEF Fits, WindowType
<1>1. ASSUME NEW lo \in Int PROVE Amount(a, T + 1, lo, T + 1) <= Amount(a, T, lo, T)
  <2>1. /\ Amount(a, T + 1, lo, T) = Amount(a, T, lo, T)
        /\ Amount(a, T + 1, T + 1, T + 1) = 0
        /\ Amount(a, T + 1, lo, T + 1) <= Amount(a, T + 1, lo, T) + Amount(a, T + 1, T + 1, T + 1)
    <3>1. Amount(a, T + 1, lo, T) = Amount(a, T, lo, T)
      BY <1>0, AmountSame
    <3>2. Amount(a, T + 1, T + 1, T + 1) = 0
      BY <1>0, AmountNone
    <3>3. Amount(a, T + 1, lo, T + 1)
             <= Amount(a, T + 1, lo, (T + 1) - 1) + Amount(a, T + 1, T + 1, T + 1)
      <4>1. PICK U \in Nat : U = T + 1
        BY <1>0
      <4>2. Amount(a, U, lo, U) <= Amount(a, U, lo, U - 1) + Amount(a, U, U, U)
        BY AmountSplits
      <4>3. QED
        BY <4>1, <4>2
    <3>4. (T + 1) - 1 = T
      BY <1>0
    <3>5. QED
      BY <3>1, <3>2, <3>3, <3>4
  <2>2. Amount(a, T, lo, T) \in Nat
    BY <1>0, AdmissionsFinite
  <2>3. QED
    BY <2>1, <2>2
<1>2. ASSUME NEW lo \in Int PROVE Amount(a, T, lo, T) <= Amount(a, T + 1, lo, T + 1)
  <2>1. Amount(a, T + 1, lo, T) = Amount(a, T, lo, T)
    BY <1>0, AmountSame
  <2>2. Amount(a, T + 1, lo, T) <= Amount(a, T + 1, lo, T + 1)
    BY <1>0, AmountGrows
  <2>3. QED
    BY <2>1, <2>2
<1>3. ASSUME w # A!NoWindow PROVE Remembered(T + 1, a, w)
  <2>1. Remembered(T, a, w)
    BY <1>3 DEF Fits
  <2>2. Amount(a, T + 1, w.start, T + 1) = w.count
    <3>1. Amount(a, T, w.start, T) \in Nat /\ Amount(a, T + 1, w.start, T + 1) \in Nat
      BY <1>0, AdmissionsFinite
    <3>2. /\ Amount(a, T, w.start, T) <= Amount(a, T + 1, w.start, T + 1)
          /\ Amount(a, T + 1, w.start, T + 1) <= Amount(a, T, w.start, T)
      BY <1>0, <1>1, <1>2
    <3>3. QED
      BY <2>1, <3>1, <3>2 DEF Remembered
  <2>3. Amount(a, T + 1, w.start - Window + 1, w.start - 1)
           = Amount(a, T, w.start - Window + 1, w.start - 1)
    BY <1>0, <2>1, AmountSame, Limits DEF Remembered
  <2>4. QED
    BY <1>0, <2>1, <2>2, <2>3, Limits DEF Remembered
<1>4. ASSUME w = A!NoWindow PROVE Forgotten(T + 1, a)
  <2>1. Forgotten(T, a)
    BY <1>4 DEF Fits
  <2>2. Amount(a, T + 1, (T + 1) - Window + 1, T + 1) <= MaxAdmitted
    <3>1. Amount(a, T + 1, (T + 1) - Window + 1, T + 1) <= Amount(a, T, (T + 1) - Window + 1, T)
      BY <1>0, <1>1, Limits
    <3>2. Amount(a, T, (T + 1) - Window + 1, T) <= Amount(a, T, T - Window + 1, T)
      BY <1>0, AmountGrows, Limits
    <3>3. /\ Amount(a, T + 1, (T + 1) - Window + 1, T + 1) \in Nat
          /\ Amount(a, T, (T + 1) - Window + 1, T) \in Nat
          /\ Amount(a, T, T - Window + 1, T) \in Nat
      BY <1>0, AdmissionsFinite
    <3>4. QED
      BY <2>1, <3>1, <3>2, <3>3, Limits DEF Forgotten
  <2>3. ASSUME NEW t \in 0..(T + 1), a[t] > 0
        PROVE  (T + 1) - t >= Window \/ \E u \in 0..t : a[u] > 0 /\ (T + 1) - u >= Window
    <3>1. t \in 0..T
      BY <1>0, <2>3
    <3>2. CASE T - t >= Window
      BY <3>1, <3>2, <1>0, Limits
    <3>3. CASE \E u \in 0..t : a[u] > 0 /\ T - u >= Window
      BY <3>1, <3>3, <1>0, Limits
    <3>4. QED
      BY <3>1, <3>2, <3>3, <2>1, <2>3 DEF Forgotten
  <2>4. QED
    BY <2>2, <2>3 DEF Forgotten
<1>5. \A t \in 0..MaxTime : t > T + 1 => a[t] = 0
  BY <1>0 DEF Fits
<1>6. QED
  BY <1>0, <1>3, <1>4, <1>5 DEF Fits

LEMMA RequestCounted ==
    ASSUME NEW T \in 0..MaxTime, NEW a \in HistoryType, NEW w \in WindowType, Fits(T, a, w),
           ~(w # A!NoWindow /\ T - w.start < Window /\ w.count >= MaxAdmitted)
    PROVE  Fits(T, [a EXCEPT ![T] = @ + 1],
                IF w = A!NoWindow \/ T - w.start >= Window THEN [start |-> T, count |-> 1]
                ELSE [w EXCEPT !.count = @ + 1])
<1> DEFINE b == [a EXCEPT ![T] = @ + 1]
<1>0. /\ T \in Nat /\ w.start \in Nat /\ w.count \in Nat /\ a[T] \in Nat
      /\ b \in HistoryType /\ b[T] = a[T] + 1 /\ \A t \in 0..MaxTime : t # T => b[t] = a[t]
  BY Limits DEF WindowType, HistoryType
<1>1. \A t \in 0..MaxTime : t > T => b[t] = 0
  BY <1>0 DEF Fits
<1>2. ASSUME NEW lo \in Int, lo <= T, a[T] < MaxAdmitted
      PROVE  Amount(b, T, lo, T) = Amount(a, T, lo, T) + 1
  <2>1. a \in [0..MaxTime -> Nat] /\ T <= MaxTime /\ MaxTime \in Nat
    BY Limits DEF HistoryType
  <2>2. QED
    BY <1>0, <1>2, <2>1, AmountMore
<1> HIDE DEF b
<1>3. ASSUME NEW lo \in Int, NEW hi \in Int, hi < T
      PROVE  Amount(b, T, lo, hi) = Amount(a, T, lo, hi)
  <2>1. \A t \in 0..T : lo <= t /\ t <= hi => b[t] = a[t]
    BY <1>0, <1>3, Limits
  <2>2. QED
    BY <1>0, <1>3, <2>1, AmountSame
<1>4. CASE w = A!NoWindow \/ T - w.start >= Window
  <2>1. a[T] = 0
    BY <1>0, <1>4, Limits DEF Fits
  <2>2. Forgotten(T, a)
    BY <1>4, OldWindowForgotten DEF Fits
  <2>3. Amount(b, T, T, T) = 1
    <3>1. Amount(a, T, T, T) = 0
      BY <1>0, <2>1, AmountNone
    <3>2. QED
      BY <1>0, <1>2, <2>1, <3>1, Limits
  <2>4. Amount(b, T, T - Window + 1, T - 1) <= MaxAdmitted
    <3>1. Amount(b, T, T - Window + 1, T - 1) = Amount(a, T, T - Window + 1, T - 1)
      BY <1>0, <1>3, Limits
    <3>2. Amount(a, T, T - Window + 1, T - 1) <= Amount(a, T, T - Window + 1, T)
      BY <1>0, AmountGrows, Limits
    <3>3. Amount(a, T, T - Window + 1, T - 1) \in Nat /\ Amount(a, T, T - Window + 1, T) \in Nat
      BY <1>0, AdmissionsFinite
    <3>4. QED
      BY <2>2, <3>1, <3>2, <3>3, Limits DEF Forgotten
  <2> DEFINE v == [start |-> T, count |-> 1]
  <2>5. v.start = T /\ v.count = 1 /\ v # A!NoWindow
    BY DEF A!NoWindow
  <2> HIDE DEF v
  <2>6. Remembered(T, b, v)
    BY <1>0, <2>1, <2>3, <2>4, <2>5, Limits DEF Remembered
  <2>7. Fits(T, b, v)
    BY <1>0, <1>1, <2>5, <2>6, Limits DEF Fits
  <2>8. QED
    BY <1>4, <2>7 DEF v, b
<1>5. CASE ~(w = A!NoWindow \/ T - w.start >= Window)
  <2>1. /\ w # A!NoWindow /\ Remembered(T, a, w) /\ T - w.start < Window
        /\ w.count < MaxAdmitted
    BY <1>0, <1>5, Limits DEF Fits
  <2>2. Amount(b, T, w.start, T) = w.count + 1
    BY <1>0, <1>2, <2>1, Limits DEF Remembered
  <2>3. Amount(b, T, w.start - Window + 1, w.start - 1) <= MaxAdmitted
    BY <1>0, <1>3, <2>1, Limits DEF Remembered
  <2>4. b[w.start] > 0
    <3>1. w.start \in 0..MaxTime /\ a[w.start] > 0
      BY <1>0, <2>1, Limits DEF Remembered
    <3>2. a[w.start] \in Nat
      BY <3>1 DEF HistoryType
    <3>3. QED
      BY <1>0, <3>1, <3>2
  <2> DEFINE v == [w EXCEPT !.count = @ + 1]
  <2>5. v.start = w.start /\ v.count = w.count + 1 /\ v # A!NoWindow
    BY <1>0 DEF A!NoWindow, WindowType
  <2> HIDE DEF v
  <2>6. Remembered(T, b, v)
    BY <1>0, <2>1, <2>2, <2>3, <2>4, <2>5, Limits DEF Remembered
  <2>7. Fits(T, b, v)
    BY <1>0, <1>1, <2>1, <2>5, <2>6, Limits DEF Fits
  <2>8. QED
    BY <1>5, <2>7 DEF v, b
<1>6. QED
  BY <1>4, <1>5

LEMMA AllowStep ==
    ASSUME LimiterInv, NEW k \in Addresses, A!Allow(k)
    PROVE  LimiterInv'
<1> DEFINE window == IF hits[k] = A!NoWindow \/ A!Over(hits[k]) THEN [start |-> time, count |-> 1]
                     ELSE [hits[k] EXCEPT !.count = @ + 1]
           h == [hits EXCEPT ![k] = window]
<1>0. /\ time' = time /\ ~A!Refused(k)
      /\ hits' = h \/ hits' = A!Purge(h)
      /\ admitted' = [admitted EXCEPT ![k][time] = @ + 1]
  <2>1. time' = time /\ ~A!Refused(k) /\ admitted' = [admitted EXCEPT ![k][time] = @ + 1]
    BY DEF A!Allow
  <2>2. hits' = IF A!Cardinality(A!Known(h)) > MaxKeys THEN A!Purge(h) ELSE h
    BY DEF A!Allow
  <2> HIDE DEF h, window
  <2>3. QED
    BY <2>1, <2>2
<1>1. /\ time \in 0..MaxTime /\ time \in Nat
      /\ \A j \in Addresses : hits[j] \in WindowType /\ admitted[j] \in HistoryType
                              /\ Fits(time, admitted[j], hits[j])
      /\ A!NoWindow \in WindowType
  BY Limits DEF LimiterInv, A!NoWindow, WindowType
<1>2. window \in WindowType /\ h \in [Addresses -> WindowType] /\ h[k] = window
      /\ \A j \in Addresses : j # k => h[j] = hits[j]
  <2>1. hits[k].count + 1 \in Nat /\ hits[k].start \in Nat
    BY <1>1 DEF WindowType
  <2>2. window \in WindowType
    BY <1>1, <2>1 DEF WindowType
  <2> HIDE DEF window
  <2>3. QED
    BY <2>2 DEF LimiterInv
<1>3. /\ admitted' \in [Addresses -> HistoryType]
      /\ admitted'[k] = [admitted[k] EXCEPT ![time] = @ + 1]
      /\ \A j \in Addresses : j # k => admitted'[j] = admitted[j]
  <2> DEFINE more == [admitted[k] EXCEPT ![time] = @ + 1]
  <2>1. more \in HistoryType
    <3>1. PICK a \in [0..MaxTime -> Nat] : a = admitted[k]
      BY <1>1 DEF HistoryType
    <3>2. [a EXCEPT ![time] = @ + 1] \in [0..MaxTime -> Nat]
      BY <1>1
    <3>3. QED
      BY <3>1, <3>2 DEF HistoryType
  <2>2. admitted' = [admitted EXCEPT ![k] = more]
    BY <1>0, Zenon
  <2> HIDE DEF more
  <2>3. more \in HistoryType /\ admitted' \in [Addresses -> HistoryType] /\ admitted'[k] = more
        /\ \A j \in Addresses : j # k => admitted'[j] = admitted[j]
    BY <2>1, <2>2 DEF LimiterInv
  <2>4. QED
    BY <2>3 DEF more
<1>4. Fits(time, admitted'[k], h[k])
  <2>1. ~(hits[k] # A!NoWindow /\ time - hits[k].start < Window /\ hits[k].count >= MaxAdmitted)
    <3>1. hits[k].start \in Nat /\ hits[k].count \in Nat
      BY <1>1 DEF WindowType
    <3>2. QED
      BY <1>0, <1>1, <3>1, Limits DEF A!Refused, A!Over
  <2>2. window = IF hits[k] = A!NoWindow \/ time - hits[k].start >= Window
                 THEN [start |-> time, count |-> 1] ELSE [hits[k] EXCEPT !.count = @ + 1]
    BY DEF A!Over
  <2> HIDE DEF window
  <2>3. QED
    BY <1>1, <1>2, <1>3, <2>1, <2>2, RequestCounted
<1>5. \A j \in Addresses : Fits(time, admitted'[j], h[j])
  <2> HIDE DEF h, window
  <2>1. QED
    BY <1>1, <1>2, <1>3, <1>4
<1> HIDE DEF h, window
<1>6. CASE hits' = h
  BY <1>0, <1>1, <1>2, <1>3, <1>5, <1>6 DEF LimiterInv
<1>7. CASE hits' = A!Purge(h)
  <2>1. \A j \in Addresses :
           hits'[j] = IF time - h[j].start >= Window THEN A!NoWindow ELSE h[j]
    BY <1>7 DEF A!Purge, A!Over
  <2>2. hits' \in [Addresses -> WindowType]
    <3>1. \A j \in Addresses : A!Over(h[j]) = (time - h[j].start >= Window)
      BY DEF A!Over
    <3>2. hits' = [j \in Addresses |-> IF A!Over(h[j]) THEN A!NoWindow ELSE h[j]]
      BY <1>7 DEF A!Purge
    <3>3. \A j \in Addresses : (IF A!Over(h[j]) THEN A!NoWindow ELSE h[j]) \in WindowType
      BY <1>1, <1>2
    <3>4. QED
      BY <3>2, <3>3
  <2>3. ASSUME NEW j \in Addresses PROVE Fits(time, admitted'[j], hits'[j])
    <3>1. /\ Fits(time, admitted'[j], h[j]) /\ h[j] \in WindowType
          /\ admitted'[j] \in HistoryType
      BY <1>2, <1>3, <1>5
    <3>2. CASE time - h[j].start >= Window
      <4>1. Fits(time, admitted'[j], A!NoWindow)
        BY <1>1, <3>1, <3>2, OldWindowForgotten
      <4>2. QED
        BY <2>1, <3>2, <4>1
    <3>3. CASE ~(time - h[j].start >= Window)
      BY <2>1, <3>1, <3>3
    <3>4. QED
      BY <3>2, <3>3
  <2>4. QED
    BY <1>0, <1>1, <1>3, <2>2, <2>3 DEF LimiterInv
<1>8. QED
  BY <1>0, <1>6, <1>7

LEMMA LimiterStarts == A!Init => LimiterInv
<1> SUFFICES ASSUME A!Init PROVE LimiterInv
  OBVIOUS
<1>1. /\ time = 0 /\ hits = [k \in Addresses |-> A!NoWindow]
      /\ admitted = [k \in Addresses |-> [t \in 0..MaxTime |-> 0]]
  BY DEF A!Init
<1>2. 0 \in 0..MaxTime /\ A!NoWindow \in WindowType
  BY Limits DEF WindowType, A!NoWindow
<1>3. ASSUME NEW k \in Addresses PROVE Fits(time, admitted[k], hits[k])
  <2> DEFINE a == [t \in 0..MaxTime |-> 0]
  <2>1. \A t \in 0..MaxTime : a[t] = 0
    OBVIOUS
  <2> HIDE DEF a
  <2>2. Amount(a, 0, 0 - Window + 1, 0) = 0
    BY <1>2, <2>1, AmountNone, Limits
  <2>3. Fits(0, a, A!NoWindow)
    BY <1>2, <2>1, <2>2, Limits DEF Fits, Forgotten
  <2>4. QED
    BY <1>1, <2>3 DEF a
<1>4. QED
  BY <1>1, <1>2, <1>3 DEF LimiterInv, HistoryType

LEMMA LimiterKeeps == LimiterInv /\ [A!Next]_(A!vars) => LimiterInv'
<1> SUFFICES ASSUME LimiterInv, [A!Next]_(A!vars) PROVE LimiterInv'
  OBVIOUS
<1>1. CASE \E k \in Addresses : A!Allow(k)
  BY <1>1, AllowStep
<1>2. CASE A!Tick
  <2>1. time' = time + 1 /\ time < MaxTime /\ hits' = hits /\ admitted' = admitted
    BY <1>2 DEF A!Tick
  <2>2. ASSUME NEW k \in Addresses PROVE Fits(time', admitted'[k], hits'[k])
    BY <2>1, TimePasses DEF LimiterInv
  <2>3. time' \in 0..MaxTime
    BY <2>1, Limits DEF LimiterInv
  <2>4. QED
    BY <2>1, <2>2, <2>3 DEF LimiterInv
<1>3. CASE UNCHANGED A!vars
  <2>1. time' = time /\ hits' = hits /\ admitted' = admitted
    BY <1>3 DEF A!vars
  <2>2. QED
    BY <2>1 DEF LimiterInv
<1>4. QED
  BY <1>1, <1>2, <1>3 DEF A!Next

\* What is remembered of an address is what it was admitted, and no stretch as
\* long as a window has more than twice what one admits (rate_limit.py allow).
LEMMA LimiterInvLimits == LimiterInv => A!LimitHolds
<1> SUFFICES ASSUME LimiterInv, NEW k \in Addresses
             PROVE  /\ hits[k] # A!NoWindow => A!Since(k, hits[k].start) = hits[k].count
                                                /\ hits[k].count <= MaxAdmitted
                    /\ \A t \in 0..time : hits[k] = A!NoWindow /\ admitted[k][t] > 0 =>
                          \/ time - t >= Window
                          \/ \E u \in 0..t : admitted[k][u] > 0 /\ time - u >= Window
                    /\ time >= Window => A!Since(k, time - Window + 1) <= 2 * MaxAdmitted
                    /\ A!Refused(k) => time + 2 * A!RetryAfter(k) - hits[k].start >= Window
  BY DEF A!LimitHolds
<1>1. /\ time \in 0..MaxTime /\ time \in Nat /\ admitted[k] \in HistoryType
      /\ hits[k].start \in Nat /\ hits[k].count \in Nat /\ Fits(time, admitted[k], hits[k])
  BY Limits DEF LimiterInv, WindowType
<1>2. ASSUME NEW from \in Int PROVE A!Since(k, from) = Amount(admitted[k], time, from, time)
  <2>1. {e \in (0..time) \X (1..MaxAdmitted) : e[1] >= from /\ e[2] <= admitted[k][e[1]]}
           = Admissions(admitted[k], time, from, time)
    BY <1>1 DEF Admissions
  <2>2. QED
    BY <2>1, SameCount DEF A!Since, Amount
<1>3. ASSUME hits[k] # A!NoWindow
      PROVE  A!Since(k, hits[k].start) = hits[k].count /\ hits[k].count <= MaxAdmitted
  BY <1>1, <1>2, <1>3, Limits DEF Fits, Remembered
<1>4. ASSUME hits[k] = A!NoWindow, NEW t \in 0..time, admitted[k][t] > 0
      PROVE  \/ time - t >= Window
             \/ \E u \in 0..t : admitted[k][u] > 0 /\ time - u >= Window
  BY <1>1, <1>4 DEF Fits, Forgotten
<1>5. A!Since(k, time - Window + 1) <= 2 * MaxAdmitted
  <2> DEFINE Stretch(lo, hi) == Amount(admitted[k], time, lo, hi)
  <2>1. \A lo \in Int, hi \in Int : Stretch(lo, hi) \in Nat
    BY <1>1, AdmissionsFinite
  <2>2. A!Since(k, time - Window + 1) = Stretch(time - Window + 1, time)
    BY <1>1, <1>2, Limits
  <2>3. CASE hits[k] = A!NoWindow
    BY <1>1, <2>1, <2>2, <2>3, Limits DEF Fits, Forgotten
  <2>4. CASE hits[k] # A!NoWindow
    <3>1. PICK s \in Nat : s = hits[k].start
      BY <1>1
    <3>2. /\ s <= time /\ Stretch(s, time) <= MaxAdmitted
          /\ Stretch(s - Window + 1, s - 1) <= MaxAdmitted
      BY <1>1, <2>4, <3>1, Limits DEF Fits, Remembered
    <3>3. Stretch(time - Window + 1, time)
             <= Stretch(time - Window + 1, s - 1) + Stretch(s, time)
      BY <1>1, <3>1, AmountSplits, Limits
    <3>4. Stretch(time - Window + 1, s - 1) <= Stretch(s - Window + 1, s - 1)
      BY <1>1, <3>1, <3>2, AmountGrows, Limits
    <3>5. /\ Stretch(time - Window + 1, s - 1) \in Nat /\ Stretch(s - Window + 1, s - 1) \in Nat
          /\ Stretch(time - Window + 1, time) \in Nat /\ Stretch(s, time) \in Nat
      <4>1. time - Window + 1 \in Int /\ s - 1 \in Int /\ s - Window + 1 \in Int
        BY <1>1, <3>1, Limits
      <4>2. QED
        BY <1>1, <3>1, <4>1, AdmissionsFinite
    <3> HIDE DEF Stretch
    <3>6. QED
      BY <2>2, <3>2, <3>3, <3>4, <3>5, Limits
  <2>5. QED
    BY <2>3, <2>4
<1>6. ASSUME A!Refused(k) PROVE time + 2 * A!RetryAfter(k) - hits[k].start >= Window
  <2>1. A!RetryAfter(k) = (Window - (time - hits[k].start)) \div 2 + 1
    BY DEF A!RetryAfter
  <2>2. QED
    BY <1>1, <2>1, Limits
<1>7. QED
  BY <1>3, <1>4, <1>5, <1>6

-----------------------------------------------------------------------------
(* The connections of the control server and its broadcaster.              *)

ConnPlaces == {"new", "short", "refused", "upgraded", "joining", "socket", "leaving", "ended"}
CasterType == [pc : {"none", "wait", "send", "ended"}, stop : BOOLEAN,
               clients : SUBSET Clients, todo : SUBSET Clients,
               to : SUBSET Clients, dead : SUBSET Clients]

ServerTypes ==
    /\ conn \in [Clients -> ConnPlaces]
    /\ slots \in Nat
    /\ detached \in SUBSET Clients /\ leaked \in SUBSET Clients
    /\ mine \in [Clients -> 0..Casters]
    /\ wire \in [Clients -> {"whole", "half", "mixed"}]
    /\ slow \in SUBSET Clients
    /\ caster \in [1..Casters -> CasterType]
    /\ current \in 0..Casters
    /\ server \in {"serving", "closing", "closed"}

\* Whoever gave its slot back is marked until its thread has ended.
SlotsOK ==
    /\ IsFiniteSet(N!Short) /\ IsFiniteSet(leaked)
    /\ slots + Cardinality(N!Short) + Cardinality(leaked) = MaxConnections
    /\ \A c \in leaked : conn[c] = "ended"
    /\ \A c \in Clients :
          c \in detached <=> conn[c] \in {"upgraded", "joining", "socket", "leaving"}

ListsOK ==
    /\ N!ClientsAreListed
    /\ \A c \in Clients : conn[c] \in {"joining", "socket"} => mine[c] # 0
    /\ \A g \in 1..Casters : caster[g].dead \subseteq slow

\* A broadcaster sends to one client at a time.
FramesOK ==
    /\ N!FramesAreWhole
    /\ \A g \in 1..Casters : \A b, c \in caster[g].to : b = c

ServerInv == ServerTypes /\ SlotsOK /\ ListsOK /\ FramesOK /\ N!OneBroadcaster

LEMMA ServerLimits == MaxConnections \in Nat \ {0} /\ Casters \in Nat
BY ServerBounds DEF N!ServerAssumption

LEMMA ServerStarts == N!Init => ServerInv
<1> SUFFICES ASSUME N!Init PROVE ServerInv
  OBVIOUS
<1>1. /\ conn = [c \in Clients |-> "new"] /\ slots = MaxConnections
      /\ detached = {} /\ leaked = {} /\ mine = [c \in Clients |-> 0]
      /\ wire = [c \in Clients |-> "whole"] /\ slow = {}
      /\ caster = [g \in 1..Casters |-> N!Unborn] /\ current = 0 /\ server = "serving"
  BY DEF N!Init, N!Caster
<1>2. /\ N!Unborn \in CasterType /\ N!Unborn.pc = "none"
      /\ N!Unborn.clients = {} /\ N!Unborn.to = {} /\ N!Unborn.dead = {}
  BY DEF N!Unborn, CasterType
<1>3. ServerTypes
  BY <1>1, <1>2, ServerLimits DEF ServerTypes, ConnPlaces
<1>4. SlotsOK
  <2>1. N!Short = {}
    BY <1>1 DEF N!Short
  <2>2. QED
    BY <1>1, <2>1, FS_EmptySet, ServerLimits DEF SlotsOK
<1>5. ListsOK /\ FramesOK /\ N!OneBroadcaster
  BY <1>1, <1>2
     DEF ListsOK, FramesOK, N!ClientsAreListed, N!FramesAreWhole, N!OneBroadcaster, N!Caster
<1>6. QED
  BY <1>3, <1>4, <1>5 DEF ServerInv

\* A connection that moves.
LEMMA ConnMoves ==
    ASSUME ServerTypes, NEW c \in Clients, NEW p \in ConnPlaces, conn' = [conn EXCEPT ![c] = p]
    PROVE  /\ conn' \in [Clients -> ConnPlaces] /\ conn'[c] = p
           /\ \A b \in Clients : b # c => conn'[b] = conn[b]
           /\ N!Short' = IF p = "short" THEN N!Short \cup {c} ELSE N!Short \ {c}
<1>1. /\ conn' \in [Clients -> ConnPlaces] /\ conn'[c] = p
      /\ \A b \in Clients : b # c => conn'[b] = conn[b]
  BY DEF ServerTypes
<1>2. QED
  BY <1>1 DEF N!Short

LEMMA ShortMoves ==
    ASSUME SlotsOK, NEW c \in Clients
    PROVE  /\ Cardinality(N!Short) \in Nat /\ Cardinality(leaked) \in Nat
           /\ IsFiniteSet(N!Short \cup {c}) /\ IsFiniteSet(N!Short \ {c})
           /\ IsFiniteSet(leaked \cup {c})
           /\ conn[c] = "short" => Cardinality(N!Short \ {c}) = Cardinality(N!Short) - 1
           /\ conn[c] # "short" =>
                 /\ Cardinality(N!Short \ {c}) = Cardinality(N!Short)
                 /\ Cardinality(N!Short \cup {c}) = Cardinality(N!Short) + 1
           /\ conn[c] # "ended" => Cardinality(leaked \cup {c}) = Cardinality(leaked) + 1
<1>1. IsFiniteSet(N!Short) /\ IsFiniteSet(leaked)
  BY DEF SlotsOK
<1>2. c \in N!Short <=> conn[c] = "short"
  BY DEF N!Short
<1>3. conn[c] # "ended" => c \notin leaked
  BY DEF SlotsOK
<1>4. Cardinality(N!Short) \in Nat /\ Cardinality(leaked) \in Nat
  BY <1>1, FS_CardinalityType
<1>5. /\ IsFiniteSet(N!Short \cup {c})
      /\ Cardinality(N!Short \cup {c}) =
            IF c \in N!Short THEN Cardinality(N!Short) ELSE Cardinality(N!Short) + 1
  BY <1>1, FS_AddElement
<1>6. /\ IsFiniteSet(N!Short \ {c})
      /\ Cardinality(N!Short \ {c}) =
            IF c \in N!Short THEN Cardinality(N!Short) - 1 ELSE Cardinality(N!Short)
  BY <1>1, FS_RemoveElement
<1>7. /\ IsFiniteSet(leaked \cup {c})
      /\ Cardinality(leaked \cup {c}) =
            IF c \in leaked THEN Cardinality(leaked) ELSE Cardinality(leaked) + 1
  BY <1>1, FS_AddElement
<1>8. QED
  BY <1>2, <1>3, <1>4, <1>5, <1>6, <1>7

\* The lists and the frames, while no broadcaster moves.
LEMMA SocketsStay ==
    ASSUME ServerInv, UNCHANGED <<mine, wire, slow, caster, current, server>>,
           \A c \in Clients : conn'[c] = "socket" <=> conn[c] = "socket",
           \A c \in Clients : conn'[c] \in {"joining", "socket"} =>
                                  conn[c] \in {"joining", "socket"}
    PROVE  ListsOK' /\ FramesOK' /\ N!OneBroadcaster'
<1>1. ListsOK'
  BY DEF ServerInv, ListsOK, N!ClientsAreListed, N!Caster
<1>2. FramesOK' /\ N!OneBroadcaster'
  BY DEF ServerInv, FramesOK, N!FramesAreWhole, N!OneBroadcaster, N!Caster
<1>3. QED
  BY <1>1, <1>2

LEMMA AcceptStep ==
    ASSUME ServerInv, NEW c \in Clients, N!Accept(c)
    PROVE  ServerInv'
<1>1. PICK p \in {"short", "refused"} :
         /\ conn' = [conn EXCEPT ![c] = p] /\ conn[c] = "new"
         /\ p = "short" => slots > 0 /\ slots' = slots - 1
         /\ p = "refused" => slots' = slots
         /\ UNCHANGED <<detached, leaked, mine, wire, slow, caster, current, server>>
  BY DEF N!Accept, N!sockets
<1>2. /\ conn' \in [Clients -> ConnPlaces] /\ conn'[c] = p
      /\ \A b \in Clients : b # c => conn'[b] = conn[b]
      /\ N!Short' = IF p = "short" THEN N!Short \cup {c} ELSE N!Short \ {c}
  BY <1>1, ConnMoves DEF ServerInv, ConnPlaces
<1>3. ServerTypes'
  BY <1>1, <1>2 DEF ServerInv, ServerTypes
<1>4. SlotsOK'
  <2>1. /\ IsFiniteSet(N!Short') /\ IsFiniteSet(leaked')
        /\ slots' + Cardinality(N!Short') + Cardinality(leaked') = MaxConnections
    <3>1. PICK m \in Nat, n \in Nat :
             /\ m = Cardinality(N!Short) /\ n = Cardinality(leaked)
             /\ slots + m + n = MaxConnections /\ IsFiniteSet(leaked)
      BY ShortMoves DEF ServerInv, SlotsOK
    <3>2. IsFiniteSet(N!Short') /\ Cardinality(N!Short') = IF p = "short" THEN m + 1 ELSE m
      BY <1>1, <1>2, <3>1, ShortMoves DEF ServerInv
    <3>3. IsFiniteSet(leaked') /\ Cardinality(leaked') = n
      BY <1>1, <3>1, ShortMoves DEF ServerInv
    <3>4. slots \in Nat /\ MaxConnections \in Nat
      BY ServerLimits DEF ServerInv, ServerTypes
    <3>5. QED
      BY <1>1, <3>1, <3>2, <3>3, <3>4
  <2>2. /\ \A b \in leaked' : conn'[b] = "ended"
        /\ \A b \in Clients :
              b \in detached' <=> conn'[b] \in {"upgraded", "joining", "socket", "leaving"}
    BY <1>1, <1>2 DEF ServerInv, SlotsOK, ServerTypes
  <2>3. QED
    BY <2>1, <2>2 DEF SlotsOK
<1>5. ListsOK' /\ FramesOK' /\ N!OneBroadcaster'
  BY <1>1, <1>2, SocketsStay
<1>6. QED
  BY <1>3, <1>4, <1>5 DEF ServerInv

LEMMA ThreadFailsStep ==
    ASSUME ServerInv, NEW c \in Clients, N!ThreadFails(c)
    PROVE  ServerInv'
<1>1. /\ conn' = [conn EXCEPT ![c] = "ended"] /\ conn[c] = "new"
      /\ slots > 0 /\ slots' = slots - 1 /\ leaked' = leaked \cup {c}
      /\ UNCHANGED <<detached, mine, wire, slow, caster, current, server>>
  BY DEF N!ThreadFails, N!sockets
<1>2. /\ conn' \in [Clients -> ConnPlaces] /\ conn'[c] = "ended"
      /\ \A b \in Clients : b # c => conn'[b] = conn[b]
      /\ N!Short' = N!Short \ {c}
  BY <1>1, ConnMoves DEF ServerInv, ConnPlaces
<1>3. ServerTypes'
  BY <1>1, <1>2 DEF ServerInv, ServerTypes
<1>4. SlotsOK'
  <2>1. /\ IsFiniteSet(N!Short') /\ IsFiniteSet(leaked')
        /\ slots' + Cardinality(N!Short') + Cardinality(leaked') = MaxConnections
    <3>1. PICK m \in Nat, n \in Nat :
             /\ m = Cardinality(N!Short) /\ n = Cardinality(leaked)
             /\ slots + m + n = MaxConnections /\ IsFiniteSet(leaked)
      BY ShortMoves DEF ServerInv, SlotsOK
    <3>2. IsFiniteSet(N!Short') /\ Cardinality(N!Short') = m
      BY <1>1, <1>2, <3>1, ShortMoves DEF ServerInv
    <3>3. IsFiniteSet(leaked') /\ Cardinality(leaked') = n + 1
      BY <1>1, <3>1, ShortMoves DEF ServerInv
    <3>4. slots \in Nat /\ MaxConnections \in Nat
      BY ServerLimits DEF ServerInv, ServerTypes
    <3>5. QED
      BY <1>1, <3>1, <3>2, <3>3, <3>4
  <2>2. /\ \A b \in leaked' : conn'[b] = "ended"
        /\ \A b \in Clients :
              b \in detached' <=> conn'[b] \in {"upgraded", "joining", "socket", "leaving"}
    BY <1>1, <1>2 DEF ServerInv, SlotsOK, ServerTypes
  <2>3. QED
    BY <2>1, <2>2 DEF SlotsOK
<1>5. ListsOK' /\ FramesOK' /\ N!OneBroadcaster'
  BY <1>1, <1>2, SocketsStay
<1>6. QED
  BY <1>3, <1>4, <1>5 DEF ServerInv

LEMMA EndThreadStep ==
    ASSUME ServerInv, NEW c \in Clients, N!EndThread(c)
    PROVE  ServerInv'
<1>1. /\ conn' = [conn EXCEPT ![c] = "ended"] /\ conn[c] \in {"short", "leaving"}
      /\ slots' = IF c \in detached THEN slots ELSE slots + 1
      /\ detached' = detached \ {c}
      /\ UNCHANGED <<leaked, mine, wire, slow, caster, current, server>>
  BY DEF N!EndThread, N!sockets
<1>2. /\ conn' \in [Clients -> ConnPlaces] /\ conn'[c] = "ended"
      /\ \A b \in Clients : b # c => conn'[b] = conn[b]
      /\ N!Short' = N!Short \ {c}
  BY <1>1, ConnMoves DEF ServerInv, ConnPlaces
<1>3. ServerTypes'
  BY <1>1, <1>2 DEF ServerInv, ServerTypes
<1>4. SlotsOK'
  <2>1. slots' = IF conn[c] = "short" THEN slots + 1 ELSE slots
    BY <1>1 DEF ServerInv, SlotsOK
  <2>2. /\ IsFiniteSet(N!Short') /\ IsFiniteSet(leaked')
        /\ slots' + Cardinality(N!Short') + Cardinality(leaked') = MaxConnections
    <3>1. PICK m \in Nat, n \in Nat :
             /\ m = Cardinality(N!Short) /\ n = Cardinality(leaked)
             /\ slots + m + n = MaxConnections /\ IsFiniteSet(leaked)
      BY ShortMoves DEF ServerInv, SlotsOK
    <3>2. IsFiniteSet(N!Short') /\ Cardinality(N!Short') = IF conn[c] = "short" THEN m - 1 ELSE m
      BY <1>1, <1>2, <3>1, ShortMoves DEF ServerInv
    <3>3. IsFiniteSet(leaked') /\ Cardinality(leaked') = n
      BY <1>1, <3>1, ShortMoves DEF ServerInv
    <3>4. slots \in Nat /\ MaxConnections \in Nat
      BY ServerLimits DEF ServerInv, ServerTypes
    <3>5. QED
      BY <1>1, <2>1, <3>1, <3>2, <3>3, <3>4
  <2>3. /\ \A b \in leaked' : conn'[b] = "ended"
        /\ \A b \in Clients :
              b \in detached' <=> conn'[b] \in {"upgraded", "joining", "socket", "leaving"}
    BY <1>1, <1>2 DEF ServerInv, SlotsOK, ServerTypes
  <2>4. QED
    BY <2>2, <2>3 DEF SlotsOK
<1>5. ListsOK' /\ FramesOK' /\ N!OneBroadcaster'
  BY <1>1, <1>2, SocketsStay
<1>6. QED
  BY <1>3, <1>4, <1>5 DEF ServerInv

LEMMA UpgradeStep ==
    ASSUME ServerInv, NEW c \in Clients, N!Upgrade(c)
    PROVE  ServerInv'
<1>1. /\ conn' = [conn EXCEPT ![c] = "upgraded"] /\ conn[c] = "short"
      /\ slots' = slots + 1 /\ detached' = detached \cup {c}
      /\ UNCHANGED <<leaked, mine, wire, slow, caster, current, server>>
  BY DEF N!Upgrade, N!sockets
<1>2. /\ conn' \in [Clients -> ConnPlaces] /\ conn'[c] = "upgraded"
      /\ \A b \in Clients : b # c => conn'[b] = conn[b]
      /\ N!Short' = N!Short \ {c}
  BY <1>1, ConnMoves DEF ServerInv, ConnPlaces
<1>3. ServerTypes'
  BY <1>1, <1>2 DEF ServerInv, ServerTypes
<1>4. SlotsOK'
  <2>1. /\ IsFiniteSet(N!Short') /\ IsFiniteSet(leaked')
        /\ slots' + Cardinality(N!Short') + Cardinality(leaked') = MaxConnections
    <3>1. PICK m \in Nat, n \in Nat :
             /\ m = Cardinality(N!Short) /\ n = Cardinality(leaked)
             /\ slots + m + n = MaxConnections /\ IsFiniteSet(leaked)
      BY ShortMoves DEF ServerInv, SlotsOK
    <3>2. IsFiniteSet(N!Short') /\ Cardinality(N!Short') = m - 1
      BY <1>1, <1>2, <3>1, ShortMoves DEF ServerInv
    <3>3. IsFiniteSet(leaked') /\ Cardinality(leaked') = n
      BY <1>1, <3>1, ShortMoves DEF ServerInv
    <3>4. slots \in Nat /\ MaxConnections \in Nat
      BY ServerLimits DEF ServerInv, ServerTypes
    <3>5. QED
      BY <1>1, <3>1, <3>2, <3>3, <3>4
  <2>2. /\ \A b \in leaked' : conn'[b] = "ended"
        /\ \A b \in Clients :
              b \in detached' <=> conn'[b] \in {"upgraded", "joining", "socket", "leaving"}
    BY <1>1, <1>2 DEF ServerInv, SlotsOK, ServerTypes
  <2>3. QED
    BY <2>1, <2>2 DEF SlotsOK
<1>5. ListsOK' /\ FramesOK' /\ N!OneBroadcaster'
  BY <1>1, <1>2, SocketsStay
<1>6. QED
  BY <1>3, <1>4, <1>5 DEF ServerInv

\* The slots, while a connection moves that has given its own back.
LEMMA SlotsStay ==
    ASSUME ServerInv, NEW c \in Clients, NEW p \in {"joining", "socket", "leaving"},
           conn[c] \in {"upgraded", "joining", "socket"},
           conn' = [conn EXCEPT ![c] = p], UNCHANGED <<slots, detached, leaked>>
    PROVE  SlotsOK'
<1>1. /\ conn' \in [Clients -> ConnPlaces] /\ conn'[c] = p
      /\ \A b \in Clients : b # c => conn'[b] = conn[b]
      /\ N!Short' = N!Short \ {c} /\ c \notin N!Short
  BY ConnMoves DEF ServerInv, ConnPlaces, N!Short
<1>2. N!Short' = N!Short
  BY <1>1
<1>3. /\ \A b \in leaked' : conn'[b] = "ended"
      /\ \A b \in Clients :
            b \in detached' <=> conn'[b] \in {"upgraded", "joining", "socket", "leaving"}
  BY <1>1 DEF ServerInv, SlotsOK, ServerTypes
<1>4. QED
  BY <1>2, <1>3 DEF ServerInv, SlotsOK

\* A broadcaster that moves.
LEMMA CasterMoves ==
    ASSUME ServerTypes, NEW g \in 1..Casters, NEW state \in CasterType,
           caster' = [caster EXCEPT ![g] = state]
    PROVE  /\ caster' \in [1..Casters -> CasterType] /\ caster'[g] = state
           /\ \A h \in 1..Casters : h # g => caster'[h] = caster[h]
BY DEF ServerTypes

LEMMA GetBroadcasterStep ==
    ASSUME ServerInv, NEW c \in Clients, N!GetBroadcaster(c)
    PROVE  ServerInv'
<1>1. /\ conn' = [conn EXCEPT ![c] = "joining"] /\ conn[c] = "upgraded"
      /\ UNCHANGED <<slots, detached, leaked, wire, slow, server>>
  BY DEF N!GetBroadcaster
<1>2. /\ conn' \in [Clients -> ConnPlaces] /\ conn'[c] = "joining"
      /\ \A b \in Clients : b # c => conn'[b] = conn[b]
  BY <1>1, ConnMoves DEF ServerInv, ConnPlaces
<1>3. SlotsOK'
  BY <1>1, SlotsStay
<1>4. PICK g \in 1..Casters :
         /\ mine' = [mine EXCEPT ![c] = g] /\ current' = g
         /\ \/ current = g /\ caster' = caster
            \/ current = 0 /\ caster' = [caster EXCEPT ![g] = [@ EXCEPT !.pc = "wait"]]
  <2>1. CASE current # 0
    BY <2>1 DEF N!GetBroadcaster, ServerInv, ServerTypes
  <2>2. CASE current = 0
    <3>1. N!Newest \in Nat
      <4> DEFINE Born == {g \in 1..Casters : caster[g].pc # "none"}
      <4>1. Born \in SUBSET (1..Casters) /\ IsFiniteSet(1..Casters)
        BY FS_Interval, ServerLimits
      <4>2. N!Newest = Cardinality(Born)
        BY SameCount DEF N!Newest, N!Caster
      <4> HIDE DEF Born
      <4>3. QED
        BY <4>1, <4>2, FS_Subset, FS_CardinalityType
    <3>2. PICK g \in Nat : g = N!Newest + 1
      BY <3>1
    <3>3. /\ g \in 1..Casters /\ current' = g /\ mine' = [mine EXCEPT ![c] = g]
          /\ caster' = [caster EXCEPT ![g].pc = "wait"]
      BY <2>2, <3>1, <3>2, ServerLimits DEF N!GetBroadcaster
    <3>4. QED
      BY <2>2, <3>3
  <2>3. QED
    BY <2>1, <2>2
<1>5. /\ mine' \in [Clients -> 0..Casters] /\ mine'[c] = g /\ g # 0
      /\ \A b \in Clients : b # c => mine'[b] = mine[b]
  BY <1>4 DEF ServerInv, ServerTypes
<1>6. /\ caster' \in [1..Casters -> CasterType]
      /\ \A h \in 1..Casters :
            /\ h # g => caster'[h] = caster[h]
            /\ caster'[h].clients = caster[h].clients /\ caster'[h].stop = caster[h].stop
            /\ caster'[h].to = caster[h].to /\ caster'[h].dead = caster[h].dead
  <2>1. CASE caster' = caster
    BY <2>1 DEF ServerInv, ServerTypes
  <2>2. CASE caster' = [caster EXCEPT ![g] = [@ EXCEPT !.pc = "wait"]]
    <3> DEFINE state == [caster[g] EXCEPT !.pc = "wait"]
    <3>1. /\ state \in CasterType /\ state.clients = caster[g].clients
          /\ state.stop = caster[g].stop /\ state.to = caster[g].to /\ state.dead = caster[g].dead
      <4>1. caster[g] \in CasterType
        BY DEF ServerInv, ServerTypes
      <4>2. QED
        BY <4>1 DEF CasterType
    <3>2. caster' = [caster EXCEPT ![g] = state]
      BY <2>2
    <3> HIDE DEF state
    <3>3. QED
      BY <3>1, <3>2, CasterMoves DEF ServerInv
  <2>3. QED
    BY <1>4, <2>1, <2>2
<1>7. ServerTypes'
  BY <1>1, <1>2, <1>4, <1>5, <1>6 DEF ServerInv, ServerTypes
<1>8. ListsOK'
  BY <1>1, <1>2, <1>5, <1>6 DEF ServerInv, ListsOK, N!ClientsAreListed, N!Caster
<1>9. FramesOK'
  BY <1>1, <1>6 DEF ServerInv, FramesOK, N!FramesAreWhole, N!Caster
<1>10. N!OneBroadcaster'
  <2>1. SUFFICES ASSUME NEW h \in 1..Casters
                 PROVE  /\ caster'[h].pc \notin {"none", "ended"} /\ ~caster'[h].stop
                              => h = current'
                        /\ server' # "serving" /\ h = current' => \E b \in Clients : mine'[b] = h
    BY DEF N!OneBroadcaster, N!Caster
  <2>2. h = current' => mine'[c] = h
    BY <1>4, <1>5
  <2>3. CASE h = g
    BY <1>4, <2>2, <2>3
  <2>4. CASE h # g
    BY <1>4, <1>6, <2>4 DEF ServerInv, N!OneBroadcaster, N!Caster
  <2>5. QED
    BY <2>3, <2>4
<1>11. QED
  BY <1>3, <1>7, <1>8, <1>9, <1>10 DEF ServerInv

\* The client that a handler puts on the list of its broadcaster, or takes off.
LEMMA ListMoves ==
    ASSUME ServerInv, NEW c \in Clients, NEW g \in 1..Casters, NEW cs \in SUBSET Clients,
           caster' = [caster EXCEPT ![g] = [@ EXCEPT !.clients = cs]]
    PROVE  /\ caster' \in [1..Casters -> CasterType] /\ caster'[g].clients = cs
           /\ \A h \in 1..Casters :
                 /\ h # g => caster'[h] = caster[h]
                 /\ caster'[h].pc = caster[h].pc /\ caster'[h].stop = caster[h].stop
                 /\ caster'[h].to = caster[h].to /\ caster'[h].dead = caster[h].dead
<1> DEFINE state == [caster[g] EXCEPT !.clients = cs]
<1>1. /\ state \in CasterType /\ state.clients = cs /\ state.pc = caster[g].pc
      /\ state.stop = caster[g].stop /\ state.to = caster[g].to /\ state.dead = caster[g].dead
  <2>1. caster[g] \in CasterType
    BY DEF ServerInv, ServerTypes
  <2>2. QED
    BY <2>1 DEF CasterType
<1>2. caster' = [caster EXCEPT ![g] = state]
  OBVIOUS
<1> HIDE DEF state
<1>3. QED
  BY <1>1, <1>2, CasterMoves DEF ServerInv

LEMMA AddClientStep ==
    ASSUME ServerInv, NEW c \in Clients, N!AddClient(c)
    PROVE  ServerInv'
<1>1. /\ conn' = [conn EXCEPT ![c] = "socket"] /\ conn[c] = "joining"
      /\ UNCHANGED <<slots, detached, leaked, mine, wire, slow, current, server>>
  BY DEF N!AddClient
<1>2. PICK g \in 1..Casters :
         /\ mine[c] = g
         /\ caster' = [caster EXCEPT ![g] = [@ EXCEPT !.clients = caster[g].clients \cup {c}]]
  <2>1. mine[c] \in 1..Casters
    BY <1>1, ServerLimits DEF ServerInv, ServerTypes, ListsOK
  <2>2. QED
    BY <2>1 DEF N!AddClient
<1>3. PICK cs \in SUBSET Clients : cs = caster[g].clients \cup {c}
  BY DEF ServerInv, ServerTypes, CasterType
<1>4. /\ caster' \in [1..Casters -> CasterType]
      /\ caster'[g].clients = caster[g].clients \cup {c}
      /\ \A h \in 1..Casters :
            /\ h # g => caster'[h] = caster[h]
            /\ caster'[h].pc = caster[h].pc /\ caster'[h].stop = caster[h].stop
            /\ caster'[h].to = caster[h].to /\ caster'[h].dead = caster[h].dead
  <2>1. caster' = [caster EXCEPT ![g] = [@ EXCEPT !.clients = cs]]
    BY <1>2, <1>3
  <2>2. QED
    BY <1>3, <2>1, ListMoves
<1>5. /\ conn' \in [Clients -> ConnPlaces] /\ conn'[c] = "socket"
      /\ \A b \in Clients : b # c => conn'[b] = conn[b]
  BY <1>1, ConnMoves DEF ServerInv, ConnPlaces
<1>6. ServerTypes'
  BY <1>1, <1>4, <1>5 DEF ServerInv, ServerTypes
<1>7. SlotsOK'
  BY <1>1, SlotsStay
<1>8. ListsOK'
  <2>1. N!ClientsAreListed'
    <3>1. SUFFICES ASSUME NEW b \in Clients
                   PROVE  /\ conn'[b] = "socket" => b \in caster'[mine[b]].clients \cup slow
                          /\ \A h \in 1..Casters : b \in caster'[h].clients =>
                                conn'[b] = "socket" /\ mine[b] = h
      BY <1>1 DEF N!ClientsAreListed, N!Caster
    <3>2. \A h \in 1..Casters : b \in caster'[h].clients =>
             b \in caster[h].clients \/ (b = c /\ h = g)
      BY <1>4
    <3>3. \A h \in 1..Casters : caster[h].clients \subseteq caster'[h].clients
      BY <1>4
    <3>4. conn[b] = "socket" => mine[b] \in 1..Casters
      BY ServerLimits DEF ServerInv, ServerTypes, ListsOK
    <3>5. QED
      BY <1>1, <1>2, <1>4, <1>5, <3>2, <3>3, <3>4
         DEF ServerInv, ListsOK, N!ClientsAreListed, N!Caster
  <2>2. QED
    BY <1>1, <1>4, <1>5, <2>1 DEF ServerInv, ListsOK
<1>9. FramesOK'
  BY <1>1, <1>4 DEF ServerInv, FramesOK, N!FramesAreWhole, N!Caster
<1>10. N!OneBroadcaster'
  BY <1>1, <1>4 DEF ServerInv, N!OneBroadcaster, N!Caster
<1>11. QED
  BY <1>6, <1>7, <1>8, <1>9, <1>10 DEF ServerInv

LEMMA RemoveClientStep ==
    ASSUME ServerInv, NEW c \in Clients, N!RemoveClient(c)
    PROVE  ServerInv'
<1>1. /\ conn' = [conn EXCEPT ![c] = "leaving"] /\ conn[c] = "socket"
      /\ UNCHANGED <<slots, detached, leaked, mine, wire, slow, current, server>>
  BY DEF N!RemoveClient
<1>2. PICK g \in 1..Casters :
         /\ mine[c] = g
         /\ caster' = [caster EXCEPT ![g] = [@ EXCEPT !.clients = caster[g].clients \ {c}]]
  <2>1. mine[c] \in 1..Casters
    BY <1>1, ServerLimits DEF ServerInv, ServerTypes, ListsOK
  <2>2. QED
    BY <2>1 DEF N!RemoveClient
<1>3. PICK cs \in SUBSET Clients : cs = caster[g].clients \ {c}
  BY DEF ServerInv, ServerTypes, CasterType
<1>4. /\ caster' \in [1..Casters -> CasterType]
      /\ caster'[g].clients = caster[g].clients \ {c}
      /\ \A h \in 1..Casters :
            /\ h # g => caster'[h] = caster[h]
            /\ caster'[h].pc = caster[h].pc /\ caster'[h].stop = caster[h].stop
            /\ caster'[h].to = caster[h].to /\ caster'[h].dead = caster[h].dead
  <2>1. caster' = [caster EXCEPT ![g] = [@ EXCEPT !.clients = cs]]
    BY <1>2, <1>3
  <2>2. QED
    BY <1>3, <2>1, ListMoves
<1>5. /\ conn' \in [Clients -> ConnPlaces] /\ conn'[c] = "leaving"
      /\ \A b \in Clients : b # c => conn'[b] = conn[b]
  BY <1>1, ConnMoves DEF ServerInv, ConnPlaces
<1>6. ServerTypes'
  BY <1>1, <1>4, <1>5 DEF ServerInv, ServerTypes
<1>7. SlotsOK'
  BY <1>1, SlotsStay
<1>8. ListsOK'
  <2>1. N!ClientsAreListed'
    <3>1. SUFFICES ASSUME NEW b \in Clients
                   PROVE  /\ conn'[b] = "socket" => b \in caster'[mine[b]].clients \cup slow
                          /\ \A h \in 1..Casters : b \in caster'[h].clients =>
                                conn'[b] = "socket" /\ mine[b] = h
      BY <1>1 DEF N!ClientsAreListed, N!Caster
    <3>2. \A h \in 1..Casters :
             /\ b \in caster'[h].clients => b \in caster[h].clients /\ ~(b = c /\ h = g)
             /\ b # c /\ b \in caster[h].clients => b \in caster'[h].clients
      BY <1>4
    <3>3. conn[b] = "socket" => mine[b] \in 1..Casters
      BY ServerLimits DEF ServerInv, ServerTypes, ListsOK
    <3>4. QED
      BY <1>1, <1>2, <1>5, <3>2, <3>3
         DEF ServerInv, ListsOK, N!ClientsAreListed, N!Caster
  <2>2. QED
    BY <1>1, <1>4, <1>5, <2>1 DEF ServerInv, ListsOK
<1>9. FramesOK'
  BY <1>1, <1>4 DEF ServerInv, FramesOK, N!FramesAreWhole, N!Caster
<1>10. N!OneBroadcaster'
  BY <1>1, <1>4 DEF ServerInv, N!OneBroadcaster, N!Caster
<1>11. QED
  BY <1>6, <1>7, <1>8, <1>9, <1>10 DEF ServerInv

LEMMA PongStep ==
    ASSUME ServerInv, NEW c \in Clients, N!Pong(c)
    PROVE  ServerInv'
<1>1. /\ wire' = [wire EXCEPT ![c] = IF @ = "half" THEN "mixed" ELSE @]
      /\ UNCHANGED <<conn, slots, detached, leaked, mine, slow, caster, current, server>>
  BY DEF N!Pong
<1>2. /\ wire' \in [Clients -> {"whole", "half", "mixed"}]
      /\ \A b \in Clients : wire'[b] = "half" => wire[b] = "half"
  <2>1. wire[c] \in {"whole", "half", "mixed"}
    BY DEF ServerInv, ServerTypes
  <2>2. QED
    BY <1>1, <2>1 DEF ServerInv, ServerTypes
<1>3. N!Short' = N!Short
  BY <1>1 DEF N!Short
<1>4. ServerTypes' /\ SlotsOK'
  BY <1>1, <1>2, <1>3 DEF ServerInv, ServerTypes, SlotsOK
<1>5. ListsOK' /\ N!OneBroadcaster'
  BY <1>1 DEF ServerInv, ListsOK, N!ClientsAreListed, N!OneBroadcaster, N!Caster
<1>6. FramesOK'
  BY <1>1, <1>2 DEF ServerInv, FramesOK, N!FramesAreWhole, N!Caster
<1>7. QED
  BY <1>4, <1>5, <1>6 DEF ServerInv

\* What a step of the thread of a broadcaster has to leave in order: whom it
\* takes off its list was given up, and so is who keeps half a frame, unless
\* it is being sent to.
LEMMA CasterStep ==
    ASSUME ServerInv, NEW g \in 1..Casters, NEW state \in CasterType,
           caster' = [caster EXCEPT ![g] = state],
           UNCHANGED <<conn, slots, detached, leaked, mine, current, server>>,
           wire' \in [Clients -> {"whole", "half", "mixed"}],
           slow' \in SUBSET Clients, slow \subseteq slow',
           caster[g].pc \in {"wait", "send"}, state.stop = caster[g].stop,
           state.clients \subseteq caster[g].clients,
           caster[g].clients \ state.clients \subseteq slow',
           state.dead \subseteq slow', \A b, c \in state.to : b = c,
           \A c \in Clients : wire'[c] = "half" =>
               c \in slow' \cup state.to \/ (wire[c] = "half" /\ c \notin caster[g].to)
    PROVE  ServerInv'
<1>1. /\ caster' \in [1..Casters -> CasterType] /\ caster'[g] = state
      /\ \A h \in 1..Casters : h # g => caster'[h] = caster[h]
  BY CasterMoves DEF ServerInv
<1>2. N!Short' = N!Short
  BY DEF N!Short
<1>3. ServerTypes' /\ SlotsOK'
  BY <1>1, <1>2 DEF ServerInv, ServerTypes, SlotsOK
<1>4. ListsOK'
  <2>1. N!ClientsAreListed'
    <3>1. SUFFICES ASSUME NEW b \in Clients
                   PROVE  /\ conn[b] = "socket" => b \in caster'[mine[b]].clients \cup slow'
                          /\ \A h \in 1..Casters : b \in caster'[h].clients =>
                                conn[b] = "socket" /\ mine[b] = h
      BY DEF N!ClientsAreListed, N!Caster
    <3>2. \A h \in 1..Casters :
             /\ b \in caster'[h].clients => b \in caster[h].clients
             /\ b \in caster[h].clients => b \in caster'[h].clients \cup slow'
      BY <1>1
    <3>3. conn[b] = "socket" => mine[b] \in 1..Casters
      BY ServerLimits DEF ServerInv, ServerTypes, ListsOK
    <3>4. QED
      BY <3>2, <3>3 DEF ServerInv, ListsOK, N!ClientsAreListed, N!Caster
  <2>2. QED
    BY <1>1, <2>1 DEF ServerInv, ListsOK
<1>5. FramesOK'
  <2>1. ASSUME NEW c \in Clients, wire'[c] = "half"
        PROVE  c \in slow' \/ \E h \in 1..Casters : c \in caster'[h].to
    <3>1. CASE c \in slow' \cup state.to
      BY <1>1, <3>1
    <3>2. CASE wire[c] = "half" /\ c \notin caster[g].to
      BY <1>1, <3>2 DEF ServerInv, FramesOK, N!FramesAreWhole, N!Caster
    <3>3. QED
      BY <2>1, <3>1, <3>2
  <2>2. QED
    BY <1>1, <2>1 DEF ServerInv, FramesOK, N!FramesAreWhole, N!Caster
<1>6. N!OneBroadcaster'
  BY <1>1 DEF ServerInv, N!OneBroadcaster, N!Caster
<1>7. QED
  BY <1>3, <1>4, <1>5, <1>6 DEF ServerInv

LEMMA CasterTyped ==
    ASSUME ServerInv, NEW g \in 1..Casters
    PROVE  /\ caster[g] \in CasterType /\ caster[g].dead \subseteq slow
           /\ wire \in [Clients -> {"whole", "half", "mixed"}] /\ slow \in SUBSET Clients
           /\ \A b, c \in caster[g].to : b = c
           /\ \A c \in caster[g].to : wire[c] = "half" => c \in slow \cup caster[g].to
BY DEF ServerInv, ServerTypes, ListsOK, FramesOK

LEMMA SnapshotStep ==
    ASSUME ServerInv, NEW g \in 1..Casters, N!Snapshot(g)
    PROVE  ServerInv'
<1> DEFINE state == [caster[g] EXCEPT !.pc = "send", !.todo = caster[g].clients]
<1>1. /\ caster[g].pc = "wait" /\ caster' = [caster EXCEPT ![g] = state]
      /\ UNCHANGED <<conn, slots, detached, leaked, mine, wire, slow, current, server>>
  BY DEF N!Snapshot, N!Becomes, N!connections
<1>2. /\ state \in CasterType /\ state.stop = caster[g].stop /\ state.dead = caster[g].dead
      /\ state.clients = caster[g].clients /\ state.to = caster[g].to
  <2>1. caster[g] \in CasterType
    BY CasterTyped
  <2>2. state \in CasterType
    BY <2>1 DEF CasterType
  <2>3. /\ state.stop = caster[g].stop /\ state.dead = caster[g].dead
        /\ state.clients = caster[g].clients /\ state.to = caster[g].to
    BY <2>1 DEF CasterType
  <2>4. QED
    BY <2>2, <2>3
<1> HIDE DEF state
<1>3. /\ wire' \in [Clients -> {"whole", "half", "mixed"}]
      /\ slow' \in SUBSET Clients /\ slow \subseteq slow' /\ state.dead \subseteq slow'
      /\ caster[g].clients \ state.clients \subseteq slow'
      /\ \A b, c \in state.to : b = c
      /\ \A c \in Clients : wire'[c] = "half" =>
            c \in slow' \cup state.to \/ (wire[c] = "half" /\ c \notin caster[g].to)
  BY <1>1, <1>2, CasterTyped
<1>4. QED
  BY <1>1, <1>2, <1>3, CasterStep

LEMMA SendStep ==
    ASSUME ServerInv, NEW g \in 1..Casters, N!Send(g)
    PROVE  ServerInv'
<1>1. PICK c \in caster[g].todo :
         \/ /\ N!Becomes(g, [caster[g] EXCEPT !.todo = @ \ {c}])
            /\ UNCHANGED <<wire, slow>>
         \/ /\ N!Becomes(g, [caster[g] EXCEPT !.todo = @ \ {c}, !.dead = @ \cup {c}])
            /\ slow' = slow \cup {c}
            /\ UNCHANGED wire
         \/ /\ N!Becomes(g, [caster[g] EXCEPT !.todo = @ \ {c}, !.to = {c}])
            /\ wire' = [wire EXCEPT ![c] = IF @ = "whole" THEN "half" ELSE @]
            /\ UNCHANGED slow
  BY DEF N!Send
<1>2. /\ caster[g].pc = "send" /\ caster[g].to = {} /\ c \in Clients
      /\ UNCHANGED <<conn, slots, detached, leaked, mine, current, server>>
  BY CasterTyped DEF N!Send, N!connections, CasterType
<1>3. CASE /\ N!Becomes(g, [caster[g] EXCEPT !.todo = @ \ {c}])
           /\ UNCHANGED <<wire, slow>>
  <2> DEFINE state == [caster[g] EXCEPT !.todo = @ \ {c}]
  <2>1. caster' = [caster EXCEPT ![g] = state]
    BY <1>3 DEF N!Becomes
  <2>2. /\ state \in CasterType /\ state.stop = caster[g].stop /\ state.dead = caster[g].dead
        /\ state.clients = caster[g].clients /\ state.to = caster[g].to
    <3>1. caster[g] \in CasterType
      BY CasterTyped
    <3>2. state \in CasterType
      BY <3>1 DEF CasterType
    <3>3. /\ state.stop = caster[g].stop /\ state.dead = caster[g].dead
          /\ state.clients = caster[g].clients /\ state.to = caster[g].to
      BY <3>1 DEF CasterType
    <3>4. QED
      BY <3>2, <3>3
  <2> HIDE DEF state
  <2>3. QED
    BY <1>2, <1>3, <2>1, <2>2, CasterStep, CasterTyped
<1>4. CASE /\ N!Becomes(g, [caster[g] EXCEPT !.todo = @ \ {c}, !.dead = @ \cup {c}])
           /\ slow' = slow \cup {c}
           /\ UNCHANGED wire
  <2> DEFINE state == [caster[g] EXCEPT !.todo = @ \ {c}, !.dead = @ \cup {c}]
  <2>1. caster' = [caster EXCEPT ![g] = state]
    BY <1>4 DEF N!Becomes
  <2>2. /\ state \in CasterType /\ state.stop = caster[g].stop
        /\ state.dead = caster[g].dead \cup {c}
        /\ state.clients = caster[g].clients /\ state.to = caster[g].to
    <3>1. caster[g] \in CasterType
      BY <1>2, CasterTyped
    <3>2. state \in CasterType
      BY <1>2, <3>1 DEF CasterType
    <3>3. /\ state.stop = caster[g].stop
          /\ state.dead = caster[g].dead \cup {c}
          /\ state.clients = caster[g].clients /\ state.to = caster[g].to
      BY <1>2, <3>1 DEF CasterType
    <3>4. QED
      BY <3>2, <3>3
  <2> HIDE DEF state
  <2>3. /\ slow' \in SUBSET Clients /\ slow \subseteq slow' /\ state.dead \subseteq slow'
        /\ wire' \in [Clients -> {"whole", "half", "mixed"}]
    BY <1>2, <1>4, <2>2, CasterTyped
  <2>4. QED
    BY <1>2, <1>4, <2>1, <2>2, <2>3, CasterStep, CasterTyped
<1>5. CASE /\ N!Becomes(g, [caster[g] EXCEPT !.todo = @ \ {c}, !.to = {c}])
           /\ wire' = [wire EXCEPT ![c] = IF @ = "whole" THEN "half" ELSE @]
           /\ UNCHANGED slow
  <2> DEFINE state == [caster[g] EXCEPT !.todo = @ \ {c}, !.to = {c}]
  <2>1. caster' = [caster EXCEPT ![g] = state]
    BY <1>5 DEF N!Becomes
  <2>2. /\ state \in CasterType /\ state.stop = caster[g].stop /\ state.dead = caster[g].dead
        /\ state.clients = caster[g].clients /\ state.to = {c}
    <3>1. caster[g] \in CasterType
      BY <1>2, CasterTyped
    <3>2. state \in CasterType
      BY <1>2, <3>1 DEF CasterType
    <3>3. /\ state.stop = caster[g].stop /\ state.dead = caster[g].dead
          /\ state.clients = caster[g].clients /\ state.to = {c}
      BY <1>2, <3>1 DEF CasterType
    <3>4. QED
      BY <3>2, <3>3
  <2> HIDE DEF state
  <2>3. /\ wire' \in [Clients -> {"whole", "half", "mixed"}]
        /\ \A b \in Clients : wire'[b] = "half" => b = c \/ wire[b] = "half"
    <3>1. wire[c] \in {"whole", "half", "mixed"}
      BY <1>2, CasterTyped
    <3>2. QED
      BY <1>2, <1>5, <3>1, CasterTyped
  <2>4. /\ slow' \in SUBSET Clients /\ slow \subseteq slow' /\ state.dead \subseteq slow'
        /\ caster[g].clients \ state.clients \subseteq slow'
        /\ \A a, b \in state.to : a = b
        /\ \A b \in Clients : wire'[b] = "half" =>
              b \in slow' \cup state.to \/ (wire[b] = "half" /\ b \notin caster[g].to)
    BY <1>2, <1>5, <2>2, <2>3, CasterTyped
  <2>5. QED
    BY <1>2, <1>5, <2>1, <2>2, <2>3, <2>4, CasterStep
<1>6. QED
  BY <1>1, <1>3, <1>4, <1>5

LEMMA SendRestStep ==
    ASSUME ServerInv, NEW g \in 1..Casters, N!SendRest(g)
    PROVE  ServerInv'
<1>1. PICK c \in caster[g].to :
         \/ /\ N!Becomes(g, [caster[g] EXCEPT !.to = {}])
            /\ wire' = [wire EXCEPT ![c] = IF @ = "half" THEN "whole" ELSE @]
            /\ UNCHANGED slow
         \/ /\ N!Becomes(g, [caster[g] EXCEPT !.to = {}, !.dead = @ \cup {c}])
            /\ slow' = slow \cup {c}
            /\ UNCHANGED wire
  BY DEF N!SendRest
<1>2. /\ caster[g].pc = "send" /\ caster[g].to = {c} /\ c \in Clients
      /\ UNCHANGED <<conn, slots, detached, leaked, mine, current, server>>
  BY CasterTyped DEF N!SendRest, N!connections, CasterType
<1>3. CASE /\ N!Becomes(g, [caster[g] EXCEPT !.to = {}])
           /\ wire' = [wire EXCEPT ![c] = IF @ = "half" THEN "whole" ELSE @]
           /\ UNCHANGED slow
  <2> DEFINE state == [caster[g] EXCEPT !.to = {}]
  <2>1. caster' = [caster EXCEPT ![g] = state]
    BY <1>3 DEF N!Becomes
  <2>2. /\ state \in CasterType /\ state.stop = caster[g].stop /\ state.dead = caster[g].dead
        /\ state.clients = caster[g].clients /\ state.to = {}
    <3>1. caster[g] \in CasterType
      BY CasterTyped
    <3>2. state \in CasterType
      BY <3>1 DEF CasterType
    <3>3. /\ state.stop = caster[g].stop /\ state.dead = caster[g].dead
          /\ state.clients = caster[g].clients /\ state.to = {}
      BY <3>1 DEF CasterType
    <3>4. QED
      BY <3>2, <3>3
  <2> HIDE DEF state
  <2>3. /\ wire' \in [Clients -> {"whole", "half", "mixed"}]
        /\ \A b \in Clients : wire'[b] = "half" => b # c /\ wire[b] = "half"
    <3>1. wire[c] \in {"whole", "half", "mixed"}
      BY <1>2, CasterTyped
    <3>2. QED
      BY <1>2, <1>3, <3>1, CasterTyped
  <2>4. QED
    BY <1>2, <1>3, <2>1, <2>2, <2>3, CasterStep, CasterTyped
<1>4. CASE /\ N!Becomes(g, [caster[g] EXCEPT !.to = {}, !.dead = @ \cup {c}])
           /\ slow' = slow \cup {c}
           /\ UNCHANGED wire
  <2> DEFINE state == [caster[g] EXCEPT !.to = {}, !.dead = @ \cup {c}]
  <2>1. caster' = [caster EXCEPT ![g] = state]
    BY <1>4 DEF N!Becomes
  <2>2. /\ state \in CasterType /\ state.stop = caster[g].stop
        /\ state.dead = caster[g].dead \cup {c}
        /\ state.clients = caster[g].clients /\ state.to = {}
    <3>1. caster[g] \in CasterType
      BY <1>2, CasterTyped
    <3>2. state \in CasterType
      BY <1>2, <3>1 DEF CasterType
    <3>3. /\ state.stop = caster[g].stop
          /\ state.dead = caster[g].dead \cup {c}
          /\ state.clients = caster[g].clients /\ state.to = {}
      BY <1>2, <3>1 DEF CasterType
    <3>4. QED
      BY <3>2, <3>3
  <2> HIDE DEF state
  <2>3. /\ slow' \in SUBSET Clients /\ slow \subseteq slow' /\ state.dead \subseteq slow'
        /\ wire' \in [Clients -> {"whole", "half", "mixed"}]
        /\ \A b \in Clients : wire'[b] = "half" =>
              b \in slow' \/ (wire[b] = "half" /\ b \notin caster[g].to)
    BY <1>2, <1>4, <2>2, CasterTyped
  <2>4. QED
    BY <1>2, <1>4, <2>1, <2>2, <2>3, CasterStep, CasterTyped
<1>5. QED
  BY <1>1, <1>3, <1>4

LEMMA RemoveDeadStep ==
    ASSUME ServerInv, NEW g \in 1..Casters, N!RemoveDead(g)
    PROVE  ServerInv'
<1> DEFINE state == [caster[g] EXCEPT !.pc = "wait", !.clients = @ \ caster[g].dead,
                                      !.dead = {}]
<1>1. /\ caster[g].pc = "send" /\ caster[g].to = {} /\ caster' = [caster EXCEPT ![g] = state]
      /\ UNCHANGED <<conn, slots, detached, leaked, mine, wire, slow, current, server>>
  BY DEF N!RemoveDead, N!Becomes, N!connections
<1>2. /\ state \in CasterType /\ state.stop = caster[g].stop /\ state.dead = {}
      /\ state.clients = caster[g].clients \ caster[g].dead /\ state.to = caster[g].to
  <2>1. caster[g] \in CasterType
    BY CasterTyped
  <2>2. state \in CasterType
    BY <2>1 DEF CasterType
  <2>3. /\ state.stop = caster[g].stop /\ state.dead = {}
        /\ state.clients = caster[g].clients \ caster[g].dead /\ state.to = caster[g].to
    BY <2>1 DEF CasterType
  <2>4. QED
    BY <2>2, <2>3
<1> HIDE DEF state
<1>3. /\ state.clients \subseteq caster[g].clients
      /\ caster[g].clients \ state.clients \subseteq slow
  BY <1>2, CasterTyped
<1>4. QED
  BY <1>1, <1>2, <1>3, CasterStep, CasterTyped

LEMMA EndLoopStep ==
    ASSUME ServerInv, NEW g \in 1..Casters, N!EndLoop(g)
    PROVE  ServerInv'
<1> DEFINE state == [caster[g] EXCEPT !.pc = "ended"]
<1>1. /\ caster[g].pc = "wait" /\ caster' = [caster EXCEPT ![g] = state]
      /\ UNCHANGED <<conn, slots, detached, leaked, mine, wire, slow, current, server>>
  BY DEF N!EndLoop, N!Becomes, N!connections
<1>2. /\ state \in CasterType /\ state.stop = caster[g].stop /\ state.dead = caster[g].dead
      /\ state.clients = caster[g].clients /\ state.to = caster[g].to
  <2>1. caster[g] \in CasterType
    BY CasterTyped
  <2>2. state \in CasterType
    BY <2>1 DEF CasterType
  <2>3. /\ state.stop = caster[g].stop /\ state.dead = caster[g].dead
        /\ state.clients = caster[g].clients /\ state.to = caster[g].to
    BY <2>1 DEF CasterType
  <2>4. QED
    BY <2>2, <2>3
<1> HIDE DEF state
<1>3. /\ wire' \in [Clients -> {"whole", "half", "mixed"}]
      /\ slow' \in SUBSET Clients /\ slow \subseteq slow' /\ state.dead \subseteq slow'
      /\ caster[g].clients \ state.clients \subseteq slow'
      /\ \A b, c \in state.to : b = c
      /\ \A c \in Clients : wire'[c] = "half" =>
            c \in slow' \cup state.to \/ (wire[c] = "half" /\ c \notin caster[g].to)
  BY <1>1, <1>2, CasterTyped
<1>4. QED
  BY <1>1, <1>2, <1>3, CasterStep

LEMMA ForgetStep ==
    ASSUME ServerInv, N!Forget
    PROVE  ServerInv'
<1>1. /\ server' = "closing" /\ current' = 0
      /\ UNCHANGED <<conn, slots, detached, leaked, mine, wire, slow>>
      /\ caster' = IF current = 0 THEN caster ELSE [caster EXCEPT ![current].stop = TRUE]
  BY DEF N!Forget, N!connections
<1>2. /\ caster' \in [1..Casters -> CasterType]
      /\ \A h \in 1..Casters :
            /\ caster'[h].pc = caster[h].pc /\ caster'[h].clients = caster[h].clients
            /\ caster'[h].to = caster[h].to /\ caster'[h].dead = caster[h].dead
            /\ ~caster'[h].stop => ~caster[h].stop /\ h # current
  <2>1. CASE current = 0
    BY <1>1, <2>1 DEF ServerInv, ServerTypes
  <2>2. CASE current # 0
    <3> DEFINE state == [caster[current] EXCEPT !.stop = TRUE]
    <3>1. current \in 1..Casters
      BY <2>2, ServerLimits DEF ServerInv, ServerTypes
    <3>2. /\ state \in CasterType /\ state.pc = caster[current].pc /\ state.stop
          /\ state.clients = caster[current].clients /\ state.to = caster[current].to
          /\ state.dead = caster[current].dead
      <4>1. caster[current] \in CasterType
        BY <3>1, CasterTyped
      <4>2. state \in CasterType
        BY <3>1, <4>1 DEF CasterType
      <4>3. /\ state.pc = caster[current].pc /\ state.stop
            /\ state.clients = caster[current].clients /\ state.to = caster[current].to
            /\ state.dead = caster[current].dead
        BY <3>1, <4>1 DEF CasterType
      <4>4. QED
        BY <4>2, <4>3
    <3>3. caster' = [caster EXCEPT ![current] = state]
      BY <1>1, <2>2
    <3> HIDE DEF state
    <3>4. QED
      BY <3>1, <3>2, <3>3, CasterMoves DEF ServerInv
  <2>3. QED
    BY <2>1, <2>2
<1>3. N!Short' = N!Short
  BY <1>1 DEF N!Short
<1>4. ServerTypes' /\ SlotsOK'
  <2>1. ServerTypes'
    BY <1>1, <1>2, ServerLimits DEF ServerInv, ServerTypes
  <2>2. SlotsOK'
    BY <1>1, <1>3 DEF ServerInv, SlotsOK
  <2>3. QED
    BY <2>1, <2>2
<1>5. ListsOK'
  <2>1. \A c \in Clients : conn[c] = "socket" => mine[c] \in 1..Casters
    BY ServerLimits DEF ServerInv, ServerTypes, ListsOK
  <2>2. QED
    BY <1>1, <1>2, <2>1 DEF ServerInv, ListsOK, N!ClientsAreListed, N!Caster
<1>6. FramesOK'
  BY <1>1, <1>2 DEF ServerInv, FramesOK, N!FramesAreWhole, N!Caster
<1>7. N!OneBroadcaster'
  BY <1>1, <1>2 DEF ServerInv, N!OneBroadcaster, N!Caster
<1>8. QED
  BY <1>4, <1>5, <1>6, <1>7 DEF ServerInv

LEMMA CloseStep ==
    ASSUME ServerInv,
           N!Close \/ UNCHANGED <<conn, slots, detached, leaked, mine, wire, slow, caster,
                                  current, server>>
    PROVE  ServerInv'
<1>1. /\ UNCHANGED <<conn, slots, detached, leaked, mine, wire, slow, caster, current>>
      /\ server' \in {"serving", "closing", "closed"}
      /\ server' # "serving" => server # "serving"
  BY DEF N!Close, N!connections, ServerInv, ServerTypes
<1>2. N!Short' = N!Short
  BY <1>1 DEF N!Short
<1>3. ServerTypes' /\ SlotsOK'
  BY <1>1, <1>2 DEF ServerInv, ServerTypes, SlotsOK
<1>4. ListsOK' /\ FramesOK'
  BY <1>1 DEF ServerInv, ListsOK, FramesOK, N!ClientsAreListed, N!FramesAreWhole, N!Caster
<1>5. N!OneBroadcaster'
  BY <1>1 DEF ServerInv, N!OneBroadcaster, N!Caster
<1>6. QED
  BY <1>3, <1>4, <1>5 DEF ServerInv

LEMMA ServerKeeps == ServerInv /\ [N!Next]_(N!vars) => ServerInv'
<1> SUFFICES ASSUME ServerInv, [N!Next]_(N!vars) PROVE ServerInv'
  OBVIOUS
<1>1. ASSUME NEW c \in Clients,
             N!Accept(c) \/ N!ThreadFails(c) \/ N!EndThread(c) \/ N!Upgrade(c)
      PROVE  ServerInv'
  BY <1>1, AcceptStep, ThreadFailsStep, EndThreadStep, UpgradeStep
<1>2. ASSUME NEW c \in Clients,
             N!GetBroadcaster(c) \/ N!AddClient(c) \/ N!Pong(c) \/ N!RemoveClient(c)
      PROVE  ServerInv'
  BY <1>2, GetBroadcasterStep, AddClientStep, PongStep, RemoveClientStep
<1>3. ASSUME NEW g \in 1..Casters,
             N!Snapshot(g) \/ N!Send(g) \/ N!SendRest(g) \/ N!RemoveDead(g) \/ N!EndLoop(g)
      PROVE  ServerInv'
  BY <1>3, SnapshotStep, SendStep, SendRestStep, RemoveDeadStep, EndLoopStep
<1>4. CASE N!Forget
  BY <1>4, ForgetStep
<1>5. CASE N!Close \/ UNCHANGED N!vars
  BY <1>5, CloseStep DEF N!vars
<1>6. QED
  BY <1>1, <1>2, <1>3, <1>4, <1>5 DEF N!Next, N!Caster

LEMMA ServerInvSound == ServerInv => N!ServerIsSound
<1>1. ASSUME SlotsOK PROVE N!SlotsAreAccounted
  BY <1>1, SameCount DEF SlotsOK, N!SlotsAreAccounted
<1>2. QED
  BY <1>1 DEF ServerInv, ListsOK, FramesOK, N!ServerIsSound

\* However connections are accepted, upgraded and ended, and whatever the
\* broadcasters are doing, the slots add up, a web socket is on the list of its
\* broadcaster and nobody else is, and one broadcaster is current (server.py,
\* websocket_support.py); and no address is admitted more than it may be
\* (rate_limit.py).
THEOREM ServerStaysSound == N!Spec /\ A!Spec => []ConnectionsAreBounded
<1>1. ServerInv /\ LimiterInv => ConnectionsAreBounded
  BY ServerInvSound, LimiterInvLimits DEF ConnectionsAreBounded
<1>2. N!Spec => []ServerInv
  BY ServerStarts, ServerKeeps, PTL DEF N!Spec
<1>3. A!Spec => []LimiterInv
  BY LimiterStarts, LimiterKeeps, PTL DEF A!Spec
<1>4. QED
  BY <1>1, <1>2, <1>3, PTL

-----------------------------------------------------------------------------
(* The captures and the switch of the gateway.                             *)

CaptureType == [status : {"active", "interrupted", "finished", "deleted"}, counted : BOOLEAN]

LEMMA SmallestNumber ==
    ASSUME NEW Group \in SUBSET Nat, Group # {}
    PROVE  \E m \in Group : \A k \in Group : m <= k
<1> DEFINE Less == {pair \in Nat \X Nat : pair[1] < pair[2]}
<1>1. IsWellFoundedOn(Less, Nat)
  BY NatLessThanWellFounded DEF OpToRel
<1>2. PICK m \in Group : \A k \in Group : ~(<<k, m>> \in Less)
  <2> HIDE DEF Less
  <2>1. QED
    BY <1>1, WFMin
<1>3. ASSUME NEW k \in Group, k < m PROVE FALSE
  <2>1. <<k, m>> \in Less
    BY <1>3
  <2>2. QED
    BY <1>2, <2>1
<1>4. QED
  BY <1>3

LEMMA LargestNumber ==
    ASSUME NEW n \in Nat, NEW Group \in SUBSET (1..n), Group # {}
    PROVE  \E m \in Group : \A k \in Group : m >= k
<1> DEFINE Bounding == {m \in Nat : \A k \in Group : k <= m}
<1>1. Bounding \in SUBSET Nat /\ n \in Bounding
  OBVIOUS
<1>2. PICK m \in Bounding : \A k \in Bounding : m <= k
  <2> HIDE DEF Bounding
  <2>1. QED
    BY <1>1, SmallestNumber
<1>3. m \in Nat /\ \A k \in Group : k <= m
  BY <1>2
<1>4. ASSUME m \notin Group PROVE FALSE
  <2>1. \A k \in Group : k \in 1..n /\ k <= m - 1
    BY <1>3, <1>4
  <2>2. m - 1 \in Nat
    <3>1. PICK k \in Group : k \in 1..n /\ k <= m - 1
      BY <2>1
    <3>2. QED
      BY <1>3, <3>1
  <2>3. m - 1 \in Bounding
    BY <2>1, <2>2
  <2> HIDE DEF Bounding
  <2>4. QED
    BY <1>2, <1>3, <2>3
<1>5. QED
  BY <1>3, <1>4

\* The latest and the first capture with a status are captures with it.
LEMMA LatestIsOne ==
    ASSUME captures \in Seq(CaptureType), NEW s, C!WithStatus(s) # {}
    PROVE  /\ C!Latest(C!WithStatus(s)) \in C!WithStatus(s)
           /\ C!Min(C!WithStatus(s)) \in C!WithStatus(s)
<1> DEFINE Group == C!WithStatus(s)
<1>1. Len(captures) \in Nat /\ Group \in SUBSET (1..Len(captures)) /\ Group # {}
  BY DEF C!WithStatus, C!Ids
<1> HIDE DEF Group
<1>2. \E m \in Group : \A k \in Group : m >= k
  BY <1>1, LargestNumber
<1>3. \E m \in Group : \A k \in Group : m <= k
  BY <1>1, SmallestNumber
<1>4. C!Max(Group) \in Group
  BY <1>2 DEF C!Max
<1>5. C!Min(Group) \in Group
  BY <1>3 DEF C!Min
<1>6. C!Latest(Group) = C!Max(Group)
  BY <1>1 DEF C!Latest
<1>7. QED
  BY <1>4, <1>5, <1>6 DEF Group

\* A capture gets another status, unless its row is gone.
LEMMA SetMoves ==
    ASSUME captures \in Seq(CaptureType), NEW c,
           NEW s \in {"active", "interrupted", "finished", "deleted"}, NEW b \in BOOLEAN,
           captures' = C!Set(c, s, b)
    PROVE  /\ captures' \in Seq(CaptureType)
           /\ C!Ids' = C!Ids
           /\ \A i \in C!Ids : captures'[i].status =
                 IF i = c /\ captures[i].status # "deleted" THEN s ELSE captures[i].status
<1> DEFINE rec == IF captures[c].status = "deleted" THEN captures[c]
                  ELSE [status |-> s, counted |-> b]
<1>1. captures' = [captures EXCEPT ![c] = rec]
  BY DEF C!Set
<1>2. [status |-> s, counted |-> b] \in CaptureType
  BY DEF CaptureType
<1>3. PICK n \in Nat : n = Len(captures) /\ C!Ids = 1..n /\ captures \in [1..n -> CaptureType]
  BY DEF C!Ids
<1>4. c \in 1..n => rec \in CaptureType
  BY <1>2, <1>3
<1>5. rec.status = IF captures[c].status = "deleted" THEN captures[c].status ELSE s
  OBVIOUS
<1> HIDE DEF rec
<1>6. /\ captures' \in [1..n -> CaptureType]
      /\ \A i \in 1..n : captures'[i] = IF i = c THEN rec ELSE captures[i]
  BY <1>1, <1>3, <1>4
<1>7. captures' \in Seq(CaptureType) /\ C!Ids' = 1..n
  BY <1>6 DEF C!Ids
<1>8. QED
  BY <1>3, <1>5, <1>6, <1>7

\* A new capture is active.
LEMMA NewMoves ==
    ASSUME captures \in Seq(CaptureType), NEW bound, C!NewCapture(bound)
    PROVE  /\ captures' \in Seq(CaptureType)
           /\ C!Active' = C!Active \cup {Len(captures) + 1}
           /\ \A i \in C!Ids : captures'[i] = captures[i]
<1>1. captures' = Append(captures, [status |-> "active", counted |-> FALSE])
  BY DEF C!NewCapture
<1>2. [status |-> "active", counted |-> FALSE] \in CaptureType
  BY DEF CaptureType
<1>3. /\ captures' \in Seq(CaptureType) /\ Len(captures) \in Nat
      /\ Len(captures') = Len(captures) + 1
      /\ \A i \in 1..Len(captures) : captures'[i] = captures[i]
      /\ captures'[Len(captures) + 1] = [status |-> "active", counted |-> FALSE]
  BY <1>1, <1>2
<1>4. C!Ids = 1..Len(captures) /\ C!Ids' = 1..(Len(captures) + 1)
  BY <1>3 DEF C!Ids
<1>5. \A i : i \in C!Active' <=> i \in C!Active \cup {Len(captures) + 1}
  BY <1>3, <1>4 DEF C!Active, C!WithStatus
<1>6. QED
  BY <1>3, <1>4, <1>5

-----------------------------------------------------------------------------
(* A request where it is, when no other has been in progress with it.      *)

RequestPlaces == {"idle", "activate", "look", "state", "existing", "insert", "sample",
                  "terminate", "spawn", "check", "ids", "update", "off", "unsample",
                  "read", "count", "finish some", "finish none", "find", "delete"}
RequestType == [op : C!Operations \cup {"none"}, capture : Nat]

CaptureTypes ==
    /\ gateway \in BOOLEAN /\ captures \in Seq(CaptureType)
    /\ process \in {"down", "interrupt", "ensure", "auto gateway", "auto capture",
                    "attach", "up"}
    /\ cpc \in [Handlers -> RequestPlaces]
    /\ crequest \in [Handlers -> RequestType]
    /\ coverlapped \in BOOLEAN

\* A boot runs alone, and goes on when no capture is active.
BootOK ==
    /\ process # "up" =>
          /\ \A h \in Handlers : cpc[h] = "idle"
          /\ sampler = 0 /\ runtime = 0 /\ ~coverlapped
    /\ process \in {"ensure", "auto gateway", "auto capture"} => C!Active = {}
    /\ process = "auto gateway" => ~gateway
    /\ process = "auto capture" => gateway
    /\ process = "attach" => IF gateway THEN \E c : C!Active = {c} ELSE C!Active = {}

\* Which operation comes to a place.
OpAt(place, op) ==
    /\ place \in {"activate", "look", "sample"} => op = "activate"
    /\ place \in {"check", "ids", "update", "off", "unsample"} => op # "activate"

Single == \A a, b \in C!Active : a = b
Clean == C!Active = {} /\ sampler = 0 /\ runtime = 0

\* What the only request knows where it is: what it has read still holds.
Facts(place, op) ==
    /\ place \in {"look", "existing", "insert", "sample", "spawn"} => gateway
    /\ place \in {"insert", "off", "unsample"} => C!Active = {}
    /\ place = "unsample" => ~gateway
    /\ place = "terminate" =>
          IF op = "activate" THEN gateway ELSE ~gateway /\ C!Active = {} /\ sampler = 0
    /\ place \in {"idle", "activate", "state", "read", "check", "ids", "update", "count",
                  "finish some", "finish none", "find", "delete"} => (~gateway => Clean)

AloneOK ==
    process = "up" /\ ~coverlapped =>
        /\ Single
        /\ \A g, h \in Handlers : cpc[g] # "idle" /\ cpc[h] # "idle" => g = h
        /\ \A h \in Handlers : cpc[h] # "idle" => Facts(cpc[h], crequest[h].op)
        /\ (\A h \in Handlers : cpc[h] = "idle") => (~gateway => Clean)

CaptureInv ==
    /\ CaptureTypes /\ BootOK /\ AloneOK
    /\ \A h \in Handlers : OpAt(cpc[h], crequest[h].op)

\* A request goes to a place; when it is answered it is about nothing.
RequestMoves(h, place) ==
    /\ cpc' \in [Handlers -> RequestPlaces] /\ cpc'[h] = place
    /\ crequest' \in [Handlers -> RequestType]
    /\ place # "idle" => crequest'[h].op = crequest[h].op
    /\ \A g \in Handlers : g # h => cpc'[g] = cpc[g] /\ crequest'[g] = crequest[g]

LEMMA Goes ==
    ASSUME CaptureTypes, NEW h \in Handlers, NEW place \in RequestPlaces, C!Goto(h, place)
    PROVE  /\ cpc' \in [Handlers -> RequestPlaces] /\ cpc'[h] = place
           /\ \A g \in Handlers : g # h => cpc'[g] = cpc[g]
BY DEF CaptureTypes, C!Goto

LEMMA GotoMoves ==
    ASSUME CaptureTypes, NEW h \in Handlers, NEW place \in RequestPlaces, C!Goto(h, place),
           crequest' = crequest
    PROVE  RequestMoves(h, place)
BY Goes DEF RequestMoves, CaptureTypes

LEMMA ContinueMoves ==
    ASSUME CaptureTypes, NEW h \in Handlers, NEW place \in RequestPlaces, C!Continue(h, place)
    PROVE  RequestMoves(h, place)
<1>1. C!Goto(h, place)
      /\ crequest' = IF place = "idle" THEN [crequest EXCEPT ![h] = C!NoRequest] ELSE crequest
  BY DEF C!Continue
<1>2. C!NoRequest \in RequestType
  BY DEF C!NoRequest, RequestType
<1>3. CASE place = "idle"
  <2>1. /\ crequest' \in [Handlers -> RequestType]
        /\ \A g \in Handlers : g # h => crequest'[g] = crequest[g]
    BY <1>1, <1>2, <1>3 DEF CaptureTypes
  <2>2. QED
    BY <1>1, <1>3, <2>1, Goes DEF RequestMoves
<1>4. CASE place # "idle"
  BY <1>1, <1>4, GotoMoves
<1>5. QED
  BY <1>3, <1>4

LEMMA AboutMoves ==
    ASSUME CaptureTypes, NEW h \in Handlers, NEW place \in RequestPlaces, C!Goto(h, place),
           NEW c \in Nat, C!About(h, c)
    PROVE  RequestMoves(h, place)
<1> DEFINE new == [crequest[h] EXCEPT !.capture = c]
<1>1. crequest' = [crequest EXCEPT ![h] = new]
  BY DEF C!About
<1>2. new \in RequestType /\ new.op = crequest[h].op
  <2>1. crequest[h] \in RequestType
    BY DEF CaptureTypes
  <2>2. QED
    BY <2>1 DEF RequestType
<1> HIDE DEF new
<1>3. /\ crequest' \in [Handlers -> RequestType] /\ crequest'[h] = new
      /\ \A g \in Handlers : g # h => crequest'[g] = crequest[g]
  BY <1>1, <1>2 DEF CaptureTypes
<1>4. QED
  BY <1>2, <1>3, Goes DEF RequestMoves

\* A request in progress, and what is left to show of a step of it.
LEMMA Holding ==
    ASSUME CaptureInv, NEW h \in Handlers, cpc[h] # "idle"
    PROVE  \E op \in C!Operations \cup {"none"} :
              /\ op = crequest[h].op /\ OpAt(cpc[h], op)
              /\ process = "up" /\ CaptureTypes
              /\ ~coverlapped => Single /\ Facts(cpc[h], op)
<1>1. crequest[h].op \in C!Operations \cup {"none"}
  BY DEF CaptureInv, CaptureTypes, RequestType
<1>2. process = "up"
  BY DEF CaptureInv, BootOK
<1>3. QED
  BY <1>1, <1>2 DEF CaptureInv, AloneOK

LEMMA RequestStep ==
    ASSUME CaptureInv, NEW h \in Handlers, cpc[h] # "idle",
           NEW place \in RequestPlaces, RequestMoves(h, place),
           UNCHANGED <<process, coverlapped>>,
           gateway' \in BOOLEAN, captures' \in Seq(CaptureType),
           NEW op, op = crequest[h].op, OpAt(place, op),
           ~coverlapped => Single' /\ Facts(place, op)'
    PROVE  CaptureInv'
<1>1. process = "up" /\ process' = "up" /\ coverlapped' = coverlapped
  BY DEF CaptureInv, BootOK
<1>2. CaptureTypes'
  BY DEF CaptureInv, CaptureTypes, RequestMoves
<1>3. BootOK'
  BY <1>1 DEF BootOK
<1>4. \A g \in Handlers : OpAt(cpc[g], crequest[g].op)'
  <2>1. ASSUME NEW g \in Handlers, g # h PROVE OpAt(cpc[g], crequest[g].op)'
    BY <2>1 DEF CaptureInv, RequestMoves, OpAt
  <2>2. OpAt(cpc[h], crequest[h].op)'
    BY DEF RequestMoves, OpAt
  <2>3. QED
    BY <2>1, <2>2
<1>5. AloneOK'
  <2>1. SUFFICES ASSUME ~coverlapped
                 PROVE  /\ Single'
                        /\ \A g, k \in Handlers : cpc'[g] # "idle" /\ cpc'[k] # "idle" => g = k
                        /\ \A g \in Handlers : cpc'[g] # "idle" => Facts(cpc[g], crequest[g].op)'
                        /\ (\A g \in Handlers : cpc'[g] = "idle") => (~gateway' => Clean')
    BY <1>1 DEF AloneOK
  <2>2. \A g \in Handlers : g # h => cpc[g] = "idle" /\ cpc'[g] = "idle"
    BY <1>1, <2>1 DEF CaptureInv, AloneOK, RequestMoves
  <2>3. Single' /\ Facts(place, op)' /\ cpc'[h] = place
        /\ (place # "idle" => crequest'[h].op = op)
    BY <2>1 DEF RequestMoves
  <2>4. cpc'[h] # "idle" => Facts(cpc[h], crequest[h].op)'
    BY <2>3 DEF Facts
  <2>5. cpc'[h] = "idle" => (~gateway' => Clean')
    BY <2>3 DEF Facts
  <2>6. QED
    BY <2>2, <2>3, <2>4, <2>5
<1>6. QED
  BY <1>2, <1>3, <1>4, <1>5 DEF CaptureInv

-----------------------------------------------------------------------------
(* The steps of a request.                                                 *)

LEMMA SameActive ==
    ASSUME captures' = captures
    PROVE  C!Active' = C!Active /\ C!Ids' = C!Ids
BY DEF C!Active, C!WithStatus, C!Ids

LEMMA IdsTyped ==
    ASSUME CaptureTypes
    PROVE  C!Ids = 1..Len(captures) /\ Len(captures) \in Nat
<1>1. captures \in Seq(CaptureType)
  BY DEF CaptureTypes
<1>2. QED
  BY <1>1 DEF C!Ids

LEMMA LatestTyped ==
    ASSUME CaptureTypes
    PROVE  C!Latest(C!Active) \in Nat
<1>1. CASE C!Active = {}
  BY <1>1 DEF C!Latest
<1>2. CASE C!Active # {}
  <2>1. C!Latest(C!Active) \in C!Ids
    BY <1>2, LatestIsOne DEF CaptureTypes, C!Active, C!WithStatus
  <2>2. QED
    BY <2>1, IdsTyped
<1>3. QED
  BY <1>1, <1>2

\* The statuses change, and who is active with them.
LEMMA SetActive ==
    ASSUME CaptureTypes, NEW c, NEW s \in {"interrupted", "finished", "deleted"},
           NEW b \in BOOLEAN,
           captures' = C!Set(c, s, b)
    PROVE  captures' \in Seq(CaptureType) /\ C!Active' = C!Active \ {c}
<1>1. /\ captures' \in Seq(CaptureType) /\ C!Ids' = C!Ids
      /\ \A i \in C!Ids : captures'[i].status =
            IF i = c /\ captures[i].status # "deleted" THEN s ELSE captures[i].status
  BY SetMoves DEF CaptureTypes
<1>2. QED
  BY <1>1 DEF C!Active, C!WithStatus

LEMMA ActivateStep ==
    ASSUME CaptureInv, NEW h \in Handlers, C!Activate(h)
    PROVE  CaptureInv'
<1>1. /\ cpc[h] = "activate" /\ UNCHANGED <<process, coverlapped>>
      /\ gateway' = TRUE /\ UNCHANGED <<captures, sampler, runtime>>
  BY DEF C!Activate, C!table, C!helpers, C!server
<1>2. PICK op \in C!Operations \cup {"none"} :
         /\ op = crequest[h].op /\ OpAt("activate", op) /\ CaptureTypes
         /\ ~coverlapped => Single /\ Facts("activate", op)
  BY <1>1, Holding
<1>3. PICK place \in RequestPlaces : RequestMoves(h, place) /\ place = "look"
  BY <1>1, <1>2, GotoMoves DEF C!Activate, RequestPlaces
<1>4. gateway' \in BOOLEAN /\ captures' \in Seq(CaptureType) /\ C!Active' = C!Active
  BY <1>1, <1>2, SameActive DEF CaptureTypes
<1>5. OpAt(place, op)
  BY <1>2, <1>3 DEF OpAt
<1>6. ~coverlapped => Single' /\ Facts(place, op)'
  BY <1>1, <1>2, <1>3, <1>4 DEF Single, Facts, Clean, CaptureTypes
<1>7. QED
  BY <1>1, <1>2, <1>3, <1>4, <1>5, <1>6, RequestStep

LEMMA LookStep ==
    ASSUME CaptureInv, NEW h \in Handlers, C!Look(h)
    PROVE  CaptureInv'
<1>1. /\ cpc[h] = "look" /\ UNCHANGED <<process, coverlapped>>
      /\ UNCHANGED <<gateway, captures, sampler, runtime>>
  BY DEF C!Look, C!table, C!helpers, C!server
<1>2. PICK op \in C!Operations \cup {"none"} :
         /\ op = crequest[h].op /\ OpAt("look", op) /\ CaptureTypes
         /\ ~coverlapped => Single /\ Facts("look", op)
  BY <1>1, Holding
<1>3. PICK place \in RequestPlaces : RequestMoves(h, place) /\ place \in {"state", "sample"}
  <2>1. PICK c \in Nat : c = C!Latest(C!Active)
    BY <1>2, LatestTyped
  <2>2. PICK place \in {"state", "sample"} : C!Goto(h, place) /\ C!About(h, c)
    BY <2>1 DEF C!Look
  <2>3. QED
    BY <1>2, <2>2, AboutMoves DEF RequestPlaces
<1>4. gateway' \in BOOLEAN /\ captures' \in Seq(CaptureType) /\ C!Active' = C!Active
  BY <1>1, <1>2, SameActive DEF CaptureTypes
<1>5. OpAt(place, op)
  BY <1>2, <1>3 DEF OpAt
<1>6. ~coverlapped => Single' /\ Facts(place, op)'
  BY <1>1, <1>2, <1>3, <1>4 DEF Single, Facts, Clean, CaptureTypes
<1>7. QED
  BY <1>1, <1>2, <1>3, <1>4, <1>5, <1>6, RequestStep

LEMMA ReadStateStep ==
    ASSUME CaptureInv, NEW h \in Handlers, C!ReadState(h)
    PROVE  CaptureInv'
<1>1. /\ cpc[h] = "state" /\ UNCHANGED <<process, coverlapped>>
      /\ UNCHANGED <<gateway, captures, sampler, runtime>>
  BY DEF C!ReadState, C!table, C!helpers, C!server
<1>2. PICK op \in C!Operations \cup {"none"} :
         /\ op = crequest[h].op /\ OpAt("state", op) /\ CaptureTypes
         /\ ~coverlapped => Single /\ Facts("state", op)
  BY <1>1, Holding
<1>3. PICK place \in RequestPlaces :
      /\ RequestMoves(h, place)
      /\ place \in {"existing", "idle"}
      /\ (gateway <=> place = "existing")
  <2>1. PICK place \in {"existing", "idle"} :
        /\ C!Continue(h, place)
        /\ (gateway <=> place = "existing")
    BY DEF C!ReadState
  <2>2. QED
    BY <1>2, <2>1, ContinueMoves DEF RequestPlaces
<1>4. gateway' \in BOOLEAN /\ captures' \in Seq(CaptureType) /\ C!Active' = C!Active
  BY <1>1, <1>2, SameActive DEF CaptureTypes
<1>5. OpAt(place, op)
  BY <1>2, <1>3 DEF OpAt
<1>6. ~coverlapped => Single' /\ Facts(place, op)'
  BY <1>1, <1>2, <1>3, <1>4 DEF Single, Facts, Clean, CaptureTypes
<1>7. QED
  BY <1>1, <1>2, <1>3, <1>4, <1>5, <1>6, RequestStep

LEMMA ReadExistingStep ==
    ASSUME CaptureInv, NEW h \in Handlers, C!ReadExisting(h)
    PROVE  CaptureInv'
<1>1. /\ cpc[h] = "existing" /\ UNCHANGED <<process, coverlapped>>
      /\ UNCHANGED <<gateway, captures, sampler, runtime>>
  BY DEF C!ReadExisting, C!table, C!helpers, C!server
<1>2. PICK op \in C!Operations \cup {"none"} :
         /\ op = crequest[h].op /\ OpAt("existing", op) /\ CaptureTypes
         /\ ~coverlapped => Single /\ Facts("existing", op)
  BY <1>1, Holding
<1>3. PICK place \in RequestPlaces :
      /\ RequestMoves(h, place)
      /\ place \in {"insert", "idle"}
      /\ (place = "insert" => C!Active = {})
  <2>1. PICK place \in {"insert", "idle"} :
        /\ C!Continue(h, place)
        /\ (place = "insert" => C!Active = {})
    BY DEF C!ReadExisting
  <2>2. QED
    BY <1>2, <2>1, ContinueMoves DEF RequestPlaces
<1>4. gateway' \in BOOLEAN /\ captures' \in Seq(CaptureType) /\ C!Active' = C!Active
  BY <1>1, <1>2, SameActive DEF CaptureTypes
<1>5. OpAt(place, op)
  BY <1>2, <1>3 DEF OpAt
<1>6. ~coverlapped => Single' /\ Facts(place, op)'
  BY <1>1, <1>2, <1>3, <1>4 DEF Single, Facts, Clean, CaptureTypes
<1>7. QED
  BY <1>1, <1>2, <1>3, <1>4, <1>5, <1>6, RequestStep

LEMMA SampleStep ==
    ASSUME CaptureInv, NEW h \in Handlers, C!Sample(h)
    PROVE  CaptureInv'
<1>1. /\ cpc[h] = "sample" /\ UNCHANGED <<process, coverlapped>>
      /\ UNCHANGED <<gateway, captures, runtime>>
  BY DEF C!Sample, C!table, C!helpers, C!server
<1>2. PICK op \in C!Operations \cup {"none"} :
         /\ op = crequest[h].op /\ OpAt("sample", op) /\ CaptureTypes
         /\ ~coverlapped => Single /\ Facts("sample", op)
  BY <1>1, Holding
<1>3. PICK place \in RequestPlaces : RequestMoves(h, place) /\ place \in {"terminate", "idle"}
  <2>1. PICK place \in {"terminate", "idle"} : C!Continue(h, place)
    BY DEF C!Sample
  <2>2. QED
    BY <1>2, <2>1, ContinueMoves DEF RequestPlaces
<1>4. gateway' \in BOOLEAN /\ captures' \in Seq(CaptureType) /\ C!Active' = C!Active
  BY <1>1, <1>2, SameActive DEF CaptureTypes
<1>5. OpAt(place, op)
  BY <1>2, <1>3 DEF OpAt
<1>6. ~coverlapped => Single' /\ Facts(place, op)'
  BY <1>1, <1>2, <1>3, <1>4 DEF Single, Facts, Clean, CaptureTypes, OpAt
<1>7. QED
  BY <1>1, <1>2, <1>3, <1>4, <1>5, <1>6, RequestStep

LEMMA TerminateStep ==
    ASSUME CaptureInv, NEW h \in Handlers, C!Terminate(h)
    PROVE  CaptureInv'
<1>1. /\ cpc[h] = "terminate" /\ UNCHANGED <<process, coverlapped>>
      /\ runtime' = 0 /\ UNCHANGED <<gateway, captures, sampler>>
  BY DEF C!Terminate, C!table, C!helpers, C!server
<1>2. PICK op \in C!Operations \cup {"none"} :
         /\ op = crequest[h].op /\ OpAt("terminate", op) /\ CaptureTypes
         /\ ~coverlapped => Single /\ Facts("terminate", op)
  BY <1>1, Holding
<1>3. PICK place \in RequestPlaces :
      /\ RequestMoves(h, place)
      /\ place \in {"spawn", "idle"}
      /\ (place = "spawn" <=> crequest[h].op = "activate")
  <2>1. PICK place \in {"spawn", "idle"} :
        /\ C!Continue(h, place)
        /\ (place = "spawn" <=> crequest[h].op = "activate")
    BY DEF C!Terminate
  <2>2. QED
    BY <1>2, <2>1, ContinueMoves DEF RequestPlaces
<1>4. gateway' \in BOOLEAN /\ captures' \in Seq(CaptureType) /\ C!Active' = C!Active
  BY <1>1, <1>2, SameActive DEF CaptureTypes
<1>5. OpAt(place, op)
  BY <1>2, <1>3 DEF OpAt
<1>6. ~coverlapped => Single' /\ Facts(place, op)'
  BY <1>1, <1>2, <1>3, <1>4 DEF Single, Facts, Clean, CaptureTypes
<1>7. QED
  BY <1>1, <1>2, <1>3, <1>4, <1>5, <1>6, RequestStep

LEMMA SpawnStep ==
    ASSUME CaptureInv, NEW h \in Handlers, C!Spawn(h)
    PROVE  CaptureInv'
<1>1. /\ cpc[h] = "spawn" /\ UNCHANGED <<process, coverlapped>>
      /\ UNCHANGED <<gateway, captures, sampler>>
  BY DEF C!Spawn, C!table, C!helpers, C!server
<1>2. PICK op \in C!Operations \cup {"none"} :
         /\ op = crequest[h].op /\ OpAt("spawn", op) /\ CaptureTypes
         /\ ~coverlapped => Single /\ Facts("spawn", op)
  BY <1>1, Holding
<1>3. PICK place \in RequestPlaces : RequestMoves(h, place) /\ place = "idle"
  BY <1>1, <1>2, ContinueMoves DEF C!Spawn, RequestPlaces
<1>4. gateway' \in BOOLEAN /\ captures' \in Seq(CaptureType) /\ C!Active' = C!Active
  BY <1>1, <1>2, SameActive DEF CaptureTypes
<1>5. OpAt(place, op)
  BY <1>2, <1>3 DEF OpAt
<1>6. ~coverlapped => Single' /\ Facts(place, op)'
  BY <1>1, <1>2, <1>3, <1>4 DEF Single, Facts, Clean, CaptureTypes
<1>7. QED
  BY <1>1, <1>2, <1>3, <1>4, <1>5, <1>6, RequestStep

LEMMA ReadIdsStep ==
    ASSUME CaptureInv, NEW h \in Handlers, C!ReadIds(h)
    PROVE  CaptureInv'
<1>1. /\ cpc[h] = "ids" /\ UNCHANGED <<process, coverlapped>>
      /\ UNCHANGED <<gateway, captures, sampler, runtime>>
  BY DEF C!ReadIds, C!table, C!helpers, C!server
<1>2. PICK op \in C!Operations \cup {"none"} :
         /\ op = crequest[h].op /\ OpAt("ids", op) /\ CaptureTypes
         /\ ~coverlapped => Single /\ Facts("ids", op)
  BY <1>1, Holding
<1>3. PICK place \in RequestPlaces :
      /\ RequestMoves(h, place)
      /\ place \in {"off", "update"}
      /\ (place = "off" => C!Active = {})
  <2>1. PICK c \in Nat : c = C!Latest(C!Active)
    BY <1>2, LatestTyped
  <2>2. PICK place \in {"off", "update"} :
           C!Goto(h, place) /\ C!About(h, c) /\ (place = "off" => C!Active = {})
    BY <2>1 DEF C!ReadIds
  <2>3. QED
    BY <1>2, <2>2, AboutMoves DEF RequestPlaces
<1>4. gateway' \in BOOLEAN /\ captures' \in Seq(CaptureType) /\ C!Active' = C!Active
  BY <1>1, <1>2, SameActive DEF CaptureTypes
<1>5. OpAt(place, op)
  BY <1>2, <1>3 DEF OpAt
<1>6. ~coverlapped => Single' /\ Facts(place, op)'
  BY <1>1, <1>2, <1>3, <1>4 DEF Single, Facts, Clean, CaptureTypes
<1>7. QED
  BY <1>1, <1>2, <1>3, <1>4, <1>5, <1>6, RequestStep

LEMMA CheckStep ==
    ASSUME CaptureInv, NEW h \in Handlers, C!Check(h)
    PROVE  CaptureInv'
<1>1. /\ cpc[h] = "check" /\ UNCHANGED <<process, coverlapped>>
      /\ UNCHANGED <<gateway, captures, sampler, runtime>>
  BY DEF C!Check, C!table, C!helpers, C!server
<1>2. PICK op \in C!Operations \cup {"none"} :
         /\ op = crequest[h].op /\ OpAt("check", op) /\ CaptureTypes
         /\ ~coverlapped => Single /\ Facts("check", op)
  BY <1>1, Holding
<1>3. PICK place \in RequestPlaces :
      /\ RequestMoves(h, place)
      /\ place \in {"ids", "off", "idle"}
      /\ (place = "off" => C!Active = {})
  <2>1. PICK place \in {"ids", "off", "idle"} :
        /\ C!Continue(h, place)
        /\ (place = "off" => C!Active = {})
    BY DEF C!Check
  <2>2. QED
    BY <1>2, <2>1, ContinueMoves DEF RequestPlaces
<1>4. gateway' \in BOOLEAN /\ captures' \in Seq(CaptureType) /\ C!Active' = C!Active
  BY <1>1, <1>2, SameActive DEF CaptureTypes
<1>5. OpAt(place, op)
  BY <1>2, <1>3 DEF OpAt
<1>6. ~coverlapped => Single' /\ Facts(place, op)'
  BY <1>1, <1>2, <1>3, <1>4 DEF Single, Facts, Clean, CaptureTypes
<1>7. QED
  BY <1>1, <1>2, <1>3, <1>4, <1>5, <1>6, RequestStep

LEMMA SwitchOffStep ==
    ASSUME CaptureInv, NEW h \in Handlers, C!SwitchOff(h)
    PROVE  CaptureInv'
<1>1. /\ cpc[h] = "off" /\ UNCHANGED <<process, coverlapped>>
      /\ gateway' = FALSE /\ UNCHANGED <<captures, sampler, runtime>>
  BY DEF C!SwitchOff, C!table, C!helpers, C!server
<1>2. PICK op \in C!Operations \cup {"none"} :
         /\ op = crequest[h].op /\ OpAt("off", op) /\ CaptureTypes
         /\ ~coverlapped => Single /\ Facts("off", op)
  BY <1>1, Holding
<1>3. PICK place \in RequestPlaces : RequestMoves(h, place) /\ place = "unsample"
  BY <1>1, <1>2, GotoMoves DEF C!SwitchOff, RequestPlaces
<1>4. gateway' \in BOOLEAN /\ captures' \in Seq(CaptureType) /\ C!Active' = C!Active
  BY <1>1, <1>2, SameActive DEF CaptureTypes
<1>5. OpAt(place, op)
  BY <1>2, <1>3 DEF OpAt
<1>6. ~coverlapped => Single' /\ Facts(place, op)'
  BY <1>1, <1>2, <1>3, <1>4 DEF Single, Facts, Clean, CaptureTypes
<1>7. QED
  BY <1>1, <1>2, <1>3, <1>4, <1>5, <1>6, RequestStep

LEMMA UnsampleStep ==
    ASSUME CaptureInv, NEW h \in Handlers, C!Unsample(h)
    PROVE  CaptureInv'
<1>1. /\ cpc[h] = "unsample" /\ UNCHANGED <<process, coverlapped>>
      /\ sampler' = 0 /\ UNCHANGED <<gateway, captures, runtime>>
  BY DEF C!Unsample, C!table, C!helpers, C!server
<1>2. PICK op \in C!Operations \cup {"none"} :
         /\ op = crequest[h].op /\ OpAt("unsample", op) /\ CaptureTypes
         /\ ~coverlapped => Single /\ Facts("unsample", op)
  BY <1>1, Holding
<1>3. PICK place \in RequestPlaces : RequestMoves(h, place) /\ place = "terminate"
  BY <1>1, <1>2, GotoMoves DEF C!Unsample, RequestPlaces
<1>4. gateway' \in BOOLEAN /\ captures' \in Seq(CaptureType) /\ C!Active' = C!Active
  BY <1>1, <1>2, SameActive DEF CaptureTypes
<1>5. OpAt(place, op)
  BY <1>2, <1>3 DEF OpAt
<1>6. ~coverlapped => Single' /\ Facts(place, op)'
  BY <1>1, <1>2, <1>3, <1>4 DEF Single, Facts, Clean, CaptureTypes, OpAt
<1>7. QED
  BY <1>1, <1>2, <1>3, <1>4, <1>5, <1>6, RequestStep

LEMMA ReadStatusStep ==
    ASSUME CaptureInv, NEW h \in Handlers, C!ReadStatus(h)
    PROVE  CaptureInv'
<1>1. /\ cpc[h] = "read" /\ UNCHANGED <<process, coverlapped>>
      /\ UNCHANGED <<gateway, captures, sampler, runtime>>
  BY DEF C!ReadStatus, C!table, C!helpers, C!server
<1>2. PICK op \in C!Operations \cup {"none"} :
         /\ op = crequest[h].op /\ OpAt("read", op) /\ CaptureTypes
         /\ ~coverlapped => Single /\ Facts("read", op)
  BY <1>1, Holding
<1>3. PICK place \in RequestPlaces : RequestMoves(h, place) /\ place \in {"count", "idle"}
  <2>1. PICK place \in {"count", "idle"} : C!Continue(h, place)
    BY DEF C!ReadStatus
  <2>2. QED
    BY <1>2, <2>1, ContinueMoves DEF RequestPlaces
<1>4. gateway' \in BOOLEAN /\ captures' \in Seq(CaptureType) /\ C!Active' = C!Active
  BY <1>1, <1>2, SameActive DEF CaptureTypes
<1>5. OpAt(place, op)
  BY <1>2, <1>3 DEF OpAt
<1>6. ~coverlapped => Single' /\ Facts(place, op)'
  BY <1>1, <1>2, <1>3, <1>4 DEF Single, Facts, Clean, CaptureTypes
<1>7. QED
  BY <1>1, <1>2, <1>3, <1>4, <1>5, <1>6, RequestStep

LEMMA CountStep ==
    ASSUME CaptureInv, NEW h \in Handlers, C!Count(h)
    PROVE  CaptureInv'
<1>1. /\ cpc[h] = "count" /\ UNCHANGED <<process, coverlapped>>
      /\ UNCHANGED <<gateway, captures, sampler, runtime>>
  BY DEF C!Count, C!table, C!helpers, C!server
<1>2. PICK op \in C!Operations \cup {"none"} :
         /\ op = crequest[h].op /\ OpAt("count", op) /\ CaptureTypes
         /\ ~coverlapped => Single /\ Facts("count", op)
  BY <1>1, Holding
<1>3. PICK place \in RequestPlaces :
      /\ RequestMoves(h, place)
      /\ place \in {"finish some", "finish none"}
  <2>1. PICK place \in {"finish some", "finish none"} : C!Goto(h, place)
    BY DEF C!Count
  <2>2. QED
    BY <1>1, <1>2, <2>1, GotoMoves DEF C!Count, RequestPlaces
<1>4. gateway' \in BOOLEAN /\ captures' \in Seq(CaptureType) /\ C!Active' = C!Active
  BY <1>1, <1>2, SameActive DEF CaptureTypes
<1>5. OpAt(place, op)
  BY <1>2, <1>3 DEF OpAt
<1>6. ~coverlapped => Single' /\ Facts(place, op)'
  BY <1>1, <1>2, <1>3, <1>4 DEF Single, Facts, Clean, CaptureTypes
<1>7. QED
  BY <1>1, <1>2, <1>3, <1>4, <1>5, <1>6, RequestStep

LEMMA InsertStep ==
    ASSUME CaptureInv, NEW h \in Handlers, C!Insert(h)
    PROVE  CaptureInv'
<1>1. /\ cpc[h] = "insert" /\ UNCHANGED <<process, coverlapped>>
      /\ C!NewCapture(MaxCaptures) /\ UNCHANGED <<gateway, sampler, runtime>>
  BY DEF C!Insert, C!table, C!helpers, C!server
<1>2. PICK op \in C!Operations \cup {"none"} :
         /\ op = crequest[h].op /\ OpAt("insert", op) /\ CaptureTypes
         /\ ~coverlapped => Single /\ Facts("insert", op)
  BY <1>1, Holding
<1>3. PICK place \in RequestPlaces :
         RequestMoves(h, place) /\ place = IF op = "activate" THEN "sample" ELSE "idle"
  <2>1. CASE op = "activate"
    <3>1. PICK c \in Nat : c = Len(captures) + 1
      BY <1>2, IdsTyped
    <3>2. C!Goto(h, "sample") /\ C!About(h, c)
      BY <1>2, <2>1, <3>1 DEF C!Insert
    <3>3. QED
      BY <1>2, <2>1, <3>2, AboutMoves DEF RequestPlaces
  <2>2. CASE op # "activate"
    <3>1. C!Continue(h, "idle")
      BY <1>2, <2>2 DEF C!Insert
    <3>2. QED
      BY <1>2, <2>2, <3>1, ContinueMoves DEF RequestPlaces
  <2>3. QED
    BY <2>1, <2>2
<1>4. /\ gateway' \in BOOLEAN /\ captures' \in Seq(CaptureType)
      /\ C!Active' = C!Active \cup {Len(captures) + 1}
  BY <1>1, <1>2, NewMoves DEF CaptureTypes
<1>5. OpAt(place, op)
  BY <1>3 DEF OpAt
<1>6. ~coverlapped => Single' /\ Facts(place, op)'
  BY <1>1, <1>2, <1>3, <1>4 DEF Single, Facts, Clean, CaptureTypes
<1>7. QED
  BY <1>1, <1>2, <1>3, <1>4, <1>5, <1>6, RequestStep

LEMMA FinishStep ==
    ASSUME CaptureInv, NEW h \in Handlers, C!Finish(h)
    PROVE  CaptureInv'
<1>1. PICK spot \in {"finish some", "finish none"} :
         /\ cpc[h] = spot /\ UNCHANGED <<process, coverlapped>>
         /\ UNCHANGED <<gateway, sampler, runtime>>
         /\ captures' = C!Set(crequest[h].capture, "finished", spot = "finish some")
  BY DEF C!Finish, C!table, C!helpers, C!server
<1>2. PICK op \in C!Operations \cup {"none"} :
         /\ op = crequest[h].op /\ OpAt(spot, op) /\ CaptureTypes
         /\ ~coverlapped => Single /\ Facts(spot, op)
  BY <1>1, Holding
<1>3. PICK place \in RequestPlaces : RequestMoves(h, place) /\ place = "idle"
  BY <1>1, <1>2, ContinueMoves DEF C!Finish, RequestPlaces
<1>4. /\ gateway' \in BOOLEAN /\ captures' \in Seq(CaptureType)
      /\ C!Active' \subseteq C!Active
  <2>1. (spot = "finish some") \in BOOLEAN
    OBVIOUS
  <2>2. PICK b \in BOOLEAN : captures' = C!Set(crequest[h].capture, "finished", b)
    BY <1>1, <2>1
  <2>3. captures' \in Seq(CaptureType) /\ C!Active' = C!Active \ {crequest[h].capture}
    BY <1>2, <2>2, SetActive
  <2>4. QED
    BY <1>1, <1>2, <2>3 DEF CaptureTypes
<1>5. OpAt(place, op)
  BY <1>3 DEF OpAt
<1>6. ~coverlapped => Single' /\ Facts(place, op)'
  BY <1>1, <1>2, <1>3, <1>4 DEF Single, Facts, Clean, CaptureTypes
<1>7. QED
  BY <1>1, <1>2, <1>3, <1>4, <1>5, <1>6, RequestStep

LEMMA FindStep ==
    ASSUME CaptureInv, NEW h \in Handlers, C!Find(h)
    PROVE  CaptureInv'
<1>1. /\ cpc[h] = "find" /\ UNCHANGED <<process, coverlapped>>
      /\ UNCHANGED <<gateway, captures, sampler, runtime>>
  BY DEF C!Find, C!table, C!helpers, C!server
<1>2. PICK op \in C!Operations \cup {"none"} :
         /\ op = crequest[h].op /\ OpAt("find", op) /\ CaptureTypes
         /\ ~coverlapped => Single /\ Facts("find", op)
  BY <1>1, Holding
<1>3. PICK place \in RequestPlaces : RequestMoves(h, place) /\ place \in {"delete", "idle"}
  <2>1. PICK place \in {"delete", "idle"} : C!Continue(h, place)
    BY DEF C!Find
  <2>2. QED
    BY <1>2, <2>1, ContinueMoves DEF RequestPlaces
<1>4. gateway' \in BOOLEAN /\ captures' \in Seq(CaptureType) /\ C!Active' = C!Active
  BY <1>1, <1>2, SameActive DEF CaptureTypes
<1>5. OpAt(place, op)
  BY <1>2, <1>3 DEF OpAt
<1>6. ~coverlapped => Single' /\ Facts(place, op)'
  BY <1>1, <1>2, <1>3, <1>4 DEF Single, Facts, Clean, CaptureTypes
<1>7. QED
  BY <1>1, <1>2, <1>3, <1>4, <1>5, <1>6, RequestStep

LEMMA DeleteStep ==
    ASSUME CaptureInv, NEW h \in Handlers, C!Delete(h)
    PROVE  CaptureInv'
<1>1. /\ cpc[h] = "delete" /\ UNCHANGED <<process, coverlapped>>
      /\ UNCHANGED <<gateway, sampler, runtime>>
      /\ captures' = C!Set(crequest[h].capture, "deleted", FALSE)
  BY DEF C!Delete, C!table, C!helpers, C!server
<1>2. PICK op \in C!Operations \cup {"none"} :
         /\ op = crequest[h].op /\ OpAt("delete", op) /\ CaptureTypes
         /\ ~coverlapped => Single /\ Facts("delete", op)
  BY <1>1, Holding
<1>3. PICK place \in RequestPlaces : RequestMoves(h, place) /\ place = "idle"
  BY <1>1, <1>2, ContinueMoves DEF C!Delete, RequestPlaces
<1>4. /\ gateway' \in BOOLEAN /\ captures' \in Seq(CaptureType)
      /\ C!Active' \subseteq C!Active
  BY <1>1, <1>2, SetActive DEF CaptureTypes
<1>5. OpAt(place, op)
  BY <1>3 DEF OpAt
<1>6. ~coverlapped => Single' /\ Facts(place, op)'
  BY <1>1, <1>2, <1>3, <1>4 DEF Single, Facts, Clean, CaptureTypes
<1>7. QED
  BY <1>1, <1>2, <1>3, <1>4, <1>5, <1>6, RequestStep

LEMMA InterruptMoves ==
    ASSUME captures \in Seq(CaptureType),
           captures' = [c \in C!Ids |->
                           IF c \in C!Active THEN [captures[c] EXCEPT !.status = "interrupted"]
                           ELSE captures[c]]
    PROVE  /\ captures' \in Seq(CaptureType) /\ C!Ids' = C!Ids
           /\ \A c \in C!Ids : captures'[c].status = IF c \in C!Active THEN "interrupted"
                                                     ELSE captures[c].status
           /\ C!Active' = {}
<1>1. PICK n \in Nat : n = Len(captures) /\ captures \in [1..n -> CaptureType] /\ C!Ids = 1..n
  BY DEF C!Ids
<1>2. ASSUME NEW c \in 1..n
      PROVE  /\ captures'[c] \in CaptureType
             /\ captures'[c].status = IF c \in C!Active THEN "interrupted"
                                      ELSE captures[c].status
  <2>1. captures'[c] = IF c \in C!Active THEN [captures[c] EXCEPT !.status = "interrupted"]
                       ELSE captures[c]
    BY <1>1
  <2>2. captures[c] \in CaptureType
    BY <1>1
  <2>3. QED
    BY <2>1, <2>2 DEF CaptureType
<1>3. captures' \in [1..n -> CaptureType]
  <2>1. DOMAIN captures' = 1..n
    BY <1>1
  <2>2. captures' = [c \in 1..n |-> captures'[c]]
    BY <1>1
  <2>3. QED
    BY <1>2, <2>2
<1>4. captures' \in Seq(CaptureType) /\ C!Ids' = C!Ids
  BY <1>1, <1>3 DEF C!Ids
<1>5. C!Active' = {}
  BY <1>1, <1>2, <1>4 DEF C!Active, C!WithStatus
<1>6. QED
  BY <1>1, <1>2, <1>4, <1>5

LEMMA InterruptAllStep ==
    ASSUME CaptureInv, NEW h \in Handlers, C!InterruptAll(h)
    PROVE  CaptureInv'
<1>1. /\ cpc[h] = "update" /\ UNCHANGED <<process, coverlapped>>
      /\ UNCHANGED <<gateway, sampler, runtime>>
  BY DEF C!InterruptAll, C!table, C!helpers, C!server
<1>2. PICK op \in C!Operations \cup {"none"} :
         /\ op = crequest[h].op /\ OpAt("update", op) /\ CaptureTypes
         /\ ~coverlapped => Single /\ Facts("update", op)
  BY <1>1, Holding
<1>3. PICK place \in RequestPlaces : RequestMoves(h, place) /\ place = "off"
  BY <1>1, <1>2, GotoMoves DEF C!InterruptAll, RequestPlaces
<1>4. gateway' \in BOOLEAN /\ captures' \in Seq(CaptureType) /\ C!Active' = {}
  BY <1>1, <1>2, InterruptMoves DEF CaptureTypes, C!InterruptAll
<1>5. OpAt(place, op)
  BY <1>2, <1>3 DEF OpAt
<1>6. ~coverlapped => Single' /\ Facts(place, op)'
  BY <1>1, <1>2, <1>3, <1>4 DEF Single, Facts, Clean, CaptureTypes
<1>7. QED
  BY <1>1, <1>2, <1>3, <1>4, <1>5, <1>6, RequestStep

LEMMA BeginStep ==
    ASSUME CaptureInv, NEW h \in Handlers, C!Begin(h)
    PROVE  CaptureInv'
<1>1. /\ process = "up" /\ cpc[h] = "idle" /\ process' = process
      /\ UNCHANGED <<gateway, captures, sampler, runtime>>
      /\ coverlapped' = (coverlapped \/ C!Busy # {})
  BY DEF C!Begin, C!table, C!helpers
<1>2. PICK op \in C!Operations, c \in C!Ids \cup {0}, place \in RequestPlaces :
         /\ crequest' = [crequest EXCEPT ![h] = [op |-> op, capture |-> c]]
         /\ C!Goto(h, place)
         /\ \/ op = "activate" /\ place = "activate"
            \/ op = "start" /\ place = "state"
            \/ op = "stop" /\ place = "read"
            \/ op = "delete" /\ place = "find"
            \/ op \in {"deactivate", "force"} /\ place = "check"
  <2>1. PICK op \in C!Operations, c \in C!Ids \cup {0} :
           /\ crequest' = [crequest EXCEPT ![h] = [op |-> op, capture |-> c]]
           /\ C!Goto(h, CASE op = "activate" -> "activate"
                          [] op = "start" -> "state"
                          [] op = "stop" -> "read"
                          [] op = "delete" -> "find"
                          [] OTHER -> "check")
    BY DEF C!Begin
  <2>2. CASE op = "activate"
    BY <2>1, <2>2 DEF RequestPlaces
  <2>3. CASE op = "start"
    BY <2>1, <2>3 DEF RequestPlaces
  <2>4. CASE op = "stop"
    BY <2>1, <2>4 DEF RequestPlaces
  <2>5. CASE op \in {"deactivate", "force"}
    BY <2>1, <2>5 DEF RequestPlaces
  <2>6. CASE op = "delete"
    BY <2>1, <2>6 DEF RequestPlaces
  <2>7. QED
    BY <2>1, <2>2, <2>3, <2>4, <2>5, <2>6 DEF C!Operations
<1>3. /\ cpc' \in [Handlers -> RequestPlaces] /\ cpc'[h] = place
      /\ \A g \in Handlers : g # h => cpc'[g] = cpc[g]
  BY <1>2, Goes DEF CaptureInv
<1>4. /\ crequest' \in [Handlers -> RequestType] /\ crequest'[h].op = op
      /\ \A g \in Handlers : g # h => crequest'[g] = crequest[g]
  <2>1. c \in Nat
    BY <1>2, IdsTyped DEF CaptureInv
  <2>2. [op |-> op, capture |-> c] \in RequestType
    BY <1>2, <2>1 DEF RequestType
  <2>3. QED
    BY <1>2, <2>2 DEF CaptureInv, CaptureTypes
<1>5. C!Active' = C!Active
  BY <1>1, SameActive
<1>6. CaptureTypes' /\ BootOK'
  BY <1>1, <1>3, <1>4 DEF CaptureInv, CaptureTypes, BootOK
<1>7. \A g \in Handlers : OpAt(cpc[g], crequest[g].op)'
  <2>1. OpAt(cpc[h], crequest[h].op)'
    BY <1>2, <1>3, <1>4 DEF OpAt
  <2>2. QED
    BY <1>3, <1>4, <2>1 DEF CaptureInv, OpAt
<1>8. AloneOK'
  <2>1. SUFFICES ASSUME ~coverlapped'
                 PROVE  /\ Single'
                        /\ \A g, k \in Handlers : cpc'[g] # "idle" /\ cpc'[k] # "idle" => g = k
                        /\ \A g \in Handlers : cpc'[g] # "idle" => Facts(cpc[g], crequest[g].op)'
                        /\ (\A g \in Handlers : cpc'[g] = "idle") => (~gateway' => Clean')
    BY DEF AloneOK
  <2>2. ~coverlapped /\ \A g \in Handlers : cpc[g] = "idle"
    BY <1>1, <2>1 DEF C!Busy, CaptureInv, CaptureTypes
  <2>3. Single /\ (~gateway => Clean)
    BY <1>1, <2>2 DEF CaptureInv, AloneOK
  <2>4. Facts(cpc[h], crequest[h].op)' /\ cpc'[h] # "idle"
    BY <1>1, <1>2, <1>3, <1>5, <2>3 DEF Facts, Clean
  <2>5. Single'
    BY <1>5, <2>3 DEF Single
  <2>6. QED
    BY <1>3, <2>2, <2>4, <2>5
<1>9. QED
  BY <1>6, <1>7, <1>8 DEF CaptureInv

-----------------------------------------------------------------------------
(* The boot of the server, its end, and the sessions.                      *)

LEMMA QuietStep ==
    ASSUME CaptureInv,
           UNCHANGED <<gateway, captures, process, cpc, crequest, sampler, runtime, coverlapped>>
    PROVE  CaptureInv'
<1>1. C!Active' = C!Active
  BY SameActive
<1>2. CaptureTypes' /\ BootOK'
  BY <1>1 DEF CaptureInv, CaptureTypes, BootOK
<1>3. \A h \in Handlers : OpAt(cpc[h], crequest[h].op)'
  BY DEF CaptureInv, OpAt
<1>4. AloneOK'
  <2>1. Single' = Single /\ Clean' = Clean
    BY <1>1 DEF Single, Clean
  <2>2. \A h \in Handlers : Facts(cpc[h], crequest[h].op)' = Facts(cpc[h], crequest[h].op)
    BY <1>1, <2>1 DEF Facts
  <2>3. QED
    BY <2>1, <2>2 DEF CaptureInv, AloneOK
<1>5. QED
  BY <1>2, <1>3, <1>4 DEF CaptureInv

\* A step of the boot: there are no requests.
LEMMA BootStep ==
    ASSUME CaptureInv, process # "up", process' # "up",
           UNCHANGED <<cpc, crequest, coverlapped, sampler, runtime>>,
           process' \in {"interrupt", "ensure", "auto gateway", "auto capture", "attach"},
           gateway' \in BOOLEAN, captures' \in Seq(CaptureType),
           process' \in {"ensure", "auto gateway", "auto capture"} => C!Active' = {},
           process' = "auto gateway" => ~gateway', process' = "auto capture" => gateway',
           process' = "attach" => IF gateway' THEN \E c : C!Active' = {c} ELSE C!Active' = {}
    PROVE  CaptureInv'
<1>1. CaptureTypes' /\ BootOK'
  BY DEF CaptureInv, CaptureTypes, BootOK
<1>2. \A h \in Handlers : OpAt(cpc[h], crequest[h].op)'
  BY DEF CaptureInv, OpAt
<1>3. AloneOK'
  BY DEF AloneOK
<1>4. QED
  BY <1>1, <1>2, <1>3 DEF CaptureInv

LEMMA InterruptStaleStep ==
    ASSUME CaptureInv, C!InterruptStale
    PROVE  CaptureInv'
<1>1. /\ process = "interrupt" /\ gateway' = gateway /\ CaptureTypes
      /\ UNCHANGED <<cpc, crequest, coverlapped, sampler, runtime>>
  BY DEF C!InterruptStale, C!helpers, CaptureInv
<1>2. CASE C!Active = {}
  <2>1. process' = "ensure" /\ captures' = captures
    BY <1>2 DEF C!InterruptStale
  <2>2. C!Active' = {}
    BY <1>2, <2>1, SameActive
  <2>3. QED
    BY <1>1, <2>1, <2>2, BootStep DEF CaptureTypes
<1>3. CASE C!Active # {}
  <2>1. process' = process
        /\ captures' = C!Set(C!Min(C!Active), "interrupted", C!Min(C!Active) \in recorded)
    BY <1>3 DEF C!InterruptStale
  <2> DEFINE first == C!Min(C!Active)
  <2>a. (first \in recorded) \in BOOLEAN
    OBVIOUS
  <2>2. PICK b \in BOOLEAN : captures' = C!Set(first, "interrupted", b)
    BY <2>1, <2>a
  <2>3. captures' \in Seq(CaptureType)
    BY <1>1, <2>2, SetActive
  <2>4. QED
    BY <1>1, <2>1, <2>3, BootStep DEF CaptureTypes
<1>4. QED
  BY <1>2, <1>3

LEMMA EnsureStep ==
    ASSUME CaptureInv, C!Ensure
    PROVE  CaptureInv'
<1> DEFINE last == C!Latest(C!WithStatus("interrupted"))
           again == last # 0 /\ ~captures[last].counted
<1>1. /\ process = "ensure" /\ gateway' = gateway /\ CaptureTypes /\ C!Active = {}
      /\ UNCHANGED <<cpc, crequest, coverlapped, sampler, runtime>>
  BY DEF C!Ensure, C!helpers, CaptureInv, BootOK
<1>2. CASE ~gateway
  <2>1. process' \in {"auto gateway", "attach"} /\ captures' = captures
    BY <1>2 DEF C!Ensure
  <2>2. C!Active' = {}
    BY <1>1, <2>1, SameActive
  <2>3. QED
    BY <1>1, <1>2, <2>1, <2>2, BootStep DEF CaptureTypes
<1>3. CASE gateway /\ again
  <2>1. captures' = C!Set(last, "active", FALSE) /\ process' = "attach"
    BY <1>1, <1>3 DEF C!Ensure
  <2>2. C!WithStatus("interrupted") # {}
    BY <1>3 DEF C!Latest
  <2>3. last \in C!Ids /\ captures[last].status = "interrupted"
    BY <1>1, <2>2, LatestIsOne DEF CaptureTypes, C!WithStatus
  <2> HIDE DEF last, again
  <2>4. /\ captures' \in Seq(CaptureType) /\ C!Ids' = C!Ids
        /\ \A i \in C!Ids : captures'[i].status = IF i = last THEN "active"
                                                  ELSE captures[i].status
    BY <1>1, <2>1, <2>3, SetMoves DEF CaptureTypes
  <2>5. C!Active' = {last}
    BY <1>1, <2>3, <2>4 DEF C!Active, C!WithStatus
  <2>6. QED
    BY <1>1, <1>3, <2>1, <2>4, <2>5, BootStep
<1>4. CASE gateway /\ ~again
  <2>1. C!NewCapture(MaxCaptures + MaxBoots) /\ process' = "attach"
    BY <1>1, <1>4 DEF C!Ensure
  <2>2. captures' \in Seq(CaptureType) /\ C!Active' = {Len(captures) + 1}
    BY <1>1, <2>1, NewMoves DEF CaptureTypes
  <2>3. QED
    BY <1>1, <1>4, <2>1, <2>2, BootStep
<1>5. QED
  BY <1>2, <1>3, <1>4

LEMMA StartStep ==
    ASSUME CaptureInv, C!Start
    PROVE  CaptureInv'
<1>1. CASE C!Boot
  <2>1. /\ process = "down" /\ process' = "interrupt"
        /\ UNCHANGED <<gateway, captures, cpc, crequest, coverlapped, sampler, runtime>>
    BY <1>1 DEF C!Boot, C!table, C!helpers
  <2>2. QED
    BY <2>1, BootStep DEF CaptureInv, CaptureTypes
<1>2. CASE C!InterruptStale
  BY <1>2, InterruptStaleStep
<1>3. CASE C!Ensure
  BY <1>3, EnsureStep
<1>4. CASE C!AutoGateway
  <2>1. /\ process = "auto gateway" /\ process' = "auto capture" /\ gateway' = TRUE
        /\ UNCHANGED <<captures, cpc, crequest, coverlapped, sampler, runtime>>
    BY <1>4 DEF C!AutoGateway, C!helpers
  <2>2. C!Active' = {}
    BY <2>1, SameActive DEF CaptureInv, BootOK
  <2>3. QED
    BY <2>1, <2>2, BootStep DEF CaptureInv, CaptureTypes
<1>5. CASE C!AutoCapture
  <2>1. /\ process = "auto capture" /\ process' = "attach" /\ gateway' = gateway
        /\ C!NewCapture(MaxCaptures + MaxBoots)
        /\ UNCHANGED <<cpc, crequest, coverlapped, sampler, runtime>>
    BY <1>5 DEF C!AutoCapture, C!helpers
  <2>2. gateway /\ C!Active = {} /\ captures \in Seq(CaptureType)
    BY <2>1 DEF CaptureInv, BootOK, CaptureTypes
  <2>3. captures' \in Seq(CaptureType) /\ C!Active' = {Len(captures) + 1}
    BY <2>1, <2>2, NewMoves
  <2>4. QED
    BY <2>1, <2>2, <2>3, BootStep
<1>6. CASE C!Attach
  <2>1. /\ process = "attach" /\ process' = "up" /\ sampler' = C!Latest(C!Active)
        /\ UNCHANGED <<gateway, captures, cpc, crequest, coverlapped, runtime>>
    BY <1>6 DEF C!Attach, C!table
  <2>2. /\ \A h \in Handlers : cpc[h] = "idle"
        /\ runtime = 0 /\ C!Active' = C!Active
        /\ IF gateway THEN \E c : C!Active = {c} ELSE C!Active = {}
    BY <2>1, SameActive DEF CaptureInv, BootOK
  <2>3. CaptureTypes' /\ BootOK'
    BY <2>1 DEF CaptureInv, CaptureTypes, BootOK
  <2>4. \A h \in Handlers : OpAt(cpc[h], crequest[h].op)'
    BY <2>1 DEF CaptureInv, OpAt
  <2>5. Single' /\ (~gateway' => Clean')
    BY <2>1, <2>2 DEF Single, Clean, C!Latest
  <2>6. AloneOK'
    BY <2>1, <2>2, <2>5 DEF AloneOK
  <2>7. QED
    BY <2>3, <2>4, <2>6 DEF CaptureInv
<1>7. QED
  BY <1>1, <1>2, <1>3, <1>4, <1>5, <1>6 DEF C!Start

LEMMA DownStep ==
    ASSUME CaptureInv, C!Down
    PROVE  CaptureInv'
<1>1. /\ process' = "down" /\ cpc' = [h \in Handlers |-> "idle"]
      /\ crequest' = [h \in Handlers |-> C!NoRequest]
      /\ sampler' = 0 /\ runtime' = 0 /\ coverlapped' = FALSE
      /\ gateway' = gateway /\ captures' = captures
  BY DEF C!Down, C!table
<1>2. C!NoRequest \in RequestType
  BY DEF C!NoRequest, RequestType
<1>3. CaptureTypes' /\ BootOK'
  BY <1>1, <1>2 DEF CaptureInv, CaptureTypes, BootOK, RequestPlaces
<1>4. AloneOK' /\ \A h \in Handlers : OpAt(cpc[h], crequest[h].op)'
  BY <1>1 DEF AloneOK, OpAt
<1>5. QED
  BY <1>3, <1>4 DEF CaptureInv

LEMMA CapturesStart == C!Init => CaptureInv
<1> SUFFICES ASSUME C!Init PROVE CaptureInv
  OBVIOUS
<1>1. /\ process = "down" /\ cpc = [h \in Handlers |-> "idle"]
      /\ crequest = [h \in Handlers |-> C!NoRequest]
      /\ sampler = 0 /\ runtime = 0 /\ coverlapped = FALSE
      /\ gateway = FALSE /\ captures = <<>>
  BY DEF C!Init
<1>2. C!NoRequest \in RequestType
  BY DEF C!NoRequest, RequestType
<1>a. captures \in Seq(CaptureType)
  BY <1>1
<1>b. /\ gateway \in BOOLEAN /\ coverlapped \in BOOLEAN /\ sampler \in Nat /\ runtime \in Nat
  BY <1>1
<1>c. cpc \in [Handlers -> RequestPlaces] /\ crequest \in [Handlers -> RequestType]
  BY <1>1, <1>2 DEF RequestPlaces
<1>3. CaptureTypes /\ BootOK
  <2>1. CaptureTypes
    BY <1>1, <1>a, <1>b, <1>c DEF CaptureTypes
  <2>2. BootOK
    BY <1>1 DEF BootOK
  <2>3. QED
    BY <2>1, <2>2
<1>4. AloneOK /\ \A h \in Handlers : OpAt(cpc[h], crequest[h].op)
  BY <1>1 DEF AloneOK, OpAt
<1>5. QED
  BY <1>3, <1>4 DEF CaptureInv

LEMMA CapturesKeep == CaptureInv /\ [C!Next]_(C!vars) => CaptureInv'
<1> SUFFICES ASSUME CaptureInv, [C!Next]_(C!vars) PROVE CaptureInv'
  OBVIOUS
<1>1. ASSUME NEW h \in Handlers, C!Handle(h) PROVE CaptureInv'
  BY <1>1, BeginStep, ActivateStep, LookStep, ReadStateStep, ReadExistingStep, InsertStep,
     SampleStep, TerminateStep, SpawnStep, CheckStep, ReadIdsStep, InterruptAllStep,
     SwitchOffStep, UnsampleStep, ReadStatusStep, CountStep, FinishStep, FindStep,
     DeleteStep DEF C!Handle
<1>2. CASE C!SessionOpens \/ C!SessionEnds \/ C!Writes \/ UNCHANGED C!vars
  <2>1. UNCHANGED <<gateway, captures, process, cpc, crequest, sampler, runtime, coverlapped>>
    BY <1>2 DEF C!SessionOpens, C!SessionEnds, C!Writes, C!vars, C!table, C!server, C!helpers
  <2>2. QED
    BY <2>1, QuietStep
<1>3. CASE C!Start
  BY <1>3, StartStep
<1>4. CASE C!Down
  BY <1>4, DownStep
<1>5. QED
  BY <1>1, <1>2, <1>3, <1>4 DEF C!Next

LEMMA CaptureInvFollows == CaptureInv => C!CapturesFollowGateway
<1> SUFFICES ASSUME CaptureInv PROVE C!CapturesFollowGateway
  OBVIOUS
<1>1. ASSUME NEW Group, \A a, b \in Group : a = b
      PROVE  Group = {} \/ \E c : Group = {c}
  BY <1>1
<1>2. Cardinality({}) = 0 /\ \A c : Cardinality({c}) = 1
  BY FS_EmptySet, FS_Singleton
<1>3. C!BootReconciles
  <2>1. SUFFICES ASSUME process = "attach"
                 PROVE  Cardinality(C!Active) = IF gateway THEN 1 ELSE 0
    BY SameCount DEF C!BootReconciles
  <2>2. QED
    BY <1>2, <2>1 DEF CaptureInv, BootOK
<1>4. C!DuplicatesNeedOverlap
  <2>1. SUFFICES ASSUME process = "up", ~coverlapped
                 PROVE  /\ Cardinality(C!Active) <= 1
                        /\ C!Busy = {} /\ ~gateway =>
                              C!Active = {} /\ sampler = 0 /\ runtime = 0
    BY SameCount DEF C!DuplicatesNeedOverlap
  <2>2. Single
    BY <2>1 DEF CaptureInv, AloneOK
  <2>3. Cardinality(C!Active) <= 1
    <3>1. CASE C!Active = {}
      BY <1>2, <3>1
    <3>2. CASE \E c : C!Active = {c}
      BY <1>2, <3>2
    <3>3. QED
      BY <1>1, <2>2, <3>1, <3>2 DEF Single
  <2>4. ASSUME C!Busy = {}, ~gateway PROVE Clean
    <3>1. \A h \in Handlers : cpc[h] = "idle"
      BY <2>4 DEF C!Busy
    <3>2. QED
      BY <2>1, <2>4, <3>1 DEF CaptureInv, AloneOK
  <2>5. QED
    BY <2>3, <2>4 DEF Clean
<1>5. QED
  BY <1>3, <1>4 DEF C!CapturesFollowGateway

\* Wherever the server died, a boot ends with one active capture when the
\* gateway is on and none when it is off; and as long as requests come one after
\* the other there is never a second one, nor anything that observes one when the
\* gateway is off (server.py, capture_service.py, gateway_routes.py).
THEOREM CapturesStayWithGateway == C!Spec => []CapturesFollowGateway
<1>1. CaptureInv => CapturesFollowGateway
  BY CaptureInvFollows DEF CapturesFollowGateway
<1>2. QED
  BY <1>1, CapturesStart, CapturesKeep, PTL DEF C!Spec

LEMMA FinishedStays ==
    ASSUME CaptureInv, [C!Next]_(C!vars),
           NEW c \in C!WithStatus("finished") \cup C!WithStatus("deleted")
    PROVE  captures'[c].status \in {captures[c].status, "deleted"}
<1> DEFINE Kept == captures'[c].status \in {captures[c].status, "deleted"}
<1>0. /\ captures \in Seq(CaptureType) /\ CaptureTypes
      /\ c \in C!Ids /\ captures[c].status \in {"finished", "deleted"} /\ c \notin C!Active
  BY DEF CaptureInv, CaptureTypes, C!WithStatus, C!Active
<1>1. CASE captures' = captures
  BY <1>0, <1>1
<1>2. ASSUME NEW bound, C!NewCapture(bound) PROVE Kept
  BY <1>0, <1>2, NewMoves
<1>3. ASSUME NEW d, NEW s \in {"finished", "deleted"}, NEW b \in BOOLEAN,
             captures' = C!Set(d, s, b)
      PROVE  Kept
  BY <1>0, <1>3, SetMoves
<1>4. ASSUME NEW s \in {"active", "interrupted"}, NEW d, NEW b \in BOOLEAN, d # c,
             captures' = C!Set(d, s, b)
      PROVE  Kept
  BY <1>0, <1>4, SetMoves
<1>5. ASSUME NEW h \in Handlers, C!Handle(h) PROVE Kept
  <2>1. CASE C!Insert(h)
    BY <1>2, <2>1 DEF C!Insert
  <2>2. CASE C!InterruptAll(h)
    BY <1>0, <2>2, InterruptMoves DEF C!InterruptAll
  <2>3. CASE C!Finish(h)
    <3>1. (cpc[h] = "finish some") \in BOOLEAN
      OBVIOUS
    <3>2. QED
      BY <1>3, <2>3, <3>1 DEF C!Finish
  <2>4. CASE C!Delete(h)
    BY <1>3, <2>4 DEF C!Delete
  <2>5. CASE C!Begin(h) \/ C!Activate(h) \/ C!Look(h) \/ C!ReadState(h) \/ C!ReadExisting(h)
             \/ C!Sample(h) \/ C!Terminate(h) \/ C!Spawn(h) \/ C!Check(h) \/ C!ReadIds(h)
             \/ C!SwitchOff(h) \/ C!Unsample(h) \/ C!ReadStatus(h) \/ C!Count(h) \/ C!Find(h)
    BY <1>1, <2>5 DEF C!Begin, C!Activate, C!Look, C!ReadState, C!ReadExisting, C!Sample,
       C!Terminate, C!Spawn, C!Check, C!ReadIds, C!SwitchOff, C!Unsample, C!ReadStatus,
       C!Count, C!Find, C!table
  <2>6. QED
    BY <1>5, <2>1, <2>2, <2>3, <2>4, <2>5 DEF C!Handle
<1>6. CASE C!InterruptStale
  <2>1. CASE C!Active = {}
    BY <1>1, <1>6, <2>1 DEF C!InterruptStale
  <2>2. CASE C!Active # {}
    <3>1. C!Min(C!Active) # c
      BY <1>0, <2>2, LatestIsOne DEF C!Active
    <3>2. (C!Min(C!Active) \in recorded) \in BOOLEAN
      OBVIOUS
    <3>3. QED
      BY <1>4, <1>6, <2>2, <3>1, <3>2 DEF C!InterruptStale
  <2>3. QED
    BY <2>1, <2>2
<1>7. CASE C!Ensure
  <2> DEFINE last == C!Latest(C!WithStatus("interrupted"))
             again == last # 0 /\ ~captures[last].counted
  <2>1. CASE captures' = C!Set(last, "active", FALSE) /\ last # 0
    <3>1. C!WithStatus("interrupted") # {}
      BY <2>1 DEF C!Latest
    <3>2. last # c
      BY <1>0, <3>1, LatestIsOne DEF C!WithStatus
    <3> HIDE DEF last
    <3>3. QED
      BY <1>4, <2>1, <3>2
  <2>2. captures' = captures \/ C!NewCapture(MaxCaptures + MaxBoots) \/
           (captures' = C!Set(last, "active", FALSE) /\ last # 0)
    <3>1. CASE ~gateway
      BY <1>7, <3>1 DEF C!Ensure
    <3>2. CASE gateway /\ C!Active # {}
      BY <1>7, <3>2 DEF C!Ensure
    <3>3. CASE gateway /\ C!Active = {} /\ again
      BY <1>7, <3>3 DEF C!Ensure
    <3>4. CASE gateway /\ C!Active = {} /\ ~again
      BY <1>7, <3>4 DEF C!Ensure
    <3>5. QED
      BY <3>1, <3>2, <3>3, <3>4
  <2> HIDE DEF last, again
  <2>3. QED
    BY <1>1, <1>2, <2>1, <2>2
<1>8. CASE C!AutoCapture
  BY <1>2, <1>8 DEF C!AutoCapture
<1>9. CASE C!Boot \/ C!AutoGateway \/ C!Attach \/ C!Down \/ C!SessionOpens \/ C!SessionEnds
           \/ C!Writes \/ UNCHANGED C!vars
  BY <1>1, <1>9 DEF C!Boot, C!AutoGateway, C!Attach, C!Down, C!SessionOpens, C!SessionEnds,
     C!Writes, C!vars, C!table
<1>10. QED
  BY <1>5, <1>6, <1>7, <1>8, <1>9 DEF C!Next, C!Start

\* The status of a capture that an operator ended is never active or interrupted
\* again, and no statement brings back a row that was deleted, however many
\* requests, boots and sessions run beside it (capture_service.py stop_capture,
\* capture_routes.py).  It is about the status only: overlapping stops may still
\* replace the counts and the time of the end.
THEOREM FinishedStaysFinished == C!Spec => FinishedIsFinal
<1>1. CaptureInv /\ [C!Next]_(C!vars) =>
         [\A c \in C!WithStatus("finished") \cup C!WithStatus("deleted") :
             captures'[c].status \in {captures[c].status, "deleted"}]_captures
  BY FinishedStays
<1>2. CaptureInv /\ [C!Next]_(C!vars) => CaptureInv'
  BY CapturesKeep
<1>3. QED
  BY <1>1, <1>2, CapturesStart, PTL DEF C!Spec, FinishedIsFinal, C!FinishedIsFinal

-----------------------------------------------------------------------------
(* The pool (db/connection.py): it never opens more than max_size          *)
(* connections, leaks no slot and gives no connection to two threads.      *)

\* A thread has a connection exactly from the time it takes or opens one to
\* the time it puts it back or closes it.
HandOK == \A t \in Threads :
    hand[t] # None <=> pc[t] \in {"taken", "using", "returning", "closing"}

IInv == TypeOK /\ HandOK /\ SlotsAccounted /\ OneHolder

\* The threads a slot stands for are finitely many, and a thread that enters
\* or leaves them changes their number by one.
LEMMA SlotsFinite ==
    IsFiniteSet(Slots)
  BY PoolAssumption, FS_Subset DEF Slots

LEMMA SlotAdded ==
    ASSUME TypeOK, NEW t \in Threads, t \notin Slots, Slots' = Slots \cup {t}
    PROVE  Cardinality(Slots') = Cardinality(Slots) + 1 /\ Cardinality(Slots) \in Nat
  BY SlotsFinite, FS_AddElement, FS_CardinalityType

LEMMA SlotRemoved ==
    ASSUME TypeOK, NEW t \in Slots, Slots' = Slots \ {t}
    PROVE  Cardinality(Slots') = Cardinality(Slots) - 1 /\ Cardinality(Slots) \in Nat \ {0}
<1>1. Cardinality(Slots) \in Nat /\ Cardinality(Slots') = Cardinality(Slots) - 1
  BY SlotsFinite, FS_RemoveElement, FS_CardinalityType
<1>2. Cardinality(Slots) # 0
  BY SlotsFinite, FS_EmptySet
<1> QED BY <1>1, <1>2

\* The same for the connections in the queue.
LEMMA FreeAdded ==
    ASSUME TypeOK, NEW c \in Conns, c \notin free, free' = free \cup {c}
    PROVE  Cardinality(free') = Cardinality(free) + 1 /\ Cardinality(free) \in Nat
  BY PoolAssumption, FS_Subset, FS_AddElement, FS_CardinalityType DEF TypeOK

LEMMA FreeRemoved ==
    ASSUME TypeOK, NEW c \in free, free' = free \ {c}
    PROVE  Cardinality(free') = Cardinality(free) - 1 /\ Cardinality(free) \in Nat
  BY PoolAssumption, FS_Subset, FS_RemoveElement, FS_CardinalityType DEF TypeOK

LEMMA SizesAreNumbers ==
    ASSUME TypeOK
    PROVE  Cardinality(free) \in Nat /\ Cardinality(Slots) \in Nat
  BY PoolAssumption, SlotsFinite, FS_Subset, FS_CardinalityType DEF TypeOK

SlotPlaces == {"creating", "failed", "taken", "using", "returning", "closing"}

\* What a move of one thread does to the threads that have a slot.
LEMMA MoveSlots ==
    ASSUME TypeOK, NEW t \in Threads, NEW from, NEW to, Move(t, from, to), to \in Places
    PROVE  /\ pc' \in [Threads -> Places]
           /\ pc[t] = from /\ pc'[t] = to
           /\ \A u \in Threads \ {t} : pc'[u] = pc[u]
           /\ Slots' = IF to \in SlotPlaces THEN Slots \cup {t} ELSE Slots \ {t}
           /\ (t \in Slots) = (from \in SlotPlaces)
  BY DEF TypeOK, Move, Slots, SlotPlaces, Places

\* The constructor: its connections are counted, and none is in a hand.
THEOREM PoolInit == Init => IInv
<1> SUFFICES ASSUME Init PROVE IInv OBVIOUS
<1> USE PoolAssumption
<1>1. TypeOK
  BY DEF Init, TypeOK, Places
<1>2. Slots = {}
  BY DEF Init, Slots
<1>3. Cardinality(Slots) = 0
  BY <1>2, FS_EmptySet
<1>4. SlotsAccounted
  BY <1>3 DEF Init, SlotsAccounted
<1>5. HandOK /\ OneHolder
  BY DEF Init, HandOK, OneHolder, Holders
<1> QED BY <1>1, <1>4, <1>5 DEF IInv

\* Whichever thread moves, the slots, the queue and the hands stay in step.
THEOREM PoolNext == IInv /\ [Next]_vars => IInv'
<1> SUFFICES ASSUME IInv, [Next]_vars PROVE IInv' OBVIOUS
<1> USE PoolAssumption
<1>1. TypeOK /\ HandOK /\ SlotsAccounted /\ OneHolder
  BY DEF IInv
<1>2. Cardinality(free) \in Nat /\ Cardinality(Slots) \in Nat
  BY <1>1, SizesAreNumbers
<1>3. CASE vars' = vars
  BY <1>1, <1>3 DEF vars, IInv, TypeOK, HandOK, SlotsAccounted, OneHolder, Slots, Holders
<1>4. ASSUME NEW t \in Threads, Acquire(t) \/ GiveUp(t)
      PROVE  IInv'
  <2>1. CASE Take(t)
    <3>1. PICK c \in free : free' = free \ {c} /\ Hold(t, c)
      BY <2>1 DEF Take
    <3>2. PICK from \in {"out", "waiting"} : Move(t, from, "taken")
      BY <2>1 DEF Take
    <3>3. Slots' = Slots \cup {t} /\ t \notin Slots /\ pc[t] = from /\ pc'[t] = "taken"
      BY <3>2, <1>1, MoveSlots DEF SlotPlaces, Places
    <3>4. hand[t] = None
      BY <1>1, <3>3 DEF HandOK
    <3>5. Cardinality(Slots') = Cardinality(Slots) + 1
      BY <1>1, <3>3, SlotAdded
    <3>6. Cardinality(free') = Cardinality(free) - 1
      BY <1>1, <3>1, FreeRemoved
    <3>7. TypeOK' /\ HandOK'
      BY <1>1, <2>1, <3>1, <3>2 DEF Take, Move, Hold, TypeOK, HandOK, Places
    <3>8. SlotsAccounted'
      BY <1>1, <1>2, <2>1, <3>2, <3>5, <3>6 DEF Take, Move, SlotsAccounted, TypeOK
    <3>9. OneHolder'
      BY <1>1, <2>1, <3>1, <3>2 DEF Take, Move, Hold, OneHolder, Holders, TypeOK
    <3> QED BY <3>7, <3>8, <3>9 DEF IInv
  <2>2. CASE Miss(t)
    <3>1. Slots' = Slots
      BY <2>2, <1>1, MoveSlots DEF Miss, SlotPlaces, Places
    <3> QED BY <1>1, <2>2, <3>1 DEF Miss, Move, IInv, TypeOK, HandOK, SlotsAccounted,
              OneHolder, Holders, Places
  <2>3. CASE Reserve(t)
    <3>1. CASE created < MaxSize
      <4>1. Move(t, "empty", "creating") /\ created' = created + 1
        BY <2>3, <3>1 DEF Reserve
      <4>2. Slots' = Slots \cup {t} /\ t \notin Slots
        BY <4>1, <1>1, MoveSlots DEF SlotPlaces, Places
      <4>3. Cardinality(Slots') = Cardinality(Slots) + 1
        BY <1>1, <4>2, SlotAdded
      <4>4. TypeOK' /\ HandOK' /\ OneHolder'
        BY <1>1, <2>3, <4>1 DEF Reserve, Move, TypeOK, HandOK, OneHolder, Holders, Places
      <4>5. SlotsAccounted'
        BY <1>1, <1>2, <2>3, <3>1, <4>1, <4>3 DEF Reserve, Move, SlotsAccounted, TypeOK
      <4> QED BY <4>4, <4>5 DEF IInv
    <3>2. CASE ~(created < MaxSize)
      <4>1. Move(t, "empty", "waiting") /\ created' = created
        BY <2>3, <3>2 DEF Reserve
      <4>2. Slots' = Slots
        BY <4>1, <1>1, MoveSlots DEF SlotPlaces, Places
      <4> QED BY <1>1, <2>3, <4>1, <4>2 DEF Reserve, Move, IInv, TypeOK, HandOK,
                SlotsAccounted, OneHolder, Holders, Places
    <3> QED BY <3>1, <3>2
  <2>4. CASE Create(t)
    <3>1. Slots' = Slots
      BY <2>4, <1>1, MoveSlots DEF Create, SlotPlaces, Places
    <3> QED BY <1>1, <2>4, <3>1 DEF Create, Move, Hold, IInv, TypeOK, HandOK,
              SlotsAccounted, OneHolder, Holders, Places
  <2>5. CASE CreateFails(t)
    <3>1. Slots' = Slots
      BY <2>5, <1>1, MoveSlots DEF CreateFails, SlotPlaces, Places
    <3> QED BY <1>1, <2>5, <3>1 DEF CreateFails, Move, IInv, TypeOK, HandOK,
              SlotsAccounted, OneHolder, Holders, Places
  <2>6. CASE GiveBack(t)
    <3>1. Slots' = Slots \ {t} /\ t \in Slots
      BY <2>6, <1>1, MoveSlots DEF GiveBack, SlotPlaces, Places
    <3>2. Cardinality(Slots') = Cardinality(Slots) - 1 /\ Cardinality(Slots) > 0
      BY <1>1, <1>2, <3>1, SlotRemoved
    <3>3. TypeOK' /\ HandOK' /\ OneHolder'
      BY <1>1, <2>6 DEF GiveBack, Move, TypeOK, HandOK, OneHolder, Holders, Places
    <3>4. SlotsAccounted'
      BY <1>1, <1>2, <2>6, <3>2 DEF GiveBack, Move, SlotsAccounted, TypeOK
    <3> QED BY <3>3, <3>4 DEF IInv
  <2>7. CASE TimeOut(t)
    <3>1. Slots' = Slots
      BY <2>7, <1>1, MoveSlots DEF TimeOut, SlotPlaces, Places
    <3> QED BY <1>1, <2>7, <3>1 DEF TimeOut, Move, IInv, TypeOK, HandOK, SlotsAccounted,
              OneHolder, Holders, Places
  <2>8. CASE Enlist(t)
    <3>1. Slots' = Slots
      BY <2>8, <1>1, MoveSlots DEF Enlist, SlotPlaces, Places
    <3>2. hand[t] \in Conns
      BY <1>1, <2>8 DEF Enlist, Move, HandOK, TypeOK
    <3> QED BY <1>1, <2>8, <3>1, <3>2 DEF Enlist, Move, IInv, TypeOK, HandOK,
              SlotsAccounted, OneHolder, Holders, Places
  <2>9. CASE Release(t)
    <3>1. Slots' = Slots /\ t \in Slots
      BY <2>9, <1>1, MoveSlots, SMTT(30) DEF Release, SlotPlaces, Places
    <3>2. Cardinality(Slots) > 0
      BY <1>1, <1>2, <3>1, SlotsFinite, FS_EmptySet
    <3>3. TypeOK' /\ HandOK'
      BY <1>1, <2>9 DEF Release, Move, TypeOK, HandOK, Places
    <3>4. SlotsAccounted'
      BY <1>1, <1>2, <2>9, <3>1, <3>2 DEF Release, Move, SlotsAccounted, TypeOK
    <3>5. OneHolder'
      BY <1>1, <2>9 DEF Release, Move, OneHolder, Holders, TypeOK, HandOK
    <3> QED BY <3>3, <3>4, <3>5 DEF IInv
  <2>10. CASE PutBack(t)
    <3>1. pc[t] = "returning"
      BY <2>10 DEF PutBack, Move
    <3>2. Cardinality(free) < MaxSize
      BY <1>1, <3>1 DEF SlotsAccounted
    <3>3. Move(t, "returning", "out") /\ free' = free \cup {hand[t]} /\ Hold(t, None)
      BY <2>10, <3>2 DEF PutBack
    <3>4. hand[t] \in Conns \ free
      BY <1>1, <3>1 DEF HandOK, OneHolder, Holders, TypeOK
    <3>5. Slots' = Slots \ {t} /\ t \in Slots
      BY <3>3, <1>1, MoveSlots DEF SlotPlaces, Places
    <3>6. Cardinality(Slots') = Cardinality(Slots) - 1 /\ Cardinality(Slots) > 0
      BY <1>1, <1>2, <3>5, SlotRemoved
    <3>7. Cardinality(free') = Cardinality(free) + 1
      BY <1>1, <3>3, <3>4, FreeAdded
    <3>8. TypeOK' /\ HandOK'
      BY <1>1, <2>10, <3>3, <3>4 DEF PutBack, Move, Hold, TypeOK, HandOK, Places
    <3>9. SlotsAccounted'
      <4>1. created' = Cardinality(free') + Cardinality(Slots') /\ created' <= MaxSize
        BY <1>1, <1>2, <2>10, <3>6, <3>7 DEF PutBack, SlotsAccounted, TypeOK
      <4>2. ASSUME NEW u \in Threads, pc'[u] = "returning" PROVE Cardinality(free') < MaxSize
        <5>1. u \in Slots'
          BY <4>2 DEF Slots
        <5>2. IsFiniteSet(Slots') /\ Cardinality(Slots') \in Nat /\ Cardinality(Slots') # 0
          BY <1>1, <1>2, <3>5, <3>6, <5>1, SlotsFinite, FS_RemoveElement, FS_EmptySet,
             FS_CardinalityType
        <5> QED BY <1>2, <3>7, <4>1, <5>2
      <4> QED BY <4>1, <4>2 DEF SlotsAccounted
    <3>10. OneHolder'
      BY <1>1, <2>10, <3>3, <3>4 DEF PutBack, Move, Hold, OneHolder, Holders, TypeOK, HandOK
    <3> QED BY <3>8, <3>9, <3>10 DEF IInv
  <2>11. CASE CloseAll(t)
    <3>1. PICK c \in free : free' = free \ {c} /\ Hold(t, c)
      BY <2>11 DEF CloseAll
    <3>2. Move(t, "out", "closing")
      BY <2>11 DEF CloseAll
    <3>3. Slots' = Slots \cup {t} /\ t \notin Slots
      BY <3>2, <1>1, MoveSlots DEF SlotPlaces, Places
    <3>4. Cardinality(Slots') = Cardinality(Slots) + 1
      BY <1>1, <3>3, SlotAdded
    <3>5. Cardinality(free') = Cardinality(free) - 1
      BY <1>1, <3>1, FreeRemoved
    <3>6. TypeOK' /\ HandOK'
      BY <1>1, <2>11, <3>1, <3>2 DEF CloseAll, Move, Hold, TypeOK, HandOK, Places
    <3>7. SlotsAccounted'
      <4>1. created' = Cardinality(free') + Cardinality(Slots') /\ created' <= MaxSize
        BY <1>1, <1>2, <2>11, <3>4, <3>5 DEF CloseAll, SlotsAccounted, TypeOK
      <4>2. \A u \in Threads : pc'[u] = "returning" => pc[u] = "returning"
        BY <1>1, <3>2 DEF Move, TypeOK
      <4>3. Cardinality(free') < Cardinality(free) /\ Cardinality(free') \in Int
        BY <1>2, <3>5
      <4> QED BY <1>1, <1>2, <4>1, <4>2, <4>3 DEF SlotsAccounted
    <3>8. OneHolder'
      BY <1>1, <2>11, <3>1, <3>2 DEF CloseAll, Move, Hold, OneHolder, Holders, TypeOK
    <3> QED BY <3>6, <3>7, <3>8 DEF IInv
  <2>12. CASE Close(t)
    <3>1. Slots' = Slots \ {t} /\ t \in Slots
      BY <2>12, <1>1, MoveSlots DEF Close, SlotPlaces, Places
    <3>2. Cardinality(Slots') = Cardinality(Slots) - 1 /\ Cardinality(Slots) > 0
      BY <1>1, <1>2, <3>1, SlotRemoved
    <3>3. TypeOK' /\ HandOK'
      BY <1>1, <2>12 DEF Close, Move, Hold, TypeOK, HandOK, Places
    <3>4. SlotsAccounted'
      BY <1>1, <1>2, <2>12, <3>2 DEF Close, Move, SlotsAccounted, TypeOK
    <3>5. OneHolder'
      BY <1>1, <2>12 DEF Close, Move, Hold, OneHolder, Holders, TypeOK
    <3> QED BY <3>3, <3>4, <3>5 DEF IInv
  <2> QED BY <1>4, <2>1, <2>2, <2>3, <2>4, <2>5, <2>6, <2>7, <2>8, <2>9, <2>10, <2>11, <2>12
        DEF Acquire, GiveUp
<1> QED BY <1>3, <1>4 DEF Next

\* However the threads are scheduled and whatever fails, the database has at
\* most max_size connections of the process, no slot is lost, every connection
\* that is handed back finds room in the queue, and none is ever in the hands
\* of two threads, or in the queue and in a hand (acquire, release).
THEOREM PoolSound == Spec => []PoolIsSound
<1>1. IInv => PoolIsSound
  BY DEF IInv, PoolIsSound
<1> QED BY <1>1, PoolInit, PoolNext, PTL DEF Spec

=============================================================================
