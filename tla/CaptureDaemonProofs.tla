------------------------ MODULE CaptureDaemonProofs ------------------------
(***************************************************************************)
(* What a capture daemon promises its clients, for any number of clients   *)
(* and requests: what is confirmed is in the log, answers are not          *)
(* mistaken, a submission is written once or not at all, and nothing is    *)
(* written after the writer is closed.                                     *)
(***************************************************************************)
EXTENDS CaptureDaemon, SequenceTheorems, TLAPS

-----------------------------------------------------------------------------
(* The inductive invariants.                                               *)

Pipe == ToSet(batch) \cup ToSet(queue)

\* An item under way or written.
Around(i) ==
    \/ i \in sock
    \/ \E x \in Conn : serving[x].item = i
    \/ i \in Pipe
    \/ i \in ToSet(log)

\* A client has made its requests one by one, with one connection more.
ClientsOK ==
    /\ \A c \in Clients : conn[c] <= req[c] + 1
    /\ \A c \in Clients : cpc[c] # "idle" => req[c] >= 1 /\ conn[c] >= 1
    /\ \A c \in Clients : cpc[c] = "first" => conn[c] <= req[c]
    /\ \A x \in dead : conn[x[1]] # 0 => x[2] <= conn[x[1]]

\* Everything under way or written was sent before.
SentBefore(i) ==
    /\ i.req <= req[i.client]
    /\ conn[i.client] # 0 => i.conn <= conn[i.client]

AllSent == \A i \in Item : Around(i) => SentBefore(i)

\* A handler has an item of its own connection, or none.
HandlersOK ==
    \A x \in Conn :
        /\ serving[x].phase = "idle" <=> serving[x].item = None
        /\ serving[x].item # None => ConnOf(serving[x].item) = x

\* A connection the process has broken is used no more.
DeadQuiet ==
    \A x \in Conn : x \in dead =>
        serving[x].item = None /\ \A i \in sock : ConnOf(i) # x

\* On a connection that may be read there is nothing of an earlier request:
\* one thing at most, in the socket, with the handler or in the inbox.
OneAnswer(c) ==
    LET x == <<c, conn[c]>>
    IN  /\ cpc[c] = "idle" =>
              /\ inbox[c] = {}
              /\ serving[x].item = None
              /\ \A i \in sock : ConnOf(i) # x
        /\ \A i, j \in sock : ConnOf(i) = x /\ ConnOf(j) = x => i = j
        /\ \A i \in sock : ConnOf(i) = x =>
              i.req = req[c] /\ serving[x].item = None /\ inbox[c] = {}
        /\ serving[x].item # None =>
              serving[x].item.req = req[c] /\ inbox[c] = {}
        /\ \A a, b \in inbox[c] : a = b
        /\ \A a \in inbox[c] : a.req = req[c]

TurnsOK == \A c \in Clients : conn[c] # 0 /\ ~timedOut[c] => OneAnswer(c)

\* Where an item can be: it is queued once and answered when it left.
Once(s) == \A k, m \in 1..Len(s) : s[k] = s[m] /\ s[k] # Sentinel => k = m

PlacesOK ==
    /\ \A i \in sock :
          /\ i \notin Pipe /\ i \notin ToSet(log)
          /\ \A x \in Conn : serving[x].item # i
    /\ \A x \in Conn : serving[x].phase \in {"submit", "put"} =>
          serving[x].item \notin Pipe /\ serving[x].item \notin ToSet(log)
    /\ \A x \in Conn : serving[x].item # None /\ serving[x].item \in Pipe =>
          serving[x].phase = "waiting"
    /\ Once(batch) /\ Once(queue)
    /\ ToSet(batch) \cap ToSet(queue) = {}

ThreadOK ==
    /\ thread \in {"drain", "write", "fallback"} <=> batch # <<>>
    /\ ~up => thread = "none"

\* An answer "ok" is one to an item of the log.
AnswersTrue ==
    /\ \A x \in Conn : serving[x].phase = "ok" => serving[x].item \in ToSet(log)
    /\ \A c \in Clients : \A a \in inbox[c] : a.ok => Logged(c, a.req)

DaemonInv ==
    /\ TypeOK
    /\ ClientsOK
    /\ AllSent
    /\ HandlersOK
    /\ DeadQuiet
    /\ TurnsOK
    /\ PlacesOK
    /\ ThreadOK
    /\ AnswersTrue
    /\ ConfirmedIsLogged

\* Where no write fails halfway.
WholeInv ==
    /\ Once(log)
    /\ ToSet(log) \cap Pipe = {}
    /\ RefusedLeavesNothing

USE DaemonAssumption

-----------------------------------------------------------------------------
(* Sequences as the sets of their members.                                 *)

LEMMA Members ==
    ASSUME NEW S, NEW s \in Seq(S), NEW e
    PROVE  e \in ToSet(s) <=> \E i \in 1..Len(s) : e = s[i]
BY DEF ToSet

LEMMA MembersTyped ==
    ASSUME NEW S, NEW s \in Seq(S)
    PROVE  ToSet(s) \subseteq S
BY ElementOfSeq, Members

LEMMA NoMembers ==
    ASSUME NEW S, NEW s \in Seq(S)
    PROVE  ToSet(s) = {} <=> s = <<>>
<1>1. s = <<>> => ToSet(s) = {}
  BY DEF ToSet
<1>2. ASSUME s # <<>> PROVE ToSet(s) # {}
  <2>1. 1 \in 1..Len(s)
    BY <1>2, EmptySeq
  <2>2. s[1] \in ToSet(s)
    BY <2>1, Members
  <2>3. QED
    BY <2>2
<1>3. QED
  BY <1>1, <1>2

LEMMA MembersAppend ==
    ASSUME NEW S, NEW s \in Seq(S), NEW e \in S
    PROVE  Append(s, e) \in Seq(S) /\ ToSet(Append(s, e)) = ToSet(s) \cup {e}
<1>1. PICK t \in Seq(S) : t = Append(s, e)
  BY AppendProperties
<1>2. /\ Len(t) = Len(s) + 1 /\ Len(s) \in Nat
      /\ \A i \in 1..Len(s) : t[i] = s[i]
      /\ t[Len(s) + 1] = e
  BY <1>1, AppendProperties
<1>3. ASSUME NEW x PROVE x \in ToSet(t) <=> x \in ToSet(s) \cup {e}
  <2>1. x \in ToSet(t) <=> \E i \in 1..Len(t) : x = t[i]
    BY Members
  <2>2. x \in ToSet(s) <=> \E i \in 1..Len(s) : x = s[i]
    BY Members
  <2>3. \A i : i \in 1..Len(t) <=> i \in 1..Len(s) \/ i = Len(s) + 1
    BY <1>2
  <2>4. QED
    BY <1>2, <2>1, <2>2, <2>3
<1>4. QED
  BY <1>1, <1>3

LEMMA MembersConcat ==
    ASSUME NEW S, NEW s \in Seq(S), NEW t \in Seq(S)
    PROVE  s \o t \in Seq(S) /\ ToSet(s \o t) = ToSet(s) \cup ToSet(t)
<1>1. PICK u \in Seq(S) : u = s \o t
  BY ConcatProperties
<1>2. /\ Len(u) = Len(s) + Len(t) /\ Len(s) \in Nat /\ Len(t) \in Nat
      /\ \A i \in 1..Len(u) : u[i] = IF i <= Len(s) THEN s[i] ELSE t[i - Len(s)]
  BY <1>1, ConcatProperties
<1>3. ASSUME NEW x \in ToSet(u) PROVE x \in ToSet(s) \cup ToSet(t)
  <2>1. PICK i \in 1..Len(u) : x = u[i]
    BY Members
  <2>2. CASE i <= Len(s)
    BY <1>2, <2>1, <2>2, Members
  <2>3. CASE i > Len(s)
    <3>1. i - Len(s) \in 1..Len(t) /\ x = t[i - Len(s)]
      BY <1>2, <2>1, <2>3
    <3>2. QED
      BY <3>1, Members
  <2>4. QED
    BY <1>2, <2>2, <2>3
<1>4. ASSUME NEW x \in ToSet(s) PROVE x \in ToSet(u)
  <2>1. PICK i \in 1..Len(s) : x = s[i]
    BY Members
  <2>2. i \in 1..Len(u) /\ u[i] = x
    BY <1>2, <2>1
  <2>3. QED
    BY <2>2, Members
<1>5. ASSUME NEW x \in ToSet(t) PROVE x \in ToSet(u)
  <2>1. PICK i \in 1..Len(t) : x = t[i]
    BY Members
  <2>2. i + Len(s) \in 1..Len(u) /\ ~(i + Len(s) <= Len(s)) /\ i + Len(s) - Len(s) = i
    BY <1>2
  <2>3. u[i + Len(s)] = x
    BY <1>2, <2>1, <2>2
  <2>4. QED
    BY <2>2, <2>3, Members
<1>6. QED
  BY <1>1, <1>3, <1>4, <1>5

LEMMA MembersTail ==
    ASSUME NEW S, NEW s \in Seq(S), s # <<>>
    PROVE  /\ Head(s) \in S /\ Tail(s) \in Seq(S)
           /\ ToSet(s) = {Head(s)} \cup ToSet(Tail(s))
           /\ Once(s) => Once(Tail(s)) /\ (Head(s) # Sentinel => Head(s) \notin ToSet(Tail(s)))
<1>1. PICK t \in Seq(S) : t = Tail(s)
  BY HeadTailProperties
<1>2. /\ Len(s) \in Nat \ {0} /\ Len(t) = Len(s) - 1
      /\ \A i \in 1..Len(t) : t[i] = s[i + 1]
      /\ Head(s) = s[1] /\ Head(s) \in S
  BY <1>1, HeadTailProperties, EmptySeq
<1>3. ASSUME NEW x \in ToSet(s) PROVE x \in {Head(s)} \cup ToSet(t)
  <2>1. PICK i \in 1..Len(s) : x = s[i]
    BY Members
  <2>2. CASE i = 1
    BY <1>2, <2>1, <2>2
  <2>3. CASE i > 1
    <3>1. i - 1 \in 1..Len(t) /\ i - 1 + 1 = i
      BY <1>2, <2>3
    <3>2. t[i - 1] = x
      BY <1>2, <2>1, <3>1
    <3>3. QED
      BY <3>1, <3>2, Members
  <2>4. QED
    BY <2>2, <2>3
<1>4. ASSUME NEW x \in ToSet(t)
      PROVE  \E i \in 2..Len(s) : x = s[i]
  <2>1. PICK i \in 1..Len(t) : x = t[i]
    BY Members
  <2>2. i + 1 \in 2..Len(s)
    BY <1>2
  <2>3. QED
    BY <1>2, <2>1, <2>2
<1>5. ToSet(s) = {Head(s)} \cup ToSet(t)
  <2>1. 1 \in 1..Len(s) /\ \A i \in 2..Len(s) : i \in 1..Len(s)
    BY <1>2
  <2>2. QED
    BY <1>2, <1>3, <1>4, <2>1, Members
<1>6. ASSUME Once(s) PROVE Once(t)
  <2>1. SUFFICES ASSUME NEW k \in 1..Len(t), NEW m \in 1..Len(t),
                        t[k] = t[m], t[k] # Sentinel
                 PROVE  k = m
    BY DEF Once
  <2>2. k + 1 \in 1..Len(s) /\ m + 1 \in 1..Len(s)
    BY <1>2
  <2>3. s[k + 1] = s[m + 1] /\ s[k + 1] # Sentinel
    BY <1>2, <2>1
  <2>4. k + 1 = m + 1
    BY <1>6, <2>2, <2>3 DEF Once
  <2>5. QED
    BY <2>4
<1>7. ASSUME Once(s), Head(s) # Sentinel, Head(s) \in ToSet(t) PROVE FALSE
  <2>1. PICK i \in 2..Len(s) : s[i] = s[1]
    BY <1>2, <1>4, <1>7
  <2>2. i \in 1..Len(s) /\ 1 \in 1..Len(s) /\ i # 1
    BY <1>2
  <2>3. QED
    BY <1>2, <1>7, <2>1, <2>2 DEF Once
<1>8. QED
  BY <1>1, <1>2, <1>5, <1>6, <1>7

LEMMA OnceEmpty == Once(<<>>)
BY DEF Once

LEMMA MembersOne ==
    ASSUME NEW S, NEW e \in S
    PROVE  <<e>> \in Seq(S) /\ ToSet(<<e>>) = {e} /\ Once(<<e>>)
<1>1. <<e>> \in Seq(S) /\ Len(<<e>>) = 1 /\ <<e>>[1] = e
  OBVIOUS
<1>2. Once(<<e>>)
  BY <1>1 DEF Once
<1>3. ToSet(<<e>>) = {e}
  <2>1. \A i : i \in 1..Len(<<e>>) <=> i = 1
    BY <1>1
  <2>2. \A x : x \in ToSet(<<e>>) <=> \E i \in 1..Len(<<e>>) : x = <<e>>[i]
    BY <1>1, Members
  <2>3. QED
    BY <1>1, <2>1, <2>2
<1>4. QED
  BY <1>1, <1>2, <1>3

LEMMA OnceAppend ==
    ASSUME NEW S, NEW s \in Seq(S), NEW e \in S, Once(s),
           e = Sentinel \/ e \notin ToSet(s)
    PROVE  Once(Append(s, e))
<1>1. PICK t \in Seq(S) : t = Append(s, e)
  BY AppendProperties
<1>2. /\ Len(t) = Len(s) + 1 /\ Len(s) \in Nat
      /\ \A i \in 1..Len(s) : t[i] = s[i]
      /\ t[Len(s) + 1] = e
  BY <1>1, AppendProperties
<1>3. SUFFICES ASSUME NEW k \in 1..Len(t), NEW m \in 1..Len(t),
                      t[k] = t[m], t[k] # Sentinel
               PROVE  k = m
  BY <1>1 DEF Once
<1>4. CASE k \in 1..Len(s) /\ m \in 1..Len(s)
  BY <1>2, <1>3, <1>4 DEF Once
<1>5. CASE k = Len(s) + 1 /\ m \in 1..Len(s)
  BY <1>2, <1>3, <1>5, Members
<1>6. CASE m = Len(s) + 1 /\ k \in 1..Len(s)
  BY <1>2, <1>3, <1>6, Members
<1>7. QED
  BY <1>2, <1>4, <1>5, <1>6

LEMMA OnceConcat ==
    ASSUME NEW S, NEW s \in Seq(S), NEW t \in Seq(S), Once(s), Once(t),
           ToSet(s) \cap ToSet(t) = {}
    PROVE  Once(s \o t)
<1>1. PICK u \in Seq(S) : u = s \o t
  BY ConcatProperties
<1>2. /\ Len(u) = Len(s) + Len(t) /\ Len(s) \in Nat /\ Len(t) \in Nat
      /\ \A i \in 1..Len(u) : u[i] = IF i <= Len(s) THEN s[i] ELSE t[i - Len(s)]
  BY <1>1, ConcatProperties
<1>3. SUFFICES ASSUME NEW k \in 1..Len(u), NEW m \in 1..Len(u),
                      u[k] = u[m], u[k] # Sentinel
               PROVE  k = m
  BY <1>1 DEF Once
<1>4. ASSUME NEW i \in 1..Len(u), i <= Len(s) PROVE i \in 1..Len(s) /\ u[i] = s[i]
  BY <1>2, <1>4
<1>5. ASSUME NEW i \in 1..Len(u), ~(i <= Len(s))
      PROVE  i - Len(s) \in 1..Len(t) /\ u[i] = t[i - Len(s)]
  BY <1>2, <1>5
<1>6. CASE k <= Len(s) /\ m <= Len(s)
  BY <1>3, <1>4, <1>6 DEF Once
<1>7. CASE ~(k <= Len(s)) /\ ~(m <= Len(s))
  <2>1. k - Len(s) = m - Len(s)
    BY <1>3, <1>5, <1>7 DEF Once
  <2>2. QED
    BY <1>2, <2>1
<1>8. CASE (k <= Len(s)) # (m <= Len(s))
  <2>1. \A i \in 1..Len(u) : i <= Len(s) => u[i] \in ToSet(s)
    BY <1>4, Members
  <2>2. \A i \in 1..Len(u) : ~(i <= Len(s)) => u[i] \in ToSet(t)
    BY <1>5, Members
  <2>3. u[k] \in ToSet(s) \cap ToSet(t)
    BY <1>3, <1>8, <2>1, <2>2
  <2>4. QED
    BY <2>3
<1>9. QED
  BY <1>6, <1>7, <1>8

\* What append_many writes, whole or cut short, is of what it was given.
LEMMA MembersFirst ==
    ASSUME NEW S, NEW s \in Seq(S), NEW n \in 0..Len(s)
    PROVE  SubSeq(s, 1, n) \in Seq(S) /\ ToSet(SubSeq(s, 1, n)) \subseteq ToSet(s)
<1>0. /\ n \in Int /\ 1 \in Int /\ n >= 0
      /\ \A i \in 1..n : i \in 1..Len(s) /\ s[i] \in S
  BY ElementOfSeq
<1>1. PICK t \in Seq(S) : t = SubSeq(s, 1, n)
  BY <1>0, SubSeqProperties
<1>2. Len(t) = n /\ \A i \in 1..n : t[i] = s[i]
  <2>1. /\ Len(t) = IF 1 <= n THEN n - 1 + 1 ELSE 0
        /\ \A i \in 1..(n - 1 + 1) : t[i] = s[1 + i - 1]
    BY <1>0, <1>1, SubSeqProperties
  <2>2. n - 1 + 1 = n /\ \A i \in 1..n : 1 + i - 1 = i
    BY <1>0
  <2>3. QED
    BY <1>0, <2>1, <2>2
<1>3. ASSUME NEW x \in ToSet(t) PROVE x \in ToSet(s)
  <2>1. PICK i \in 1..n : x = t[i]
    BY <1>2, Members
  <2>2. i \in 1..Len(s) /\ x = s[i]
    BY <1>2, <2>1
  <2>3. QED
    BY <2>2, Members
<1>4. QED
  BY <1>1, <1>3

LEMMA FirstOnly ==
    ASSUME NEW S, NEW s \in Seq(S), s # <<>>
    PROVE  SubSeq(s, 1, 1) = <<Head(s)>>
<1>1. Len(s) \in Nat \ {0} /\ Head(s) = s[1]
  BY HeadTailProperties, EmptySeq
<1>2. 1 \in 1..Len(s)
  BY <1>1
<1>3. /\ 1 \in Int /\ \A i \in 1..1 : s[i] \in S
      /\ 1 - 1 + 1 = 1 /\ 1 + 1 - 1 = 1
  BY <1>2, ElementOfSeq
<1>4. PICK t \in Seq(S) : t = SubSeq(s, 1, 1)
  BY <1>3, SubSeqProperties
<1>5. Len(t) = 1 /\ t[1] = Head(s)
  <2>1. /\ Len(t) = IF 1 <= 1 THEN 1 - 1 + 1 ELSE 0
        /\ \A i \in 1..(1 - 1 + 1) : t[i] = s[1 + i - 1]
    BY <1>3, <1>4, SubSeqProperties
  <2>2. 1 \in 1..(1 - 1 + 1)
    OBVIOUS
  <2>3. QED
    BY <1>1, <1>3, <2>1, <2>2
<1>6. t = <<Head(s)>>
  BY <1>5
<1>7. QED
  BY <1>4, <1>6

-----------------------------------------------------------------------------
(* One step of the system.                                                 *)

LEMMA ItemFields ==
    ASSUME NEW i \in Item
    PROVE  /\ i.client \in Clients /\ i.conn \in Nat /\ i.req \in Nat
           /\ i.valid \in BOOLEAN
           /\ ConnOf(i) = <<i.client, i.conn>>
           /\ i # None /\ i # Sentinel
BY DEF Item, ConnOf

LEMMA MessageFields ==
    ASSUME NEW c \in Clients, NEW k \in Nat, NEW n \in Nat, NEW v \in BOOLEAN
    PROVE  /\ Message(c, k, n, v) \in Item
           /\ Message(c, k, n, v).client = c /\ Message(c, k, n, v).conn = k
           /\ Message(c, k, n, v).req = n
           /\ ConnOf(Message(c, k, n, v)) = <<c, k>>
BY DEF Message, Item, ConnOf

LEMMA Connections ==
    ASSUME NEW x \in Conn
    PROVE  /\ x[1] \in Clients /\ x[2] \in 1..(MaxRequests + 1)
           /\ x = <<x[1], x[2]>>
BY DEF Conn

LEMMA ConnectionOf ==
    ASSUME NEW c \in Clients, NEW k \in 1..(MaxRequests + 1)
    PROVE  <<c, k>> \in Conn
BY DEF Conn

\* What is queued and written are items.
LEMMA PipeTyped ==
    ASSUME TypeOK
    PROVE  /\ ToSet(log) \subseteq Item
           /\ ToSet(batch) \subseteq Item
           /\ ToSet(queue) \subseteq Item \cup {Sentinel}
BY MembersTyped DEF TypeOK

Phases == {"idle", "submit", "put", "waiting", "ok", "error"}
Servings == [Conn -> [phase : Phases, item : Item \cup {None}]]

\* What a handler does to itself.
LEMMA BecomeMoves ==
    ASSUME TypeOK, NEW x \in Conn, NEW ph \in Phases, NEW it \in Item \cup {None},
           serving' = [serving EXCEPT ![x] = [phase |-> ph, item |-> it]]
    PROVE  /\ serving' \in Servings
           /\ serving'[x].phase = ph /\ serving'[x].item = it
           /\ \A y \in Conn : y # x => serving'[y] = serving[y]
<1>1. serving \in Servings
  BY DEF TypeOK, Servings, Phases
<1>2. QED
  BY <1>1 DEF Servings

\* What an answer does to the handlers that wait for it.
LEMMA AnswerMoves ==
    ASSUME TypeOK, NEW items, NEW ph \in Phases, Answer(items, ph)
    PROVE  /\ serving' \in Servings
           /\ \A x \in Conn :
                 /\ serving'[x].item = serving[x].item
                 /\ serving'[x].phase = IF serving[x].item \in ToSet(items)
                                        THEN ph ELSE serving[x].phase
<1>1. \A x \in Conn : serving[x].phase \in Phases /\ serving[x].item \in Item \cup {None}
                      /\ serving[x] \in [phase : Phases, item : Item \cup {None}]
  BY DEF TypeOK, Phases
<1> DEFINE new(x) == IF serving[x].item \in ToSet(items)
                     THEN [phase |-> ph, item |-> serving[x].item]
                     ELSE serving[x]
<1>2. \A x \in Conn :
         /\ new(x) \in [phase : Phases, item : Item \cup {None}]
         /\ new(x).item = serving[x].item
         /\ new(x).phase = IF serving[x].item \in ToSet(items)
                           THEN ph ELSE serving[x].phase
  BY <1>1
<1>3. serving' = [x \in Conn |-> new(x)]
  BY DEF Answer
<1> HIDE DEF new
<1>4. QED
  BY <1>2, <1>3 DEF Servings

\* Clients only count up: what was sent before stays so.
LEMMA SentStays ==
    ASSUME TypeOK, req' \in [Clients -> Nat], conn' \in [Clients -> Nat], AllSent,
           \A c \in Clients : req[c] <= req'[c],
           \A c \in Clients : conn'[c] # 0 => conn[c] # 0 /\ conn[c] <= conn'[c],
           \A i \in Item : Around(i)' => Around(i) \/ SentBefore(i)'
    PROVE  AllSent'
<1>1. SUFFICES ASSUME NEW i \in Item, SentBefore(i) PROVE SentBefore(i)'
  BY DEF AllSent
<1>2. i.client \in Clients /\ i.conn \in Nat /\ i.req \in Nat
  BY ItemFields
<1>3. PICK c \in Clients : c = i.client
  BY <1>2
<1>4. req[c] \in Nat /\ conn[c] \in Nat /\ req'[c] \in Nat /\ conn'[c] \in Nat
  BY DEF TypeOK
<1>5. i.req <= req'[c]
  BY <1>1, <1>2, <1>3, <1>4 DEF SentBefore
<1>6. conn'[c] # 0 => i.conn <= conn'[c]
  BY <1>1, <1>2, <1>3, <1>4 DEF SentBefore
<1>7. QED
  BY <1>3, <1>5, <1>6 DEF SentBefore

\* A client whose connection nobody touches.
LEMMA TurnStays ==
    ASSUME DaemonInv, NEW c \in Clients,
           conn'[c] = conn[c], cpc'[c] = cpc[c], req'[c] = req[c],
           timedOut'[c] = timedOut[c], inbox'[c] = inbox[c],
           conn[c] # 0 => serving'[<<c, conn[c]>>].item = serving[<<c, conn[c]>>].item,
           \A i : ConnOf(i) = <<c, conn[c]>> => (i \in sock' => i \in sock)
    PROVE  conn'[c] # 0 /\ ~timedOut'[c] => OneAnswer(c)'
<1> SUFFICES ASSUME conn[c] # 0, ~timedOut[c] PROVE OneAnswer(c)'
  OBVIOUS
<1>1. OneAnswer(c)
  BY DEF DaemonInv, TurnsOK
<1>2. serving'[<<c, conn[c]>>].item = serving[<<c, conn[c]>>].item
  OBVIOUS
<1>3. QED
  BY <1>1, <1>2 DEF OneAnswer

\* The writer thread moves nothing that the clients see but the answers.
LEMMA WriterKeeps ==
    ASSUME DaemonInv, UNCHANGED <<client, wire>>,
           \A x \in Conn :
              /\ serving'[x].item = serving[x].item
              /\ serving'[x].phase = "idle" <=> serving[x].phase = "idle"
    PROVE  ClientsOK' /\ HandlersOK' /\ DeadQuiet' /\ TurnsOK'
<1>0. /\ req' = req /\ conn' = conn /\ cpc' = cpc /\ timedOut' = timedOut
      /\ inbox' = inbox /\ dead' = dead /\ sock' = sock
  BY DEF client, wire
<1>1. ClientsOK'
  BY <1>0 DEF DaemonInv, ClientsOK
<1>2. HandlersOK'
  BY DEF DaemonInv, HandlersOK
<1>3. DeadQuiet'
  BY <1>0 DEF DaemonInv, DeadQuiet
<1>4. TurnsOK'
  <2>1. SUFFICES ASSUME NEW c \in Clients, conn[c] # 0, ~timedOut[c]
                 PROVE  OneAnswer(c)'
    BY <1>0 DEF TurnsOK
  <2>2. <<c, conn[c]>> \in Conn
    BY <2>1, ConnectionOf DEF DaemonInv, TypeOK
  <2>3. QED
    BY <1>0, <2>1, <2>2, TurnStays
<1>5. QED
  BY <1>1, <1>2, <1>3, <1>4

\* A step that only moves the queue.
LEMMA QueueKeeps ==
    ASSUME DaemonInv, UNCHANGED <<client, wire, serving, log>>
    PROVE  /\ ClientsOK' /\ HandlersOK' /\ DeadQuiet' /\ TurnsOK'
           /\ AnswersTrue' /\ ConfirmedIsLogged'
           /\ (Pipe' \subseteq Pipe \cup {Sentinel} => AllSent')
           /\ (/\ Pipe' \subseteq Pipe \cup {Sentinel}
               /\ Once(batch') /\ Once(queue')
               /\ ToSet(batch') \cap ToSet(queue') = {}
               => PlacesOK')
<1>1. ClientsOK' /\ HandlersOK' /\ DeadQuiet' /\ TurnsOK'
  BY WriterKeeps
<1>2. /\ req' = req /\ conn' = conn /\ inbox' = inbox /\ sock' = sock
      /\ confirmed' = confirmed /\ serving' = serving /\ log' = log
  BY DEF client, wire
<1>3. AnswersTrue' /\ ConfirmedIsLogged'
  BY <1>2 DEF DaemonInv, AnswersTrue, ConfirmedIsLogged, Logged
<1>4. ASSUME Pipe' \subseteq Pipe \cup {Sentinel} PROVE AllSent'
  <2>1. \A i \in Item : Around(i)' => Around(i)
    BY <1>2, <1>4, ItemFields DEF Around
  <2>2. QED
    BY <1>2, <2>1 DEF DaemonInv, AllSent, SentBefore
<1>5. ASSUME Pipe' \subseteq Pipe \cup {Sentinel},
             Once(batch'), Once(queue'), ToSet(batch') \cap ToSet(queue') = {}
      PROVE  PlacesOK'
  <2>1. \A i \in Item : i \in Pipe' => i \in Pipe
    BY <1>5, ItemFields
  <2>2. sock \subseteq Item /\ \A x \in Conn : serving[x].item \in Item \cup {None}
    BY DEF DaemonInv, TypeOK
  <2>3. \A x \in Conn : serving[x].phase \in {"submit", "put"} => serving[x].item \in Item
    BY <2>2 DEF DaemonInv, HandlersOK
  <2>4. QED
    BY <1>2, <1>5, <2>1, <2>2, <2>3 DEF DaemonInv, PlacesOK
<1>6. QED
  BY <1>1, <1>3, <1>4, <1>5

\* append_many has written some of the batch, and the handlers of some of its
\* items, M, are told.
LEMMA WriteKeeps ==
    ASSUME DaemonInv, UNCHANGED <<client, wire, queue>>,
           NEW M \in SUBSET ToSet(batch), NEW ph \in {"ok", "error"},
           \A x \in Conn :
              /\ serving'[x].item = serving[x].item
              /\ serving'[x].phase = IF serving[x].item \in M THEN ph ELSE serving[x].phase,
           Once(batch'), ToSet(batch') \subseteq ToSet(batch) \ M,
           ToSet(log) \subseteq ToSet(log'),
           ToSet(log') \subseteq ToSet(log) \cup ToSet(batch),
           ph = "ok" => M \subseteq ToSet(log')
    PROVE  /\ ClientsOK' /\ AllSent' /\ HandlersOK' /\ DeadQuiet' /\ TurnsOK'
           /\ PlacesOK' /\ AnswersTrue' /\ ConfirmedIsLogged'
<1>1. /\ req' = req /\ conn' = conn /\ inbox' = inbox /\ sock' = sock
      /\ confirmed' = confirmed /\ queue' = queue
  BY DEF client, wire
<1>2. \A x \in Conn : serving[x].item \in M => serving[x].item # None /\ serving[x].phase # "idle"
  <2>1. ToSet(batch) \subseteq Item
    BY PipeTyped DEF DaemonInv
  <2>2. QED
    BY <2>1, ItemFields DEF DaemonInv, HandlersOK
<1>3. ClientsOK' /\ HandlersOK' /\ DeadQuiet' /\ TurnsOK'
  BY <1>2, WriterKeeps
<1>4. \A i : Around(i)' => Around(i)
  BY <1>1 DEF Around, Pipe
<1>5. AllSent'
  BY <1>1, <1>4 DEF DaemonInv, AllSent, SentBefore
<1>6. PlacesOK'
  <2>1. Pipe' \subseteq Pipe \ M
    BY <1>1 DEF Pipe, DaemonInv, PlacesOK
  <2>2. \A i \in sock' : i \notin Pipe' /\ i \notin ToSet(log') /\ \A x \in Conn : serving'[x].item # i
    BY <1>1, <2>1 DEF Pipe, DaemonInv, PlacesOK
  <2>3. \A x \in Conn : serving'[x].phase \in {"submit", "put"} =>
           serving'[x].item \notin Pipe' /\ serving'[x].item \notin ToSet(log')
    BY <2>1 DEF Pipe, DaemonInv, PlacesOK
  <2>4. \A x \in Conn : serving'[x].item # None /\ serving'[x].item \in Pipe' =>
           serving'[x].phase = "waiting"
    BY <2>1 DEF DaemonInv, PlacesOK
  <2>5. Once(queue') /\ ToSet(batch') \cap ToSet(queue') = {}
    BY <1>1 DEF DaemonInv, PlacesOK
  <2>6. QED
    BY <2>2, <2>3, <2>4, <2>5 DEF PlacesOK
<1>7. AnswersTrue'
  <2>1. \A c, n : Logged(c, n) => Logged(c, n)'
    BY DEF Logged
  <2>2. QED
    BY <1>1, <2>1 DEF DaemonInv, AnswersTrue
<1>8. ConfirmedIsLogged'
  BY <1>1 DEF DaemonInv, ConfirmedIsLogged, Logged
<1>9. QED
  BY <1>3, <1>5, <1>6, <1>7, <1>8

LEMMA SendStep ==
    ASSUME DaemonInv, NEW c \in Clients, NEW v \in BOOLEAN, Send(c, v)
    PROVE  DaemonInv'
<1> DEFINE m == Message(c, conn[c], req[c] + 1, v)
<1>a. /\ m \in Item /\ ConnOf(m) = <<c, conn[c]>>
      /\ m.client = c /\ m.conn = conn[c] /\ m.req = req[c] + 1
      /\ ~Around(m)
  <2>0. conn[c] \in Nat /\ req[c] + 1 \in Nat /\ v \in BOOLEAN
    BY DEF DaemonInv, TypeOK
  <2>1. /\ m \in Item /\ ConnOf(m) = <<c, conn[c]>>
        /\ m.client = c /\ m.conn = conn[c] /\ m.req = req[c] + 1
    BY <2>0, MessageFields
  <2> HIDE DEF m
  <2>2. ~SentBefore(m)
    BY <2>1 DEF SentBefore, DaemonInv, TypeOK, Send
  <2>3. QED
    BY <2>1, <2>2 DEF DaemonInv, AllSent
<1>1. TypeOK'
  <2>1. sock' \subseteq Item
    BY <1>a DEF DaemonInv, TypeOK, Send
  <2>2. req' \in [Clients -> 0..MaxRequests]
    BY DEF DaemonInv, TypeOK, Send
  <2>3. QED
    BY <2>1, <2>2 DEF DaemonInv, TypeOK, Send, process
<1>2. ClientsOK'
  BY SMTT(30) DEF DaemonInv, TypeOK, ClientsOK, Send, client, wire, process
<1>3. AllSent'
  <2>1. \A i \in Item : Around(i)' => Around(i) \/ i = m
    BY DEF Around, Pipe, Send
  <2>2. /\ m.client = c /\ m.req = req'[c] /\ m.conn = conn'[c]
        /\ req'[c] \in Nat /\ conn'[c] \in Nat
    BY <1>a DEF DaemonInv, TypeOK, Send
  <2>3. \A k \in Clients : req[k] <= req'[k]
    BY DEF DaemonInv, TypeOK, Send
  <2>4. \A k \in Clients : conn'[k] # 0 => conn[k] # 0 /\ conn[k] <= conn'[k]
    BY DEF DaemonInv, TypeOK, Send
  <2>5. req' \in [Clients -> Nat] /\ conn' \in [Clients -> Nat]
    BY <1>1 DEF TypeOK
  <2> HIDE DEF m
  <2>6. \A i \in Item : Around(i)' => Around(i) \/ SentBefore(i)'
    BY <2>1, <2>2 DEF SentBefore
  <2>7. QED
    BY <2>3, <2>4, <2>5, <2>6, SentStays DEF DaemonInv
<1>4. HandlersOK'
  BY DEF DaemonInv, HandlersOK, Send, client, wire, process
<1>5. DeadQuiet'
  <2>1. \A i \in sock' : ConnOf(i) \in dead => i \in sock
    BY <1>a DEF Send
  <2>2. QED
    BY <2>1 DEF DaemonInv, DeadQuiet, Send
<1>6. TurnsOK'
  <2>1. SUFFICES ASSUME NEW d \in Clients, conn'[d] # 0, ~timedOut'[d]
                 PROVE  OneAnswer(d)'
    BY DEF TurnsOK
  <2>2. CASE d = c
    <3>1. OneAnswer(c) /\ cpc[c] = "idle"
      BY <2>1, <2>2 DEF DaemonInv, TurnsOK, Send
    <3>2. /\ inbox'[c] = {} /\ serving'[<<c, conn'[c]>>].item = None
          /\ \A i \in sock' : ConnOf(i) = <<c, conn'[c]>> => i = m
      BY <3>1 DEF OneAnswer, Send
    <3>3. m.req = req'[c] /\ cpc'[c] = "first"
      BY <1>a DEF DaemonInv, TypeOK, Send
    <3> HIDE DEF m
    <3>4. QED
      BY <2>2, <3>2, <3>3 DEF OneAnswer
  <2>3. CASE d # c
    <3>1. \A i : ConnOf(i) = <<d, conn[d]>> => (i \in sock' => i \in sock)
      BY <1>a, <2>3 DEF Send
    <3>2. QED
      BY <2>1, <2>3, <3>1, TurnStays DEF DaemonInv, TypeOK, Send
  <2>4. QED
    BY <2>2, <2>3
<1>7. PlacesOK'
  <2>1. \A i \in sock' : i \in sock \/ i = m
    BY DEF Send
  <2> HIDE DEF m
  <2>2. m \notin Pipe /\ m \notin ToSet(log) /\ \A x \in Conn : serving[x].item # m
    BY <1>a DEF Around
  <2>3. QED
    BY <2>1, <2>2 DEF DaemonInv, PlacesOK, Pipe, Send
<1>8. ThreadOK'
  BY DEF DaemonInv, ThreadOK, Send, client, wire, process
<1>9. AnswersTrue'
  BY DEF DaemonInv, AnswersTrue, Logged, Send, client, wire, process
<1>10. ConfirmedIsLogged'
  BY DEF DaemonInv, ConfirmedIsLogged, Logged, Send, client, wire, process
<1>20. QED
  BY <1>1, <1>2, <1>3, <1>4, <1>5, <1>6, <1>7, <1>8, <1>9, <1>10 DEF DaemonInv

LEMMA SendNowhereStep ==
    ASSUME DaemonInv, NEW c \in Clients, SendNowhere(c)
    PROVE  DaemonInv'
<1>1. TypeOK'
  BY DEF DaemonInv, TypeOK, ClientsOK, SendNowhere, client, wire, process
<1>2. ClientsOK'
  BY DEF DaemonInv, TypeOK, ClientsOK, SendNowhere, client, wire, process
<1>3. AllSent'
  <2>1. \A i \in Item : Around(i)' => Around(i)
    BY DEF Around, Pipe, SendNowhere, wire
  <2>2. \A k \in Clients : req[k] <= req'[k]
    BY DEF DaemonInv, TypeOK, SendNowhere, wire
  <2>3. \A k \in Clients : conn'[k] # 0 => conn[k] # 0 /\ conn[k] <= conn'[k]
    BY DEF DaemonInv, TypeOK, SendNowhere, wire
  <2>4. req' \in [Clients -> Nat] /\ conn' \in [Clients -> Nat]
    BY <1>1 DEF TypeOK
  <2>5. QED
    BY <2>1, <2>2, <2>3, <2>4, SentStays DEF DaemonInv
<1>4. HandlersOK'
  BY DEF DaemonInv, HandlersOK, SendNowhere, client, wire, process
<1>5. DeadQuiet'
  BY DEF DaemonInv, TypeOK, DeadQuiet, SendNowhere, client, wire, process
<1>6. TurnsOK'
  <2>1. SUFFICES ASSUME NEW d \in Clients, conn'[d] # 0, ~timedOut'[d]
                 PROVE  OneAnswer(d)'
    BY DEF TurnsOK
  <2>2. CASE d = c
    BY <2>1, <2>2 DEF SendNowhere
  <2>3. CASE d # c
    <3>1. \A i : ConnOf(i) = <<d, conn[d]>> => (i \in sock' => i \in sock)
      BY <2>3 DEF SendNowhere, wire
    <3>2. QED
      BY <2>1, <2>3, <3>1, TurnStays DEF DaemonInv, TypeOK, SendNowhere, wire
  <2>4. QED
    BY <2>2, <2>3
<1>7. PlacesOK'
  BY DEF DaemonInv, PlacesOK, Pipe, SendNowhere, client, wire, process
<1>8. ThreadOK'
  BY DEF DaemonInv, ThreadOK, SendNowhere, client, wire, process
<1>9. AnswersTrue'
  BY DEF DaemonInv, AnswersTrue, Logged, SendNowhere, client, wire, process
<1>10. ConfirmedIsLogged'
  BY DEF DaemonInv, ConfirmedIsLogged, Logged, SendNowhere, client, wire, process
<1>20. QED
  BY <1>1, <1>2, <1>3, <1>4, <1>5, <1>6, <1>7, <1>8, <1>9, <1>10 DEF DaemonInv

LEMMA RetryStep ==
    ASSUME DaemonInv, NEW c \in Clients, Retry(c)
    PROVE  DaemonInv'
<1> DEFINE m == Message(c, conn[c] + 1, req[c], valid[c])
<1>a. /\ m \in Item /\ ConnOf(m) = <<c, conn[c] + 1>>
      /\ m.client = c /\ m.conn = conn[c] + 1 /\ m.req = req[c]
      /\ ~Around(m)
  <2>0. conn[c] + 1 \in Nat /\ req[c] \in Nat /\ valid[c] \in BOOLEAN
    BY DEF DaemonInv, TypeOK
  <2>1. /\ m \in Item /\ ConnOf(m) = <<c, conn[c] + 1>>
        /\ m.client = c /\ m.conn = conn[c] + 1 /\ m.req = req[c]
    BY <2>0, MessageFields
  <2> HIDE DEF m
  <2>2. ~SentBefore(m)
    BY <2>1 DEF SentBefore, DaemonInv, TypeOK, ClientsOK, Retry
  <2>3. QED
    BY <2>1, <2>2 DEF DaemonInv, AllSent
<1>b. conn[c] \in Nat /\ conn[c] >= 1
  <2>1. cpc[c] = "first"
    BY DEF Retry
  <2>2. QED
    BY <2>1 DEF DaemonInv, ClientsOK, TypeOK
<1>1. TypeOK'
  <2>1. sock' \subseteq Item
    BY <1>a DEF DaemonInv, TypeOK, Retry
  <2>2. conn' \in [Clients -> 0..(MaxRequests + 1)]
    <3>1. conn[c] + 1 \in 0..(MaxRequests + 1)
      BY DEF DaemonInv, TypeOK, ClientsOK, Retry
    <3>2. QED
      BY <3>1 DEF DaemonInv, TypeOK, Retry
  <2>3. cpc' \in [Clients -> {"idle", "first", "second"}]
    BY DEF DaemonInv, TypeOK, Retry, LastTry
  <2>4. QED
    BY <2>1, <2>2, <2>3 DEF DaemonInv, TypeOK, Retry, process
<1>2. ClientsOK'
  <2>1. conn[c] <= req[c] /\ conn[c] \in Nat /\ req[c] \in Nat /\ conn[c] >= 1
    BY DEF DaemonInv, TypeOK, ClientsOK, Retry
  <2>2. /\ conn'[c] = conn[c] + 1 /\ cpc'[c] = "second" /\ req' = req /\ dead' = dead
        /\ \A k \in Clients : k # c => conn'[k] = conn[k] /\ cpc'[k] = cpc[k]
    BY DEF DaemonInv, TypeOK, Retry, LastTry
  <2>3. \A x \in dead' : conn'[x[1]] # 0 => x[2] <= conn'[x[1]]
    <3>1. SUFFICES ASSUME NEW x \in dead, conn'[x[1]] # 0 PROVE x[2] <= conn'[x[1]]
      BY <2>2
    <3>2. x[1] \in Clients /\ x[2] \in Nat
      BY DEF DaemonInv, TypeOK
    <3>3. CASE x[1] = c
      BY <2>1, <2>2, <3>2, <3>3 DEF DaemonInv, ClientsOK
    <3>4. CASE x[1] # c
      BY <2>2, <3>1, <3>2, <3>4 DEF DaemonInv, ClientsOK
    <3>5. QED
      BY <3>3, <3>4
  <2>4. \A k \in Clients : /\ conn'[k] <= req'[k] + 1
                           /\ cpc'[k] # "idle" => req'[k] >= 1 /\ conn'[k] >= 1
                           /\ cpc'[k] = "first" => conn'[k] <= req'[k]
    BY <2>1, <2>2 DEF DaemonInv, ClientsOK
  <2>5. QED
    BY <2>3, <2>4 DEF ClientsOK
<1>3. AllSent'
  <2>1. \A i \in Item : Around(i)' => Around(i) \/ i = m
    BY DEF Around, Pipe, Retry
  <2>2. /\ m.client = c /\ m.req = req'[c] /\ m.conn = conn'[c]
        /\ req'[c] \in Nat /\ conn'[c] \in Nat
    BY <1>a, <1>1 DEF DaemonInv, TypeOK, Retry
  <2>3. \A k \in Clients : req[k] <= req'[k]
    BY DEF DaemonInv, TypeOK, Retry
  <2>4. \A k \in Clients : conn'[k] # 0 => conn[k] # 0 /\ conn[k] <= conn'[k]
    <3>1. conn[c] \in Nat /\ conn[c] # 0 /\ conn'[c] = conn[c] + 1
      BY <1>b DEF DaemonInv, TypeOK, Retry
    <3>2. \A k \in Clients : conn[k] \in Nat /\ (k # c => conn'[k] = conn[k])
      BY DEF DaemonInv, TypeOK, Retry
    <3>3. QED
      BY <3>1, <3>2
  <2>5. req' \in [Clients -> Nat] /\ conn' \in [Clients -> Nat]
    BY <1>1 DEF TypeOK
  <2> HIDE DEF m
  <2>6. \A i \in Item : Around(i)' => Around(i) \/ SentBefore(i)'
    BY <2>1, <2>2 DEF SentBefore
  <2>7. QED
    BY <2>3, <2>4, <2>5, <2>6, SentStays DEF DaemonInv
<1>4. HandlersOK'
  BY DEF DaemonInv, HandlersOK, Retry, client, wire, process
<1>5. DeadQuiet'
  <2>1. <<c, conn[c] + 1>> \notin dead
    <3>1. conn[c] \in Nat /\ conn[c] # 0
      BY <1>b
    <3>2. SUFFICES ASSUME <<c, conn[c] + 1>> \in dead PROVE FALSE
      OBVIOUS
    <3>3. conn[c] + 1 <= conn[c]
      BY <3>1, <3>2 DEF DaemonInv, ClientsOK
    <3>4. QED
      BY <3>1, <3>3
  <2>2. \A i \in sock' : ConnOf(i) \in dead => i \in sock
    BY <1>a, <2>1 DEF Retry
  <2>3. QED
    BY <2>2 DEF DaemonInv, DeadQuiet, Retry
<1>6. TurnsOK'
  <2>1. SUFFICES ASSUME NEW d \in Clients, conn'[d] # 0, ~timedOut'[d]
                 PROVE  OneAnswer(d)'
    BY DEF TurnsOK
  <2>2. CASE d = c
    <3>1. /\ conn'[c] = conn[c] + 1 /\ inbox'[c] = {} /\ cpc'[c] = "second" /\ req'[c] = req[c]
          /\ serving' = serving /\ conn[c] \in Nat /\ conn[c] # 0
      <4>1. conn[c] \in Nat /\ conn[c] # 0
        BY <1>b
      <4>2. QED
        BY <4>1 DEF DaemonInv, TypeOK, Retry, LastTry
    <3>2. \A i \in Item : Around(i) => ConnOf(i) # <<c, conn'[c]>>
      <4>1. SUFFICES ASSUME NEW i \in Item, Around(i), ConnOf(i) = <<c, conn'[c]>>
                     PROVE  FALSE
        OBVIOUS
      <4>2. i.client = c /\ i.conn = conn[c] + 1
        BY <3>1, <4>1, ItemFields
      <4>3. SentBefore(i)
        BY <4>1 DEF DaemonInv, AllSent
      <4>4. QED
        BY <3>1, <4>2, <4>3 DEF SentBefore
    <3>3. \A i \in sock' : ConnOf(i) = <<c, conn'[c]>> => i = m
      BY <3>2 DEF Around, Retry, DaemonInv, TypeOK
    <3>4. serving'[<<c, conn'[c]>>].item = None
      <4>1. <<c, conn'[c]>> \in Conn
        BY <1>1, <3>1, ConnectionOf DEF TypeOK
      <4>2. PICK x \in Conn : x = <<c, conn'[c]>>
        BY <4>1
      <4>3. serving[x].item \in Item \cup {None}
        BY DEF DaemonInv, TypeOK
      <4>4. serving[x].item \in Item => Around(serving[x].item)
        BY DEF Around
      <4>5. serving[x].item # None => ConnOf(serving[x].item) = x
        BY DEF DaemonInv, HandlersOK
      <4>6. QED
        BY <3>1, <3>2, <4>2, <4>3, <4>4, <4>5
    <3>5. m.req = req'[c]
      BY <1>a, <3>1
    <3> HIDE DEF m
    <3>6. QED
      BY <2>2, <3>1, <3>3, <3>4, <3>5 DEF OneAnswer
  <2>3. CASE d # c
    <3>1. \A i : ConnOf(i) = <<d, conn[d]>> => (i \in sock' => i \in sock)
      BY <1>a, <2>3 DEF Retry
    <3>2. QED
      BY <2>1, <2>3, <3>1, TurnStays DEF DaemonInv, TypeOK, Retry
  <2>4. QED
    BY <2>2, <2>3
<1>7. PlacesOK'
  <2>1. \A i \in sock' : i \in sock \/ i = m
    BY DEF Retry
  <2> HIDE DEF m
  <2>2. m \notin Pipe /\ m \notin ToSet(log) /\ \A x \in Conn : serving[x].item # m
    BY <1>a DEF Around
  <2>3. QED
    BY <2>1, <2>2 DEF DaemonInv, PlacesOK, Pipe, Retry
<1>8. ThreadOK'
  BY DEF DaemonInv, ThreadOK, Retry, client, wire, process
<1>9. AnswersTrue'
  BY DEF DaemonInv, AnswersTrue, Logged, Retry, client, wire, process
<1>10. ConfirmedIsLogged'
  BY DEF DaemonInv, ConfirmedIsLogged, Logged, Retry, client, wire, process
<1>20. QED
  BY <1>1, <1>2, <1>3, <1>4, <1>5, <1>6, <1>7, <1>8, <1>9, <1>10 DEF DaemonInv

LEMMA RetryRefusedStep ==
    ASSUME DaemonInv, NEW c \in Clients, RetryRefused(c)
    PROVE  DaemonInv'
<1>1. TypeOK'
  <2>1. /\ conn' \in [Clients -> 0..(MaxRequests + 1)] /\ timedOut' \in [Clients -> BOOLEAN]
        /\ cpc' \in [Clients -> {"idle", "first", "second"}]
        /\ inbox' \in [Clients -> SUBSET [req : Nat, ok : BOOLEAN]]
    BY DEF DaemonInv, TypeOK, RetryRefused
  <2>2. QED
    BY <2>1 DEF DaemonInv, TypeOK, RetryRefused, process
<1>2. ClientsOK'
  BY DEF DaemonInv, TypeOK, ClientsOK, RetryRefused, client, wire, process
<1>3. AllSent'
  <2>1. \A i \in Item : Around(i)' => Around(i)
    BY DEF Around, Pipe, RetryRefused
  <2>2. \A k \in Clients : req[k] <= req'[k]
    BY DEF DaemonInv, TypeOK, RetryRefused
  <2>3. \A k \in Clients : conn'[k] # 0 => conn[k] # 0 /\ conn[k] <= conn'[k]
    BY DEF DaemonInv, TypeOK, RetryRefused
  <2>4. req' \in [Clients -> Nat] /\ conn' \in [Clients -> Nat]
    BY <1>1 DEF TypeOK
  <2>5. QED
    BY <2>1, <2>2, <2>3, <2>4, SentStays DEF DaemonInv
<1>4. HandlersOK'
  BY DEF DaemonInv, HandlersOK, RetryRefused, client, wire, process
<1>5. DeadQuiet'
  BY DEF DaemonInv, TypeOK, DeadQuiet, RetryRefused, client, wire, process
<1>6. TurnsOK'
  <2>1. SUFFICES ASSUME NEW d \in Clients, conn'[d] # 0, ~timedOut'[d]
                 PROVE  OneAnswer(d)'
    BY DEF TurnsOK
  <2>2. CASE d = c
    BY <2>1, <2>2 DEF DaemonInv, TypeOK, RetryRefused
  <2>3. CASE d # c
    <3>1. \A i : ConnOf(i) = <<d, conn[d]>> => (i \in sock' => i \in sock)
      BY <2>3 DEF RetryRefused
    <3>2. QED
      BY <2>1, <2>3, <3>1, TurnStays DEF DaemonInv, TypeOK, RetryRefused
  <2>4. QED
    BY <2>2, <2>3
<1>7. PlacesOK'
  BY DEF DaemonInv, PlacesOK, Pipe, RetryRefused, client, wire, process
<1>8. ThreadOK'
  BY DEF DaemonInv, ThreadOK, RetryRefused, client, wire, process
<1>9. AnswersTrue'
  BY DEF DaemonInv, AnswersTrue, Logged, RetryRefused, client, wire, process
<1>10. ConfirmedIsLogged'
  BY DEF DaemonInv, ConfirmedIsLogged, Logged, RetryRefused, client, wire, process
<1>20. QED
  BY <1>1, <1>2, <1>3, <1>4, <1>5, <1>6, <1>7, <1>8, <1>9, <1>10 DEF DaemonInv

LEMMA GiveUpStep ==
    ASSUME DaemonInv, NEW c \in Clients, GiveUp(c)
    PROVE  DaemonInv'
<1>1. TypeOK'
  BY DEF DaemonInv, TypeOK, ClientsOK, GiveUp, client, wire, process
<1>2. ClientsOK'
  BY DEF DaemonInv, TypeOK, ClientsOK, GiveUp, client, wire, process
<1>3. AllSent'
  <2>1. \A i \in Item : Around(i)' => Around(i)
    BY DEF Around, Pipe, GiveUp, wire
  <2>2. \A k \in Clients : req[k] <= req'[k]
    BY DEF DaemonInv, TypeOK, GiveUp, wire
  <2>3. \A k \in Clients : conn'[k] # 0 => conn[k] # 0 /\ conn[k] <= conn'[k]
    BY DEF DaemonInv, TypeOK, GiveUp, wire
  <2>4. req' \in [Clients -> Nat] /\ conn' \in [Clients -> Nat]
    BY <1>1 DEF TypeOK
  <2>5. QED
    BY <2>1, <2>2, <2>3, <2>4, SentStays DEF DaemonInv
<1>4. HandlersOK'
  BY DEF DaemonInv, HandlersOK, GiveUp, client, wire, process
<1>5. DeadQuiet'
  BY DEF DaemonInv, TypeOK, DeadQuiet, GiveUp, client, wire, process
<1>6. TurnsOK'
  <2>1. SUFFICES ASSUME NEW d \in Clients, conn'[d] # 0, ~timedOut'[d]
                 PROVE  OneAnswer(d)'
    BY DEF TurnsOK
  <2>2. CASE d = c
    <3>1. /\ conn'[c] = conn[c] /\ cpc'[c] = "idle" /\ inbox' = inbox /\ sock' = sock
          /\ serving' = serving
          /\ ~timedOut[c] /\ <<c, conn[c]>> \in dead
      BY <2>1, <2>2 DEF DaemonInv, TypeOK, GiveUp, wire
    <3>2. OneAnswer(c) /\ inbox[c] = {} /\ <<c, conn[c]>> \in Conn
      BY <2>1, <2>2, <3>1, ConnectionOf
         DEF DaemonInv, TypeOK, TurnsOK, GiveUp, ReadFails, MayRead
    <3>3. serving[<<c, conn[c]>>].item = None /\ \A i \in sock : ConnOf(i) # <<c, conn[c]>>
      BY <3>1, <3>2 DEF DaemonInv, DeadQuiet
    <3>4. QED
      BY <2>2, <3>1, <3>2, <3>3 DEF OneAnswer
  <2>3. CASE d # c
    <3>1. \A i : ConnOf(i) = <<d, conn[d]>> => (i \in sock' => i \in sock)
      BY <2>3 DEF GiveUp, wire
    <3>2. QED
      BY <2>1, <2>3, <3>1, TurnStays DEF DaemonInv, TypeOK, GiveUp, wire
  <2>4. QED
    BY <2>2, <2>3
<1>7. PlacesOK'
  BY DEF DaemonInv, PlacesOK, Pipe, GiveUp, client, wire, process
<1>8. ThreadOK'
  BY DEF DaemonInv, ThreadOK, GiveUp, client, wire, process
<1>9. AnswersTrue'
  BY DEF DaemonInv, AnswersTrue, Logged, GiveUp, client, wire, process
<1>10. ConfirmedIsLogged'
  BY DEF DaemonInv, ConfirmedIsLogged, Logged, GiveUp, client, wire, process
<1>20. QED
  BY <1>1, <1>2, <1>3, <1>4, <1>5, <1>6, <1>7, <1>8, <1>9, <1>10 DEF DaemonInv

LEMMA ReceiveStep ==
    ASSUME DaemonInv, NEW c \in Clients, Receive(c)
    PROVE  DaemonInv'
<1>1. TypeOK'
  <2>1. inbox' \in [Clients -> SUBSET [req : Nat, ok : BOOLEAN]]
    BY DEF DaemonInv, TypeOK, Receive
  <2>2. confirmed' \subseteq Clients \X (1..MaxRequests)
    BY DEF DaemonInv, TypeOK, ClientsOK, Receive
  <2>3. cpc' \in [Clients -> {"idle", "first", "second"}]
    BY DEF DaemonInv, TypeOK, Receive
  <2>4. QED
    BY <2>1, <2>2, <2>3 DEF DaemonInv, TypeOK, Receive, process
<1>2. ClientsOK'
  BY DEF DaemonInv, TypeOK, ClientsOK, Receive, client, wire, process
<1>3. AllSent'
  <2>1. \A i \in Item : Around(i)' => Around(i)
    BY DEF Around, Pipe, Receive
  <2>2. \A k \in Clients : req[k] <= req'[k]
    BY DEF DaemonInv, TypeOK, Receive
  <2>3. \A k \in Clients : conn'[k] # 0 => conn[k] # 0 /\ conn[k] <= conn'[k]
    BY DEF DaemonInv, TypeOK, Receive
  <2>4. req' \in [Clients -> Nat] /\ conn' \in [Clients -> Nat]
    BY <1>1 DEF TypeOK
  <2>5. QED
    BY <2>1, <2>2, <2>3, <2>4, SentStays DEF DaemonInv
<1>4. HandlersOK'
  BY DEF DaemonInv, HandlersOK, Receive, client, wire, process
<1>5. DeadQuiet'
  BY DEF DaemonInv, TypeOK, DeadQuiet, Receive, client, wire, process
<1>6. TurnsOK'
  <2>1. SUFFICES ASSUME NEW d \in Clients, conn'[d] # 0, ~timedOut'[d]
                 PROVE  OneAnswer(d)'
    BY DEF TurnsOK
  <2>2. CASE d = c
    <3>1. PICK answer \in inbox[c] :
             /\ inbox'[c] = inbox[c] \ {answer} /\ conn' = conn /\ cpc'[c] = "idle"
             /\ sock' = sock /\ serving' = serving /\ ~timedOut[c]
      BY DEF DaemonInv, TypeOK, Receive, MayRead
    <3>2. OneAnswer(c)
      BY <2>1, <2>2, <3>1 DEF DaemonInv, TurnsOK
    <3>3. inbox'[c] = {}
      BY <3>1, <3>2 DEF OneAnswer
    <3>4. QED
      BY <2>2, <3>1, <3>2, <3>3 DEF OneAnswer
  <2>3. CASE d # c
    <3>1. \A i : ConnOf(i) = <<d, conn[d]>> => (i \in sock' => i \in sock)
      BY <2>3 DEF Receive
    <3>2. QED
      BY <2>1, <2>3, <3>1, TurnStays DEF DaemonInv, TypeOK, Receive
  <2>4. QED
    BY <2>2, <2>3
<1>7. PlacesOK'
  BY DEF DaemonInv, PlacesOK, Pipe, Receive, client, wire, process
<1>8. ThreadOK'
  BY DEF DaemonInv, ThreadOK, Receive, client, wire, process
<1>9. AnswersTrue'
  BY DEF DaemonInv, AnswersTrue, Logged, Receive, client, wire, process
<1>10. ConfirmedIsLogged'
  <2>1. PICK answer \in inbox[c] :
           /\ confirmed' = IF answer.ok THEN confirmed \cup {<<c, req[c]>>} ELSE confirmed
           /\ log' = log /\ ~timedOut[c] /\ cpc[c] # "idle"
    BY DEF Receive, MayRead
  <2>2. OneAnswer(c)
    BY <2>1 DEF DaemonInv, TurnsOK, ClientsOK
  <2>3. answer.ok => Logged(c, req[c])
    BY <2>1, <2>2 DEF OneAnswer, DaemonInv, AnswersTrue
  <2>4. QED
    BY <2>1, <2>3 DEF DaemonInv, ConfirmedIsLogged, Logged
<1>20. QED
  BY <1>1, <1>2, <1>3, <1>4, <1>5, <1>6, <1>7, <1>8, <1>9, <1>10 DEF DaemonInv

LEMMA DispatchStep ==
    ASSUME DaemonInv, NEW x \in Conn, Dispatch(x)
    PROVE  DaemonInv'
<1>a. PICK i \in sock :
         /\ ConnOf(i) = x /\ sock' = sock \ {i} /\ serving[x] = Rest
         /\ i \in Item
         /\ \E ph \in {"submit", "error"} :
               serving' = [serving EXCEPT ![x] = [phase |-> ph, item |-> i]]
         /\ thread' \in {thread, "get"}
         /\ thread' # thread => thread \in {"none", "stopped"}
         /\ writer' \in {writer, "open"} /\ up
         /\ UNCHANGED <<client, inbox, dead, queue, batch, up, stopping, boots, log>>
  BY DEF Dispatch, Become, DaemonInv, TypeOK
<1>b. PICK ph \in {"submit", "error"} :
         /\ serving' \in Servings
         /\ serving'[x].phase = ph /\ serving'[x].item = i
         /\ \A y \in Conn : y # x => serving'[y] = serving[y]
  BY <1>a, BecomeMoves, ZenonT(60) DEF DaemonInv, Phases
<1>c. serving[x].item = None /\ i # None
  BY <1>a, ItemFields DEF Rest
<1>1. TypeOK'
  <2>1. thread' \in {"none", "get", "drain", "write", "fallback", "stopped"}
    BY <1>a DEF DaemonInv, TypeOK
  <2>2. QED
    BY <1>a, <1>b, <2>1 DEF DaemonInv, TypeOK, Servings, Phases, client
<1>2. ClientsOK'
  BY <1>a DEF DaemonInv, ClientsOK, client
<1>3. AllSent'
  <2>1. \A j \in Item : Around(j)' => Around(j)
    BY <1>a, <1>b, ItemFields DEF Around, Pipe
  <2>2. QED
    BY <1>a, <2>1 DEF DaemonInv, AllSent, SentBefore, client
<1>4. HandlersOK'
  BY <1>a, <1>b, <1>c DEF DaemonInv, HandlersOK
<1>5. DeadQuiet'
  BY <1>a, <1>b DEF DaemonInv, DeadQuiet
<1>6. TurnsOK'
  <2>1. SUFFICES ASSUME NEW c \in Clients, conn[c] # 0, ~timedOut[c]
                 PROVE  OneAnswer(c)'
    BY <1>a DEF TurnsOK, client
  <2>2. OneAnswer(c) /\ <<c, conn[c]>> \in Conn
    BY <2>1, ConnectionOf DEF DaemonInv, TypeOK, TurnsOK
  <2>3. /\ req' = req /\ conn' = conn /\ cpc' = cpc /\ timedOut' = timedOut
    BY <1>a DEF client
  <2>4. CASE x = <<c, conn[c]>>
    <3>1. i.req = req[c] /\ inbox[c] = {} /\ cpc[c] # "idle"
      BY <1>a, <2>2, <2>4 DEF OneAnswer
    <3>2. \A j \in sock' : ConnOf(j) # x
      BY <1>a, <2>2, <2>4 DEF OneAnswer
    <3>3. QED
      BY <1>a, <1>b, <2>3, <2>4, <3>1, <3>2 DEF OneAnswer
  <2>5. CASE x # <<c, conn[c]>>
    <3>1. serving'[<<c, conn[c]>>].item = serving[<<c, conn[c]>>].item
      BY <1>b, <2>2, <2>5
    <3>2. inbox'[c] = inbox[c] /\ \A j : j \in sock' => j \in sock
      BY <1>a DEF wire
    <3>3. QED
      BY <2>1, <2>3, <3>1, <3>2, TurnStays
  <2>6. QED
    BY <2>4, <2>5
<1>7. PlacesOK'
  <2>1. /\ i \notin Pipe /\ i \notin ToSet(log) /\ Pipe' = Pipe
        /\ queue' = queue /\ batch' = batch /\ log' = log
    BY <1>a DEF DaemonInv, PlacesOK, Pipe
  <2>2. \A j \in sock' : /\ j \notin Pipe' /\ j \notin ToSet(log')
                         /\ \A y \in Conn : serving'[y].item # j
    BY <1>a, <1>b, <2>1 DEF DaemonInv, PlacesOK
  <2>3. \A y \in Conn : serving'[y].phase \in {"submit", "put"} =>
           serving'[y].item \notin Pipe' /\ serving'[y].item \notin ToSet(log')
    BY <1>b, <2>1 DEF DaemonInv, PlacesOK
  <2>4. \A y \in Conn : serving'[y].item # None /\ serving'[y].item \in Pipe' =>
           serving'[y].phase = "waiting"
    BY <1>b, <2>1 DEF DaemonInv, PlacesOK
  <2>5. QED
    BY <2>1, <2>2, <2>3, <2>4 DEF DaemonInv, PlacesOK
<1>8. ThreadOK'
  BY <1>a DEF DaemonInv, ThreadOK
<1>9. AnswersTrue'
  BY <1>a, <1>b DEF DaemonInv, AnswersTrue, Logged
<1>10. ConfirmedIsLogged'
  BY <1>a DEF DaemonInv, ConfirmedIsLogged, Logged, client
<1>20. QED
  BY <1>1, <1>2, <1>3, <1>4, <1>5, <1>6, <1>7, <1>8, <1>9, <1>10 DEF DaemonInv

LEMMA CheckOpenStep ==
    ASSUME DaemonInv, NEW x \in Conn, CheckOpen(x)
    PROVE  DaemonInv'
<1>a. /\ serving[x].phase = "submit" /\ serving[x].item \in Item
      /\ \E ph \in {"put", "error"} :
            serving' = [serving EXCEPT ![x] = [phase |-> ph, item |-> serving[x].item]]
      /\ UNCHANGED <<client, wire, queue, thread, batch, process, log>>
  BY DEF CheckOpen, Become, DaemonInv, TypeOK, HandlersOK
<1>b. PICK ph \in {"put", "error"} :
         /\ serving' \in Servings
         /\ serving'[x].phase = ph /\ serving'[x].item = serving[x].item
         /\ \A y \in Conn : y # x => serving'[y] = serving[y]
  <2>1. PICK ph \in {"put", "error"} :
           serving' = [serving EXCEPT ![x] = [phase |-> ph, item |-> serving[x].item]]
    BY <1>a
  <2>2. TypeOK /\ ph \in Phases /\ serving[x].item \in Item \cup {None}
    BY <1>a DEF DaemonInv, Phases
  <2>3. QED
    BY <2>1, <2>2, BecomeMoves
<1>1. TypeOK'
  BY <1>a, <1>b DEF DaemonInv, TypeOK, Servings, Phases, client, wire, process
<1>2. ClientsOK'
  BY <1>a DEF DaemonInv, ClientsOK, client, wire
<1>3. AllSent'
  <2>1. \A j \in Item : Around(j)' => Around(j)
    BY <1>a, <1>b DEF Around, Pipe, wire
  <2>2. QED
    BY <1>a, <2>1 DEF DaemonInv, AllSent, SentBefore, client
<1>4. HandlersOK'
  BY <1>a, <1>b DEF DaemonInv, HandlersOK
<1>5. DeadQuiet'
  BY <1>a, <1>b DEF DaemonInv, DeadQuiet, wire
<1>6. TurnsOK'
  <2>1. SUFFICES ASSUME NEW c \in Clients, conn[c] # 0, ~timedOut[c]
                 PROVE  OneAnswer(c)'
    BY <1>a DEF TurnsOK, client
  <2>2. OneAnswer(c) /\ <<c, conn[c]>> \in Conn
    BY <2>1, ConnectionOf DEF DaemonInv, TypeOK, TurnsOK
  <2>3. /\ req' = req /\ conn' = conn /\ cpc' = cpc /\ timedOut' = timedOut
    BY <1>a DEF client
  <2>4. CASE x = <<c, conn[c]>>
    <3>1. serving'[<<c, conn[c]>>].item = serving[<<c, conn[c]>>].item
      BY <1>b, <2>4
    <3>2. inbox'[c] = inbox[c] /\ \A i : i \in sock' => i \in sock
      BY <1>a DEF wire
    <3>3. QED
      BY <2>1, <2>3, <3>1, <3>2, TurnStays
  <2>5. CASE x # <<c, conn[c]>>
    <3>1. serving'[<<c, conn[c]>>].item = serving[<<c, conn[c]>>].item
      BY <1>b, <2>2, <2>5
    <3>2. inbox'[c] = inbox[c] /\ \A i : i \in sock' => i \in sock
      BY <1>a DEF wire
    <3>3. QED
      BY <2>1, <2>3, <3>1, <3>2, TurnStays
  <2>6. QED
    BY <2>4, <2>5
<1>7. PlacesOK'
  <2>1. /\ Pipe' = Pipe /\ sock' = sock
        /\ queue' = queue /\ batch' = batch /\ log' = log
    BY <1>a DEF Pipe, wire
  <2>2. \A y \in Conn : /\ serving'[y].item = serving[y].item
                        /\ serving'[y].phase = serving[y].phase \/ y = x
    BY <1>b
  <2>3. serving[x].item \notin Pipe
    BY <1>a DEF DaemonInv, PlacesOK
  <2>4. QED
    BY <1>a, <1>b, <2>1, <2>2, <2>3 DEF DaemonInv, PlacesOK
<1>8. ThreadOK'
  BY <1>a DEF DaemonInv, ThreadOK, process
<1>9. AnswersTrue'
  BY <1>a, <1>b DEF DaemonInv, AnswersTrue, Logged, wire
<1>10. ConfirmedIsLogged'
  BY <1>a DEF DaemonInv, ConfirmedIsLogged, Logged, client
<1>20. QED
  BY <1>1, <1>2, <1>3, <1>4, <1>5, <1>6, <1>7, <1>8, <1>9, <1>10 DEF DaemonInv

LEMMA EnqueueStep ==
    ASSUME DaemonInv, NEW x \in Conn, Enqueue(x)
    PROVE  DaemonInv'
<1>a. /\ serving[x].phase = "put" /\ serving[x].item \in Item
      /\ serving' = [serving EXCEPT ![x] = [phase |-> "waiting", item |-> serving[x].item]]
      /\ queue' = Append(queue, serving[x].item)
      /\ UNCHANGED <<client, wire, thread, batch, process, log>>
  BY DEF Enqueue, Put, Become, DaemonInv, TypeOK, HandlersOK
<1>b. /\ serving' \in Servings
      /\ serving'[x].phase = "waiting" /\ serving'[x].item = serving[x].item
      /\ \A y \in Conn : y # x => serving'[y] = serving[y]
  BY <1>a, BecomeMoves DEF DaemonInv, Phases
<1>c. /\ queue' \in Seq(Item \cup {Sentinel})
      /\ ToSet(queue') = ToSet(queue) \cup {serving[x].item}
      /\ Once(queue')
  <2>1. /\ queue \in Seq(Item \cup {Sentinel}) /\ serving[x].item \in Item \cup {Sentinel}
        /\ Once(queue) /\ serving[x].item \notin ToSet(queue)
    BY <1>a DEF DaemonInv, TypeOK, PlacesOK, Pipe
  <2>2. QED
    BY <1>a, <2>1, MembersAppend, OnceAppend
<1>1. TypeOK'
  BY <1>a, <1>b, <1>c DEF DaemonInv, TypeOK, Servings, Phases, client, wire, process
<1>2. ClientsOK'
  BY <1>a DEF DaemonInv, ClientsOK, client, wire
<1>3. AllSent'
  <2>1. \A j \in Item : Around(j)' => Around(j)
    BY <1>a, <1>b, <1>c DEF Around, Pipe, wire
  <2>2. QED
    BY <1>a, <2>1 DEF DaemonInv, AllSent, SentBefore, client
<1>4. HandlersOK'
  BY <1>a, <1>b DEF DaemonInv, HandlersOK
<1>5. DeadQuiet'
  BY <1>a, <1>b DEF DaemonInv, DeadQuiet, wire
<1>6. TurnsOK'
  <2>1. SUFFICES ASSUME NEW c \in Clients, conn[c] # 0, ~timedOut[c]
                 PROVE  OneAnswer(c)'
    BY <1>a DEF TurnsOK, client
  <2>2. OneAnswer(c) /\ <<c, conn[c]>> \in Conn
    BY <2>1, ConnectionOf DEF DaemonInv, TypeOK, TurnsOK
  <2>3. /\ req' = req /\ conn' = conn /\ cpc' = cpc /\ timedOut' = timedOut
    BY <1>a DEF client
  <2>4. CASE x = <<c, conn[c]>>
    <3>1. serving'[<<c, conn[c]>>].item = serving[<<c, conn[c]>>].item
      BY <1>b, <2>4
    <3>2. inbox'[c] = inbox[c] /\ \A i : i \in sock' => i \in sock
      BY <1>a DEF wire
    <3>3. QED
      BY <2>1, <2>3, <3>1, <3>2, TurnStays
  <2>5. CASE x # <<c, conn[c]>>
    <3>1. serving'[<<c, conn[c]>>].item = serving[<<c, conn[c]>>].item
      BY <1>b, <2>2, <2>5
    <3>2. inbox'[c] = inbox[c] /\ \A i : i \in sock' => i \in sock
      BY <1>a DEF wire
    <3>3. QED
      BY <2>1, <2>3, <3>1, <3>2, TurnStays
  <2>6. QED
    BY <2>4, <2>5
<1>7. PlacesOK'
  <2>1. /\ Pipe' = Pipe \cup {serving[x].item} /\ sock' = sock
        /\ batch' = batch /\ log' = log
    BY <1>a, <1>c DEF Pipe, wire
  <2>2. \A y \in Conn : y # x /\ serving[y].item # None => serving[y].item # serving[x].item
    BY <1>a, ItemFields DEF DaemonInv, HandlersOK
  <2>3. serving[x].item \notin Pipe
    BY <1>a DEF DaemonInv, PlacesOK
  <2>4. \A i \in sock' : /\ i \notin Pipe' /\ i \notin ToSet(log')
                         /\ \A y \in Conn : serving'[y].item # i
    BY <1>b, <2>1 DEF DaemonInv, PlacesOK
  <2>5. \A y \in Conn : serving'[y].phase \in {"submit", "put"} =>
           serving'[y].item \notin Pipe' /\ serving'[y].item \notin ToSet(log')
    <3>1. \A y \in Conn : serving[y].phase \in {"submit", "put"} => serving[y].item # None
      BY DEF DaemonInv, HandlersOK
    <3>2. QED
      BY <1>b, <2>1, <2>2, <3>1 DEF DaemonInv, PlacesOK
  <2>6. \A y \in Conn : serving'[y].item # None /\ serving'[y].item \in Pipe' =>
           serving'[y].phase = "waiting"
    BY <1>b, <2>1, <2>2 DEF DaemonInv, PlacesOK
  <2>7. ToSet(batch') \cap ToSet(queue') = {}
    BY <1>c, <2>1, <2>3 DEF DaemonInv, PlacesOK, Pipe
  <2>8. QED
    BY <1>c, <2>1, <2>4, <2>5, <2>6, <2>7 DEF DaemonInv, PlacesOK
<1>8. ThreadOK'
  BY <1>a DEF DaemonInv, ThreadOK, process
<1>9. AnswersTrue'
  BY <1>a, <1>b DEF DaemonInv, AnswersTrue, Logged, wire
<1>10. ConfirmedIsLogged'
  BY <1>a DEF DaemonInv, ConfirmedIsLogged, Logged, client
<1>20. QED
  BY <1>1, <1>2, <1>3, <1>4, <1>5, <1>6, <1>7, <1>8, <1>9, <1>10 DEF DaemonInv

LEMMA RespondStep ==
    ASSUME DaemonInv, NEW x \in Conn, Respond(x)
    PROVE  DaemonInv'
<1>a. /\ serving[x].phase \in {"ok", "error"} /\ serving[x].item \in Item
      /\ ConnOf(serving[x].item) = x
      /\ serving' = [serving EXCEPT ![x] = [phase |-> "idle", item |-> None]]
      /\ UNCHANGED <<client, dead, queue, thread, batch, process, log>>
  BY DEF Respond, Become, DaemonInv, TypeOK, HandlersOK
<1>b. /\ serving' \in Servings
      /\ serving'[x].phase = "idle" /\ serving'[x].item = None
      /\ \A y \in Conn : y # x => serving'[y] = serving[y]
  BY <1>a, BecomeMoves DEF DaemonInv, Phases
<1>c. sock' \subseteq sock /\ \A c \in Clients : c # x[1] => inbox'[c] = inbox[c]
  BY DEF Respond, DaemonInv, TypeOK
<1>d. inbox' \in [Clients -> SUBSET [req : Nat, ok : BOOLEAN]]
  <2>1. inbox \in [Clients -> SUBSET [req : Nat, ok : BOOLEAN]] /\ x[1] \in Clients
    BY Connections DEF DaemonInv, TypeOK
  <2>2. PICK answer \in [req : Nat, ok : BOOLEAN] :
           answer = [req |-> serving[x].item.req, ok |-> serving[x].phase = "ok"]
    <3>1. (serving[x].phase = "ok") \in BOOLEAN
      BY Zenon
    <3>2. serving[x].item.req \in Nat
      BY <1>a, ItemFields
    <3>3. QED
      BY <3>1, <3>2
  <2>3. \/ inbox' = [inbox EXCEPT ![x[1]] = @ \cup {answer}]
        \/ inbox' = inbox
    BY <2>2 DEF Respond
  <2>4. QED
    BY <2>1, <2>3
<1>1. TypeOK'
  BY <1>a, <1>b, <1>c, <1>d DEF DaemonInv, TypeOK, Servings, Phases, client, process
<1>2. ClientsOK'
  BY <1>a DEF DaemonInv, ClientsOK, client
<1>3. AllSent'
  <2>1. \A j \in Item : Around(j)' => Around(j)
    BY <1>a, <1>b, <1>c, ItemFields DEF Around, Pipe
  <2>2. QED
    BY <1>a, <2>1 DEF DaemonInv, AllSent, SentBefore, client
<1>4. HandlersOK'
  BY <1>b DEF DaemonInv, HandlersOK
<1>5. DeadQuiet'
  BY <1>a, <1>b, <1>c DEF DaemonInv, DeadQuiet
<1>6. TurnsOK'
  <2>1. SUFFICES ASSUME NEW c \in Clients, conn[c] # 0, ~timedOut[c]
                 PROVE  OneAnswer(c)'
    BY <1>a DEF TurnsOK, client
  <2>2. OneAnswer(c) /\ <<c, conn[c]>> \in Conn
    BY <2>1, ConnectionOf DEF DaemonInv, TypeOK, TurnsOK
  <2>3. /\ req' = req /\ conn' = conn /\ cpc' = cpc /\ timedOut' = timedOut
    BY <1>a DEF client
  <2>4. CASE x = <<c, conn[c]>>
    <3>1. serving[x].item # None
      BY <1>a, ItemFields
    <3>2. /\ serving[x].item.req = req[c] /\ inbox[c] = {} /\ cpc[c] # "idle"
          /\ \A i \in sock : ConnOf(i) # x
      BY <2>2, <2>4, <3>1 DEF OneAnswer
    <3>3. x[1] = c /\ x[2] = conn[c]
      BY <2>4
    <3>4. inbox'[c] = {[req |-> serving[x].item.req, ok |-> serving[x].phase = "ok"]}
      BY <2>2, <3>2, <3>3 DEF Respond, DaemonInv, TypeOK
    <3>5. QED
      BY <1>b, <1>c, <2>3, <2>4, <3>2, <3>4 DEF OneAnswer
  <2>5. CASE x # <<c, conn[c]>>
    <3>1. serving'[<<c, conn[c]>>].item = serving[<<c, conn[c]>>].item
      BY <1>b, <2>2, <2>5
    <3>2. inbox'[c] = inbox[c] /\ \A i : i \in sock' => i \in sock
      <4>1. CASE x[1] = c
        <5>1. x[2] # conn[x[1]]
          BY <2>5, <4>1, Connections
        <5>2. QED
          BY <1>c, <5>1 DEF Respond
      <4>2. CASE x[1] # c
        BY <1>c, <4>2
      <4>3. QED
        BY <4>1, <4>2
    <3>3. QED
      BY <2>1, <2>3, <3>1, <3>2, TurnStays
  <2>6. QED
    BY <2>4, <2>5
<1>7. PlacesOK'
  <2>1. /\ Pipe' = Pipe /\ queue' = queue /\ batch' = batch /\ log' = log
    BY <1>a DEF Pipe
  <2>2. \A i \in sock : i # None
    BY ItemFields DEF DaemonInv, TypeOK
  <2>3. QED
    BY <1>b, <1>c, <2>1, <2>2 DEF DaemonInv, PlacesOK
<1>8. ThreadOK'
  BY <1>a DEF DaemonInv, ThreadOK, process
<1>9. AnswersTrue'
  <2>1. serving[x].phase = "ok" => Logged(x[1], serving[x].item.req)
    <3>1. serving[x].item.client = x[1]
      BY <1>a, ItemFields
    <3>2. QED
      BY <3>1 DEF DaemonInv, AnswersTrue, Logged
  <2>2. \A c \in Clients : \A a \in inbox'[c] :
           \/ a \in inbox[c]
           \/ c = x[1] /\ a.req = serving[x].item.req /\ (a.ok => serving[x].phase = "ok")
    <3>1. inbox \in [Clients -> SUBSET [req : Nat, ok : BOOLEAN]] /\ x[1] \in Clients
      BY Connections DEF DaemonInv, TypeOK
    <3>2. PICK answer : answer = [req |-> serving[x].item.req, ok |-> serving[x].phase = "ok"]
      OBVIOUS
    <3>3. /\ answer.req = serving[x].item.req
          /\ answer.ok => serving[x].phase = "ok"
      BY <3>2
    <3>4. \/ inbox' = [inbox EXCEPT ![x[1]] = @ \cup {answer}]
          \/ inbox' = inbox
      BY <3>2 DEF Respond
    <3>5. QED
      BY <3>1, <3>3, <3>4
  <2>3. \A c \in Clients : \A a \in inbox'[c] : a.ok => Logged(c, a.req)
    BY <2>1, <2>2 DEF DaemonInv, AnswersTrue
  <2>4. QED
    BY <1>a, <1>b, <2>3 DEF DaemonInv, AnswersTrue, Logged
<1>10. ConfirmedIsLogged'
  BY <1>a DEF DaemonInv, ConfirmedIsLogged, Logged, client
<1>20. QED
  BY <1>1, <1>2, <1>3, <1>4, <1>5, <1>6, <1>7, <1>8, <1>9, <1>10 DEF DaemonInv

LEMMA GetStep ==
    ASSUME DaemonInv, Get
    PROVE  DaemonInv'
<1>1. /\ queue \in Seq(Item \cup {Sentinel}) /\ queue # <<>> /\ Once(queue)
      /\ thread = "get" /\ batch = <<>> /\ queue' = Tail(queue) /\ up
      /\ UNCHANGED <<client, wire, serving, process, log>>
  BY DEF Get, DaemonInv, TypeOK, PlacesOK, ThreadOK
<1>2. /\ Head(queue) \in Item \cup {Sentinel} /\ queue' \in Seq(Item \cup {Sentinel})
      /\ ToSet(queue) = {Head(queue)} \cup ToSet(queue') /\ Once(queue')
      /\ Head(queue) # Sentinel => Head(queue) \notin ToSet(queue')
  BY <1>1, MembersTail
<1>3. CASE Head(queue) = Sentinel
  <2>1. batch' = <<>> /\ thread' = "stopped"
    BY <1>1, <1>3 DEF Get
  <2>2. batch' \in Seq(Item) /\ ToSet(batch') = {} /\ ToSet(batch) = {} /\ Once(batch')
    <3>1. <<>> \in Seq(Item)
      BY EmptySeq
    <3>2. ToSet(<<>>) = {}
      BY <3>1, NoMembers
    <3>3. QED
      BY <1>1, <2>1, <3>1, <3>2, OnceEmpty
  <2>3. Pipe' \subseteq Pipe
    BY <1>2, <2>2 DEF Pipe
  <2>4. AllSent' /\ PlacesOK' /\ ClientsOK' /\ HandlersOK' /\ DeadQuiet' /\ TurnsOK'
        /\ AnswersTrue' /\ ConfirmedIsLogged'
    BY <1>1, <1>2, <2>2, <2>3, QueueKeeps
  <2>5. TypeOK' /\ ThreadOK'
    BY <1>1, <1>2, <2>1, <2>2 DEF DaemonInv, TypeOK, ThreadOK, client, wire, process
  <2>6. QED
    BY <2>4, <2>5 DEF DaemonInv
<1>4. CASE Head(queue) # Sentinel
  <2>1. batch' = <<Head(queue)>> /\ thread' = "drain" /\ Head(queue) \in Item
    BY <1>1, <1>2, <1>4 DEF Get
  <2>2. /\ batch' \in Seq(Item) /\ ToSet(batch') = {Head(queue)} /\ Once(batch')
        /\ batch' # <<>>
    BY <2>1, MembersOne
  <2>3. Pipe' \subseteq Pipe /\ ToSet(batch') \cap ToSet(queue') = {}
    BY <1>2, <1>4, <2>2 DEF Pipe
  <2>4. AllSent' /\ PlacesOK' /\ ClientsOK' /\ HandlersOK' /\ DeadQuiet' /\ TurnsOK'
        /\ AnswersTrue' /\ ConfirmedIsLogged'
    BY <1>1, <1>2, <2>2, <2>3, QueueKeeps
  <2>5. TypeOK' /\ ThreadOK'
    BY <1>1, <1>2, <2>1, <2>2 DEF DaemonInv, TypeOK, ThreadOK, client, wire, process
  <2>6. QED
    BY <2>4, <2>5 DEF DaemonInv
<1>5. QED
  BY <1>3, <1>4

LEMMA DrainStep ==
    ASSUME DaemonInv, Drain
    PROVE  DaemonInv'
<1>1. /\ queue \in Seq(Item \cup {Sentinel}) /\ batch \in Seq(Item)
      /\ Once(queue) /\ Once(batch) /\ ToSet(batch) \cap ToSet(queue) = {}
      /\ thread = "drain" /\ batch # <<>> /\ up
      /\ UNCHANGED <<client, wire, serving, process, log>>
  BY DEF Drain, DaemonInv, TypeOK, PlacesOK, ThreadOK
<1>2. CASE thread' = "write" /\ UNCHANGED <<queue, batch>>
  <2>1. Pipe' = Pipe
    BY <1>2 DEF Pipe
  <2>2. AllSent' /\ PlacesOK' /\ ClientsOK' /\ HandlersOK' /\ DeadQuiet' /\ TurnsOK'
        /\ AnswersTrue' /\ ConfirmedIsLogged'
    BY <1>1, <1>2, <2>1, QueueKeeps
  <2>3. TypeOK' /\ ThreadOK'
    BY <1>1, <1>2 DEF DaemonInv, TypeOK, ThreadOK, client, wire, process
  <2>4. QED
    BY <2>2, <2>3 DEF DaemonInv
<1>3. ASSUME queue # <<>>
      PROVE  /\ Head(queue) \in Item \cup {Sentinel} /\ Tail(queue) \in Seq(Item \cup {Sentinel})
             /\ ToSet(queue) = {Head(queue)} \cup ToSet(Tail(queue)) /\ Once(Tail(queue))
             /\ Head(queue) # Sentinel => Head(queue) \notin ToSet(Tail(queue))
  BY <1>1, <1>3, MembersTail
<1>4. CASE queue # <<>> /\ thread' = "write" /\ queue' = PutBack /\ UNCHANGED batch
  <2>1. /\ queue' \in Seq(Item \cup {Sentinel})
        /\ ToSet(queue') = ToSet(Tail(queue)) \cup {Sentinel}
    <3>1. PICK t \in Seq(Item \cup {Sentinel}) : t = Tail(queue)
      BY <1>3, <1>4
    <3>2. Sentinel \in Item \cup {Sentinel}
      OBVIOUS
    <3>3. /\ Append(t, Sentinel) \in Seq(Item \cup {Sentinel})
          /\ ToSet(Append(t, Sentinel)) = ToSet(t) \cup {Sentinel}
      BY <3>2, MembersAppend
    <3>4. QED
      BY <1>4, <3>1, <3>3 DEF PutBack
  <2>2. Once(queue')
    BY <1>3, <1>4, OnceAppend DEF PutBack
  <2>3. ToSet(batch) \subseteq Item
    BY <1>1, MembersTyped
  <2>4. Pipe' \subseteq Pipe \cup {Sentinel} /\ ToSet(batch') \cap ToSet(queue') = {}
    BY <1>1, <1>3, <1>4, <2>1, <2>3, ItemFields DEF Pipe
  <2>5. AllSent' /\ PlacesOK' /\ ClientsOK' /\ HandlersOK' /\ DeadQuiet' /\ TurnsOK'
        /\ AnswersTrue' /\ ConfirmedIsLogged'
    BY <1>1, <1>4, <2>2, <2>4, QueueKeeps
  <2>6. TypeOK' /\ ThreadOK'
    BY <1>1, <1>4, <2>1 DEF DaemonInv, TypeOK, ThreadOK, client, wire, process
  <2>7. QED
    BY <2>5, <2>6 DEF DaemonInv
<1>5. CASE /\ queue # <<>> /\ Head(queue) # Sentinel
           /\ batch' = Append(batch, Head(queue)) /\ queue' = Tail(queue)
           /\ UNCHANGED thread
  <2>1. Head(queue) \in Item /\ Head(queue) \notin ToSet(batch)
    BY <1>1, <1>3, <1>5
  <2>2. /\ batch' \in Seq(Item) /\ ToSet(batch') = ToSet(batch) \cup {Head(queue)}
        /\ Once(batch')
    BY <1>1, <1>5, <2>1, MembersAppend, OnceAppend
  <2>3. batch' # <<>>
    BY <2>2, NoMembers
  <2>4. Pipe' \subseteq Pipe /\ ToSet(batch') \cap ToSet(queue') = {}
    BY <1>1, <1>3, <1>5, <2>2 DEF Pipe
  <2>5. AllSent' /\ PlacesOK' /\ ClientsOK' /\ HandlersOK' /\ DeadQuiet' /\ TurnsOK'
        /\ AnswersTrue' /\ ConfirmedIsLogged'
    BY <1>1, <1>3, <1>5, <2>2, <2>4, QueueKeeps
  <2>6. TypeOK' /\ ThreadOK'
    BY <1>1, <1>3, <1>5, <2>2, <2>3 DEF DaemonInv, TypeOK, ThreadOK, client, wire, process
  <2>7. QED
    BY <2>5, <2>6 DEF DaemonInv
<1>6. QED
  BY <1>2, <1>4, <1>5 DEF Drain

\* An append_many that raised has written a first part of its items.
LEMMA RaisesSome ==
    ASSUME log \in Seq(Item), NEW s \in Seq(Item), AppendRaises(s)
    PROVE  /\ log' \in Seq(Item)
           /\ ToSet(log) \subseteq ToSet(log')
           /\ ToSet(log') \subseteq ToSet(log) \cup ToSet(s)
           /\ "io" \notin Faults => log' = log
<1>1. CASE log' = log
  BY <1>1
<1>2. ASSUME NEW n \in 0..Len(s), log' = log \o SubSeq(s, 1, n), "io" \in Faults
      PROVE  /\ log' \in Seq(Item)
             /\ ToSet(log) \subseteq ToSet(log')
             /\ ToSet(log') \subseteq ToSet(log) \cup ToSet(s)
             /\ "io" \notin Faults => log' = log
  <2>1. SubSeq(s, 1, n) \in Seq(Item) /\ ToSet(SubSeq(s, 1, n)) \subseteq ToSet(s)
    BY MembersFirst
  <2>2. QED
    <3>1. PICK t \in Seq(Item) : t = SubSeq(s, 1, n) /\ ToSet(t) \subseteq ToSet(s)
      BY <2>1
    <3>2. log \o t \in Seq(Item) /\ ToSet(log \o t) = ToSet(log) \cup ToSet(t)
      BY MembersConcat
    <3>3. QED
      BY <1>2, <3>1, <3>2
<1>3. QED
  BY <1>1, <1>2 DEF AppendRaises

LEMMA WriteBatchStep ==
    ASSUME DaemonInv, WriteBatch
    PROVE  DaemonInv'
<1>1. /\ log \in Seq(Item) /\ batch \in Seq(Item) /\ Once(batch)
      /\ thread = "write" /\ batch # <<>> /\ up
      /\ UNCHANGED <<client, wire, queue, process>>
  BY DEF WriteBatch, DaemonInv, TypeOK, PlacesOK, ThreadOK
<1>2. CASE AppendAll(batch) /\ Answer(batch, "ok") /\ thread' = "get" /\ batch' = <<>>
  <2>1. log' \in Seq(Item) /\ ToSet(log') = ToSet(log) \cup ToSet(batch)
    BY <1>1, <1>2, MembersConcat DEF AppendAll
  <2>2. batch' \in Seq(Item) /\ ToSet(batch') = {} /\ Once(batch')
    <3>1. <<>> \in Seq(Item)
      BY EmptySeq
    <3>2. ToSet(<<>>) = {}
      BY <3>1, NoMembers
    <3>3. QED
      BY <1>2, <3>1, <3>2, OnceEmpty
  <2>3. /\ serving' \in Servings
        /\ \A x \in Conn :
              /\ serving'[x].item = serving[x].item
              /\ serving'[x].phase = IF serving[x].item \in ToSet(batch)
                                     THEN "ok" ELSE serving[x].phase
    <3>1. TypeOK /\ "ok" \in Phases /\ Answer(batch, "ok")
      BY <1>2 DEF DaemonInv, Phases
    <3>2. QED
      BY <3>1, AnswerMoves
  <2>4. PICK M \in SUBSET ToSet(batch) : M = ToSet(batch)
    OBVIOUS
  <2>5. /\ ClientsOK' /\ AllSent' /\ HandlersOK' /\ DeadQuiet' /\ TurnsOK'
        /\ PlacesOK' /\ AnswersTrue' /\ ConfirmedIsLogged'
    BY <1>1, <2>1, <2>2, <2>3, <2>4, WriteKeeps
  <2>6. TypeOK' /\ ThreadOK'
    BY <1>1, <1>2, <2>1, <2>2, <2>3
    DEF DaemonInv, TypeOK, Servings, Phases, ThreadOK, client, wire, process
  <2>7. QED
    BY <2>5, <2>6 DEF DaemonInv
<1>3. CASE AppendRaises(batch) /\ thread' = "fallback" /\ UNCHANGED <<serving, batch>>
  <2>1. /\ log' \in Seq(Item) /\ ToSet(log) \subseteq ToSet(log')
        /\ ToSet(log') \subseteq ToSet(log) \cup ToSet(batch)
    BY <1>1, <1>3, RaisesSome
  <2>2. PICK M \in SUBSET ToSet(batch) : M = {}
    OBVIOUS
  <2>3. /\ \A x \in Conn :
              /\ serving'[x].item = serving[x].item
              /\ serving'[x].phase = IF serving[x].item \in M THEN "ok" ELSE serving[x].phase
        /\ Once(batch') /\ ToSet(batch') \subseteq ToSet(batch) \ M
        /\ M \subseteq ToSet(log')
    BY <1>1, <1>3, <2>2
  <2>4. /\ ClientsOK' /\ AllSent' /\ HandlersOK' /\ DeadQuiet' /\ TurnsOK'
        /\ PlacesOK' /\ AnswersTrue' /\ ConfirmedIsLogged'
    BY <1>1, <2>1, <2>3, WriteKeeps
  <2>5. TypeOK' /\ ThreadOK'
    BY <1>1, <1>3, <2>1 DEF DaemonInv, TypeOK, ThreadOK, client, wire, process
  <2>6. QED
    BY <2>4, <2>5 DEF DaemonInv
<1>4. QED
  BY <1>2, <1>3 DEF WriteBatch

\* The first item of the batch, and the batch without it.
LEMMA FirstOfBatch ==
    ASSUME DaemonInv, batch # <<>>
    PROVE  /\ Head(batch) \in Item /\ Head(batch) \in ToSet(batch)
           /\ Tail(batch) \in Seq(Item) /\ Once(Tail(batch))
           /\ ToSet(Tail(batch)) \subseteq ToSet(batch) \ {Head(batch)}
           /\ Len(batch) = 1 <=> Tail(batch) = <<>>
           /\ SubSeq(batch, 1, 1) = <<Head(batch)>>
           /\ <<Head(batch)>> \in Seq(Item) /\ ToSet(<<Head(batch)>>) = {Head(batch)}
           /\ Once(<<Head(batch)>>)
<1>1. batch \in Seq(Item) /\ Once(batch)
  BY DEF DaemonInv, TypeOK, PlacesOK
<1>2. /\ Head(batch) \in Item /\ Tail(batch) \in Seq(Item)
      /\ ToSet(batch) = {Head(batch)} \cup ToSet(Tail(batch))
      /\ Once(Tail(batch)) /\ (Head(batch) # Sentinel => Head(batch) \notin ToSet(Tail(batch)))
  BY <1>1, MembersTail
<1>3. Head(batch) # Sentinel
  BY <1>2, ItemFields
<1>4. Len(batch) = 1 <=> Tail(batch) = <<>>
  <2>1. Len(Tail(batch)) = Len(batch) - 1 /\ Len(batch) \in Nat
    BY <1>1, HeadTailProperties
  <2>2. Tail(batch) = <<>> <=> Len(Tail(batch)) = 0
    BY <1>2, EmptySeq
  <2>3. QED
    BY <2>1, <2>2
<1>5. SubSeq(batch, 1, 1) = <<Head(batch)>>
  BY <1>1, FirstOnly
<1>6. <<Head(batch)>> \in Seq(Item) /\ ToSet(<<Head(batch)>>) = {Head(batch)} /\ Once(<<Head(batch)>>)
  BY <1>2, MembersOne
<1>7. QED
  BY <1>2, <1>3, <1>4, <1>5, <1>6

LEMMA WriteItemStep ==
    ASSUME DaemonInv, WriteItem
    PROVE  DaemonInv'
<1>1. /\ log \in Seq(Item) /\ thread = "fallback" /\ batch # <<>> /\ up
      /\ batch' = Tail(batch)
      /\ thread' = IF Len(batch) = 1 THEN "get" ELSE "fallback"
      /\ UNCHANGED <<client, wire, queue, process>>
  BY DEF WriteItem, DaemonInv, TypeOK, ThreadOK
<1>2. PICK first \in Seq(Item) :
         /\ first = SubSeq(batch, 1, 1) /\ ToSet(first) = {Head(batch)}
         /\ Head(batch) \in ToSet(batch)
         /\ batch' \in Seq(Item) /\ Once(batch')
         /\ ToSet(batch') \subseteq ToSet(batch) \ {Head(batch)}
         /\ Len(batch) = 1 <=> batch' = <<>>
  BY <1>1, FirstOfBatch
<1>3. PICK ph \in {"ok", "error"} :
         /\ Answer(first, ph)
         /\ log' \in Seq(Item) /\ ToSet(log) \subseteq ToSet(log')
         /\ ToSet(log') \subseteq ToSet(log) \cup ToSet(batch)
         /\ ph = "ok" => Head(batch) \in ToSet(log')
  <2>1. CASE AppendAll(first) /\ Answer(first, "ok")
    <3>1. log' \in Seq(Item) /\ ToSet(log') = ToSet(log) \cup ToSet(first)
      BY <1>1, <2>1, MembersConcat DEF AppendAll
    <3>2. QED
      BY <1>2, <2>1, <3>1
  <2>2. CASE AppendRaises(first) /\ Answer(first, "error")
    <3>1. /\ log' \in Seq(Item) /\ ToSet(log) \subseteq ToSet(log')
          /\ ToSet(log') \subseteq ToSet(log) \cup ToSet(first)
      BY <1>1, <2>2, RaisesSome
    <3>2. QED
      BY <1>2, <2>2, <3>1
  <2>3. QED
    BY <1>2, <2>1, <2>2 DEF WriteItem
<1>4. /\ serving' \in Servings
      /\ \A x \in Conn :
            /\ serving'[x].item = serving[x].item
            /\ serving'[x].phase = IF serving[x].item \in {Head(batch)}
                                   THEN ph ELSE serving[x].phase
  <2>1. TypeOK /\ ph \in Phases
    BY DEF DaemonInv, Phases
  <2>2. QED
    BY <1>2, <1>3, <2>1, AnswerMoves
<1>5. PICK M \in SUBSET ToSet(batch) : M = {Head(batch)}
  BY <1>2
<1>6. /\ ClientsOK' /\ AllSent' /\ HandlersOK' /\ DeadQuiet' /\ TurnsOK'
      /\ PlacesOK' /\ AnswersTrue' /\ ConfirmedIsLogged'
  <2>1. /\ \A x \in Conn :
              /\ serving'[x].item = serving[x].item
              /\ serving'[x].phase = IF serving[x].item \in M THEN ph ELSE serving[x].phase
        /\ ToSet(batch') \subseteq ToSet(batch) \ M
        /\ ph = "ok" => M \subseteq ToSet(log')
    BY <1>2, <1>3, <1>4, <1>5
  <2>2. QED
    BY <1>1, <1>2, <1>3, <2>1, WriteKeeps, ZenonT(60)
<1>7. TypeOK' /\ ThreadOK'
  BY <1>1, <1>2, <1>3, <1>4
  DEF DaemonInv, TypeOK, Servings, Phases, ThreadOK, client, wire, process
<1>8. QED
  BY <1>6, <1>7 DEF DaemonInv


LEMMA StoppingStep ==
    ASSUME DaemonInv,
           Stop \/ CloseCache \/ Join \/ Boot
    PROVE  DaemonInv'
<1>1. /\ UNCHANGED <<client, wire, serving, queue, thread, batch, log>>
      /\ up => up'
  BY DEF Stop, CloseCache, Join, Boot
<1>2. ClientsOK' /\ HandlersOK' /\ DeadQuiet' /\ TurnsOK' /\ AnswersTrue' /\ ConfirmedIsLogged'
  BY <1>1, QueueKeeps
<1>3. AllSent' /\ PlacesOK'
  BY <1>1 DEF DaemonInv, AllSent, SentBefore, Around, Pipe, PlacesOK, client, wire
<1>4. ThreadOK'
  BY <1>1 DEF DaemonInv, ThreadOK
<1>5. /\ up' \in BOOLEAN /\ stopping' \in {"no", "asked", "closing", "joining", "closed"}
      /\ writer' \in {"none", "open", "closed", "sealed"}
  BY DEF Stop, CloseCache, Join, Boot, DaemonInv, TypeOK
<1>6. boots' \in 0..MaxBoots
  <2>1. CASE boots' = boots
    BY <2>1 DEF DaemonInv, TypeOK
  <2>2. CASE boots < MaxBoots /\ boots' = boots + 1
    BY <2>2 DEF DaemonInv, TypeOK
  <2>3. QED
    BY <2>1, <2>2 DEF Stop, CloseCache, Join, Boot
<1>7. TypeOK'
  BY <1>1, <1>5, <1>6 DEF DaemonInv, TypeOK, client, wire
<1>8. QED
  BY <1>2, <1>3, <1>4, <1>7 DEF DaemonInv

LEMMA CloseWriterStep ==
    ASSUME DaemonInv, CloseWriter
    PROVE  DaemonInv'
<1>1. /\ queue' = Append(queue, Sentinel) /\ up' = up /\ stopping' = "joining"
      /\ writer' = "closed"
      /\ UNCHANGED <<client, wire, serving, thread, batch, boots, log>>
      /\ queue \in Seq(Item \cup {Sentinel}) /\ Once(queue)
  BY DEF CloseWriter, Put, DaemonInv, TypeOK, PlacesOK
<1>2. /\ queue' \in Seq(Item \cup {Sentinel})
      /\ ToSet(queue') = ToSet(queue) \cup {Sentinel}
      /\ Once(queue')
  <2>1. Sentinel \in Item \cup {Sentinel}
    OBVIOUS
  <2>2. QED
    BY <1>1, <2>1, MembersAppend, OnceAppend
<1>3. Pipe' \subseteq Pipe \cup {Sentinel}
  BY <1>1, <1>2 DEF Pipe
<1>4. ToSet(batch') \cap ToSet(queue') = {}
  BY <1>1, <1>2, PipeTyped, ItemFields DEF DaemonInv, PlacesOK
<1>5. Once(batch')
  BY <1>1 DEF DaemonInv, PlacesOK
<1>6. /\ ClientsOK' /\ HandlersOK' /\ DeadQuiet' /\ TurnsOK' /\ AnswersTrue'
      /\ ConfirmedIsLogged' /\ AllSent' /\ PlacesOK'
  BY <1>1, <1>2, <1>3, <1>4, <1>5, QueueKeeps
<1>7. TypeOK' /\ ThreadOK'
  BY <1>1, <1>2 DEF DaemonInv, TypeOK, ThreadOK, client, wire
<1>8. QED
  BY <1>6, <1>7 DEF DaemonInv

\* The end of the process loses what it held and no more; an append_many it
\* cuts short has written a first part.
LEMMA EndsStep ==
    ASSUME DaemonInv, ProcessEnds,
           log' \in Seq(Item), ToSet(log) \subseteq ToSet(log'),
           ToSet(log') \subseteq ToSet(log) \cup ToSet(batch)
    PROVE  DaemonInv'
<1>1. /\ req' = req /\ valid' = valid /\ conn' = conn /\ timedOut' = timedOut
      /\ cpc' = cpc /\ confirmed' = confirmed /\ inbox' = inbox
      /\ stopping' = stopping /\ boots' = boots
      /\ up' = FALSE /\ sock' = {} /\ thread' = "none" /\ writer' = "none"
      /\ dead' = dead \cup {<<c, conn[c]>> : c \in Clients}
  BY DEF ProcessEnds, client
<1>2. /\ serving' \in Servings
      /\ \A x \in Conn : serving'[x].phase = "idle" /\ serving'[x].item = None
  BY DEF ProcessEnds, Rest, Servings, Phases
<1>3. /\ queue' = <<>> /\ batch' = <<>>
      /\ batch' \in Seq(Item) /\ queue' \in Seq(Item \cup {Sentinel})
      /\ ToSet(batch') = {} /\ ToSet(queue') = {}
      /\ Once(batch') /\ Once(queue')
  <2>1. <<>> \in Seq(Item) /\ <<>> \in Seq(Item \cup {Sentinel})
    BY EmptySeq
  <2>2. ToSet(<<>>) = {}
    BY <2>1, NoMembers
  <2>3. QED
    BY <2>1, <2>2, OnceEmpty DEF ProcessEnds
<1>4. TypeOK'
  <2>1. dead' \subseteq Clients \X (0..(MaxRequests + 1))
    BY <1>1 DEF DaemonInv, TypeOK
  <2>2. QED
    BY <1>1, <1>2, <1>3, <2>1 DEF DaemonInv, TypeOK, Servings, Phases
<1>5. ClientsOK'
  <2>1. \A x \in dead' : conn[x[1]] # 0 => x[2] <= conn[x[1]]
    BY <1>1 DEF DaemonInv, ClientsOK, TypeOK
  <2>2. QED
    BY <1>1, <2>1 DEF DaemonInv, ClientsOK
<1>6. AllSent'
  <2>1. \A i \in Item : Around(i)' => Around(i)
    BY <1>1, <1>2, <1>3, ItemFields DEF Around, Pipe
  <2>2. QED
    BY <1>1, <2>1 DEF DaemonInv, AllSent, SentBefore
<1>7. HandlersOK' /\ DeadQuiet'
  BY <1>1, <1>2 DEF HandlersOK, DeadQuiet
<1>8. TurnsOK'
  <2>1. SUFFICES ASSUME NEW c \in Clients, conn[c] # 0, ~timedOut[c]
                 PROVE  OneAnswer(c)'
    BY <1>1 DEF TurnsOK
  <2>2. OneAnswer(c) /\ <<c, conn[c]>> \in Conn
    BY <2>1, ConnectionOf DEF DaemonInv, TypeOK, TurnsOK
  <2>3. serving'[<<c, conn[c]>>].item = None
    BY <1>2, <2>2
  <2>4. QED
    BY <1>1, <2>2, <2>3 DEF OneAnswer
<1>9. PlacesOK'
  BY <1>1, <1>2, <1>3 DEF PlacesOK, Pipe
<1>10. ThreadOK'
  BY <1>1, <1>3 DEF ThreadOK
<1>11. AnswersTrue'
  <2>1. \A c, n : Logged(c, n) => Logged(c, n)'
    BY DEF Logged
  <2>2. QED
    BY <1>1, <1>2, <2>1 DEF DaemonInv, AnswersTrue
<1>12. ConfirmedIsLogged'
  BY <1>1 DEF DaemonInv, ConfirmedIsLogged, Logged
<1>13. QED
  BY <1>4, <1>5, <1>6, <1>7, <1>8, <1>9, <1>10, <1>11, <1>12 DEF DaemonInv

\* What a crash, or the exit, does to the log.
LEMMA CrashLog ==
    ASSUME DaemonInv, Exit \/ Crash
    PROVE  /\ ProcessEnds
           /\ log' \in Seq(Item) /\ ToSet(log) \subseteq ToSet(log')
           /\ ToSet(log') \subseteq ToSet(log) \cup ToSet(batch)
           /\ "io" \notin Faults => log' = log
           /\ writer = "sealed" \/ thread = "none" => log' = log
<1>1. log \in Seq(Item) /\ batch \in Seq(Item)
  BY DEF DaemonInv, TypeOK
<1>2. CASE log' = log
  BY <1>1, <1>2 DEF Exit, Crash
<1>3. CASE thread = "write" /\ AppendRaises(batch) /\ Crash /\ writer # "sealed"
  BY <1>1, <1>3, RaisesSome DEF Crash
<1>4. CASE thread = "fallback" /\ AppendRaises(SubSeq(batch, 1, 1)) /\ Crash
             /\ writer # "sealed"
  <2>1. PICK first \in Seq(Item) :
           /\ first = SubSeq(batch, 1, 1) /\ ToSet(first) \subseteq ToSet(batch)
    BY <1>4, FirstOfBatch DEF DaemonInv, ThreadOK
  <2>2. /\ log' \in Seq(Item) /\ ToSet(log) \subseteq ToSet(log')
        /\ ToSet(log') \subseteq ToSet(log) \cup ToSet(first)
        /\ "io" \notin Faults => log' = log
    BY <1>1, <1>4, <2>1, RaisesSome
  <2>3. QED
    BY <1>4, <2>1, <2>2 DEF Crash
<1>5. QED
  BY <1>2, <1>3, <1>4 DEF Exit, Crash

LEMMA DaemonInit ==
    ASSUME Init
    PROVE  DaemonInv
<1>1. /\ <<>> \in Seq(Item) /\ <<>> \in Seq(Item \cup {Sentinel})
      /\ ToSet(<<>>) = {} /\ Once(<<>>)
  <2>1. <<>> \in Seq(Item) /\ <<>> \in Seq(Item \cup {Sentinel})
    BY EmptySeq
  <2>2. ToSet(<<>>) = {}
    BY <2>1, NoMembers
  <2>3. QED
    BY <2>1, <2>2, OnceEmpty
<1>2. \A x \in Conn : serving[x].phase = "idle" /\ serving[x].item = None
  BY DEF Init, Rest
<1>3. TypeOK
  BY <1>1 DEF Init, TypeOK, Rest
<1>4. ClientsOK /\ HandlersOK /\ DeadQuiet
  BY <1>2 DEF Init, ClientsOK, HandlersOK, DeadQuiet
<1>5. AllSent
  BY <1>1, <1>2, ItemFields DEF Init, AllSent, Around, Pipe
<1>6. TurnsOK
  <2>1. \A c \in Clients : <<c, conn[c]>> \in Conn
    BY DEF Init, Conn
  <2>2. QED
    BY <1>2, <2>1 DEF Init, TurnsOK, OneAnswer
<1>7. PlacesOK /\ ThreadOK
  BY <1>1, <1>2 DEF Init, PlacesOK, ThreadOK, Pipe
<1>8. AnswersTrue /\ ConfirmedIsLogged
  BY <1>2 DEF Init, AnswersTrue, ConfirmedIsLogged
<1>9. QED
  BY <1>3, <1>4, <1>5, <1>6, <1>7, <1>8 DEF DaemonInv

LEMMA DaemonStep ==
    ASSUME DaemonInv, [Next]_vars
    PROVE  DaemonInv'
<1>1. ASSUME NEW c \in Clients, Client(c) PROVE DaemonInv'
  <2>1. ASSUME NEW v \in {TRUE} \cup (IF "bad" \in Faults THEN {FALSE} ELSE {}), Send(c, v)
        PROVE  DaemonInv'
    <3>1. v \in BOOLEAN
      OBVIOUS
    <3>2. QED
      BY <2>1, <3>1, SendStep
  <2>2. QED
    BY <1>1, <2>1, SendNowhereStep, RetryStep, RetryRefusedStep, GiveUpStep, ReceiveStep
    DEF Client
<1>2. ASSUME NEW x \in Conn, Handler(x) PROVE DaemonInv'
  BY <1>2, DispatchStep, CheckOpenStep, EnqueueStep, RespondStep DEF Handler
<1>3. CASE Writer
  BY <1>3, GetStep, DrainStep, WriteBatchStep, WriteItemStep DEF Writer
<1>4. CASE Stop \/ CloseCache \/ Join \/ Boot
  BY <1>4, StoppingStep
<1>5. CASE CloseWriter
  BY <1>5, CloseWriterStep
<1>6. CASE Exit \/ Crash
  BY <1>6, CrashLog, EndsStep
<1>7. CASE UNCHANGED vars
  <2>1. UNCHANGED <<req, valid, conn, timedOut, cpc, confirmed, inbox, dead, sock, serving,
                    queue, thread, batch, up, stopping, boots, writer, log>>
    BY <1>7 DEF vars, client, wire, process
  <2>2. TypeOK' /\ ThreadOK'
    BY <2>1 DEF DaemonInv, TypeOK, ThreadOK
  <2>3. AllSent' /\ PlacesOK'
    BY <2>1 DEF DaemonInv, AllSent, SentBefore, Around, Pipe, PlacesOK
  <2>4. /\ ClientsOK' /\ HandlersOK' /\ DeadQuiet' /\ TurnsOK'
        /\ AnswersTrue' /\ ConfirmedIsLogged'
    BY <2>1, QueueKeeps DEF client, wire
  <2>5. QED
    BY <2>2, <2>3, <2>4 DEF DaemonInv
<1>8. QED
  BY <1>1, <1>2, <1>3, <1>4, <1>5, <1>6, <1>7 DEF Next, Shutdown


-----------------------------------------------------------------------------
(* Where no write fails halfway: at most once, and all or nothing.         *)

LEMMA WholeInit ==
    ASSUME Init
    PROVE  WholeInv
<1>1. <<>> \in Seq(Item) /\ ToSet(<<>>) = {} /\ Once(<<>>)
  <2>1. <<>> \in Seq(Item)
    BY EmptySeq
  <2>2. QED
    BY <2>1, NoMembers, OnceEmpty
<1>2. \A x \in Conn : serving[x].phase = "idle"
  BY DEF Init, Rest
<1>3. QED
  BY <1>1, <1>2 DEF Init, WholeInv, RefusedLeavesNothing

LEMMA WholeQueue ==
    ASSUME DaemonInv, WholeInv, UNCHANGED <<serving, log>>, Pipe' \subseteq Pipe \cup {Sentinel}
    PROVE  WholeInv'
<1>1. Sentinel \notin ToSet(log)
  BY PipeTyped, ItemFields DEF DaemonInv
<1>2. QED
  BY <1>1 DEF WholeInv, RefusedLeavesNothing

LEMMA WholeHandler ==
    ASSUME DaemonInv, WholeInv, NEW x \in Conn, Handler(x)
    PROVE  WholeInv'
<1>1. serving \in Servings /\ log' = log /\ batch' = batch
  BY DEF Handler, Dispatch, CheckOpen, Enqueue, Respond, DaemonInv, TypeOK, Servings, Phases
<1>2. CASE Dispatch(x)
  <2>1. PICK i \in sock : \E ph \in {"submit", "error"} :
           serving' = [serving EXCEPT ![x] = [phase |-> ph, item |-> i]]
    BY <1>2 DEF Dispatch, Become
  <2>2. i \notin ToSet(log)
    BY DEF DaemonInv, PlacesOK
  <2>3. \A y \in Conn : serving'[y] = serving[y] \/ serving'[y].item = i
    BY <1>1, <2>1 DEF Servings
  <2>4. Pipe' = Pipe
    BY <1>2 DEF Dispatch, Pipe
  <2>5. QED
    BY <1>1, <2>2, <2>3, <2>4 DEF WholeInv, RefusedLeavesNothing
<1>3. CASE CheckOpen(x)
  <2>1. \E ph \in {"put", "error"} :
           serving' = [serving EXCEPT ![x] = [phase |-> ph, item |-> serving[x].item]]
    BY <1>3 DEF CheckOpen, Become
  <2>2. serving[x].item \notin ToSet(log)
    BY <1>3 DEF CheckOpen, DaemonInv, PlacesOK
  <2>3. \A y \in Conn : serving'[y] = serving[y] \/ serving'[y].item = serving[x].item
    BY <1>1, <2>1 DEF Servings
  <2>4. Pipe' = Pipe
    BY <1>3 DEF CheckOpen, Pipe
  <2>5. QED
    BY <1>1, <2>2, <2>3, <2>4 DEF WholeInv, RefusedLeavesNothing
<1>4. CASE Enqueue(x)
  <2>1. /\ serving' = [serving EXCEPT ![x] = [phase |-> "waiting", item |-> serving[x].item]]
        /\ queue' = Append(queue, serving[x].item)
    BY <1>4 DEF Enqueue, Put, Become
  <2>2. serving[x].item \notin ToSet(log) /\ serving[x].item \in Item \cup {Sentinel}
    BY <1>4 DEF Enqueue, DaemonInv, TypeOK, HandlersOK, PlacesOK
  <2>3. \A y \in Conn : serving'[y] = serving[y] \/ serving'[y].phase = "waiting"
    BY <1>1, <2>1 DEF Servings
  <2>4. ToSet(queue') = ToSet(queue) \cup {serving[x].item}
    <3>1. queue \in Seq(Item \cup {Sentinel})
      BY DEF DaemonInv, TypeOK
    <3>2. PICK i \in Item \cup {Sentinel} : i = serving[x].item
      BY <2>2
    <3>3. ToSet(Append(queue, i)) = ToSet(queue) \cup {i}
      BY <3>1, MembersAppend
    <3>4. QED
      BY <2>1, <3>2, <3>3
  <2>5. Pipe' = Pipe \cup {serving[x].item}
    BY <1>1, <2>4 DEF Pipe
  <2>6. QED
    BY <1>1, <2>2, <2>3, <2>5 DEF WholeInv, RefusedLeavesNothing
<1>5. CASE Respond(x)
  <2>1. serving' = [serving EXCEPT ![x] = [phase |-> "idle", item |-> None]]
    BY <1>5 DEF Respond, Become
  <2>2. \A y \in Conn : serving'[y] = serving[y] \/ serving'[y].phase = "idle"
    BY <1>1, <2>1 DEF Servings
  <2>3. Pipe' = Pipe
    BY <1>5 DEF Respond, Pipe
  <2>4. QED
    BY <1>1, <2>2, <2>3 DEF WholeInv, RefusedLeavesNothing
<1>6. QED
  BY <1>2, <1>3, <1>4, <1>5 DEF Handler

LEMMA WholeWrite ==
    ASSUME DaemonInv, WholeInv, "io" \notin Faults, WriteBatch \/ WriteItem
    PROVE  WholeInv'
<1>1. /\ log \in Seq(Item) /\ batch \in Seq(Item) /\ Once(batch) /\ batch # <<>>
      /\ TypeOK /\ queue' = queue
  BY DEF WriteBatch, WriteItem, DaemonInv, TypeOK, PlacesOK, ThreadOK
<1>2. ASSUME NEW s \in Seq(Item), Once(s), ToSet(s) \subseteq ToSet(batch),
             ToSet(batch') \subseteq ToSet(batch) \ ToSet(s),
             AppendAll(s) /\ Answer(s, "ok")
      PROVE  WholeInv'
  <2>1. log' = log \o s /\ ToSet(log') = ToSet(log) \cup ToSet(s)
    BY <1>1, <1>2, MembersConcat DEF AppendAll
  <2>2. ToSet(log) \cap ToSet(s) = {}
    BY <1>2 DEF WholeInv, Pipe
  <2>3. Once(log')
    BY <1>1, <1>2, <2>1, <2>2, OnceConcat DEF WholeInv
  <2>4. ToSet(log') \cap Pipe' = {}
    BY <1>1, <1>2, <2>1 DEF WholeInv, Pipe, DaemonInv, PlacesOK
  <2>5. \A x \in Conn :
           /\ serving'[x].item = serving[x].item
           /\ serving'[x].phase = IF serving[x].item \in ToSet(s)
                                  THEN "ok" ELSE serving[x].phase
    <3>1. "ok" \in Phases
      BY DEF Phases
    <3>2. QED
      BY <1>1, <1>2, <3>1, AnswerMoves
  <2>6. RefusedLeavesNothing'
    BY <2>1, <2>5 DEF WholeInv, RefusedLeavesNothing
  <2>7. QED
    BY <2>3, <2>4, <2>6 DEF WholeInv
<1>3. CASE WriteBatch
  <2>1. CASE AppendAll(batch) /\ Answer(batch, "ok") /\ batch' = <<>>
    <3>1. <<>> \in Seq(Item)
      BY EmptySeq
    <3>2. ToSet(batch') \subseteq ToSet(batch) \ ToSet(batch)
      BY <2>1, <3>1, NoMembers
    <3>3. QED
      BY <1>1, <1>2, <2>1, <3>2
  <2>2. CASE AppendRaises(batch) /\ UNCHANGED <<serving, batch>>
    <3>1. log' = log
      BY <1>1, <2>2, RaisesSome
    <3>2. Pipe' = Pipe
      BY <1>1, <2>2 DEF Pipe
    <3>3. QED
      BY <2>2, <3>1, <3>2, WholeQueue
  <2>3. QED
    BY <1>3, <2>1, <2>2 DEF WriteBatch
<1>4. CASE WriteItem
  <2>1. PICK first \in Seq(Item) :
           /\ first = SubSeq(batch, 1, 1) /\ ToSet(first) = {Head(batch)} /\ Once(first)
           /\ Head(batch) \in ToSet(batch)
           /\ ToSet(batch') \subseteq ToSet(batch) \ {Head(batch)}
    BY <1>1, <1>4, FirstOfBatch DEF WriteItem
  <2>2. CASE AppendAll(first) /\ Answer(first, "ok")
    BY <1>2, <2>1, <2>2
  <2>3. CASE AppendRaises(first) /\ Answer(first, "error")
    <3>1. log' = log
      BY <1>1, <2>1, <2>3, RaisesSome
    <3>2. Head(batch) \notin ToSet(log)
      BY <2>1 DEF WholeInv, Pipe
    <3>3. \A x \in Conn :
             /\ serving'[x].item = serving[x].item
             /\ serving'[x].phase = IF serving[x].item \in ToSet(first)
                                    THEN "error" ELSE serving[x].phase
      <4>1. "error" \in Phases
        BY DEF Phases
      <4>2. QED
        BY <1>1, <2>3, <4>1, AnswerMoves
    <3>4. Pipe' \subseteq Pipe
      BY <1>1, <2>1 DEF Pipe
    <3>5. QED
      BY <2>1, <3>1, <3>2, <3>3, <3>4 DEF WholeInv, RefusedLeavesNothing
  <2>4. QED
    BY <1>4, <2>1, <2>2, <2>3 DEF WriteItem
<1>5. QED
  BY <1>3, <1>4

LEMMA WholeStep ==
    ASSUME DaemonInv, WholeInv, "io" \notin Faults, [Next]_vars
    PROVE  WholeInv'
<1>1. CASE (\E c \in Clients : Client(c)) \/ Stop \/ CloseCache \/ Join \/ Boot \/ UNCHANGED vars
  <2>1. UNCHANGED <<serving, queue, batch, log>>
    BY <1>1, ZenonT(60) DEF Client, Send, SendNowhere, Retry, RetryRefused, GiveUp, Receive,
                Stop, CloseCache, Join, Boot, vars
  <2>2. QED
    BY <2>1, WholeQueue DEF Pipe
<1>2. ASSUME NEW x \in Conn, Handler(x) PROVE WholeInv'
  BY <1>2, WholeHandler
<1>3. CASE Get \/ Drain \/ CloseWriter
  <2>1. UNCHANGED <<serving, log>>
    BY <1>3 DEF Get, Drain, CloseWriter
  <2>2. Pipe' \subseteq Pipe \cup {Sentinel}
    <3>1. /\ queue \in Seq(Item \cup {Sentinel}) /\ batch \in Seq(Item)
          /\ <<>> \in Seq(Item)
      BY EmptySeq DEF DaemonInv, TypeOK
    <3>2. CASE Get
      <4>1. /\ ToSet(queue) = {Head(queue)} \cup ToSet(queue')
            /\ Head(queue) \in Item \cup {Sentinel}
        BY <3>1, <3>2, MembersTail DEF Get
      <4>2. batch' = batch \/ (batch' = <<Head(queue)>> /\ Head(queue) # Sentinel)
        BY <3>2 DEF Get
      <4>3. ToSet(batch') \subseteq ToSet(batch) \cup {Head(queue)}
        BY <4>1, <4>2, MembersOne
      <4>4. QED
        BY <4>1, <4>3 DEF Pipe
    <3>3. CASE Drain
      <4>1. CASE UNCHANGED <<queue, batch>>
        BY <4>1 DEF Pipe
      <4>2. CASE queue # <<>> /\ queue' = PutBack /\ UNCHANGED batch
        <5>1. PICK t \in Seq(Item \cup {Sentinel}) :
                 t = Tail(queue) /\ ToSet(queue) = {Head(queue)} \cup ToSet(t)
          BY <3>1, <4>2, MembersTail
        <5>2. Sentinel \in Item \cup {Sentinel}
          OBVIOUS
        <5>3. ToSet(queue') = ToSet(t) \cup {Sentinel}
          <6>1. ToSet(Append(t, Sentinel)) = ToSet(t) \cup {Sentinel}
            BY <5>2, MembersAppend
          <6>2. QED
            BY <4>2, <5>1, <6>1 DEF PutBack
        <5>4. QED
          BY <4>2, <5>1, <5>3 DEF Pipe
      <4>3. CASE /\ queue # <<>> /\ Head(queue) # Sentinel
                 /\ batch' = Append(batch, Head(queue)) /\ queue' = Tail(queue)
        <5>1. /\ ToSet(queue) = {Head(queue)} \cup ToSet(queue')
              /\ Head(queue) \in Item
          BY <3>1, <4>3, MembersTail
        <5>2. ToSet(batch') = ToSet(batch) \cup {Head(queue)}
          BY <3>1, <4>3, <5>1, MembersAppend
        <5>3. QED
          BY <5>1, <5>2 DEF Pipe
      <4>4. QED
        BY <3>3, <4>1, <4>2, <4>3 DEF Drain
    <3>4. CASE CloseWriter
      <4>1. Sentinel \in Item \cup {Sentinel}
        OBVIOUS
      <4>2. ToSet(queue') = ToSet(queue) \cup {Sentinel} /\ batch' = batch
        BY <3>1, <3>4, <4>1, MembersAppend DEF CloseWriter, Put
      <4>3. QED
        BY <4>2 DEF Pipe
    <3>5. QED
      BY <1>3, <3>2, <3>3, <3>4
  <2>3. QED
    BY <2>1, <2>2, WholeQueue
<1>4. CASE WriteBatch \/ WriteItem
  BY <1>4, WholeWrite
<1>5. CASE Exit \/ Crash
  <2>1. ProcessEnds /\ log' = log
    BY <1>5, CrashLog
  <2>2. <<>> \in Seq(Item) /\ <<>> \in Seq(Item \cup {Sentinel})
    BY EmptySeq
  <2>3. Pipe' = {}
    BY <2>1, <2>2, NoMembers DEF ProcessEnds, Pipe
  <2>4. \A x \in Conn : serving'[x].phase = "idle"
    BY <2>1 DEF ProcessEnds, Rest
  <2>5. QED
    BY <2>1, <2>3, <2>4 DEF WholeInv, RefusedLeavesNothing
<1>6. QED
  BY <1>1, <1>2, <1>3, <1>4, <1>5 DEF Next, Writer, Shutdown

-----------------------------------------------------------------------------
(* The theorems.                                                           *)

LEMMA DaemonInvariant == Spec => []DaemonInv
BY DaemonInit, DaemonStep, PTL DEF Spec

\* The variables keep their types.
THEOREM DaemonTypes == Spec => []TypeOK
<1>1. DaemonInv => TypeOK
  BY DEF DaemonInv
<1>2. QED
  BY <1>1, DaemonInvariant, PTL

\* What the daemon confirmed to a client is in the log, through resends,
\* failed batches, crashes and restarts (AuditClient._request, _write_batch).
THEOREM WhatIsConfirmedIsLogged == Spec => []ConfirmedIsLogged
<1>1. DaemonInv => ConfirmedIsLogged
  BY DEF DaemonInv
<1>2. QED
  BY <1>1, DaemonInvariant, PTL

\* A client that may read never takes an answer to an earlier request for the
\* answer to its last one (AuditClient._request and the file it reads from).
THEOREM AnswersAreNotMistaken == Spec => []AnswersMatch
<1>1. DaemonInv => AnswersMatch
  <2>1. SUFFICES ASSUME DaemonInv, NEW c \in Clients, cpc[c] # "idle", MayRead(c)
                 PROVE  \A answer \in inbox[c] : answer.req = req[c]
    BY DEF AnswersMatch
  <2>2. OneAnswer(c)
    BY <2>1 DEF DaemonInv, ClientsOK, TypeOK, TurnsOK, MayRead
  <2>3. QED
    BY <2>2 DEF OneAnswer
<1>2. QED
  BY <1>1, DaemonInvariant, PTL

\* A submission is written at most once, and one answered with an error not
\* at all, whatever crashes and however batches are retried item by item, as
\* long as no write fails halfway (_write_batch; append_many of the protocol).
THEOREM AtMostOnce ==
    ASSUME "io" \notin Faults
    PROVE  Spec => []AllOrNothing
<1>1. Init => DaemonInv /\ WholeInv
  BY DaemonInit, WholeInit
<1>2. DaemonInv /\ WholeInv /\ [Next]_vars => (DaemonInv /\ WholeInv)'
  BY DaemonStep, WholeStep
<1>3. DaemonInv /\ WholeInv => AllOrNothing
  <2>1. SUFFICES ASSUME DaemonInv, WholeInv PROVE WrittenOnce
    BY DEF AllOrNothing, WholeInv
  <2>2. \A k \in 1..Len(log) : log[k] # Sentinel
    <3>1. log \in Seq(Item)
      BY <2>1 DEF DaemonInv, TypeOK
    <3>2. \A k \in 1..Len(log) : log[k] \in Item
      BY <3>1, ElementOfSeq
    <3>3. QED
      BY <3>2, ItemFields
  <2>3. QED
    BY <2>1, <2>2 DEF WholeInv, Once, WrittenOnce
<1>4. QED
  BY <1>1, <1>2, <1>3, PTL DEF Spec

\* When close_all is through, a writer thread that is still there has a closed
\* AuditWriter: a join that timed out leaves one, and none is created any more.
SealedOK == stopping = "closed" => thread = "none" \/ writer = "sealed"

LEMMA SealedStays ==
    ASSUME SealedOK, [Next]_vars
    PROVE  SealedOK'
<1>1. CASE (\E c \in Clients : Client(c)) \/ UNCHANGED vars
  BY <1>1 DEF Client, Send, SendNowhere, Retry, RetryRefused, GiveUp, Receive, vars, process,
              SealedOK
<1>2. ASSUME NEW x \in Conn, Handler(x) PROVE SealedOK'
  <2>1. CASE Dispatch(x)
    BY <2>1 DEF Dispatch, CacheOpen, SealedOK
  <2>2. CASE CheckOpen(x) \/ Enqueue(x) \/ Respond(x)
    BY <2>2 DEF CheckOpen, Enqueue, Respond, process, SealedOK
  <2>3. QED
    BY <1>2, <2>1, <2>2 DEF Handler
<1>3. CASE Writer
  <2>1. thread # "none" /\ UNCHANGED process
    BY <1>3 DEF Writer, Get, Drain, WriteBatch, WriteItem
  <2>2. QED
    BY <2>1 DEF process, SealedOK
<1>4. CASE Stop \/ CloseCache \/ CloseWriter \/ Join \/ Boot
  BY <1>4 DEF Stop, CloseCache, CloseWriter, Join, Boot, SealedOK
<1>5. CASE Exit \/ Crash
  BY <1>5 DEF Exit, Crash, ProcessEnds, SealedOK
<1>6. QED
  BY <1>1, <1>2, <1>3, <1>4, <1>5 DEF Next, Shutdown

\* After the shutdown of the writers nothing is written into a capture, neither by
\* the thread a join gave up on nor through a writer created again for a handler
\* that is still alive (_WriterCache._get and close_all, _CaptureWriter.close).
THEOREM ClosedStaysClosed == Spec => NoWriteAfterClose
<1>1. ASSUME DaemonInv, SealedOK, [Next]_vars, stopping = "closed" \/ ~up
      PROVE  log' = log
  <2>1. thread = "none" \/ writer = "sealed"
    BY <1>1 DEF DaemonInv, ThreadOK, SealedOK
  <2>2. CASE WriteBatch \/ WriteItem
    BY <2>1, <2>2 DEF WriteBatch, WriteItem, AppendAll, AppendRaises
  <2>3. CASE Exit \/ Crash
    BY <1>1, <2>1, <2>3, CrashLog
  <2>4. CASE \/ (\E c \in Clients : Client(c)) \/ (\E x \in Conn : Handler(x))
             \/ Get \/ Drain \/ Stop \/ CloseCache \/ CloseWriter \/ Join \/ Boot
             \/ UNCHANGED vars
    BY <2>4 DEF Client, Send, SendNowhere, Retry, RetryRefused, GiveUp, Receive,
                Handler, Dispatch, CheckOpen, Enqueue, Respond, Get, Drain,
                Stop, CloseCache, CloseWriter, Join, Boot, vars
  <2>5. QED
    BY <1>1, <2>2, <2>3, <2>4 DEF Next, Writer, Shutdown
<1>2. DaemonInv /\ SealedOK /\ [Next]_vars => [stopping = "closed" \/ ~up => log' = log]_vars
  BY <1>1
<1>3. Init => SealedOK
  BY DEF Init, SealedOK
<1>4. SealedOK /\ [Next]_vars => SealedOK'
  BY SealedStays
<1>5. QED
  BY <1>2, <1>3, <1>4, DaemonInvariant, PTL DEF Spec, NoWriteAfterClose

=============================================================================
