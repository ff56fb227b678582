--------------------------- MODULE ConnectionPool ---------------------------
(***************************************************************************)
(* ConnectionPool (db/connection.py): the SQLite connections the request   *)
(* handlers of the control plane share.  A thread takes a free connection, *)
(* or reserves a slot and opens one, or waits until its timeout.  The      *)
(* queue and the two fields under _lock are each atomic; a thread may be   *)
(* anywhere between them.  The order of the queue is left out.             *)
(***************************************************************************)
EXTENDS Integers, FiniteSets

CONSTANTS Threads, Conns, None,
          MinSize,  \* min_size: opened by the constructor
          MaxSize   \* max_size

\* Conns are identities (id(con)): that of a closed connection may come again.
ASSUME PoolAssumption ==
    /\ IsFiniteSet(Threads) /\ IsFiniteSet(Conns) /\ None \notin Conns
    /\ MinSize \in Nat \ {0} /\ MaxSize \in Nat /\ MinSize <= MaxSize
    /\ Cardinality(Conns) >= MinSize

VARIABLES
    free,     \* _q
    created,  \* _created
    inUse,    \* _in_use
    pc,       \* where each thread is
    hand      \* the connection it has a reference to

vars == <<free, created, inUse, pc, hand>>

Places == {"out", "empty", "creating", "failed", "waiting", "taken", "using", "returning",
           "closing"}

\* The threads a slot of _created stands for.
Slots == {t \in Threads : pc[t] \in {"creating", "failed", "taken", "using", "returning",
                                     "closing"}}
Holders == {t \in Threads : hand[t] # None}

TypeOK ==
    /\ free \in SUBSET Conns
    /\ created \in Int
    /\ inUse \in SUBSET Conns
    /\ pc \in [Threads -> Places]
    /\ hand \in [Threads -> Conns \cup {None}]

Init ==
    /\ free \in {cs \in SUBSET Conns : Cardinality(cs) = MinSize}
    /\ created = MinSize
    /\ inUse = {}
    /\ pc = [t \in Threads |-> "out"]
    /\ hand = [t \in Threads |-> None]

Move(t, from, to) == pc[t] = from /\ pc' = [pc EXCEPT ![t] = to]

Hold(t, c) == hand' = [hand EXCEPT ![t] = c]

\* get_nowait, or the get of a thread that waits, finds a connection.
Take(t) ==
    /\ Move(t, "out", "taken") \/ Move(t, "waiting", "taken")
    /\ \E c \in free : free' = free \ {c} /\ Hold(t, c)
    /\ UNCHANGED <<created, inUse>>

Miss(t) ==
    /\ Move(t, "out", "empty")
    /\ free = {}
    /\ UNCHANGED <<free, created, inUse, hand>>

\* Under the lock: a slot of its own, or the wait.
Reserve(t) ==
    /\ IF created < MaxSize
       THEN Move(t, "empty", "creating") /\ created' = created + 1
       ELSE Move(t, "empty", "waiting") /\ created' = created
    /\ UNCHANGED <<free, inUse, hand>>

Create(t) ==
    /\ Move(t, "creating", "taken")
    /\ \E c \in Conns \ (free \cup {hand[u] : u \in Threads}) : Hold(t, c)
    /\ UNCHANGED <<free, created, inUse>>

CreateFails(t) ==
    /\ Move(t, "creating", "failed")
    /\ UNCHANGED <<free, created, inUse, hand>>

\* As if a failure to connect kept the slot.
GiveBackNothing(t) ==
    /\ Move(t, "failed", "out")
    /\ UNCHANGED <<free, created, inUse, hand>>

GiveBack(t) ==
    /\ Move(t, "failed", "out")
    /\ created' = (IF created > 0 THEN created - 1 ELSE 0)
    /\ UNCHANGED <<free, inUse, hand>>

\* queue.Empty goes to the caller.
TimeOut(t) ==
    /\ Move(t, "waiting", "out")
    /\ free = {}
    /\ UNCHANGED <<free, created, inUse, hand>>

Enlist(t) ==
    /\ Move(t, "taken", "using")
    /\ inUse' = inUse \cup {hand[t]}
    /\ UNCHANGED <<free, created, hand>>

Release(t) ==
    /\ Move(t, "using", "returning")
    /\ hand[t] \in inUse
    /\ inUse' = inUse \ {hand[t]}
    /\ UNCHANGED <<free, created, hand>>

\* put_nowait; queue.Full closes the connection instead.
PutBack(t) ==
    /\ IF Cardinality(free) < MaxSize
       THEN /\ Move(t, "returning", "out")
            /\ free' = free \cup {hand[t]}
            /\ Hold(t, None)
       ELSE Move(t, "returning", "closing") /\ UNCHANGED <<free, hand>>
    /\ UNCHANGED <<created, inUse>>

\* close_all takes what is free, one connection after the other.
CloseAll(t) ==
    /\ Move(t, "out", "closing")
    /\ \E c \in free : free' = free \ {c} /\ Hold(t, c)
    /\ UNCHANGED <<created, inUse>>

Close(t) ==
    /\ Move(t, "closing", "out")
    /\ Hold(t, None)
    /\ created' = (IF created > 0 THEN created - 1 ELSE 0)
    /\ UNCHANGED <<free, inUse>>

Acquire(t) ==
    Take(t) \/ Miss(t) \/ Reserve(t) \/ Create(t) \/ CreateFails(t) \/ GiveBack(t)
    \/ TimeOut(t) \/ Enlist(t)

GiveUp(t) == Release(t) \/ PutBack(t) \/ CloseAll(t) \/ Close(t)

Next == \E t \in Threads : Acquire(t) \/ GiveUp(t)

Spec == Init /\ [][Next]_vars

\* The database has at most max_size connections of this process, and every
\* slot that is counted is a connection or one about to be opened or closed:
\* no failure leaks a slot, and one handed back always finds room.
SlotsAccounted ==
    /\ created = Cardinality(free) + Cardinality(Slots)
    /\ created <= MaxSize
    /\ \A t \in Threads : pc[t] = "returning" => Cardinality(free) < MaxSize

\* No two threads have one connection, nobody has one that another may take,
\* and who uses one can hand it back: release does not refuse it.
OneHolder ==
    /\ \A t \in Holders : hand[t] \notin free
    /\ \A t, u \in Holders : t # u => hand[t] # hand[u]
    /\ \A t \in Threads : pc[t] = "using" => hand[t] \in inUse

\* The pool neither loses a connection nor lends one twice.
PoolIsSound == SlotsAccounted /\ OneHolder

=============================================================================
