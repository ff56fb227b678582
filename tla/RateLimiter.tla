----------------------------- MODULE RateLimiter -----------------------------
(***************************************************************************)
(* How many requests an address may make (control/rate_limit.py): a window *)
(* opens with the first request and admits a number of them; windows that  *)
(* are over are forgotten when there are too many.  Time passes in halves  *)
(* of a second, so that the rounding to seconds is seen.                   *)
(***************************************************************************)
EXTENDS Naturals, FiniteSets

CONSTANTS Keys,        \* addresses
          MaxRequests, \* requests admitted in a window
          Window,      \* its length, in halves of a second
          MaxKeys,     \* windows remembered before the old ones are purged
          MaxTime      \* bound: halves of a second that pass

LimiterAssumption ==
    /\ MaxRequests \in Nat \ {0} /\ Window \in Nat \ {0}
    /\ MaxKeys \in Nat /\ MaxTime \in Nat

VARIABLES time,     \* the clock
          hits,     \* hits[k]: the window of an address and its count
          admitted  \* admitted[k][t]: requests admitted at time t

vars == <<time, hits, admitted>>

NoWindow == [start |-> 0, count |-> 0]
Over(window) == time - window.start >= Window
Known(h) == {k \in Keys : h[k] # NoWindow}

\* As if every window were forgotten.
PurgeAll(h) == [k \in Keys |-> NoWindow]

Purge(h) == [k \in Keys |-> IF Over(h[k]) THEN NoWindow ELSE h[k]]

Init ==
    /\ time = 0
    /\ hits = [k \in Keys |-> NoWindow]
    /\ admitted = [k \in Keys |-> [t \in 0..MaxTime |-> 0]]

Refused(k) == hits[k] # NoWindow /\ ~Over(hits[k]) /\ hits[k].count >= MaxRequests

Allow(k) ==
    /\ ~Refused(k)
    /\ LET window == IF hits[k] = NoWindow \/ Over(hits[k]) THEN [start |-> time, count |-> 1]
                     ELSE [hits[k] EXCEPT !.count = @ + 1]
           h == [hits EXCEPT ![k] = window]
       IN  hits' = IF Cardinality(Known(h)) > MaxKeys THEN Purge(h) ELSE h
    /\ admitted' = [admitted EXCEPT ![k][time] = @ + 1]
    /\ UNCHANGED time

\* Seconds until the window of a refused address is over, at least one.
RetryAfter(k) == (Window - (time - hits[k].start)) \div 2 + 1

Tick == time < MaxTime /\ time' = time + 1 /\ UNCHANGED <<hits, admitted>>

Next == (\E k \in Keys : Allow(k)) \/ Tick

Spec == Init /\ [][Next]_vars

-----------------------------------------------------------------------------
Since(k, from) ==
    Cardinality({e \in (0..time) \X (1..MaxRequests) : e[1] >= from /\ e[2] <= admitted[k][e[1]]})

\* What is remembered of an address is all it was admitted since its window
\* began, and an address that was forgotten has none that is not over; so any
\* stretch as long as a window has at most twice what one admits.  Who is
\* refused and waits as long as it is told is admitted.
LimitHolds ==
    \A k \in Keys :
        /\ hits[k] # NoWindow => Since(k, hits[k].start) = hits[k].count /\ hits[k].count <= MaxRequests
        /\ \A t \in 0..time : hits[k] = NoWindow /\ admitted[k][t] > 0 => time - t >= Window \/
               \E u \in 0..t : admitted[k][u] > 0 /\ time - u >= Window
        /\ time >= Window => Since(k, time - Window + 1) <= 2 * MaxRequests
        /\ Refused(k) => time + 2 * RetryAfter(k) - hits[k].start >= Window

=============================================================================
