------------------------------ MODULE AuditLog ------------------------------
(***************************************************************************)
(* What the audit trail promises to everybody who reads it: one global,    *)
(* append-only sequence of signed events.  An event enters the log at its  *)
(* end and only once, nothing is ever removed or reordered, and a batch is *)
(* confirmed to its caller only when it is the tail of the log.            *)
(* A batch reaches the log one event at a time: the writer promises        *)
(* all-or-nothing for invalid events only, not for I/O failures.           *)
(***************************************************************************)
EXTENDS Naturals, Sequences

CONSTANT Event

VARIABLES log,    \* the signed events, in the order readers see them
          acked   \* the events whose append_many has returned

InLog == {log[i] : i \in 1..Len(log)}

Init == log = <<>> /\ acked = {}

Extend ==
    \E e \in Event \ InLog :
        /\ log' = Append(log, e)
        /\ UNCHANGED acked

Acknowledge ==
    \E first \in 1..Len(log) :
        /\ acked' = acked \cup {log[i] : i \in first..Len(log)}
        /\ UNCHANGED log

Next == Extend \/ Acknowledge

Spec == Init /\ [][Next]_<<log, acked>>

=============================================================================
