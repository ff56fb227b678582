-------------------------- MODULE MCSessionWindow ---------------------------
(***************************************************************************)
(* SessionWindow for TLC: short sessions with and without their metadata,  *)
(* with output that ends inside a character, a session that ends and goes  *)
(* on, input before and after output; every window near a file boundary.   *)
(***************************************************************************)
EXTENDS SessionWindow

MCLogs ==
    {<<"start", a, b, c, d>> : a \in {"out", "torn"}, b \in {"in", "end", "out"},
                               c \in {"in", "det", "redraw", "start"}, d \in {"out"}}
    \cup {<<"out", a, b, "out">> : a \in {"start", "in"}, b \in {"end", "det"}}

MCRequests ==
    [offset : 1..3, limit : {2}, stream : {TRUE}]
        \cup [offset : {0}, limit : {NoWindow}, stream : BOOLEAN]

=============================================================================
