----------------------------- MODULE MCTerminal -----------------------------
(* TerminalEngine for TLC: one TAB on a terminal of the usual width.       *)
EXTENDS TerminalEngine

\* A set of integers yields them by their place in its hash table, which is
\* their remainder by 32 for the stops of 80 columns.
HashOrder == <<32, 64, 8, 40, 72, 16, 48, 24, 56>>

TabOnly == {<<"tab">>}

=============================================================================
