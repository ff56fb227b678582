--------------------------- MODULE TerminalEngine ---------------------------
(***************************************************************************)
(* The terminal engine that turns recorded output into screens             *)
(* (dakota_terminal): the scanner of bytes, the decoder, the parser and    *)
(* the screen, and the diffs by which a player follows it.  Output comes   *)
(* in pieces cut anywhere; a digit with the separator after it is one byte *)
(* here, and numbers are what they spell.                                  *)
(***************************************************************************)
EXTENDS Naturals, SequencesExt

CONSTANTS Rows, Cols,  \* the geometry at the start
          Words,       \* what the program may print: sequences of bytes
          TabOrder,    \* every tab stop, in the order the set yields them
          MaxWords     \* bound: words printed

EngineAssumption ==
    /\ Rows \in Nat \ {0} /\ Cols \in Nat \ {0}
    /\ <<>> \notin Words /\ MaxWords \in Nat

VARIABLES whole,  \* the engine, fed as the output was recorded
          bytes,  \* the engine fed one byte at a time
          player, \* what the page shows, which gets diffs only
          shown,  \* the snapshot the last diff led to
          rest,   \* what is left of the word being printed
          fed     \* words printed

vars == <<whole, bytes, player, shown, rest, fed>>

Default == [ch |-> "blank", bold |-> FALSE]
Blank(rows, cols) == [p \in (0..(rows - 1)) \X (0..(cols - 1)) |-> Default]
Least(a, b) == IF a < b THEN a ELSE b

\* What RIS does not touch are the geometry and what the scanner is in.
Fresh(rows, cols) ==
    [rows |-> rows, cols |-> cols, cells |-> Blank(rows, cols),
     row |-> 0, col |-> 0, saved |-> <<0, 0>>, bold |-> FALSE, g0 |-> "B",
     top |-> 0, bottom |-> rows - 1, wrap |-> FALSE, partial |-> <<>>,
     scan |-> "normal", params |-> <<>>, text |-> <<>>, pending |-> FALSE]

-----------------------------------------------------------------------------
(* The screen.                                                             *)

SetCursor(e, row, col) ==
    [e EXCEPT !.row = Least(e.rows - 1, row), !.col = Least(e.cols - 1, col), !.wrap = FALSE]

Less(a, b) == IF a > b THEN a - b ELSE 0
OrOne(n) == IF n = 0 THEN 1 ELSE n

\* Row r of the new matrix is row r + by of the old one, or blank.
Shift(e, by, blank) ==
    [e EXCEPT !.cells = [p \in DOMAIN e.cells |->
        IF p[1] = blank THEN Default
        ELSE IF p[1] \in e.top..e.bottom THEN e.cells[<<p[1] + by, p[2]>>] ELSE e.cells[p]]]

Linefeed(e) ==
    IF e.row = e.bottom THEN Shift(e, 1, e.bottom)
    ELSE [e EXCEPT !.row = Least(e.rows - 1, e.row + 1)]

ReverseIndex(e) ==
    IF e.row = e.top THEN Shift(e, -1, e.top)
    ELSE [e EXCEPT !.row = Less(e.row, 1)]

Erase(e, erased) ==
    [e EXCEPT !.cells = [p \in DOMAIN e.cells |-> IF p \in erased THEN Default ELSE e.cells[p]]]

EraseDisplay(e, mode) ==
    Erase(e, {p \in DOMAIN e.cells :
        CASE mode = 0 -> p[1] > e.row \/ (p[1] = e.row /\ p[2] >= e.col)
          [] mode = 1 -> p[1] < e.row \/ (p[1] = e.row /\ p[2] <= e.col)
          [] OTHER    -> TRUE})

EraseLine(e, mode) ==
    Erase(e, {p \in DOMAIN e.cells :
        p[1] = e.row /\ (CASE mode = 0 -> p[2] >= e.col
                           [] mode = 1 -> p[2] <= e.col
                           [] OTHER    -> TRUE)})

Write(e, ch) ==
    LET at == IF e.wrap THEN Linefeed([e EXCEPT !.col = 0]) ELSE e
        put == [at EXCEPT !.cells[<<at.row, at.col>>] =
                    [ch |-> IF e.g0 = "0" /\ ch = "x" THEN "line" ELSE ch, bold |-> e.bold]]
    IN  [put EXCEPT !.col = Least(at.cols - 1, at.col + 1), !.wrap = (at.col + 1 >= at.cols)]

\* The first stop beyond the cursor that the set yields.
Stops(e) == SelectSeq(TabOrder, LAMBDA s : s < e.cols /\ s > e.col)
Tab(e) == [e EXCEPT !.wrap = FALSE, !.col = IF Stops(e) = <<>> THEN @ ELSE Stops(e)[1]]

\* As if the cursor were left where it was.
ResizeOnly(e, rows, cols) ==
    [e EXCEPT !.rows = rows, !.cols = cols, !.top = 0, !.bottom = rows - 1,
              !.cells = [p \in DOMAIN Blank(rows, cols) |-> IF p \in DOMAIN @ THEN @[p] ELSE Default]]

Resize(e, rows, cols) == SetCursor(ResizeOnly(e, rows, cols), e.row, e.col)

-----------------------------------------------------------------------------
(* The parser: feed_text, character by character.                          *)

Digits == ("0" :> 0) @@ ("1" :> 1) @@ ("2" :> 2) @@ ("3" :> 3) @@ ("8" :> 8)
Number(ch) == IF ch \in DOMAIN Digits THEN Digits[ch] ELSE 0
Reset(e) == [Fresh(e.rows, e.cols) EXCEPT !.text = e.text]

Csi(e, params, final) ==
    LET p(i) == IF i \in DOMAIN params THEN Number(params[i]) ELSE 0
        bottom == Least(e.rows, IF p(2) = 0 THEN e.rows ELSE p(2)) - 1
    IN  CASE final = "m" -> [e EXCEPT !.bold =
                 FoldLeft(LAMBDA b, n : n = 1 \/ (n # 0 /\ b), e.bold,
                          IF params = <<>> THEN <<0>> ELSE [i \in DOMAIN params |-> p(i)])]
          [] final = "H" -> SetCursor(e, OrOne(p(1)) - 1, OrOne(p(2)) - 1)
          [] final = "J" -> EraseDisplay(e, p(1))
          [] final = "K" -> EraseLine(e, p(1))
          [] final = "A" -> SetCursor(e, Less(e.row, OrOne(p(1))), e.col)
          [] final = "D" -> SetCursor(e, e.row, Less(e.col, OrOne(p(1))))
          [] final = "s" -> [e EXCEPT !.saved = <<e.row, e.col>>]
          [] final = "u" -> SetCursor(e, e.saved[1], e.saved[2])
          [] final = "r" /\ OrOne(p(1)) - 1 < bottom ->
                 SetCursor([e EXCEPT !.top = OrOne(p(1)) - 1, !.bottom = bottom], 0, 0)
          [] final = "t" /\ p(1) = 8 /\ p(2) > 0 /\ p(3) > 0 -> Resize(e, p(2), p(3))
          [] OTHER -> e

Esc(e, ch) ==
    CASE ch = "D" -> Linefeed(e)
      [] ch = "M" -> ReverseIndex(e)
      [] ch = "c" -> Reset(e)
      [] ch = "7" -> [e EXCEPT !.saved = <<e.row, e.col>>]
      [] ch = "8" -> SetCursor(e, e.saved[1], e.saved[2])
      [] OTHER    -> e

Control(e, ch) ==
    CASE ch = "cr"  -> [e EXCEPT !.wrap = FALSE, !.col = 0]
      [] ch = "lf"  -> Linefeed([e EXCEPT !.wrap = FALSE, !.col = IF e.wrap THEN 0 ELSE @])
      [] ch = "bs"  -> [e EXCEPT !.wrap = FALSE, !.col = Less(@, 1)]
      [] ch = "tab" -> Tab(e)
      [] ch = "bel" -> e
      [] OTHER      -> Write(e, ch)

Finals == {"m", "H", "J", "K", "A", "D", "s", "u", "r", "t", "x", "c", "M", "[", "]", "st"}

\* What is not complete is kept, and read again with the next character.
Char(e, ch) ==
    LET p == Append(e.partial, ch)
        done == [e EXCEPT !.partial = <<>>]
    IN  CASE Len(p) = 1 -> IF ch = "esc" THEN [e EXCEPT !.partial = p] ELSE Control(e, ch)
          [] Len(p) = 2 -> IF ch \in {"[", "]", "("} THEN [e EXCEPT !.partial = p] ELSE Esc(done, ch)
          [] Len(p) > 2 /\ p[2] = "(" -> [done EXCEPT !.g0 = ch]
          [] Len(p) > 2 /\ p[2] = "[" -> IF ch \in Finals THEN Csi(done, SubSeq(p, 3, Len(p) - 1), ch)
                                         ELSE [e EXCEPT !.partial = p]
          [] OTHER -> IF ch = "bel" \/ (ch = "st" /\ Last(e.partial) = "esc") THEN done
                      ELSE [e EXCEPT !.partial = p]

FeedText(e, chars) == FoldLeft(Char, e, chars)

-----------------------------------------------------------------------------
(* The scanner: feed_bytes.                                                *)

\* The decoder of UTF-8: a character takes "hi" and "lo", what is neither is
\* replaced; the first half waits for the next call.
Decoded(pending, raw) ==
    FoldLeft(LAMBDA d, b :
        LET cut == IF d.pending THEN Append(d.chars, "bad") ELSE d.chars
        IN  CASE b = "hi" -> [chars |-> cut, pending |-> TRUE]
              [] b = "lo" -> [chars |-> Append(d.chars, IF d.pending THEN "wide" ELSE "bad"),
                              pending |-> FALSE]
              [] OTHER    -> [chars |-> Append(cut, b), pending |-> FALSE],
        [chars |-> <<>>, pending |-> pending], raw)

\* As if every piece were decoded on its own.
FlushWhole(e) ==
    LET d == Decoded(FALSE, e.text)
    IN  FeedText([e EXCEPT !.text = <<>>],
                 IF d.pending THEN Append(d.chars, "bad") ELSE d.chars)

Flush(e) ==
    LET d == Decoded(e.pending, e.text)
    IN  FeedText([e EXCEPT !.text = <<>>, !.pending = d.pending], d.chars)

\* A sequence is complete; what it carried goes to the parser.
Sequence(e, chars) == [FeedText(e, <<"esc">> \o chars) EXCEPT !.scan = "normal", !.params = <<>>]

Scan(e, b) ==
    CASE e.scan = "normal" ->
             IF b = "esc" THEN [Flush(e) EXCEPT !.scan = "esc"]
             ELSE IF b \in {"bel", "bs"} THEN FeedText(Flush(e), <<b>>)
             ELSE [e EXCEPT !.text = Append(@, b)]
      [] e.scan = "esc" ->
             IF b = "[" THEN [e EXCEPT !.scan = "csi", !.params = <<>>]
             ELSE IF b = "]" THEN [e EXCEPT !.scan = "osc", !.params = <<>>]
             ELSE IF b = "c" THEN Reset(e)
             ELSE Sequence(e, <<b>>)
      [] e.scan = "csi" ->
             IF b \in Finals THEN Sequence(e, <<"[">> \o Append(e.params, b))
             ELSE [e EXCEPT !.params = Append(@, b)]
      [] e.scan = "osc" ->
             IF b = "bel" THEN Sequence(e, <<"]">> \o Append(e.params, b))
             ELSE [e EXCEPT !.params = Append(@, b), !.scan = IF b = "esc" THEN "osc_st" ELSE @]
      [] e.scan = "osc_st" ->
             \* The ESC is in params already: both branches add it again.
             IF b = "st" THEN Sequence(e, <<"]">> \o e.params \o <<"esc", "st">>)
             ELSE [e EXCEPT !.params = @ \o <<"esc", b>>, !.scan = "osc"]

-----------------------------------------------------------------------------
(* Snapshots and diffs: the cells are a list, row after row.               *)

Snapshot(e) ==
    [rows |-> e.rows, cols |-> e.cols, cursor |-> <<e.row, e.col>>,
     cells |-> [i \in 1..(e.rows * e.cols) |-> e.cells[<<(i - 1) \div e.cols, (i - 1) % e.cols>>]]]

\* As if cells beyond the end of the previous list were left out.
CreateDiffCommon(old, new) ==
    [rows |-> new.rows, cols |-> new.cols, cursor |-> new.cursor,
     changes |-> {<<i, new.cells[i]>> : i \in {k \in DOMAIN new.cells :
                     k \in DOMAIN old.cells /\ old.cells[k] # new.cells[k]}}]

CreateDiff(old, new) ==
    [rows |-> new.rows, cols |-> new.cols, cursor |-> new.cursor,
     changes |-> {<<i, new.cells[i]>> : i \in {k \in DOMAIN new.cells :
                     k \notin DOMAIN old.cells \/ old.cells[k] # new.cells[k]}}]

ApplyDiff(old, d) ==
    [rows |-> d.rows, cols |-> d.cols, cursor |-> d.cursor,
     cells |-> [i \in 1..(d.rows * d.cols) |->
        IF \E c \in d.changes : c[1] = i THEN (CHOOSE c \in d.changes : c[1] = i)[2]
        ELSE IF i \in DOMAIN old.cells THEN old.cells[i] ELSE Default]]

-----------------------------------------------------------------------------
Init ==
    /\ whole = Fresh(Rows, Cols)
    /\ bytes = whole
    /\ player = Snapshot(whole)
    /\ shown = Snapshot(whole)
    /\ rest = <<>>
    /\ fed = 0

Feed(word) ==
    /\ word = rest \/ (rest = <<>> /\ word \in Words /\ fed < MaxWords)
    /\ word # <<>>
    /\ rest' = Tail(word)
    /\ fed' = IF rest = <<>> THEN fed + 1 ELSE fed
    /\ whole' = Scan(whole, Head(word))
    /\ bytes' = Flush(Scan(bytes, Head(word)))
    /\ UNCHANGED <<player, shown>>

\* The end of a piece: the event has its diff from the snapshot before it.
EndOfPiece ==
    /\ whole' = Flush(whole)
    /\ shown' = Snapshot(whole')
    /\ player' = ApplyDiff(player, CreateDiff(shown, shown'))
    /\ UNCHANGED <<bytes, rest, fed>>

Next == (\E word \in Words \cup {rest} : Feed(word)) \/ EndOfPiece

Spec == Init /\ [][Next]_vars

-----------------------------------------------------------------------------
(* Properties.                                                             *)

\* Where the output was cut does not matter: once a piece is at its end, the
\* engine is where it would be had every byte come by itself.
CutsDoNotMatter == whole.text = <<>> => whole = bytes

\* Cursor, scroll region and cells stay within the geometry, whatever was
\* printed and however the terminal was resized meanwhile.
WithinGeometry ==
    \A e \in {whole, bytes} :
        /\ DOMAIN e.cells = (0..(e.rows - 1)) \X (0..(e.cols - 1))
        /\ e.row < e.rows /\ e.col < e.cols
        /\ e.top <= e.bottom /\ e.bottom < e.rows
        /\ e.wrap => e.col = e.cols - 1

\* A player that only gets diffs shows what the engine has.
PlayerFollows == player = shown

ScreensFollow == CutsDoNotMatter /\ WithinGeometry /\ PlayerFollows

\* A TAB takes the cursor to the next stop (fixture tab.json).
TabGoesToNextStop ==
    \A s \in ToSet(Stops(bytes)) : Tab(bytes).col <= s

=============================================================================
