--------------------------- MODULE TerminalScreen ---------------------------
(***************************************************************************)
(* Screen.ansi of assertions.ts: the cells of a terminal written as text   *)
(* with escape sequences, and the terminal that reads it.                  *)
(*                                                                         *)
(* A cell is [char, width, fg, bg, flags]: char is a code point, 0 for an  *)
(* empty cell, width 2 for a wide character and 0 for the place behind it. *)
(* A colour is <<"default">>, <<"palette", n>> or <<"rgb", r, g, b>>.      *)
(***************************************************************************)
EXTENDS Integers, SequencesExt

Default == <<"default">>
NullCell == [char |-> 0, width |-> 1, fg |-> Default, bg |-> Default, flags |-> {}]

\* The flags in the order they are looked at, with the codes that turn them on
\* and off.
FlagCodes == << <<"inverse", 7, 27>>, <<"bold", 1, 22>>, <<"underline", 4, 24>>, <<"blink", 5, 25>>,
                <<"invisible", 8, 28>>, <<"italic", 3, 23>>, <<"faint", 2, 22>>, <<"strikethrough", 9, 29>> >>

isAttributeDefault(cell) == cell.fg = Default /\ cell.bg = Default /\ cell.flags = {}

\* The codes of a colour; the first of them counts from base, 30 or 40.
ColorCodes(base, color) ==
    CASE color[1] = "rgb" -> <<base + 8, 2>> \o Tail(color)
      [] color[1] = "palette" ->
            IF color[2] >= 16 THEN <<base + 8, 5, color[2]>>
            ELSE IF color[2] >= 8 THEN <<base + 60 + color[2] - 8>> ELSE <<base + color[2]>>
      [] OTHER -> <<base + 9>>

\* Mutant: default attributes are not a reset.
diffStyleOfFlags(cell, old) ==
    LET flag(i) == LET f == FlagCodes[i]
                   IN  IF (f[1] \in cell.flags) = (f[1] \in old.flags) THEN <<>>
                       ELSE IF f[1] \in cell.flags THEN <<f[2]>> ELSE <<f[3]>>
    IN  IF isAttributeDefault(cell) THEN <<>>
        ELSE FlattenSeq([i \in DOMAIN FlagCodes |-> flag(i)])
             \o (IF cell.fg = old.fg THEN <<>> ELSE ColorCodes(30, cell.fg))
             \o (IF cell.bg = old.bg THEN <<>> ELSE ColorCodes(40, cell.bg))

diffStyle(cell, old) ==
    LET flag(i) == LET f == FlagCodes[i]
                   IN  IF (f[1] \in cell.flags) = (f[1] \in old.flags) THEN <<>>
                       ELSE IF f[1] \in cell.flags THEN <<f[2]>> ELSE <<f[3]>>
    IN  IF isAttributeDefault(cell)
        THEN IF isAttributeDefault(old) THEN <<>> ELSE <<0>>
        ELSE FlattenSeq([i \in DOMAIN FlagCodes |-> flag(i)])
             \o (IF cell.fg = old.fg THEN <<>> ELSE ColorCodes(30, cell.fg))
             \o (IF cell.bg = old.bg THEN <<>> ELSE ColorCodes(40, cell.bg))

-----------------------------------------------------------------------------
(* What ansi writes: tokens. *)

Sgr(codes) == IF codes = <<>> THEN <<>> ELSE <<[kind |-> "sgr", codes |-> codes]>>
Forward(n) == IF n = 0 THEN <<>> ELSE <<[kind |-> "forward", n |-> n]>>
Text(cell) == <<[kind |-> "text", char |-> cell.char, width |-> cell.width]>>
Newline == <<[kind |-> "newline"]>>

\* What is passed over: a cell with nothing in it, and any character from
\* U+F000 on, emoji and fullwidth forms among them.
isEmptyCell(cell) == cell.char = 0 \/ cell.char >= 61440

\* One cell: state is [out, style, nulls], nulls the empty cells passed.
CellWritten(state, cell) ==
    LET sgrSeq == diffStyle(cell, state.style)
    IN  IF cell.width = 0 THEN state
        ELSE IF ~isEmptyCell(cell)
        THEN [out |-> state.out \o Forward(state.nulls) \o Sgr(sgrSeq) \o Text(cell),
              style |-> IF sgrSeq = <<>> THEN state.style ELSE cell, nulls |-> 0]
        ELSE IF cell.bg # state.style.bg
        THEN [out |-> state.out \o Forward(state.nulls) \o Sgr(sgrSeq), style |-> cell, nulls |-> cell.width]
        ELSE [state EXCEPT !.nulls = @ + cell.width]

\* Rows are cut where nothing follows, the style goes on from row to row.
ansi(rows) ==
    LET row(state, cells) ==
            LET written == FoldLeft(CellWritten, [out |-> <<>>, style |-> state.style, nulls |-> 0], cells)
            IN  [rows |-> Append(state.rows, written.out), style |-> written.style]
        all == FoldLeft(row, [rows |-> <<>>, style |-> NullCell], rows)
        kept == {i \in DOMAIN all.rows : \E j \in i..Len(all.rows) : all.rows[j] # <<>>}
    IN  FlattenSeq([i \in 1..Cardinality(kept) |-> (IF i = 1 THEN <<>> ELSE Newline) \o all.rows[i]])
        \o (IF isAttributeDefault(all.style) THEN <<>> ELSE Sgr(<<0>>))

-----------------------------------------------------------------------------
(* The terminal that reads it: grid, cursor and the style it writes with. *)

\* One code after the other; those of a longer colour are taken together.
Set(pen, code) ==
    LET on == {i \in DOMAIN FlagCodes : FlagCodes[i][2] = code}
        off == {i \in DOMAIN FlagCodes : FlagCodes[i][3] = code}
        named(base) == IF code >= base + 60 THEN <<"palette", code - base - 60 + 8>>
                       ELSE IF code = base + 9 THEN Default ELSE <<"palette", code - base>>
    IN  IF code = 0 THEN NullCell
        ELSE IF on # {} THEN [pen EXCEPT !.flags = @ \cup {FlagCodes[i][1] : i \in on}]
        ELSE IF off # {} THEN [pen EXCEPT !.flags = @ \ {FlagCodes[i][1] : i \in off}]
        ELSE IF code \in 30..39 \cup 90..97 THEN [pen EXCEPT !.fg = named(30)]
        ELSE [pen EXCEPT !.bg = named(40)]

Styled(pen, codes) ==
    LET one(state, i) ==
            LET length == IF codes[i + 1] = 5 THEN 3 ELSE 5
                color == IF length = 3 THEN <<"palette", codes[i + 2]>>
                         ELSE <<"rgb", codes[i + 2], codes[i + 3], codes[i + 4]>>
            IN  IF i < state.next THEN state
                ELSE IF codes[i] = 38 THEN [pen |-> [state.pen EXCEPT !.fg = color], next |-> i + length]
                ELSE IF codes[i] = 48 THEN [pen |-> [state.pen EXCEPT !.bg = color], next |-> i + length]
                ELSE [pen |-> Set(state.pen, codes[i]), next |-> i + 1]
    IN  FoldLeft(one, [pen |-> pen, next |-> 1], [i \in DOMAIN codes |-> i]).pen

Read(state, token) ==
    CASE token.kind = "sgr" -> [state EXCEPT !.pen = Styled(@, token.codes)]
      [] token.kind = "forward" -> [state EXCEPT !.x = @ + token.n]
      [] token.kind = "newline" -> [state EXCEPT !.x = 1, !.y = @ + 1]
      [] OTHER ->
            LET cell == [state.pen EXCEPT !.char = token.char, !.width = token.width]
                row == [x \in DOMAIN state.grid[state.y] |->
                           IF x = state.x THEN cell
                           ELSE IF x = state.x + 1 /\ token.width = 2 THEN [state.pen EXCEPT !.width = 0]
                           ELSE state.grid[state.y][x]]
            IN  [state EXCEPT !.grid[state.y] = row, !.x = @ + token.width]

Restored(rows) ==
    FoldLeft(Read, [grid |-> [y \in DOMAIN rows |-> [x \in DOMAIN rows[y] |-> NullCell]],
                    x |-> 1, y |-> 1, pen |-> NullCell], ansi(rows))

-----------------------------------------------------------------------------
(* Properties. *)

Cells(rows) == UNION {Range(rows[y]) : y \in DOMAIN rows}

\* What ansi cannot write: an empty cell with a background, which is passed over,
\* and bold with faint, which one code turns off.
Writable(rows) ==
    /\ \A cell \in Cells(rows) : isEmptyCell(cell) => cell.bg = Default \/ cell.width = 0
    /\ ~ \E c, d \in Cells(rows) : "bold" \in c.flags /\ "faint" \in d.flags

\* What is on the screen after the terminal has read it: the flags of an empty
\* cell do not show, and a character from U+F000 on comes back as the blanks
\* it stood on.
Looks(row, x) ==
    LET head == IF row[x].width = 0 /\ x > 1 THEN row[x - 1] ELSE row[x]
    IN  IF isEmptyCell(head) THEN NullCell ELSE row[x]

\* assertions.ts 205-286: "The output can be written back to a terminal to restore
\* the visual state", of screens that are Writable and but for the characters from
\* U+F000 on, whose cells come back blank with everything else in its place; and
\* it leaves the terminal with its default style.
AnsiRestores(rows) ==
    LET after == Restored(rows)
    IN  Writable(rows) =>
            /\ \A y \in DOMAIN rows : \A x \in DOMAIN rows[y] : after.grid[y][x] = Looks(rows[y], x)
            /\ isAttributeDefault(after.pen)
=============================================================================
