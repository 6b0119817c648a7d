----------------------------- MODULE TextField -----------------------------
(***************************************************************************)
(* Text fields as the event relay edits them: value, a sequence of         *)
(* characters, and the selection from start to end.  A field that does not *)
(* select (email, number) is edited at its end.                            *)
(***************************************************************************)
EXTENDS Integers, SequencesExt, FiniteSetsExt

Letters == {"a", "b", "d", "e", "f", "k", "u", "w", "x"}
toUpperCase == [a |-> "A", b |-> "B", d |-> "D", e |-> "E", f |-> "F",
                k |-> "K", u |-> "U", w |-> "W", x |-> "X"]

Slice(s, from, to) == SubSeq(s, from + 1, to)      \* String.slice

getSelectionPosition(field) ==
    IF field.selects THEN <<field.start, field.end>>
    ELSE <<Len(field.value), Len(field.value)>>

setSelectionPosition(field, at) ==
    IF field.selects THEN [field EXCEPT !.start = at, !.end = at] ELSE field

\* Assigning a new value leaves the cursor behind it (the DOM's rule).
SetValue(field, value) ==
    IF value = field.value THEN field
    ELSE [field EXCEPT !.value = value, !.start = Len(value), !.end = Len(value)]

BlanksOf(s) == {i \in DOMAIN s : s[i] = " "}
WordsOf(s) == {i \in DOMAIN s : s[i] # " "}

\* Mutant: the word's first character stays.
findLaterBoundaryBackward(s) ==
    IF WordsOf(s) = {} THEN 0
    ELSE Max({0} \cup {i + 1 : i \in {j \in BlanksOf(s) : j < Max(WordsOf(s))}})

findWordBoundaryBackward(s) ==
    IF WordsOf(s) = {} THEN 0
    ELSE Max({0} \cup {i \in BlanksOf(s) : i < Max(WordsOf(s))})

findWordBoundaryForward(s) ==
    IF WordsOf(s) = {} THEN Len(s)
    ELSE Min({Len(s)} \cup {i - 1 : i \in {j \in BlanksOf(s) : j > Min(WordsOf(s))}})

\* The field with the text from one offset to another taken out.
Cut(field, from, to) ==
    setSelectionPosition(
        SetValue(field, Slice(field.value, 0, from) \o Slice(field.value, to, Len(field.value))),
        from)

\* The keys of readline: with Ctrl, and with Alt.
CtrlKeys(field) ==
    LET at == getSelectionPosition(field)[1]
        length == Len(field.value)
        word == findWordBoundaryBackward(Slice(field.value, 0, at))
    IN [a |-> setSelectionPosition(field, 0),
        e |-> setSelectionPosition(field, length),
        f |-> setSelectionPosition(field, IF at < length THEN at + 1 ELSE length),
        b |-> setSelectionPosition(field, IF at > 0 THEN at - 1 ELSE 0),
        d |-> IF at < length THEN Cut(field, at, at + 1) ELSE field,
        w |-> Cut(field, word, at),
        u |-> Cut(field, 0, at),
        k |-> Cut(field, at, length)]

AltKeys(field) ==
    LET at == getSelectionPosition(field)[1]
        length == Len(field.value)
        word == findWordBoundaryBackward(Slice(field.value, 0, at))
        next == at + findWordBoundaryForward(Slice(field.value, at, length))
    IN [f |-> setSelectionPosition(field, next),
        b |-> setSelectionPosition(field, word),
        d |-> Cut(field, at, next)]

WithAlt(key) == {"option", "meta"} \cap key.mods # {}

IsReadline(key) ==
    \/ "ctrl" \in key.mods /\ key.name \in {"a", "e", "f", "b", "d", "w", "u", "k"}
    \/ WithAlt(key) /\ key.name \in {"f", "b", "d"}

Readline(key, field) ==
    IF "ctrl" \in key.mods /\ key.name \in DOMAIN CtrlKeys(field)
    THEN CtrlKeys(field)[key.name] ELSE AltKeys(field)[key.name]

\* charToInsert: Alt as "meta" inserts nothing, Alt as "option" inserts the letter.
IsCharacter(key) ==
    \/ key.name = "space"
    \/ key.name \in Letters /\ {"ctrl", "meta"} \cap key.mods = {}

charToInsert(key) ==
    IF key.name = "space" THEN " "
    ELSE IF "shift" \in key.mods THEN toUpperCase[key.name] ELSE key.name

Inserted(key, field) ==
    LET range == getSelectionPosition(field)
    IN setSelectionPosition(
           SetValue(field, Slice(field.value, 0, range[1]) \o <<charToInsert(key)>>
                           \o Slice(field.value, range[2], Len(field.value))),
           range[1] + 1)

Backspaced(field) ==
    IF field.value = <<>> THEN field ELSE SetValue(field, Front(field.value))
=============================================================================
