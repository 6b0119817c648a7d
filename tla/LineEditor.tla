----------------------------- MODULE LineEditor -----------------------------
(***************************************************************************)
(* What a line of text with readline keys promises. A line is the text     *)
(* before its cursor and the text after it, of which the first marked      *)
(* characters may be selected; Control, Alternate, Type and Backspace say  *)
(* which lines a key may make of a line.                                   *)
(***************************************************************************)
EXTENDS Integers, SequencesExt

Blank == " "
Words(s) == Blank \notin ToSet(s)
Blanks(s) == ToSet(s) \subseteq {Blank}

At(b, a) == [before |-> b, after |-> a, marked |-> 0]
Text(line) == line.before \o line.after

\* A word to the left ends the text before the cursor, blanks after it included;
\* a word to the right begins the text after it, blanks first.
WordLeft(before, i) ==
    \E j \in i..Len(before) :
        /\ Words(SubSeq(before, i + 1, j))
        /\ Blanks(SubSeq(before, j + 1, Len(before)))
        /\ i > 0 => (i < j /\ before[i] = Blank)

WordRight(after, i) ==
    \E j \in 0..i :
        /\ Blanks(SubSeq(after, 1, j))
        /\ Words(SubSeq(after, j + 1, i))
        /\ i < Len(after) => (j < i /\ after[i + 1] = Blank)

Control(name, line, next) ==
    LET before == line.before
        after == line.after
    IN
    \/ name = "a" /\ next = At(<<>>, Text(line))
    \/ name = "e" /\ next = At(Text(line), <<>>)
    \/ name = "f" /\ next = IF after = <<>> THEN At(before, after)
                            ELSE At(Append(before, Head(after)), Tail(after))
    \/ name = "b" /\ next = IF before = <<>> THEN At(before, after)
                            ELSE At(Front(before), <<Last(before)>> \o after)
    \/ name = "d" /\ next = IF after = <<>> THEN line ELSE At(before, Tail(after))
    \/ name = "w" /\ \E i \in 0..Len(before) :
           WordLeft(before, i) /\ next = At(SubSeq(before, 1, i), after)
    \/ name = "u" /\ next = At(<<>>, after)
    \/ name = "k" /\ next = At(before, <<>>)

Alternate(name, line, next) ==
    LET before == line.before
        after == line.after
    IN
    \/ name = "f" /\ \E i \in 0..Len(after) :
           /\ WordRight(after, i)
           /\ next = At(before \o SubSeq(after, 1, i), SubSeq(after, i + 1, Len(after)))
    \/ name = "b" /\ \E i \in 0..Len(before) :
           /\ WordLeft(before, i)
           /\ next = At(SubSeq(before, 1, i), SubSeq(before, i + 1, Len(before)) \o after)
    \/ name = "d" /\ \E i \in 0..Len(after) :
           WordRight(after, i) /\ next = At(before, SubSeq(after, i + 1, Len(after)))

\* What is typed takes the place of what is selected.
Type(character, line, next) ==
    next = At(Append(line.before, character), SubSeq(line.after, line.marked + 1, Len(line.after)))

\* Backspace takes the last character of the line, wherever the cursor is.
Backspace(line, next) ==
    next = IF Text(line) = <<>> THEN line ELSE At(Front(Text(line)), <<>>)
=============================================================================
