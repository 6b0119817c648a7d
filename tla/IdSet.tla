------------------------------- MODULE IdSet -------------------------------
(***************************************************************************)
(* The id sets of packages/sqlite-graph-ext: a set is a blob, its ids      *)
(* separated by newlines.  Every SQL function parses its arguments, works  *)
(* on sorted arrays and writes a blob again.  idset.ts builds expressions  *)
(* of these functions.                                                     *)
(*                                                                         *)
(* A text is a sequence of bytes; the ones that mean something are named.  *)
(* A number given as an id is its decimal text, as any other text is.      *)
(***************************************************************************)
EXTENDS Integers, SequencesExt

TAB == 9
NL  == 10

NonEmpty(text) == text # <<>>

\* Ids, the empty one too, which no set holds.
Ids == {id \in Seq(Nat) : NL \notin ToSet(id)}

\* std.mem.lessThan: byte by byte, a prefix before what it is a prefix of.
lessLexicographic(a, b) ==
    \E n \in 1..Len(b) :
        /\ n <= Len(a) + 1 /\ \A i \in 1..(n - 1) : a[i] = b[i]
        /\ n = Len(a) + 1 \/ a[n] < b[n]

\* The elements of a finite set one after the other: the i-th has i - 1 before it.
Along(set, Before(_, _)) ==
    LET place == [x \in set |-> Cardinality({y \in set : y = x \/ Before(y, x)})]
    IN  [i \in 1..Cardinality(set) |-> CHOOSE x \in set : place[x] = i]

Rising(places) == Along(places, <)

\* The items at some places, in the order of these, as a sequence of its own
\* (which TLC computes once, where it is made).
Kept(items, places) == <<>> \o [n \in DOMAIN places |-> items[places[n]]]

\* std.mem.sort, Array.sort, ORDER BY: of equal items the first comes first.
Ordered(items, Before(_, _)) ==
    Kept(items, Along(DOMAIN items, LAMBDA i, j : \/ Before(items[i], items[j])
                                                  \/ items[i] = items[j] /\ i < j))

\* The parts of a text between its marks: none, or several, may be empty.
Split(text, mark) ==
    LET marks == <<0>> \o Rising({i \in DOMAIN text : text[i] = mark}) \o <<Len(text) + 1>>
    IN  [k \in 1..(Len(marks) - 1) |-> SubSeq(text, marks[k] + 1, marks[k + 1] - 1)]

Joined(parts, mark) ==
    LET Text[i \in 1..Len(parts)] ==
            IF i = 1 THEN parts[1] ELSE Append(Text[i - 1], mark) \o parts[i]
    IN  IF parts = <<>> THEN <<>> ELSE Text[Len(parts)]

Nonblank(items) == Kept(items, Rising({i \in DOMAIN items : NonEmpty(items[i])}))

\* The ids of a blob in order, repeated as often as they are in it.
Sorted(blob) ==
    LET ids == Nonblank(Split(blob, NL)) IN Ordered(ids, lessLexicographic)

\* An id that equals the one before it is freed where it stands, and the next
\* is then compared with freed memory, which a ReleaseSafe build has filled
\* with a pattern no id has: of equal ids the first, third, fifth... are kept.
withoutFreed(items) ==
    LET Earlier(i) == {j \in 1..(i - 1) : items[j] = items[i]}
        First(i) == Cardinality(Earlier(i)) % 2 = 0
    IN  Kept(items, Rising({i \in DOMAIN items : First(i)}))

parseSet(blob) == withoutFreed(Sorted(blob))

appendSetText(ids) == Joined(ids, NL)

\* Dropping what equals the id before it, without freeing: what is left of sorted ids
\* has none twice.
Repeatless(sorted) ==
    Kept(sorted, Rising({i \in DOMAIN sorted : i = 1 \/ sorted[i - 1] # sorted[i]}))

Canonical(ids) == Repeatless(Ordered(ids, lessLexicographic))

-----------------------------------------------------------------------------
(* The SQL functions. *)

idset_empty == <<>>

idset_add(blob, id) == appendSetText(Canonical(Append(parseSet(blob), id)))

idset_union(left, right) ==
    appendSetText(Canonical(parseSet(right) \o parseSet(left)))

\* Where the walk of two arrays at once can be: behind the last id of either, too.
Steps(l, r) == (1..(Len(l) + 1)) \X (1..(Len(r) + 1))

\* Mutant: when two ids differ the pointer of the left set always moves.
intersect_left_only(left, right) ==
    LET l == parseSet(left)
        r == parseSet(right)
        Walk[at \in Steps(l, r)] ==
            LET i == at[1] j == at[2] IN
            IF i > Len(l) \/ j > Len(r) THEN <<>>
            ELSE IF l[i] = r[j] THEN <<l[i]>> \o Walk[<<i + 1, j + 1>>]
            ELSE Walk[<<i + 1, j>>]
    IN  appendSetText(Walk[<<1, 1>>])

\* Both arrays are walked at once, from their least ids.
idset_intersect(left, right) ==
    LET l == parseSet(left)
        r == parseSet(right)
        Walk[at \in Steps(l, r)] ==
            LET i == at[1] j == at[2] IN
            IF i > Len(l) \/ j > Len(r) THEN <<>>
            ELSE IF l[i] = r[j] THEN <<l[i]>> \o Walk[<<i + 1, j + 1>>]
            ELSE IF lessLexicographic(l[i], r[j]) THEN Walk[<<i + 1, j>>]
            ELSE Walk[<<i, j + 1>>]
    IN  appendSetText(Walk[<<1, 1>>])

idset_diff(left, right) ==
    LET l == parseSet(left)
        r == parseSet(right)
        Walk[at \in Steps(l, r)] ==
            LET i == at[1] j == at[2] IN
            IF i > Len(l) THEN <<>>
            ELSE IF j > Len(r) THEN <<l[i]>> \o Walk[<<i + 1, j>>]
            ELSE IF l[i] = r[j] THEN Walk[<<i + 1, j + 1>>]
            ELSE IF lessLexicographic(l[i], r[j]) THEN <<l[i]>> \o Walk[<<i + 1, j>>]
            ELSE Walk[<<i, j + 1>>]
    IN  appendSetText(Walk[<<1, 1>>])

idset_count(blob) == Len(parseSet(blob))

\* containsId: a binary search, positions from 0.
idset_contains(blob, id) ==
    LET items == parseSet(blob)
        Search[range \in (0..Len(items)) \X (0..Len(items))] ==
            LET lo == range[1] hi == range[2] mid == (lo + hi) \div 2 IN
            /\ lo < hi
            /\ \/ items[mid + 1] = id
               \/ IF lessLexicographic(items[mid + 1], id)
                  THEN Search[<<mid + 1, hi>>] ELSE Search[<<lo, mid>>]
    IN  Search[<<0, Len(items)>>]

\* Wyhash over the ids, each with its length: taken to be injective.
idset_hash(blob) == parseSet(blob)

\* Decimal texts, and what they mean.
DecimalText(n) ==
    LET Text[k \in 0..n] ==
            IF k < 10 THEN <<48 + k>> ELSE Append(Text[k \div 10], 48 + (k % 10))
    IN  Text[n]

NumberText(n) == IF n < 0 THEN <<45>> \o DecimalText(0 - n) ELSE DecimalText(n)

NumberOf(text) ==
    LET Value[i \in 0..Len(text)] ==
            IF i = 0 \/ text[i] = 45 THEN 0 ELSE 10 * Value[i - 1] + text[i] - 48
    IN  IF text[1] = 45 THEN 0 - Value[Len(text)] ELSE Value[Len(text)]

IsNumber(text) ==
    LET first == IF text[1] = 45 THEN 2 ELSE 1
    IN  NonEmpty(text) /\ first <= Len(text) /\ \A i \in first..Len(text) : text[i] \in 48..57

idset_each(blob) ==
    LET ids == parseSet(blob)
    IN  appendSetText([i \in DOMAIN ids |-> ids[i] \o <<TAB>> \o NumberText(i)])

-----------------------------------------------------------------------------
(* idset.ts. *)

\* String order of JavaScript's localeCompare, for unaccented letters.
localeLess(a, b) ==
    LET Fold(text) == [i \in DOMAIN text |-> IF text[i] \in 65..90 THEN text[i] + 32
                                             ELSE text[i]]
    IN  \/ lessLexicographic(Fold(a), Fold(b))
        \/ Fold(a) = Fold(b) /\ lessLexicographic(b, a)

uniqueSorted(values) ==
    LET ids == Nonblank(values) IN Repeatless(Ordered(ids, localeLess))

\* idsetFromValues: idset_add around idset_add around idset_empty().
idsetFromValues(values) ==
    LET ids == uniqueSorted(values)
        Blob[i \in 0..Len(ids)] ==
            IF i = 0 THEN idset_empty ELSE idset_add(Blob[i - 1], ids[i])
    IN  Blob[Len(ids)]

-----------------------------------------------------------------------------
(* Properties. *)

\* The lines of a blob, as a set.
IdsOf(blob) == {id \in ToSet(Split(blob, NL)) : NonEmpty(id)}

IsCanonical(blob) ==
    /\ blob = <<>> \/ \A id \in ToSet(Split(blob, NL)) : NonEmpty(id)
    /\ \A i, j \in 1..Len(Split(blob, NL)) :
         i < j => lessLexicographic(Split(blob, NL)[i], Split(blob, NL)[j])

\* No id three times: what the functions write, and the client builds.
TwiceAtMost(blob) ==
    \A i, j, k \in 1..Len(Sorted(blob)) :
        i < j /\ j < k => Sorted(blob)[i] # Sorted(blob)[k]

\* extension.zig 250-545: the functions are the algebra of sets on any blobs
\* that repeat no id three times, and write blobs that are sorted, without
\* duplicates or blank lines, so that equal sets are equal texts.
AlgebraOfSets(left, right, id) ==
    TwiceAtMost(left) /\ TwiceAtMost(right) =>
        /\ IdsOf(idset_union(left, right)) = IdsOf(left) \cup IdsOf(right)
        /\ IdsOf(idset_intersect(left, right)) = IdsOf(left) \cap IdsOf(right)
        /\ IdsOf(idset_diff(left, right)) = IdsOf(left) \ IdsOf(right)
        /\ IdsOf(idset_add(left, id)) = IdsOf(left) \cup IdsOf(id)
        /\ idset_count(left) = Cardinality(IdsOf(left))
        /\ idset_contains(left, id) <=> id \in IdsOf(left)
        /\ idset_hash(left) = idset_hash(right) <=> IdsOf(left) = IdsOf(right)
        /\ idset_intersect(left, right)
             = idset_diff(left, idset_diff(left, right))
        /\ \A blob \in {idset_union(left, right), idset_intersect(left, right),
                        idset_diff(left, right)} : IsCanonical(blob)
        /\ NL \notin ToSet(id) => IsCanonical(idset_add(left, id))
=============================================================================
