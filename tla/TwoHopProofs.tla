---------------------------- MODULE TwoHopProofs ---------------------------
(***************************************************************************)
(* Proofs about a two-hop recommendation, for any edge table whose ids     *)
(* have no newline, any input and any writes of others.  ClientInv says    *)
(* what each query has found and that it was there; QuietInv, that a call  *)
(* nobody disturbs has read what the plain pipeline of SQL reads.          *)
(***************************************************************************)
EXTENDS TwoHopClient, IdSetProofs

-----------------------------------------------------------------------------
(* The rows of idset_each *)

Numbered(rows, ids) ==
    Len(rows) = Len(ids) /\ \A i \in 1 .. Len(ids) : rows[i] = <<ids[i], NumberText(i)>>

\* extension.zig 504-548: idset_each writes the ids in byte order, numbered.
LEMMA EachIsRows ==
    ASSUME NEW set, NEW X, Holds(set, X)
    PROVE  \E ids \in Seq(X) : \E rows \in Seq(Pairs) :
             Lists(ids, X, Bytes) /\ Numbered(rows, ids) /\ idset_each(set) = Lines(rows)
<1>1. PICK ids \in Seq(X) : ids = parseSet(set) /\ Lists(ids, X, Bytes) /\ X \subseteq Names
    BY WhatIsHeld
<1>2. DOMAIN ids = 1 .. Len(ids) /\ Len(ids) \in Nat
      /\ \A i \in 1 .. Len(ids) : ids[i] \in Ids /\ ids[i] \in Seq(Nat)
    <2>1. \A i \in 1 .. Len(ids) : ids[i] \in X
        BY ElementOfSeq
    <2> QED
        BY <2>1, <1>1, NamesAreTexts DEF Names
<1>3. \A i \in 1 .. Len(ids) : NumberText(i) \in Ids /\ NumberText(i) \in Seq(Nat)
    <2>1. \A i \in 1 .. Len(ids) : i \in Nat
        BY <1>2
    <2> QED
        BY <2>1, NumbersSurvive, NamesAreTexts DEF Names
<1> DEFINE rows == [i \in 1 .. Len(ids) |-> <<ids[i], NumberText(i)>>]
<1>4. rows \in Seq(Pairs) /\ Len(rows) = Len(ids)
      /\ \A i \in 1 .. Len(ids) : rows[i] = <<ids[i], NumberText(i)>>
    <2>1. \A i \in 1 .. Len(ids) : <<ids[i], NumberText(i)>> \in Pairs
        BY <1>2, <1>3 DEF Pairs
    <2> QED
        BY <2>1, <1>2
<1> HIDE DEF rows
<1>5. PICK lines \in Seq(Names) :
             /\ Len(lines) = Len(rows) /\ Lines(rows) = Joined(lines, NL)
             /\ \A i \in 1 .. Len(rows) : Follows(lines[i], rows[i][1], TAB, rows[i][2])
    BY <1>4, LinesOfPairs
<1>6. ASSUME NEW i \in 1 .. Len(ids)
      PROVE  lines[i] = ids[i] \o <<TAB>> \o NumberText(i)
    <2>1. Follows(lines[i], ids[i], TAB, NumberText(i))
        BY <1>4, <1>5
    <2>2. TAB \in Nat
        BY DEF TAB
    <2>3. Append(ids[i], TAB) = ids[i] \o <<TAB>>
        BY <1>2, <2>2, AppendIsConcat
    <2> QED
        BY <2>1, <2>3 DEF Follows
<1>7. lines = [i \in 1 .. Len(ids) |-> ids[i] \o <<TAB>> \o NumberText(i)]
    <2>1. lines = [i \in 1 .. Len(ids) |-> lines[i]]
        BY <1>4, <1>5
    <2> QED
        BY <2>1, <1>6
<1>8. idset_each(set) = Joined([i \in 1 .. Len(ids) |-> ids[i] \o <<TAB>> \o NumberText(i)], NL)
    BY <1>1, <1>2 DEF idset_each, appendSetText
<1> QED
    BY <1>1, <1>4, <1>5, <1>7, <1>8 DEF Numbered

-----------------------------------------------------------------------------
(* The order of the rows *)

\* Rows that are told apart by their candidates.
Rankable(T) ==
    /\ \A row \in T : row.candidate \in Seq(Nat) /\ row.support \in Int
    /\ \A a, b \in T : a.candidate = b.candidate => a = b

ByRow(T) == {ab \in T \X T : Outranks(ab[1], ab[2])}

\* Outranks orders rows whose candidates differ.
LEMMA RowOrder ==
    ASSUME NEW T, Rankable(T)
    PROVE  Orders(ByRow(T), T)
<1>1. \A a, b \in T :
          <<a, b>> \in ByRow(T) <=> \/ a.support > b.support
                                    \/ a.support = b.support /\ <<a.candidate, b.candidate>> \in Locale
    BY DEF Rankable, ByRow, Outranks, Locale
<1>2. ASSUME NEW a \in T, <<a, a>> \in ByRow(T)
      PROVE  FALSE
    <2>1. a.support \in Int /\ a.candidate \in Seq(Nat)
        BY DEF Rankable
    <2>2. <<a.candidate, a.candidate>> \notin Locale
        BY <2>1, LocaleOrder DEF Orders
    <2> QED
        BY <2>1, <2>2, <1>1, <1>2
<1>3. ASSUME NEW a \in T, NEW b \in T, NEW c \in T, <<a, b>> \in ByRow(T), <<b, c>> \in ByRow(T)
      PROVE  <<a, c>> \in ByRow(T)
    <2>1. /\ a.support \in Int /\ b.support \in Int /\ c.support \in Int
          /\ a.candidate \in Seq(Nat) /\ b.candidate \in Seq(Nat) /\ c.candidate \in Seq(Nat)
        BY DEF Rankable
    <2>2. <<a.candidate, b.candidate>> \in Locale /\ <<b.candidate, c.candidate>> \in Locale
             => <<a.candidate, c.candidate>> \in Locale
        BY <2>1, LocaleOrder DEF Orders
    <2> QED
        BY <2>1, <2>2, <1>1, <1>3
<1>4. ASSUME NEW a \in T, NEW b \in T
      PROVE  a = b \/ <<a, b>> \in ByRow(T) \/ <<b, a>> \in ByRow(T)
    <2>1. /\ a.support \in Int /\ b.support \in Int
          /\ a.candidate \in Seq(Nat) /\ b.candidate \in Seq(Nat)
          /\ (a.candidate = b.candidate => a = b)
        BY DEF Rankable
    <2>2. \/ a.candidate = b.candidate \/ <<a.candidate, b.candidate>> \in Locale
          \/ <<b.candidate, a.candidate>> \in Locale
        BY <2>1, LocaleOrder DEF Orders
    <2>3. a.support > b.support \/ b.support > a.support \/ a.support = b.support
        BY <2>1
    <2> QED
        BY <2>1, <2>2, <2>3, <1>1
<1> QED
    BY <1>2, <1>3, <1>4 DEF Orders

\* Ranked arranges such rows.
LEMMA OrderedByRow ==
    ASSUME NEW T, Rankable(T), NEW items \in Seq(T)
    PROVE  Arranges(Ranked(items), items, ByRow(T))
<1> DEFINE D == DOMAIN items
           place == [x \in D |-> Cardinality({y \in D :
                        y = x \/ (\/ Outranks(items[y], items[x])
                                  \/ items[y] = items[x] /\ y < x)})]
           at == [i \in 1 .. Cardinality(D) |-> CHOOSE x \in D : place[x] = i]
<1>1. Ranked(items) = Kept(items, at)
    BY DEF Ranked, Ordered, Along
<1>2. \A i, j \in D : <<i, j>> \in IndexOrder(items, ByRow(T)) <=>
          Outranks(items[i], items[j]) \/ (items[i] = items[j] /\ i < j)
    <2>1. \A i \in D : items[i] \in T
        OBVIOUS
    <2> QED
        BY <2>1 DEF IndexOrder, ByRow
<1>3. \A x \in D : UpTo(D, IndexOrder(items, ByRow(T)), x)
                     = {y \in D : y = x \/ (\/ Outranks(items[y], items[x])
                                            \/ items[y] = items[x] /\ y < x)}
    BY <1>2 DEF UpTo
<1>4. Places(place, D, IndexOrder(items, ByRow(T)))
    BY <1>3 DEF Places
<1>5. Listing(at, D, place)
    BY DEF Listing
<1>6. Orders(IndexOrder(items, ByRow(T)), D)
    BY RowOrder, IndicesAreOrdered
<1>7. IsFiniteSet(D)
    BY FS_Interval
<1> HIDE DEF D, place, at
<1>8. Lists(at, D, IndexOrder(items, ByRow(T)))
    BY <1>4, <1>5, <1>6, <1>7, AlongLists
<1> QED
    BY <1>1, <1>8, WhatIsListedIsArranged DEF D

-----------------------------------------------------------------------------
(* What the queries return *)

\* The columns of a row of the edge table.
LEMMA EdgesOfRows ==
    ASSUME NEW e \in EdgeRows
    PROVE  /\ e.src \in Ids /\ e.dst \in Ids /\ e["src"] = e.src /\ e["dst"] = e.dst
           /\ e.type \in Seq(Nat) /\ e.deleted \in BOOLEAN
BY DEF EdgeRows

\* extension.zig 159-171: an id is in the IN clause when the set holds it.
LEMMA EdgesIn ==
    ASSUME NEW table, NEW set, NEW X, Holds(set, X), NEW column
    PROVE  In(table, column, set) = {edge \in ToSet(table) : edge[column] \in X}
<1>1. ToSet(parseSet(set)) = X
    BY WhatIsHeld
<1> QED
    BY <1>1 DEF In

\* The rows the WHERE clause selects.
LEMMA SelectedEdges ==
    ASSUME NEW table \in Seq(EdgeRows), NEW type, NEW where
    PROVE  /\ Selected(table, type, where) \in Seq(EdgeRows)
           /\ ToSet(Selected(table, type, where)) = {e \in ToSet(table) : (type = <<>> \/ e.type = type) /\ e \in where}
<1> DEFINE P == {i \in DOMAIN table : (type = <<>> \/ table[i].type = type) /\ table[i] \in where}
<1>1. P \subseteq DOMAIN table
    OBVIOUS
<1>2. Selected(table, type, where) = Kept(table, Rising(P))
    BY DEF Selected
<1>3. {table[i] : i \in P} = {e \in ToSet(table) : (type = <<>> \/ e.type = type) /\ e \in where}
    BY DEF ToSet
<1> HIDE DEF P
<1>4. Kept(table, Rising(P)) \in Seq(EdgeRows) /\ ToSet(Kept(table, Rising(P))) = {table[i] : i \in P}
    BY <1>1, KeptRising
<1> QED
    BY <1>2, <1>3, <1>4

\* The ends of edges, read from one of the two.
IsEnd(key, member) == (key = "src" /\ member = "dst") \/ (key = "dst" /\ member = "src")

\* The columns of the selected rows, ordered.
LEMMA PairsAreOrdered ==
    ASSUME NEW chosen \in Seq(EdgeRows), NEW key, NEW member, IsEnd(key, member)
    PROVE  /\ OrderedPairs(chosen, key, member) \in Seq(Pairs)
           /\ ToSet(OrderedPairs(chosen, key, member)) = {<<e[key], e[member]>> : e \in ToSet(chosen)}
<1> DEFINE columns == [i \in DOMAIN chosen |-> <<chosen[i][key], chosen[i][member]>>]
<1>1. DOMAIN chosen = 1 .. Len(chosen) /\ Len(chosen) \in Nat
      /\ \A i \in 1 .. Len(chosen) : chosen[i] \in EdgeRows
    BY ElementOfSeq
<1>2. \A e \in EdgeRows : e[key] \in Ids /\ e[member] \in Ids
    BY EdgesOfRows DEF IsEnd
<1>3. columns \in Seq(Pairs)
    BY <1>1, <1>2 DEF Pairs
<1>4. ToSet(columns) = {<<e[key], e[member]>> : e \in ToSet(chosen)}
    BY <1>1 DEF ToSet
<1>5. OrderedPairs(chosen, key, member) = Ordered(columns, PairLess)
    BY DEF OrderedPairs
<1> HIDE DEF columns
<1>6. Pairs \subseteq TextPairs
    BY IdsAreTexts DEF Pairs, TextPairs
<1>7. columns \in Seq(TextPairs) /\ ToSet(columns) \subseteq Pairs
    BY <1>3, <1>6, ItemsOf
<1>8. Arranges(Ordered(columns, PairLess), columns, ByPair)
    BY <1>7, OrderedByPair
<1>9. PICK sorted : sorted = Ordered(columns, PairLess)
    OBVIOUS
<1>10. sorted \in Seq(ToSet(columns)) /\ ToSet(sorted) = ToSet(columns)
    BY <1>8, <1>9 DEF Arranges
<1>11. sorted \in Seq(Pairs)
    BY <1>7, <1>10
<1> QED
    BY <1>4, <1>5, <1>9, <1>10, <1>11

(* The rows of graph_out_many and graph_in_many are the edges asked for.    *)
Neighbours(table, type, X, key, member, where) ==
    {<<e[key], e[member]>> : e \in {x \in ToSet(table) : /\ type = <<>> \/ x.type = type
                                                         /\ x[key] \in X /\ x \in where}}

LEMMA ManyRows ==
    ASSUME NEW table \in Seq(EdgeRows), NEW type, NEW set, NEW X, Holds(set, X), NEW where,
           NEW key, NEW member, IsEnd(key, member)
    PROVE  LET rows == OrderedPairs(Selected(table, type, In(table, key, set) \cap where), key, member)
           IN  rows \in Seq(Pairs) /\ ToSet(rows) = Neighbours(table, type, X, key, member, where)
<1>1. PICK asked : asked = In(table, key, set) \cap where
    OBVIOUS
<1>2. PICK chosen \in Seq(EdgeRows) :
            /\ chosen = Selected(table, type, asked)
            /\ ToSet(chosen) = {e \in ToSet(table) : (type = <<>> \/ e.type = type) /\ e \in asked}
    BY SelectedEdges
<1>3. /\ OrderedPairs(chosen, key, member) \in Seq(Pairs)
      /\ ToSet(OrderedPairs(chosen, key, member)) = {<<e[key], e[member]>> : e \in ToSet(chosen)}
    BY PairsAreOrdered
<1>4. In(table, key, set) = {edge \in ToSet(table) : edge[key] \in X}
    BY EdgesIn
<1>5. ToSet(chosen) = {x \in ToSet(table) : /\ type = <<>> \/ x.type = type
                                            /\ x[key] \in X /\ x \in where}
    BY <1>1, <1>2, <1>4
<1> QED
    BY <1>1, <1>2, <1>3, <1>5 DEF Neighbours

-----------------------------------------------------------------------------
(* Two hops *)

\* GROUP BY lists destinations by their bytes.
LEMMA AlongByBytes ==
    ASSUME NEW S, S \subseteq Seq(Nat), IsFiniteSet(S)
    PROVE  Lists(Along(S, lessLexicographic), S, Bytes)
<1> DEFINE place == [x \in S |-> Cardinality({y \in S : y = x \/ lessLexicographic(y, x)})]
           list == [i \in 1 .. Cardinality(S) |-> CHOOSE x \in S : place[x] = i]
<1>1. Along(S, lessLexicographic) = list
    BY DEF Along
<1>2. \A x \in S : UpTo(S, Bytes, x) = {y \in S : y = x \/ lessLexicographic(y, x)}
    BY DEF UpTo, Bytes
<1>3. Places(place, S, Bytes)
    BY <1>2 DEF Places
<1>4. Listing(list, S, place)
    BY DEF Listing
<1>5. Orders(Bytes, S)
    BY BytesOrder DEF Orders
<1> HIDE DEF place, list
<1>6. Lists(list, S, Bytes)
    BY <1>3, <1>4, <1>5, AlongLists
<1> QED
    BY <1>1, <1>6

\* The joined rows, of a table that has finitely many.
LEMMA HopsAreFinite ==
    ASSUME NEW table \in Seq(EdgeRows), NEW hop1, NEW hop2, NEW set, NEW X, Holds(set, X)
    PROVE  /\ Hops(table, hop1, hop2, set)
                = {hop \in ToSet(table) \X ToSet(table) :
                      /\ hop[1].src \in X /\ hop[1].dst = hop[2].src
                      /\ hop[1].type = hop1 /\ hop[2].type = hop2}
           /\ Hops(table, hop1, hop2, set) \subseteq EdgeRows \X EdgeRows
           /\ IsFiniteSet(Hops(table, hop1, hop2, set))
<1>1. In(table, "src", set) = {edge \in ToSet(table) : edge.src \in X}
    BY EdgesIn
<1>2. ToSet(table) \subseteq EdgeRows /\ IsFiniteSet(ToSet(table))
    BY ItemsOf
<1>3. Hops(table, hop1, hop2, set)
                = {hop \in ToSet(table) \X ToSet(table) :
                      /\ hop[1].src \in X /\ hop[1].dst = hop[2].src
                      /\ hop[1].type = hop1 /\ hop[2].type = hop2}
    BY <1>1 DEF Hops
<1>4. IsFiniteSet(ToSet(table) \X ToSet(table))
    BY <1>2, FS_Product
<1>5. Hops(table, hop1, hop2, set) \subseteq ToSet(table) \X ToSet(table)
    BY <1>3
<1>6. IsFiniteSet(Hops(table, hop1, hop2, set))
    BY <1>4, <1>5, FS_Subset
<1> QED
    BY <1>2, <1>3, <1>5, <1>6

\* Whom a destination is reached from.
Reaching(hops, dst) == {hop[1].src : hop \in {h \in hops : h[2].dst = dst}}

Counted(rows, hops) ==
    /\ Lists([i \in 1 .. Len(rows) |-> rows[i][1]], {hop[2].dst : hop \in hops}, Bytes)
    /\ \A i \in 1 .. Len(rows) :
         /\ \E hop \in hops : hop[2].dst = rows[i][1]
         /\ Cardinality(Reaching(hops, rows[i][1])) \in Nat \ {0}
         /\ rows[i][2] = NumberText(Cardinality(Reaching(hops, rows[i][1])))

\* extension.zig 1261-1401: each destination once, with the number of its
\* supporters.
LEMMA CountRows ==
    ASSUME NEW table \in Seq(EdgeRows), NEW hop1, NEW hop2, NEW set, NEW X, Holds(set, X),
           NEW hops, hops = Hops(table, hop1, hop2, set)
    PROVE  \E rows \in Seq(Pairs) :
             graph_two_hop_counts(table, hop1, hop2, set) = Lines(rows) /\ Counted(rows, hops)
<1> DEFINE S == {hop[2].dst : hop \in hops}
           dsts == Along(S, lessLexicographic)
           rows == [i \in DOMAIN dsts |-> <<dsts[i], NumberText(Cardinality(Reaching(hops, dsts[i])))>>]
<1>1. hops \subseteq EdgeRows \X EdgeRows /\ IsFiniteSet(hops)
    BY HopsAreFinite
<1>2. IsFiniteSet(S) /\ \A T \in SUBSET hops : IsFiniteSet({hop[1].src : hop \in T})
    <2>1. IsFiniteSet(S)
        <3>1. [hop \in hops |-> hop[2].dst] \in Surjection(hops, S)
            BY DEF Surjection
        <3> QED
            BY <1>1, <3>1, FS_Surjection
    <2>2. ASSUME NEW T \in SUBSET hops
          PROVE  IsFiniteSet({hop[1].src : hop \in T})
        <3>1. IsFiniteSet(T)
            BY <1>1, FS_Subset
        <3>2. [hop \in T |-> hop[1].src] \in Surjection(T, {hop[1].src : hop \in T})
            BY DEF Surjection
        <3> QED
            BY <3>1, <3>2, FS_Surjection
    <2> QED
        BY <2>1, <2>2
<1>3. S \subseteq Ids /\ S \subseteq Seq(Nat)
    <2>1. \A hop \in hops : hop[2].dst \in Ids
        BY <1>1, EdgesOfRows
    <2> QED
        BY <2>1, IdsAreTexts
<1>4. graph_two_hop_counts(table, hop1, hop2, set) = Lines(rows)
    BY DEF graph_two_hop_counts, Reaching
<1>5. Lists(dsts, S, Bytes)
    BY <1>2, <1>3, AlongByBytes
<1> HIDE DEF dsts
<1>6. dsts \in Seq(S) /\ ToSet(dsts) = S /\ DOMAIN dsts = 1 .. Len(dsts) /\ Len(dsts) \in Nat
    <2>1. \A x \in S : <<x, x>> \notin Bytes
        BY <1>3, BytesIrreflexive
    <2> HIDE DEF S
    <2>2. dsts \in Seq(S) /\ ToSet(dsts) = S /\ DOMAIN dsts = 1 .. Len(dsts)
        BY <2>1, <1>5, ListedItems
    <2> QED
        BY <2>2
<1>7. \A i \in 1 .. Len(dsts) : dsts[i] \in S
    BY <1>6, ElementOfSeq
<1>8. ASSUME NEW dst \in S
      PROVE  /\ \E hop \in hops : hop[2].dst = dst
             /\ Cardinality(Reaching(hops, dst)) \in Nat \ {0}
    <2>1. PICK hop \in hops : hop[2].dst = dst
        OBVIOUS
    <2>2. hop[1].src \in Reaching(hops, dst)
        BY <2>1 DEF Reaching
    <2>3. IsFiniteSet(Reaching(hops, dst))
        BY <1>2 DEF Reaching
    <2>4. Cardinality(Reaching(hops, dst)) \in Nat /\ Cardinality(Reaching(hops, dst)) # 0
        BY <2>2, <2>3, FS_CardinalityType, FS_EmptySet
    <2> QED
        BY <2>1, <2>4
<1> HIDE DEF S
<1>9. \A i \in 1 .. Len(dsts) : <<dsts[i], NumberText(Cardinality(Reaching(hops, dsts[i])))>> \in Pairs
    <2> TAKE i \in 1 .. Len(dsts)
    <2>1. dsts[i] \in Ids
        BY <1>3, <1>7
    <2>2. NumberText(Cardinality(Reaching(hops, dsts[i]))) \in Ids
        BY <1>7, <1>8, NumbersSurvive DEF Names
    <2> QED
        BY <2>1, <2>2 DEF Pairs
<1>10. /\ rows \in Seq(Pairs) /\ Len(rows) = Len(dsts)
       /\ \A i \in 1 .. Len(dsts) : /\ rows[i][1] = dsts[i]
                                    /\ rows[i][2] = NumberText(Cardinality(Reaching(hops, dsts[i])))
    BY <1>6, <1>9
<1> HIDE DEF rows
<1>11. [i \in 1 .. Len(rows) |-> rows[i][1]] = dsts
    <2>1. [i \in 1 .. Len(rows) |-> rows[i][1]] = [i \in 1 .. Len(dsts) |-> dsts[i]]
        BY <1>10
    <2>2. dsts = [i \in 1 .. Len(dsts) |-> dsts[i]]
        BY <1>6
    <2> QED
        BY <2>1, <2>2
<1>12. \A i \in 1 .. Len(rows) :
                  /\ \E hop \in hops : hop[2].dst = rows[i][1]
                  /\ Cardinality(Reaching(hops, rows[i][1])) \in Nat \ {0}
                  /\ rows[i][2] = NumberText(Cardinality(Reaching(hops, rows[i][1])))
    BY <1>7, <1>8, <1>10
<1> QED
    BY <1>4, <1>5, <1>10, <1>11, <1>12 DEF S, Counted

-----------------------------------------------------------------------------
(* The call *)

Asked == [seeds : Seq(Ids), exclude : Seq(Ids), hop1 : Seq(Nat), hop2 : Seq(Nat)]

ClientTyped ==
    /\ edges \in Seq(EdgeRows) /\ ever \subseteq EdgeRows /\ ToSet(edges) \subseteq ever
    /\ input \in Asked /\ targets \in Seq(Ids) /\ counts \in Seq(Pairs)

\* Each target is the end of a first hop, each counted id that of a path from a target.
TargetsReached ==
    \A target \in ToSet(targets) : \E a \in ever :
        a.src \in ToSet(input.seeds) /\ FirstHop(a) /\ a.dst = target

CountsReached ==
    \A i \in 1 .. Len(counts) :
        /\ NumberOf(counts[i][2]) \in Nat \ {0}
        /\ \E b, c \in ever : b.src \in ToSet(targets) /\ c.src = b.dst /\ c.dst = counts[i][1]

\* What a query has not been asked for yet is not there.
NothingEarly ==
    /\ stage = "targets" => targets = <<>> /\ counts = <<>>
    /\ stage = "counts" => counts = <<>>
    /\ stage \in {"targets", "counts", "inbound"} => result = <<>>

ClientInv ==
    ClientTyped /\ TargetsReached /\ CountsReached /\ NothingEarly /\ RecommendsTheReachable

\* What is asked are texts.
LEMMA AskedTexts ==
    ASSUME input \in Asked
    PROVE  input.seeds \in Seq(Ids) /\ input.exclude \in Seq(Ids)
           /\ input.hop1 \in Seq(Nat) /\ input.hop2 \in Seq(Nat)
BY DEF Asked

\* Both schemas have two columns.
LEMMA SchemasHaveTwo == Len(<<"text", "text">>) = 2 /\ Len(<<"text", "number">>) = 2
OBVIOUS

\* A column of rows.
LEMMA TextsOfRows ==
    ASSUME NEW rows \in Seq(Pairs), NEW k \in {1, 2}
    PROVE  Texts(rows, k) \in Seq(Ids) /\ ToSet(Texts(rows, k)) = {row[k] : row \in ToSet(rows)}
<1>1. DOMAIN rows = 1 .. Len(rows) /\ Len(rows) \in Nat
      /\ \A i \in 1 .. Len(rows) : rows[i] \in Pairs
    BY ElementOfSeq
<1>2. \A i \in 1 .. Len(rows) : rows[i][k] \in Ids
    BY <1>1, PairsOfIds
<1>3. Texts(rows, k) = [i \in 1 .. Len(rows) |-> rows[i][k]]
    BY <1>1 DEF Texts
<1>4. Texts(rows, k) \in Seq(Ids)
    BY <1>1, <1>2, <1>3
<1>5. ToSet(Texts(rows, k)) = {row[k] : row \in ToSet(rows)}
    BY <1>1, <1>3 DEF ToSet
<1> QED
    BY <1>4, <1>5

\* uniqueSorted keeps the ids that are not empty.
LEMMA UniqueSortedIds ==
    ASSUME NEW values \in Seq(Ids)
    PROVE  uniqueSorted(values) \in Seq(Ids) /\ ToSet(uniqueSorted(values)) = ToSet(values) \ {<<>>}
<1>1. values \in Seq(Seq(Nat)) /\ ToSet(values) \subseteq Ids
    BY ItemsOf, IdsAreTexts
<1>2. Lists(uniqueSorted(values), ToSet(values) \ {<<>>}, Locale)
    BY <1>1, UniqueSortedLists
<1>3. \A x \in ToSet(values) \ {<<>>} : <<x, x>> \notin Locale
    BY <1>1, IdsAreTexts, LocaleOrder DEF Orders
<1>4. /\ uniqueSorted(values) \in Seq(ToSet(values) \ {<<>>})
      /\ ToSet(uniqueSorted(values)) = ToSet(values) \ {<<>>}
    BY <1>2, <1>3, ListedItems
<1> QED
    BY <1>1, <1>4

\* A call begins with nothing read.
LEMMA ClientBegins ==
    ASSUME ClientInit
    PROVE  ClientInv
<1>1. edges \in Seq(EdgeRows) /\ input \in Asked
    BY RowsAreLines DEF ClientInit, Asked
<1>2. ToSet(edges) \subseteq EdgeRows
    BY <1>1, ItemsOf
<1>3. targets = <<>> /\ counts = <<>> /\ result = <<>> /\ ever = ToSet(edges)
    BY DEF ClientInit, ClientStarts
<1>4. ClientTyped
    BY <1>1, <1>2, <1>3 DEF ClientTyped
<1>5. TargetsReached /\ CountsReached
    BY <1>3 DEF TargetsReached, CountsReached, ToSet
<1>6. NothingEarly
    BY <1>3 DEF NothingEarly
<1>7. RecommendsTheReachable
    BY <1>3 DEF RecommendsTheReachable
<1> QED
    BY <1>4, <1>5, <1>6, <1>7 DEF ClientInv

(* What rows were there stays in the history: what was reached stays so.    *)
LEMMA HistoryGrows ==
    ASSUME ClientInv, edges' \in Seq(EdgeRows), ever' = ever \cup ToSet(edges'),
           UNCHANGED <<input, stage, targets, counts, result>>
    PROVE  ClientInv'
<1> USE DEF ClientInv
<1>1. ever \subseteq ever' /\ ToSet(edges') \subseteq ever' /\ ToSet(edges') \subseteq EdgeRows
    BY ItemsOf
<1>2. ClientTyped'
    BY <1>1 DEF ClientTyped
<1>3. TargetsReached'
    BY <1>1 DEF TargetsReached, FirstHop, Live
<1>4. CountsReached'
    BY <1>1 DEF CountsReached
<1>5. NothingEarly'
    BY DEF NothingEarly
<1>6. RecommendsTheReachable'
    BY <1>1 DEF RecommendsTheReachable, FirstHop, Live
<1> QED
    BY <1>2, <1>3, <1>4, <1>5, <1>6

\* Other connections add rows of the table's type, and the history keeps the old.
LEMMA OthersWrite ==
    ASSUME ClientInv, Insert \/ SoftDelete
    PROVE  ClientInv'
<1>1. edges \in Seq(EdgeRows)
    BY DEF ClientInv, ClientTyped
<1>2. CASE Insert
    <2>1. PICK edge \in Edges : edges' = Append(edges, edge)
        BY <1>2 DEF Insert
    <2>2. edges' \in Seq(EdgeRows)
        BY <1>1, <2>1, RowsAreLines
    <2> QED
        BY <1>2, <2>2, HistoryGrows DEF Insert
<1>3. CASE SoftDelete
    <2>1. PICK i \in DOMAIN edges : edges' = [edges EXCEPT ![i].deleted = TRUE]
        BY <1>3 DEF SoftDelete
    <2>2. edges[i] \in EdgeRows
        BY <1>1
    <2>3. [edges[i] EXCEPT !.deleted = TRUE] \in EdgeRows
        BY <2>2 DEF EdgeRows
    <2>4. edges' = [edges EXCEPT ![i] = [edges[i] EXCEPT !.deleted = TRUE]]
        BY <2>1
    <2>5. edges' \in Seq(EdgeRows)
        BY <1>1, <2>3, <2>4
    <2> QED
        BY <1>3, <2>5, HistoryGrows DEF SoftDelete
<1> QED
    BY <1>2, <1>3

(* What the first query tells, when its answer decodes.                     *)
LEMMA FirstHopsAreRead ==
    ASSUME ClientTyped, NEW where, NEW answer, answer.ok,
           answer = decodeManyPayload(graph_out_many(edges, input.hop1, idsetFromValues(input.seeds), where))
    PROVE  /\ uniqueSorted(Texts(answer.rows, 2)) \in Seq(Ids)
           /\ ToSet(uniqueSorted(Texts(answer.rows, 2)))
                = {row[2] : row \in Neighbours(edges, input.hop1, ToSet(input.seeds) \ {<<>>},
                                               "src", "dst", where)} \ {<<>>}
<1> DEFINE X == ToSet(input.seeds) \ {<<>>}
           set == idsetFromValues(input.seeds)
<1>1. edges \in Seq(EdgeRows) /\ input.seeds \in Seq(Ids)
    BY AskedTexts DEF ClientTyped
<1>2. Holds(set, X)
    BY <1>1, FromValuesHolds
<1> HIDE DEF X, set
<1>3. PICK rows : rows = OrderedPairs(Selected(edges, input.hop1, In(edges, "src", set) \cap where), "src", "dst")
    OBVIOUS
<1>4. rows \in Seq(Pairs) /\ ToSet(rows) = Neighbours(edges, input.hop1, X, "src", "dst", where)
    <2>1. IsEnd("src", "dst")
        BY DEF IsEnd
    <2> QED
        BY <1>1, <1>2, <1>3, <2>1, ManyRows
<1>5. answer = DecodedRows(Lines(rows), <<"text", "text">>)
    BY <1>3 DEF decodeManyPayload, graph_out_many, set
<1>6. answer.rows = rows
    BY <1>4, <1>5, DecodedAsWritten, SchemasHaveTwo
<1>7. Texts(rows, 2) \in Seq(Ids) /\ ToSet(Texts(rows, 2)) = {row[2] : row \in ToSet(rows)}
    BY <1>4, TextsOfRows
<1>8. /\ uniqueSorted(Texts(rows, 2)) \in Seq(Ids)
      /\ ToSet(uniqueSorted(Texts(rows, 2))) = ToSet(Texts(rows, 2)) \ {<<>>}
    BY <1>7, UniqueSortedIds
<1> QED
    BY <1>4, <1>6, <1>7, <1>8 DEF X

\* So each target is the end of a first hop that was there.
LEMMA TargetsAreRead ==
    ASSUME ClientInv, ReadTargets
    PROVE  ClientInv'
<1> DEFINE X == ToSet(input.seeds) \ {<<>>}
           where == {e \in ToSet(edges) : FirstHop(e)}
           answer == decodeManyPayload(graph_out_many(edges, input.hop1, idsetFromValues(input.seeds), where))
<1>1. /\ ClientTyped /\ ToSet(edges) \subseteq ever
      /\ targets = <<>> /\ counts = <<>> /\ result = <<>>
    BY DEF ClientInv, ClientTyped, NothingEarly, ReadTargets
<1>2. /\ counts' = <<>> /\ result' = <<>> /\ edges' = edges /\ ever' = ever /\ input' = input
      /\ \/ targets' = targets /\ stage' = "failed"
         \/ /\ answer.ok /\ targets' = uniqueSorted(Texts(answer.rows, 2))
            /\ stage' \in {"inbound", "counts"}
    BY <1>1 DEF ReadTargets
<1>3. answer.ok =>
        /\ uniqueSorted(Texts(answer.rows, 2)) \in Seq(Ids)
        /\ ToSet(uniqueSorted(Texts(answer.rows, 2)))
             = {row[2] : row \in Neighbours(edges, input.hop1, X, "src", "dst", where)} \ {<<>>}
    BY <1>1, FirstHopsAreRead
<1> HIDE DEF answer
<1>4. targets' \in Seq(Ids) /\ \A target \in ToSet(targets') : \E a \in ever :
          a.src \in ToSet(input.seeds) /\ FirstHop(a) /\ a.dst = target
    <2>1. CASE targets' = targets
        BY <2>1, <1>1 DEF ToSet, ClientTyped
    <2>2. CASE answer.ok /\ targets' = uniqueSorted(Texts(answer.rows, 2))
        <3>1. ASSUME NEW target \in ToSet(targets')
              PROVE  \E a \in ever : a.src \in ToSet(input.seeds) /\ FirstHop(a) /\ a.dst = target
            <4>1. PICK row \in Neighbours(edges, input.hop1, X, "src", "dst", where) : target = row[2]
                BY <1>3, <2>2
            <4>2. PICK e \in ToSet(edges) : row = <<e["src"], e["dst"]>> /\ e["src"] \in X /\ e \in where
                BY <4>1 DEF Neighbours
            <4>3. e \in ever /\ e.src \in ToSet(input.seeds) /\ FirstHop(e) /\ e.dst = target
                BY <1>1, <4>1, <4>2
            <4> QED
                BY <4>3
        <3> QED
            BY <1>3, <2>2, <3>1
    <2> QED
        BY <1>2, <2>1, <2>2
<1> HIDE DEF X, where
<1>5. ClientTyped'
    BY <1>1, <1>2, <1>4 DEF ClientTyped
<1>6. TargetsReached'
    BY <1>2, <1>4 DEF TargetsReached, FirstHop, Live
<1>7. CountsReached'
    BY <1>2 DEF CountsReached
<1>8. NothingEarly'
    BY <1>2 DEF NothingEarly
<1>9. RecommendsTheReachable'
    BY <1>2 DEF RecommendsTheReachable
<1> QED
    BY <1>5, <1>6, <1>7, <1>8, <1>9 DEF ClientInv

(* What the second query tells.                                             *)
LEMMA CountedHopsAreRead ==
    ASSUME ClientTyped, NEW answer, answer.ok,
           answer = decodeNumberedPayload(
                        graph_two_hop_counts(edges, input.hop1, input.hop2, idsetFromValues(targets)))
    PROVE  \E hops : /\ answer.rows \in Seq(Pairs) /\ Counted(answer.rows, hops)
                     /\ hops = {hop \in ToSet(edges) \X ToSet(edges) :
                                  /\ hop[1].src \in ToSet(targets) \ {<<>>} /\ hop[1].dst = hop[2].src
                                  /\ hop[1].type = input.hop1 /\ hop[2].type = input.hop2}
<1> DEFINE X == ToSet(targets) \ {<<>>}
           set == idsetFromValues(targets)
<1>1. edges \in Seq(EdgeRows) /\ targets \in Seq(Ids)
    BY DEF ClientTyped
<1>2. Holds(set, X)
    BY <1>1, FromValuesHolds
<1> HIDE DEF X, set
<1>3. PICK hops : hops = Hops(edges, input.hop1, input.hop2, set)
    OBVIOUS
<1>4. hops = {hop \in ToSet(edges) \X ToSet(edges) :
                 /\ hop[1].src \in X /\ hop[1].dst = hop[2].src
                 /\ hop[1].type = input.hop1 /\ hop[2].type = input.hop2}
    BY <1>1, <1>2, <1>3, HopsAreFinite
<1>5. PICK rows \in Seq(Pairs) :
             graph_two_hop_counts(edges, input.hop1, input.hop2, set) = Lines(rows) /\ Counted(rows, hops)
    BY <1>1, <1>2, <1>3, CountRows
<1>6. answer = DecodedRows(Lines(rows), <<"text", "number">>)
    BY <1>5 DEF decodeNumberedPayload, set
<1>7. answer.rows = rows
    BY <1>6, DecodedAsWritten, SchemasHaveTwo
<1> QED
    BY <1>4, <1>5, <1>7 DEF X

\* So each counted id is reached from a target, and its count is a number.
LEMMA CountsAreRead ==
    ASSUME ClientInv, ReadCounts
    PROVE  ClientInv'
<1> DEFINE answer == decodeNumberedPayload(
               graph_two_hop_counts(edges, input.hop1, input.hop2, idsetFromValues(targets)))
<1>1. ClientTyped /\ ToSet(edges) \subseteq ever /\ counts = <<>> /\ result = <<>>
    BY DEF ClientInv, ClientTyped, NothingEarly, ReadCounts
<1>2. /\ targets' = targets /\ result' = <<>> /\ edges' = edges /\ ever' = ever /\ input' = input
      /\ \/ counts' = <<>> /\ stage' = "failed"
         \/ answer.ok /\ counts' = answer.rows /\ stage' = "inbound"
    BY <1>1 DEF ReadCounts
<1>3. answer.ok =>
        \E hops : /\ answer.rows \in Seq(Pairs) /\ Counted(answer.rows, hops)
                  /\ hops = {hop \in ToSet(edges) \X ToSet(edges) :
                               /\ hop[1].src \in ToSet(targets) \ {<<>>} /\ hop[1].dst = hop[2].src
                               /\ hop[1].type = input.hop1 /\ hop[2].type = input.hop2}
    BY <1>1, CountedHopsAreRead
<1> HIDE DEF answer
<1>4. /\ counts' \in Seq(Pairs)
      /\ \A i \in 1 .. Len(counts') :
           /\ NumberOf(counts'[i][2]) \in Nat \ {0}
           /\ \E b, c \in ever : b.src \in ToSet(targets) /\ c.src = b.dst /\ c.dst = counts'[i][1]
    <2>1. CASE counts' = <<>>
        BY <2>1
    <2>2. CASE answer.ok /\ counts' = answer.rows
        <3>1. PICK hops : /\ answer.rows \in Seq(Pairs) /\ Counted(answer.rows, hops)
                          /\ hops = {hop \in ToSet(edges) \X ToSet(edges) :
                                       /\ hop[1].src \in ToSet(targets) \ {<<>>} /\ hop[1].dst = hop[2].src
                                       /\ hop[1].type = input.hop1 /\ hop[2].type = input.hop2}
            BY <1>3, <2>2
        <3>2. PICK rows \in Seq(Pairs) : rows = answer.rows
            BY <3>1
        <3>3. ASSUME NEW i \in 1 .. Len(rows)
              PROVE  /\ NumberOf(rows[i][2]) \in Nat \ {0}
                     /\ \E b, c \in ever : b.src \in ToSet(targets) /\ c.src = b.dst /\ c.dst = rows[i][1]
            <4>1. NumberOf(rows[i][2]) \in Nat \ {0}
                <5>1. PICK n \in Nat \ {0} : rows[i][2] = NumberText(n)
                    BY <3>1, <3>2 DEF Counted
                <5> QED
                    BY <5>1, NumbersSurvive
            <4>2. PICK hop \in hops : hop[2].dst = rows[i][1]
                BY <3>1, <3>2 DEF Counted
            <4>3. hop[1] \in ever /\ hop[2] \in ever /\ hop[1].src \in ToSet(targets) /\ hop[2].src = hop[1].dst
                BY <1>1, <3>1
            <4> QED
                BY <4>1, <4>2, <4>3
        <3> QED
            BY <2>2, <3>2, <3>3
    <2> QED
        BY <1>2, <2>1, <2>2
<1>5. ClientTyped'
    BY <1>1, <1>2, <1>4 DEF ClientTyped
<1>6. TargetsReached'
    BY <1>2 DEF TargetsReached, FirstHop, Live, ClientInv
<1>7. CountsReached'
    BY <1>2, <1>4 DEF CountsReached
<1>8. NothingEarly'
    BY <1>2 DEF NothingEarly
<1>9. RecommendsTheReachable'
    BY <1>2 DEF RecommendsTheReachable
<1> QED
    BY <1>5, <1>6, <1>7, <1>8, <1>9 DEF ClientInv

\* The greatest of finitely many places is one of them.
LEMMA MaxIsIn ==
    ASSUME NEW n \in Nat, NEW S, S \subseteq 1 .. n, S # {}
    PROVE  Max(S) \in S /\ \A i \in S : i <= Max(S)
<1> DEFINE Behind == {n - i : i \in S}
<1>1. PICK least \in Behind : \A k \in Behind : least <= k
    <2>1. Behind \subseteq Nat /\ Behind # {}
        <3>1. \A i \in S : n - i \in Nat
            OBVIOUS
        <3> QED
            BY <3>1
    <2> HIDE DEF Behind
    <2> QED
        BY <2>1, SomeNumberIsLeast
<1>2. PICK m \in S : least = n - m
    OBVIOUS
<1>3. \A i \in S : m >= i
    <2> TAKE i \in S
    <2>1. n - m <= n - i
        BY <1>1, <1>2
    <2> QED
        BY <2>1
<1>4. Max(S) \in S /\ \A i \in S : Max(S) >= i
    BY <1>2, <1>3 DEF Max
<1> QED
    BY <1>4

(* Who is counted has a support.                                            *)
LEMMA SupportIsPositive ==
    ASSUME counts \in Seq(Pairs), CountsReached, NEW k \in 1 .. Len(counts)
    PROVE  Support(counts[k][1]) \in Nat \ {0}
<1> DEFINE candidate == counts[k][1]
           own == {i \in DOMAIN counts : counts[i][1] = candidate}
<1>1. DOMAIN counts = 1 .. Len(counts) /\ Len(counts) \in Nat
    OBVIOUS
<1>2. own \subseteq 1 .. Len(counts) /\ k \in own
    BY <1>1
<1>3. Support(candidate) = IF own = {} THEN 0 ELSE NumberOf(counts[Max(own)][2])
    BY DEF Support
<1> HIDE DEF own
<1>4. Max(own) \in 1 .. Len(counts)
    BY <1>1, <1>2, MaxIsIn
<1> QED
    BY <1>2, <1>3, <1>4 DEF CountsReached

\* What is left to recommend, and what is excluded.
Excluded == ToSet(input.seeds \o targets \o input.exclude)
Candidates == (ToSet(Texts(counts, 1)) \ {<<>>}) \ (Excluded \ {<<>>})

\* The client's sets: what was counted and is not excluded.
LEMMA SetOfCandidates ==
    ASSUME ClientTyped
    PROVE  Holds(recommendationSet, Candidates)
<1>1. /\ input.seeds \in Seq(Ids) /\ input.exclude \in Seq(Ids) /\ targets \in Seq(Ids)
      /\ counts \in Seq(Pairs)
    BY AskedTexts DEF ClientTyped
<1>2. PICK named \in Seq(Ids) : named = Texts(counts, 1)
    BY <1>1, TextsOfRows
<1>3. PICK excluded \in Seq(Ids) : excluded = input.seeds \o targets \o input.exclude
    <2>1. \A a, b, c \in Seq(Ids) : a \o b \o c \in Seq(Ids)
        OBVIOUS
    <2> QED
        BY <1>1, <2>1
<1>4. Holds(idsetFromValues(named), ToSet(named) \ {<<>>})
    BY FromValuesHolds
<1>5. Holds(idsetFromValues(excluded), ToSet(excluded) \ {<<>>})
    BY FromValuesHolds
<1>6. Holds(idset_diff(idsetFromValues(named), idsetFromValues(excluded)),
            (ToSet(named) \ {<<>>}) \ (ToSet(excluded) \ {<<>>}))
    BY <1>4, <1>5, HoldsDifference
<1> QED
    BY <1>2, <1>3, <1>6 DEF recommendationSet, Candidates, Excluded

\* A candidate was counted and is none of the excluded.
LEMMA CandidatesAreCounted ==
    ASSUME ClientTyped, NEW candidate \in Candidates
    PROVE  candidate \notin Excluded /\ \E k \in 1 .. Len(counts) : candidate = counts[k][1]
<1>1. counts \in Seq(Pairs)
    BY DEF ClientTyped
<1>2. ToSet(Texts(counts, 1)) = {row[1] : row \in ToSet(counts)}
    BY <1>1, TextsOfRows
<1>3. ToSet(counts) = {counts[k] : k \in 1 .. Len(counts)}
    BY <1>1, ItemsOf
<1>4. candidate \notin Excluded /\ candidate \in ToSet(Texts(counts, 1))
    BY DEF Candidates
<1> QED
    BY <1>2, <1>3, <1>4

(* The rows before they are ranked: the candidates in order, numbered.      *)
Via(candidate, inbound) ==
    uniqueSorted(Texts(Kept(inbound, Rising({k \in DOMAIN inbound : inbound[k][1] = candidate})), 2))

ScoredFrom(scored, ids, inbound) ==
    /\ DOMAIN scored = 1 .. Len(ids) /\ Len(scored) = Len(ids) /\ scored \in Seq(ToSet(scored))
    /\ \A i \in 1 .. Len(ids) :
         /\ scored[i].candidate = ids[i] /\ scored[i].ord = i
         /\ scored[i].support = Support(ids[i]) /\ scored[i].via = Via(ids[i], inbound)

\* The rows of idset_each with their support: each candidate in one of them.
LEMMA CandidatesAreScored ==
    ASSUME ClientTyped, NEW each, each = decodeNumberedPayload(idset_each(recommendationSet)),
           each.ok, NEW inbound
    PROVE  \E ids \in Seq(Candidates) :
             Lists(ids, Candidates, Bytes) /\ ScoredFrom(Scored(each.rows, inbound), ids, inbound)
<1>1. PICK ids \in Seq(Candidates) : \E rows \in Seq(Pairs) :
             /\ Lists(ids, Candidates, Bytes) /\ Numbered(rows, ids)
             /\ idset_each(recommendationSet) = Lines(rows)
    BY SetOfCandidates, EachIsRows
<1>9. PICK rows \in Seq(Pairs) : Numbered(rows, ids) /\ idset_each(recommendationSet) = Lines(rows)
    BY <1>1
<1>2. each.rows = rows
    BY <1>9, DecodedAsWritten, SchemasHaveTwo DEF decodeNumberedPayload
<1>3. PICK scored : scored = Scored(rows, inbound)
    OBVIOUS
<1>4. DOMAIN rows = 1 .. Len(ids) /\ Len(ids) \in Nat
    BY <1>9 DEF Numbered
<1>5. /\ DOMAIN scored = 1 .. Len(ids)
      /\ scored = [i \in 1 .. Len(ids) |-> scored[i]]
      /\ \A i \in 1 .. Len(ids) :
           /\ scored[i].candidate = rows[i][1] /\ scored[i].ord = NumberOf(rows[i][2])
           /\ scored[i].support = Support(rows[i][1]) /\ scored[i].via = Via(rows[i][1], inbound)
    BY <1>3, <1>4 DEF Scored, Via
<1>6. Len(scored) = Len(ids) /\ scored \in Seq(ToSet(scored))
    <2>1. \A i \in 1 .. Len(ids) : scored[i] \in ToSet(scored)
        BY <1>5 DEF ToSet
    <2> QED
        BY <2>1, <1>4, <1>5
<1>7. \A i \in 1 .. Len(ids) : rows[i][1] = ids[i] /\ NumberOf(rows[i][2]) = i
    <2>1. \A i \in 1 .. Len(ids) : i \in Nat /\ NumberOf(NumberText(i)) = i
        BY <1>4, NumbersSurvive
    <2> QED
        BY <2>1, <1>9 DEF Numbered
<1>8. ScoredFrom(scored, ids, inbound)
    BY <1>5, <1>6, <1>7 DEF ScoredFrom
<1> QED
    BY <1>1, <1>2, <1>3, <1>8

\* The rows, each in its rank.
RanksOf(ranked, scored, n) ==
    /\ DOMAIN ranked = 1 .. Len(ranked) /\ Len(ranked) \in Nat
    /\ \A j \in 1 .. Len(ranked) : \E i \in 1 .. n : ranked[j] = scored[i]
    /\ \A i \in 1 .. n : \E j \in 1 .. Len(ranked) : ranked[j] = scored[i]
    /\ \A i, j \in 1 .. Len(ranked) : i < j => Outranks(ranked[i], ranked[j])

(* Ranking: the rows with their candidates and numbers, by support.         *)
LEMMA RankedRows ==
    ASSUME ClientTyped, CountsReached, NEW ids \in Seq(Candidates), Lists(ids, Candidates, Bytes),
           NEW scored, NEW inbound, ScoredFrom(scored, ids, inbound),
           NEW ranked, ranked = Ranked(scored)
    PROVE  /\ RanksOf(ranked, scored, Len(ids))
           /\ {ranked[j].ord : j \in DOMAIN ranked} = 1 .. Len(ranked)
           /\ \A i \in DOMAIN ranked : /\ ranked[i].candidate \in Candidates /\ ranked[i].support > 0
                                       /\ \A j \in DOMAIN ranked : i < j =>
                                            /\ ranked[i].candidate # ranked[j].candidate
                                            /\ ranked[i].support >= ranked[j].support
<1> DEFINE T == ToSet(scored)
<1>1. counts \in Seq(Pairs) /\ Candidates \subseteq Names
    BY SetOfCandidates DEF ClientTyped, Holds
<1>2. Candidates \subseteq Seq(Nat)
    BY <1>1, NamesAreTexts
<1>3. /\ \A i \in 1 .. Len(ids) : ids[i] \in Candidates
      /\ \A i, j \in 1 .. Len(ids) : ids[i] = ids[j] => i = j
      /\ Len(ids) \in Nat
    <2>1. \A x \in Candidates : <<x, x>> \notin Bytes
        BY <1>2, BytesIrreflexive
    <2> QED
        BY <2>1, ListedItems, ElementOfSeq
<1>4. \A c \in Candidates : Support(c) \in Nat \ {0}
    BY <1>1, CandidatesAreCounted, SupportIsPositive
<1>5. T = {scored[i] : i \in 1 .. Len(ids)}
    BY DEF ScoredFrom, ToSet
<1>6. scored \in Seq(T)
    BY DEF ScoredFrom
<1>7. Rankable(T)
    <2>1. \A row \in T : row.candidate \in Seq(Nat) /\ row.support \in Int
        BY <1>2, <1>3, <1>4, <1>5 DEF ScoredFrom
    <2>2. \A a, b \in T : a.candidate = b.candidate => a = b
        BY <1>3, <1>5 DEF ScoredFrom
    <2> QED
        BY <2>1, <2>2 DEF Rankable
<1> HIDE DEF T
<1>8. Arranges(ranked, scored, ByRow(T))
    BY <1>6, <1>7, OrderedByRow
<1>9. /\ ranked \in Seq(T) /\ Len(ranked) = Len(ids) /\ ToSet(ranked) = T
      /\ \A i, j \in 1 .. Len(ranked) :
           i < j => ranked[i] = ranked[j] \/ <<ranked[i], ranked[j]>> \in ByRow(T)
    BY <1>8 DEF Arranges, ScoredFrom, T
<1>10. \A i, j \in 1 .. Len(ranked) : ranked[i] = ranked[j] => i = j
    <2>1. \A i, j \in 1 .. Len(scored) : scored[i] = scored[j] => i = j
        BY <1>3 DEF ScoredFrom
    <2> QED
        BY <2>1, <1>8 DEF Arranges
<1>11. DOMAIN ranked = 1 .. Len(ranked) /\ Len(ranked) \in Nat /\ \A i \in 1 .. Len(ranked) : ranked[i] \in T
    BY <1>9, ElementOfSeq
<1>15. T = {ranked[j] : j \in DOMAIN ranked}
    BY <1>9, <1>11 DEF ToSet
<1>12. {ranked[j].ord : j \in DOMAIN ranked} = 1 .. Len(ranked)
    <2>1. {ranked[j].ord : j \in DOMAIN ranked} = {row.ord : row \in T}
        BY <1>15
    <2>2. {row.ord : row \in T} = {scored[i].ord : i \in 1 .. Len(ids)}
        BY <1>5
    <2>3. {scored[i].ord : i \in 1 .. Len(ids)} = 1 .. Len(ids)
        BY DEF ScoredFrom
    <2> QED
        BY <2>1, <2>2, <2>3, <1>9
<1>13. ASSUME NEW i \in DOMAIN ranked
       PROVE  ranked[i].candidate \in Candidates /\ ranked[i].support > 0
    <2>1. PICK k \in 1 .. Len(ids) : ranked[i] = scored[k]
        BY <1>5, <1>11
    <2>2. ranked[i].candidate = ids[k] /\ ranked[i].support = Support(ids[k])
        BY <2>1 DEF ScoredFrom
    <2>3. Support(ids[k]) \in Nat \ {0}
        BY <1>3, <1>4
    <2> QED
        BY <2>2, <2>3, <1>3
<1>14. ASSUME NEW i \in DOMAIN ranked, NEW j \in DOMAIN ranked, i < j
       PROVE  /\ ranked[i].candidate # ranked[j].candidate /\ ranked[i].support >= ranked[j].support
              /\ Outranks(ranked[i], ranked[j])
    <2>1. ranked[i] \in T /\ ranked[j] \in T /\ i \in 1 .. Len(ranked) /\ j \in 1 .. Len(ranked)
        BY <1>11
    <2>2. ranked[i] # ranked[j]
        <3>1. i # j
            BY <1>14, <2>1
        <3> QED
            BY <3>1, <2>1, <1>10
    <2>3. <<ranked[i], ranked[j]>> \in ByRow(T)
        BY <2>1, <2>2, <1>9, <1>14
    <2>4. Outranks(ranked[i], ranked[j])
        BY <2>3 DEF ByRow
    <2>5. ranked[i].support \in Int /\ ranked[j].support \in Int
          /\ (ranked[i].candidate = ranked[j].candidate => ranked[i] = ranked[j])
        BY <2>1, <1>7 DEF Rankable
    <2> QED
        BY <2>2, <2>4, <2>5 DEF Outranks
<1>16. RanksOf(ranked, scored, Len(ids))
    <2>1. \A j \in 1 .. Len(ranked) : \E i \in 1 .. Len(ids) : ranked[j] = scored[i]
        BY <1>5, <1>11
    <2>2. \A i \in 1 .. Len(ids) : \E j \in 1 .. Len(ranked) : ranked[j] = scored[i]
        <3> TAKE i \in 1 .. Len(ids)
        <3>1. scored[i] \in T
            BY <1>5
        <3>2. PICK j \in DOMAIN ranked : ranked[j] = scored[i]
            BY <1>15, <3>1
        <3> QED
            BY <1>11, <3>2
    <2>3. \A i, j \in 1 .. Len(ranked) : i < j => Outranks(ranked[i], ranked[j])
        BY <1>11, <1>14
    <2> QED
        BY <1>11, <2>1, <2>2, <2>3 DEF RanksOf
<1> QED
    BY <1>12, <1>13, <1>14, <1>16

\* So what is returned can be reached, and is ranked by support.
LEMMA InboundIsRead ==
    ASSUME ClientInv, ReadInbound
    PROVE  ClientInv'
<1> DEFINE each == decodeNumberedPayload(idset_each(recommendationSet))
           inbound == decodeManyPayload(graph_in_many(edges, input.hop2, recommendationSet,
                                                      {e \in ToSet(edges) : Live(e)}))
<1>1. ClientTyped /\ TargetsReached /\ CountsReached /\ NothingEarly /\ RecommendsTheReachable
    BY DEF ClientInv
<1>2. /\ UNCHANGED <<edges, input, targets, counts, ever>>
      /\ stage' \in {"failed", "done"}
      /\ result' = result \/ (each.ok /\ result' = Ranked(Scored(each.rows, inbound.rows)))
    BY DEF ReadInbound
<1> HIDE DEF each, inbound
<1>3. ClientTyped' /\ TargetsReached' /\ CountsReached' /\ NothingEarly'
    BY <1>1, <1>2 DEF ClientTyped, TargetsReached, CountsReached, NothingEarly, FirstHop, Live
<1>4. CASE result' = result
    <2>1. RecommendsTheReachable'
        BY <1>1, <1>2, <1>4 DEF RecommendsTheReachable, FirstHop, Live
    <2> QED
        BY <1>3, <2>1 DEF ClientInv
<1>5. CASE each.ok /\ result' = Ranked(Scored(each.rows, inbound.rows))
    <2>1. PICK scored : scored = Scored(each.rows, inbound.rows)
        OBVIOUS
    <2>2. PICK ids \in Seq(Candidates) : Lists(ids, Candidates, Bytes) /\ ScoredFrom(scored, ids, inbound.rows)
        BY <1>1, <1>5, <2>1, CandidatesAreScored DEF each
    <2>3. PICK ranked : ranked = Ranked(scored)
        OBVIOUS
    <2>4. /\ {ranked[j].ord : j \in DOMAIN ranked} = 1 .. Len(ranked)
          /\ \A i \in DOMAIN ranked : /\ ranked[i].candidate \in Candidates /\ ranked[i].support > 0
                                       /\ \A j \in DOMAIN ranked : i < j =>
                                            /\ ranked[i].candidate # ranked[j].candidate
                                            /\ ranked[i].support >= ranked[j].support
        BY <1>1, <2>2, <2>3, RankedRows
    <2>5. result' = ranked
        BY <1>5, <2>1, <2>3
    <2>6. ASSUME NEW c \in Candidates
          PROVE  /\ c \notin Excluded
                 /\ \E a, b, d \in ever :
                      /\ a.src \in ToSet(input.seeds) /\ FirstHop(a)
                      /\ b.src = a.dst /\ d.src = b.dst /\ d.dst = c
        <3>1. PICK k \in 1 .. Len(counts) : c = counts[k][1]
            BY <1>1, CandidatesAreCounted
        <3>2. PICK b \in ever, d \in ever :
                     b.src \in ToSet(targets) /\ d.src = b.dst /\ d.dst = counts[k][1]
            BY <1>1, <3>1 DEF CountsReached
        <3>3. PICK a \in ever : a.src \in ToSet(input.seeds) /\ FirstHop(a) /\ a.dst = b.src
            BY <1>1, <3>2 DEF TargetsReached
        <3> QED
            BY <1>1, <3>1, <3>2, <3>3, CandidatesAreCounted
    <2>7. RecommendsTheReachable'
        BY <1>2, <2>4, <2>5, <2>6 DEF RecommendsTheReachable, Excluded, FirstHop, Live
    <2> QED
        BY <1>3, <2>7 DEF ClientInv
<1> QED
    BY <1>2, <1>4, <1>5

\* Each step of a call, and of others, keeps the invariant.
LEMMA ClientSteps ==
    ASSUME ClientInv, [ClientNext]_clientVars
    PROVE  ClientInv'
<1>1. CASE NoSeeds
    <2>1. stage' = "done" /\ UNCHANGED <<edges, input, targets, counts, result, ever>>
        BY <1>1 DEF NoSeeds
    <2> QED
        BY <2>1 DEF ClientInv, ClientTyped, TargetsReached, CountsReached, NothingEarly,
                    RecommendsTheReachable, FirstHop, Live
<1>2. CASE QueryFails
    <2>1. stage' = "failed" /\ UNCHANGED <<edges, input, targets, counts, result, ever>>
        BY <1>2 DEF QueryFails
    <2> QED
        BY <2>1 DEF ClientInv, ClientTyped, TargetsReached, CountsReached, NothingEarly,
                    RecommendsTheReachable, FirstHop, Live
<1>3. CASE ReadTargets
    BY <1>3, TargetsAreRead
<1>4. CASE ReadCounts
    BY <1>4, CountsAreRead
<1>5. CASE ReadInbound
    BY <1>5, InboundIsRead
<1>6. CASE Insert \/ SoftDelete
    BY <1>6, OthersWrite
<1>7. CASE UNCHANGED clientVars
    BY <1>7 DEF clientVars, ClientInv, ClientTyped, TargetsReached, CountsReached, NothingEarly,
                RecommendsTheReachable, FirstHop, Live
<1> QED
    BY <1>1, <1>2, <1>3, <1>4, <1>5, <1>6, <1>7 DEF ClientNext

\* client.ts 279-358: whatever other connections write between the queries of a
\* call, and whatever the table, the ids and the bounds are, what is recommended
\* was reached, is not excluded, comes once and is ranked by its support.
THEOREM TheReachableIsRecommended == ClientSpec => []RecommendsTheReachable
<1>1. ClientInit => ClientInv
    BY ClientBegins
<1>2. ClientInv /\ [ClientNext]_clientVars => ClientInv'
    BY ClientSteps
<1>3. ClientInv => RecommendsTheReachable
    BY DEF ClientInv
<1> QED
    BY <1>1, <1>2, <1>3, PTL DEF ClientSpec

-----------------------------------------------------------------------------
(* A quiet call *)

\* Connectors, listed as localeCompare orders them.
LEMMA AlongByLocale ==
    ASSUME NEW S, S \subseteq Seq(Nat), IsFiniteSet(S)
    PROVE  Lists(Along(S, localeLess), S, Locale)
<1> DEFINE place == [x \in S |-> Cardinality({y \in S : y = x \/ localeLess(y, x)})]
           list == [i \in 1 .. Cardinality(S) |-> CHOOSE x \in S : place[x] = i]
<1>1. Along(S, localeLess) = list
    BY DEF Along
<1>2. \A x \in S : UpTo(S, Locale, x) = {y \in S : y = x \/ localeLess(y, x)}
    BY DEF UpTo, Locale
<1>3. Places(place, S, Locale)
    BY <1>2 DEF Places
<1>4. Listing(list, S, place)
    BY DEF Listing
<1>5. Orders(Locale, S)
    BY LocaleOrder DEF Orders
<1> HIDE DEF place, list
<1>6. Lists(list, S, Locale)
    BY <1>3, <1>4, <1>5, AlongLists
<1> QED
    BY <1>1, <1>6

\* Rows, listed as Outranks orders them.
LEMMA AlongByRow ==
    ASSUME NEW T, Rankable(T), IsFiniteSet(T)
    PROVE  Lists(Along(T, Outranks), T, ByRow(T))
<1> DEFINE place == [x \in T |-> Cardinality({y \in T : y = x \/ Outranks(y, x)})]
           list == [i \in 1 .. Cardinality(T) |-> CHOOSE x \in T : place[x] = i]
<1>1. Along(T, Outranks) = list
    BY DEF Along
<1>2. \A x \in T : UpTo(T, ByRow(T), x) = {y \in T : y = x \/ Outranks(y, x)}
    BY DEF UpTo, ByRow
<1>3. Places(place, T, ByRow(T))
    BY <1>2 DEF Places
<1>4. Listing(list, T, place)
    BY DEF Listing
<1>5. Orders(ByRow(T), T)
    BY RowOrder
<1> HIDE DEF place, list
<1>6. Lists(list, T, ByRow(T))
    BY <1>3, <1>4, <1>5, AlongLists
<1> QED
    BY <1>1, <1>6

(* The support of a counted id is the number of those it is reached from.   *)
LEMMA SupportTells ==
    ASSUME counts \in Seq(Pairs), NEW hops, Counted(counts, hops)
    PROVE  /\ ToSet(Texts(counts, 1)) = {hop[2].dst : hop \in hops}
           /\ \A dst \in {hop[2].dst : hop \in hops} : Support(dst) = Cardinality(Reaching(hops, dst))
<1> DEFINE S == {hop[2].dst : hop \in hops}
           list == [i \in 1 .. Len(counts) |-> counts[i][1]]
<1>1. DOMAIN counts = 1 .. Len(counts) /\ Len(counts) \in Nat
      /\ ToSet(counts) = {counts[i] : i \in 1 .. Len(counts)}
    BY ItemsOf
<1>2. Len(list) = Len(counts)
    BY <1>1
<1>3. Lists(list, S, Bytes)
    BY DEF Counted
<1>4. \A dst \in S : \E i \in 1 .. Len(counts) : counts[i][1] = dst
    <2>1. \A dst \in S : \E i \in 1 .. Len(list) : list[i] = dst
        <3> HIDE DEF list, S
        <3> QED
            BY <1>3 DEF Lists
    <2> QED
        BY <2>1, <1>2
<1>5. \A i \in 1 .. Len(counts) : counts[i][1] \in S
    BY DEF Counted
<1>6. ToSet(Texts(counts, 1)) = {row[1] : row \in ToSet(counts)}
    BY TextsOfRows
<1>7. ToSet(Texts(counts, 1)) = S
    BY <1>1, <1>4, <1>5, <1>6
<1>8. ASSUME NEW dst \in S
      PROVE  Support(dst) = Cardinality(Reaching(hops, dst))
    <2> DEFINE own == {i \in DOMAIN counts : counts[i][1] = dst}
    <2>1. own \subseteq 1 .. Len(counts) /\ own # {}
        BY <1>1, <1>4
    <2>2. Support(dst) = IF own = {} THEN 0 ELSE NumberOf(counts[Max(own)][2])
        BY DEF Support
    <2>3. Max(own) \in own
        <3> HIDE DEF own
        <3> QED
            BY <1>1, <2>1, MaxIsIn
    <2>4. PICK k \in 1 .. Len(counts) : k = Max(own) /\ counts[k][1] = dst
        BY <2>3, <1>1
    <2>5. Cardinality(Reaching(hops, dst)) \in Nat
          /\ counts[k][2] = NumberText(Cardinality(Reaching(hops, dst)))
        BY <2>4 DEF Counted
    <2>6. NumberOf(counts[k][2]) = Cardinality(Reaching(hops, dst))
        BY <2>5, NumbersSurvive
    <2> QED
        BY <2>1, <2>2, <2>4, <2>6
<1> QED
    BY <1>7, <1>8

-----------------------------------------------------------------------------
(* The rows of the plain pipeline *)

Connectors(c) == {e.src : e \in {x \in ToSet(edges) : x.type = input.hop2 /\ Live(x) /\ x.dst = c}}
SqlCandidates ==
    {hop[2].dst : hop \in SqlHops(SqlTargets)}
        \ (ToSet(input.seeds) \cup SqlTargets \cup ToSet(input.exclude))
SqlRow(c) == [candidate |-> c, support |-> Cardinality(Reaching(SqlHops(SqlTargets), c)),
              via |-> Along(Connectors(c), localeLess)]
SqlRows == {SqlRow(c) : c \in SqlCandidates}

\* demo.ts 258-362: the plain pipeline sorts its rows.
LEMMA PipelineOfRows == runNaiveTwoHopWithoutExtension = Along(SqlRows, Outranks)
BY DEF runNaiveTwoHopWithoutExtension, SqlRows, SqlRow, SqlCandidates, Connectors, Reaching

\* Its targets, hops, candidates and connectors are finitely many ids.
LEMMA SqlIsTyped ==
    ASSUME edges \in Seq(EdgeRows)
    PROVE  /\ IsFiniteSet(ToSet(edges)) /\ ToSet(edges) \subseteq EdgeRows
           /\ SqlHops(SqlTargets) \subseteq EdgeRows \X EdgeRows /\ IsFiniteSet(SqlHops(SqlTargets))
           /\ \A T \in SUBSET SqlHops(SqlTargets) : IsFiniteSet({hop[1].src : hop \in T})
           /\ SqlCandidates \subseteq Ids /\ IsFiniteSet(SqlCandidates)
           /\ \A c : Connectors(c) \subseteq Ids /\ IsFiniteSet(Connectors(c))
<1>1. IsFiniteSet(ToSet(edges)) /\ ToSet(edges) \subseteq EdgeRows
    BY ItemsOf
<1>2. PICK hops : hops = SqlHops(SqlTargets)
    OBVIOUS
<1>3. hops \subseteq ToSet(edges) \X ToSet(edges)
    BY <1>2 DEF SqlHops
<1>4. IsFiniteSet(hops)
    <2>1. IsFiniteSet(ToSet(edges) \X ToSet(edges))
        BY <1>1, FS_Product
    <2> QED
        BY <1>3, <2>1, FS_Subset
<1>5. hops \subseteq EdgeRows \X EdgeRows
    BY <1>1, <1>3
<1>6. ASSUME NEW T \in SUBSET hops
      PROVE  IsFiniteSet({hop[1].src : hop \in T})
    <2>1. IsFiniteSet(T)
        BY <1>4, FS_Subset
    <2>2. [hop \in T |-> hop[1].src] \in Surjection(T, {hop[1].src : hop \in T})
        BY DEF Surjection
    <2> QED
        BY <2>1, <2>2, FS_Surjection
<1>7. SqlCandidates \subseteq Ids /\ IsFiniteSet(SqlCandidates)
    <2> DEFINE S == {hop[2].dst : hop \in hops}
    <2>1. [hop \in hops |-> hop[2].dst] \in Surjection(hops, S)
        BY DEF Surjection
    <2>2. IsFiniteSet(S)
        BY <1>4, <2>1, FS_Surjection
    <2>3. S \subseteq Ids
        BY <1>5, EdgesOfRows
    <2>4. SqlCandidates \subseteq S
        BY <1>2 DEF SqlCandidates
    <2> QED
        BY <2>2, <2>3, <2>4, FS_Subset
<1>8. ASSUME NEW c
      PROVE  Connectors(c) \subseteq Ids /\ IsFiniteSet(Connectors(c))
    <2> DEFINE E == {x \in ToSet(edges) : x.type = input.hop2 /\ Live(x) /\ x.dst = c}
    <2>1. IsFiniteSet(E) /\ E \subseteq EdgeRows
        BY <1>1, FS_Subset
    <2>2. [e \in E |-> e.src] \in Surjection(E, {e.src : e \in E})
        BY DEF Surjection
    <2>3. IsFiniteSet({e.src : e \in E})
        BY <2>1, <2>2, FS_Surjection
    <2>4. {e.src : e \in E} \subseteq Ids
        BY <2>1, EdgesOfRows
    <2> QED
        BY <2>3, <2>4 DEF Connectors
<1> QED
    BY <1>1, <1>2, <1>4, <1>5, <1>6, <1>7, <1>8

\* Its rows differ in their candidates.
LEMMA SqlRowsAreRankable ==
    ASSUME edges \in Seq(EdgeRows)
    PROVE  Rankable(SqlRows) /\ IsFiniteSet(SqlRows)
<1>1. ASSUME NEW c \in SqlCandidates
      PROVE  /\ SqlRow(c).candidate = c /\ c \in Seq(Nat)
             /\ SqlRow(c).support \in Int
    <2>1. IsFiniteSet(Reaching(SqlHops(SqlTargets), c))
        BY SqlIsTyped DEF Reaching
    <2>2. Cardinality(Reaching(SqlHops(SqlTargets), c)) \in Nat
        BY <2>1, FS_CardinalityType
    <2>3. c \in Seq(Nat)
        BY SqlIsTyped, IdsAreTexts
    <2> QED
        BY <2>2, <2>3 DEF SqlRow
<1>2. Rankable(SqlRows)
    <2>1. \A row \in SqlRows : row.candidate \in Seq(Nat) /\ row.support \in Int
        BY <1>1 DEF SqlRows
    <2>2. \A a, b \in SqlRows : a.candidate = b.candidate => a = b
        BY <1>1 DEF SqlRows
    <2> QED
        BY <2>1, <2>2 DEF Rankable
<1>3. IsFiniteSet(SqlRows)
    <2>1. [c \in SqlCandidates |-> SqlRow(c)] \in Surjection(SqlCandidates, SqlRows)
        BY DEF Surjection, SqlRows
    <2> QED
        BY <2>1, SqlIsTyped, FS_Surjection
<1> QED
    BY <1>2, <1>3

-----------------------------------------------------------------------------
(* Where both agree *)

\* The first query reads the targets of the pipeline,
LEMMA TargetsAgree ==
    ASSUME ClientTyped, Quiet,
           NEW where, where = {e \in ToSet(edges) : FirstHop(e)}
    PROVE  {row[2] : row \in Neighbours(edges, input.hop1, ToSet(input.seeds) \ {<<>>},
                                       "src", "dst", where)} \ {<<>>} = SqlTargets
<1> DEFINE X == ToSet(input.seeds) \ {<<>>}
           N == Neighbours(edges, input.hop1, X, "src", "dst", where)
<1>1. ToSet(edges) \subseteq EdgeRows
    BY ItemsOf DEF ClientTyped
<1>2. \A e \in ToSet(edges) : e.src # <<>> /\ e.dst # <<>>
    BY DEF Quiet, NonEmpty
<1>3. input.hop1 # <<>>
    BY DEF Quiet
<1>4. \A e \in ToSet(edges) : e["src"] = e.src /\ e["dst"] = e.dst
    BY <1>1, EdgesOfRows
<1>5. {row[2] : row \in N} = {e.dst : e \in {x \in ToSet(edges) :
             x.type = input.hop1 /\ x.src \in X /\ x \in where}}
    <2> DEFINE E == {x \in ToSet(edges) : x.type = input.hop1 /\ x.src \in X /\ x \in where}
               F == {x \in ToSet(edges) : /\ input.hop1 = <<>> \/ x.type = input.hop1
                                          /\ x["src"] \in X /\ x \in where}
    <2>1. N = {<<e["src"], e["dst"]>> : e \in F}
        BY DEF Neighbours
    <2>2. E = F
        BY <1>3, <1>4
    <2>3. \A e \in E : e["dst"] = e.dst
        BY <1>4
    <2> HIDE DEF E, F, N
    <2>4. \A row \in N : \E e \in E : row[2] = e.dst
        <3> TAKE row \in N
        <3>1. PICK e \in E : row = <<e["src"], e["dst"]>>
            BY <2>1, <2>2
        <3> QED
            BY <3>1, <2>3
    <2>5. \A e \in E : \E row \in N : row[2] = e.dst
        <3> TAKE e \in E
        <3>1. <<e["src"], e["dst"]>> \in N
            BY <2>1, <2>2
        <3>2. <<e["src"], e["dst"]>>[2] = e.dst
            BY <2>3
        <3> QED
            BY <3>1, <3>2
    <2>6. {row[2] : row \in N} = {e.dst : e \in E}
        BY <2>4, <2>5
    <2> QED
        BY <2>6 DEF E
<1>6. {x \in ToSet(edges) : x.type = input.hop1 /\ x.src \in X /\ x \in where}
        = {x \in ToSet(edges) : /\ x.type = input.hop1 /\ FirstHop(x)
                                /\ x.src \in ToSet(input.seeds)}
    BY <1>2
<1>7. {row[2] : row \in N} = SqlTargets
    BY <1>5, <1>6 DEF SqlTargets
<1>8. <<>> \notin SqlTargets
    BY <1>2 DEF SqlTargets
<1> HIDE DEF X, N
<1> QED
    BY <1>7, <1>8 DEF X, N

\* the second joins the rows that it joins,
LEMMA HopsAgree ==
    ASSUME ClientTyped, Quiet, ToSet(targets) = SqlTargets
    PROVE  {hop \in ToSet(edges) \X ToSet(edges) :
               /\ hop[1].src \in ToSet(targets) \ {<<>>} /\ hop[1].dst = hop[2].src
               /\ hop[1].type = input.hop1 /\ hop[2].type = input.hop2}
             = SqlHops(SqlTargets)
<1>1. \A e \in ToSet(edges) : e.src # <<>>
    BY DEF Quiet, NonEmpty
<1> QED
    BY <1>1 DEF SqlHops

\* and need not be made when there is no target.
LEMMA NoTargetsNoHops ==
    ASSUME SqlTargets = {}
    PROVE  SqlHops(SqlTargets) = {} /\ Counted(<<>>, SqlHops(SqlTargets)) /\ SqlCandidates = {}
<1>1. SqlHops(SqlTargets) = {}
    BY DEF SqlHops
<1>2. Lists([i \in 1 .. Len(<<>>) |-> <<>>[i][1]], {}, Bytes)
    <2>1. [i \in 1 .. Len(<<>>) |-> <<>>[i][1]] = <<>>
        OBVIOUS
    <2>2. Lists(<<>>, {}, Bytes)
        BY FS_EmptySet DEF Lists
    <2> QED
        BY <2>1, <2>2
<1>3. {hop[2].dst : hop \in {}} = {}
    OBVIOUS
<1>4. Counted(<<>>, {})
    BY <1>2, <1>3 DEF Counted
<1> QED
    BY <1>1, <1>4 DEF SqlCandidates

\* The same candidates are left,
LEMMA CandidatesAgree ==
    ASSUME ClientTyped, Quiet, ToSet(targets) = SqlTargets, Counted(counts, SqlHops(SqlTargets))
    PROVE  Candidates = SqlCandidates
<1>1. /\ input.seeds \in Seq(Ids) /\ targets \in Seq(Ids) /\ input.exclude \in Seq(Ids)
      /\ counts \in Seq(Pairs) /\ edges \in Seq(EdgeRows)
    BY AskedTexts DEF ClientTyped
<1>2. Excluded = ToSet(input.seeds) \cup ToSet(targets) \cup ToSet(input.exclude)
    <2>1. PICK two \in Seq(Ids) : /\ two = input.seeds \o targets
                                  /\ ToSet(two) = ToSet(input.seeds) \cup ToSet(targets)
        BY <1>1, ConcatItems
    <2>2. ToSet(two \o input.exclude) = ToSet(two) \cup ToSet(input.exclude)
        BY <1>1, ConcatItems
    <2> QED
        BY <2>1, <2>2 DEF Excluded
<1>3. ToSet(Texts(counts, 1)) = {hop[2].dst : hop \in SqlHops(SqlTargets)}
    BY <1>1, SupportTells
<1>4. <<>> \notin {hop[2].dst : hop \in SqlHops(SqlTargets)}
    BY DEF Quiet, NonEmpty, SqlHops
<1> QED
    BY <1>2, <1>3, <1>4 DEF Candidates, SqlCandidates

\* with the same support,
LEMMA SupportsAgree ==
    ASSUME ClientTyped, Counted(counts, SqlHops(SqlTargets)), NEW c \in SqlCandidates
    PROVE  Support(c) = SqlRow(c).support
<1>1. counts \in Seq(Pairs) /\ c \in {hop[2].dst : hop \in SqlHops(SqlTargets)}
    BY DEF ClientTyped, SqlCandidates
<1>2. Support(c) = Cardinality(Reaching(SqlHops(SqlTargets), c))
    BY <1>1, SupportTells
<1> QED
    BY <1>2 DEF SqlRow

\* and the same connectors.
LEMMA ConnectorsAgree ==
    ASSUME ClientTyped, Quiet, NEW X, NEW c \in X, NEW inbound \in Seq(Pairs),
           NEW where, where = {e \in ToSet(edges) : Live(e)},
           ToSet(inbound) = Neighbours(edges, input.hop2, X, "dst", "src", where)
    PROVE  Via(c, inbound) = Along(Connectors(c), localeLess)
<1>1. edges \in Seq(EdgeRows) /\ ToSet(edges) \subseteq EdgeRows
    BY ItemsOf DEF ClientTyped
<1>2. \A e \in ToSet(edges) : e["src"] = e.src /\ e["dst"] = e.dst /\ e.src # <<>>
    BY <1>1, EdgesOfRows DEF Quiet, NonEmpty
<1>3. input.hop2 # <<>>
    BY DEF Quiet
<1> DEFINE P == {k \in DOMAIN inbound : inbound[k][1] = c}
           own == Kept(inbound, Rising(P))
<1>4. own \in Seq(Pairs) /\ ToSet(own) = {inbound[k] : k \in P}
    <2>1. P \subseteq DOMAIN inbound
        OBVIOUS
    <2> HIDE DEF P
    <2> QED
        BY <2>1, KeptRising
<1>5. {inbound[k] : k \in P} = {row \in ToSet(inbound) : row[1] = c}
    BY DEF ToSet
<1> HIDE DEF P, own
<1>6. Texts(own, 2) \in Seq(Ids) /\ ToSet(Texts(own, 2)) = {row[2] : row \in ToSet(own)}
    BY <1>4, TextsOfRows
<1>7. {row[2] : row \in {r \in ToSet(inbound) : r[1] = c}} = Connectors(c)
    <2>1. ToSet(inbound) = {<<e.dst, e.src>> : e \in {x \in ToSet(edges) :
                               x.type = input.hop2 /\ x.dst \in X /\ Live(x)}}
        BY <1>2, <1>3 DEF Neighbours
    <2>2. ASSUME NEW id \in Connectors(c)
          PROVE  \E row \in ToSet(inbound) : row[1] = c /\ row[2] = id
        <3>1. PICK e \in ToSet(edges) : /\ e.type = input.hop2 /\ Live(e) /\ e.dst = c
                                        /\ e.src = id
            BY DEF Connectors
        <3>2. <<e.dst, e.src>> \in ToSet(inbound)
            BY <2>1, <3>1
        <3> QED
            BY <3>1, <3>2
    <2>3. ASSUME NEW row \in ToSet(inbound), row[1] = c
          PROVE  row[2] \in Connectors(c)
        <3>1. PICK e \in ToSet(edges) : /\ e.type = input.hop2 /\ Live(e)
                                        /\ row = <<e.dst, e.src>>
            BY <2>1
        <3> QED
            BY <2>3, <3>1 DEF Connectors
    <2> QED
        BY <2>2, <2>3
<1>8. <<>> \notin Connectors(c)
    BY <1>2 DEF Connectors
<1>9. ToSet(Texts(own, 2)) \ {<<>>} = Connectors(c)
    BY <1>4, <1>5, <1>6, <1>7, <1>8
<1>10. Lists(uniqueSorted(Texts(own, 2)), Connectors(c), Locale)
    <2>1. Texts(own, 2) \in Seq(Seq(Nat))
        BY <1>6, IdsAreTexts
    <2> QED
        BY <1>9, <2>1, UniqueSortedLists
<1>11. Connectors(c) \subseteq Seq(Nat) /\ IsFiniteSet(Connectors(c))
    BY <1>1, SqlIsTyped, IdsAreTexts
<1>12. Lists(Along(Connectors(c), localeLess), Connectors(c), Locale)
    BY <1>11, AlongByLocale
<1>13. Orders(Locale, Connectors(c))
    BY <1>11, LocaleOrder DEF Orders
<1>14. uniqueSorted(Texts(own, 2)) = Along(Connectors(c), localeLess)
    BY <1>10, <1>12, <1>13, ListsAreUnique
<1> QED
    BY <1>14 DEF Via, own, P

\* extension.zig 711-869: the last query reads the edges that end in the set.
LEMMA InboundRows ==
    ASSUME ClientTyped, NEW set, NEW X, Holds(set, X), NEW where, NEW answer, answer.ok,
           answer = decodeManyPayload(graph_in_many(edges, input.hop2, set, where))
    PROVE  /\ answer.rows \in Seq(Pairs)
           /\ ToSet(answer.rows) = Neighbours(edges, input.hop2, X, "dst", "src", where)
<1>1. edges \in Seq(EdgeRows)
    BY DEF ClientTyped
<1>2. PICK rows : rows = OrderedPairs(Selected(edges, input.hop2, In(edges, "dst", set) \cap where), "dst", "src")
    OBVIOUS
<1>3. rows \in Seq(Pairs) /\ ToSet(rows) = Neighbours(edges, input.hop2, X, "dst", "src", where)
    <2>1. IsEnd("dst", "src")
        BY DEF IsEnd
    <2> QED
        BY <1>1, <1>2, <2>1, ManyRows
<1>4. answer = DecodedRows(Lines(rows), <<"text", "text">>)
    BY <1>2 DEF decodeManyPayload, graph_in_many
<1>5. answer.rows = rows
    BY <1>3, <1>4, DecodedAsWritten, SchemasHaveTwo
<1> QED
    BY <1>3, <1>5

\* What a row tells, without deterministicOrd.
Told(row) == [candidate |-> row.candidate, support |-> row.support, via |-> row.via]

\* The answer of the last query.
InboundIs(rows) ==
    /\ rows \in Seq(Pairs)
    /\ \E where : /\ where = {e \in ToSet(edges) : Live(e)}
                  /\ ToSet(rows) = Neighbours(edges, input.hop2, Candidates, "dst", "src", where)

(* A row of the client tells what the row of the pipeline does.             *)
LEMMA ScoredAgree ==
    ASSUME ClientTyped, Quiet, ToSet(targets) = SqlTargets, Counted(counts, SqlHops(SqlTargets)),
           NEW inbound, InboundIs(inbound),
           NEW ids \in Seq(Candidates), NEW scored, ScoredFrom(scored, ids, inbound)
    PROVE  \A i \in 1 .. Len(ids) : ids[i] \in SqlCandidates /\ Told(scored[i]) = SqlRow(ids[i])
<1>1. Candidates = SqlCandidates
    BY CandidatesAgree
<1>2. ASSUME NEW i \in 1 .. Len(ids)
      PROVE  ids[i] \in SqlCandidates /\ Told(scored[i]) = SqlRow(ids[i])
    <2>1. PICK c \in Candidates : c = ids[i]
        BY ElementOfSeq
    <2>2. c \in SqlCandidates
        BY <1>1
    <2>3. Support(c) = SqlRow(c).support
        BY <2>2, SupportsAgree
    <2>4. Via(c, inbound) = Along(Connectors(c), localeLess)
        <3>1. PICK where : /\ where = {e \in ToSet(edges) : Live(e)}
                           /\ ToSet(inbound) = Neighbours(edges, input.hop2, Candidates, "dst", "src", where)
            BY DEF InboundIs
        <3>2. inbound \in Seq(Pairs)
            BY DEF InboundIs
        <3> QED
            BY <2>1, <3>1, <3>2, ConnectorsAgree
    <2>5. /\ scored[i].candidate = c /\ scored[i].support = Support(c)
          /\ scored[i].via = Via(c, inbound)
        BY <2>1 DEF ScoredFrom
    <2>6. SqlRow(c) = [candidate |-> c, support |-> SqlRow(c).support,
                       via |-> Along(Connectors(c), localeLess)]
        BY DEF SqlRow
    <2>7. Told(scored[i]) = [candidate |-> c, support |-> SqlRow(c).support,
                             via |-> Along(Connectors(c), localeLess)]
        BY <2>3, <2>4, <2>5 DEF Told
    <2> QED
        BY <2>1, <2>2, <2>6, <2>7
<1> QED
    BY <1>2

\* Both have the same rows in the same order, and a set has one list in an order.
LEMMA RanksAgree ==
    ASSUME ClientTyped, CountsReached, Quiet,
           ToSet(targets) = SqlTargets, Counted(counts, SqlHops(SqlTargets)),
           NEW inbound, InboundIs(inbound),
           NEW ids \in Seq(Candidates), Lists(ids, Candidates, Bytes),
           NEW scored, ScoredFrom(scored, ids, inbound), NEW ranked, ranked = Ranked(scored)
    PROVE  [i \in DOMAIN ranked |-> Told(ranked[i])] = runNaiveTwoHopWithoutExtension
<1>1. edges \in Seq(EdgeRows) /\ Candidates = SqlCandidates
    BY CandidatesAgree DEF ClientTyped
<1>2. \A i \in 1 .. Len(ids) : ids[i] \in SqlCandidates /\ Told(scored[i]) = SqlRow(ids[i])
    BY ScoredAgree
<1>14. RanksOf(ranked, scored, Len(ids))
    BY RankedRows
<1>3. /\ DOMAIN ranked = 1 .. Len(ranked) /\ Len(ranked) \in Nat
      /\ \A j \in 1 .. Len(ranked) : \E i \in 1 .. Len(ids) : ranked[j] = scored[i]
      /\ \A i \in 1 .. Len(ids) : \E j \in 1 .. Len(ranked) : ranked[j] = scored[i]
      /\ \A i, j \in 1 .. Len(ranked) : i < j => Outranks(ranked[i], ranked[j])
    BY <1>14 DEF RanksOf
<1> DEFINE told == [i \in DOMAIN ranked |-> Told(ranked[i])]
<1>4. \A j \in 1 .. Len(ranked) : told[j] = Told(ranked[j])
    BY <1>3
<1>5. DOMAIN told = 1 .. Len(ranked) /\ told = [i \in 1 .. Len(ranked) |-> told[i]]
    BY <1>3
<1> HIDE DEF told
<1>6. \A j \in 1 .. Len(ranked) : told[j] \in SqlRows
    <2> TAKE j \in 1 .. Len(ranked)
    <2>1. PICK i \in 1 .. Len(ids) : ranked[j] = scored[i]
        BY <1>3
    <2>2. told[j] = SqlRow(ids[i]) /\ ids[i] \in SqlCandidates
        BY <2>1, <1>2, <1>4
    <2> QED
        BY <2>2 DEF SqlRows
<1>7. told \in Seq(SqlRows) /\ Len(told) = Len(ranked)
    BY <1>3, <1>5, <1>6
<1>8. \A row \in SqlRows : \E j \in 1 .. Len(ranked) : told[j] = row
    <2> TAKE row \in SqlRows
    <2>1. PICK c \in SqlCandidates : row = SqlRow(c)
        BY DEF SqlRows
    <2>2. PICK i \in 1 .. Len(ids) : ids[i] = c
        BY <1>1 DEF Lists
    <2>3. PICK j \in 1 .. Len(ranked) : ranked[j] = scored[i]
        BY <1>3
    <2> QED
        BY <2>1, <2>2, <2>3, <1>2, <1>4
<1>9. ToSet(told) = SqlRows
    <2>1. ToSet(told) = {told[j] : j \in 1 .. Len(ranked)}
        BY <1>7, ItemsOf
    <2> QED
        BY <2>1, <1>6, <1>8
<1>10. Rankable(SqlRows) /\ IsFiniteSet(SqlRows) /\ Orders(ByRow(SqlRows), SqlRows)
    BY <1>1, SqlRowsAreRankable, RowOrder
<1>11. \A i, j \in 1 .. Len(told) : i < j => <<told[i], told[j]>> \in ByRow(SqlRows)
    <2> SUFFICES ASSUME NEW i \in 1 .. Len(ranked), NEW j \in 1 .. Len(ranked), i < j
                 PROVE  <<told[i], told[j]>> \in ByRow(SqlRows)
        BY <1>7
    <2>1. Outranks(ranked[i], ranked[j])
        BY <1>3
    <2>2. \A a, b : Outranks(a, b) => Outranks(Told(a), Told(b))
        BY DEF Outranks, Told
    <2>3. Outranks(told[i], told[j])
        BY <1>4, <2>1, <2>2
    <2> QED
        BY <2>3, <1>6 DEF ByRow
<1>12. Lists(told, SqlRows, ByRow(SqlRows))
    <2>1. \A x \in SqlRows : <<x, x>> \notin ByRow(SqlRows)
        BY <1>10 DEF Orders
    <2> QED
        BY <1>7, <1>9, <1>11, <2>1, WhatRisesLists
<1>13. told = Along(SqlRows, Outranks)
    BY <1>10, <1>12, AlongByRow, ListsAreUnique
<1> QED
    BY <1>13, PipelineOfRows DEF told

-----------------------------------------------------------------------------
(* The steps of a quiet call *)

\* What has been read is what the pipeline reads.
ReadSoFar ==
    /\ stage \in {"counts", "inbound"} => ToSet(targets) = SqlTargets
    /\ stage = "inbound" => Counted(counts, SqlHops(SqlTargets))

QuietInv == ClientInv /\ writes \in Nat /\ (Quiet => ReadSoFar) /\ ParityWhenQuiet

\* Without candidates the pipeline returns nothing.
LEMMA NothingToRecommend ==
    ASSUME edges \in Seq(EdgeRows), SqlCandidates = {}
    PROVE  runNaiveTwoHopWithoutExtension = <<>>
<1>1. SqlRows = {}
    BY DEF SqlRows
<1>2. Lists(Along(SqlRows, Outranks), SqlRows, ByRow(SqlRows))
    BY SqlRowsAreRankable, AlongByRow
<1>3. PICK list : list = Along(SqlRows, Outranks)
    OBVIOUS
<1>4. list \in Seq({}) /\ Len(list) = 0
    BY <1>1, <1>2, <1>3, FS_EmptySet DEF Lists
<1> QED
    BY <1>3, <1>4, PipelineOfRows

\* The pipeline depends on the table and on what is asked.
LEMMA SamePipeline ==
    ASSUME UNCHANGED <<edges, input, writes>>
    PROVE  /\ SqlTargets' = SqlTargets /\ SqlHops(SqlTargets)' = SqlHops(SqlTargets)
           /\ runNaiveTwoHopWithoutExtension' = runNaiveTwoHopWithoutExtension
           /\ Quiet' = Quiet
<1>1. SqlTargets' = SqlTargets
    BY DEF SqlTargets, FirstHop, Live
<1>2. SqlHops(SqlTargets)' = SqlHops(SqlTargets)
    BY <1>1 DEF SqlHops
<1>3. runNaiveTwoHopWithoutExtension' = runNaiveTwoHopWithoutExtension
    BY <1>1, <1>2 DEF runNaiveTwoHopWithoutExtension, Live
<1>4. Quiet' = Quiet
    BY DEF Quiet
<1> QED
    BY <1>1, <1>2, <1>3, <1>4

\* Without seeds nothing is returned, and the pipeline returns nothing.
LEMMA NoSeedsAgree ==
    ASSUME QuietInv, NoSeeds
    PROVE  (Quiet => ReadSoFar)' /\ ParityWhenQuiet'
<1>1. /\ stage = "targets" /\ stage' = "done" /\ uniqueSorted(input.seeds) = <<>>
      /\ UNCHANGED <<edges, input, writes>> /\ result' = result
    BY DEF NoSeeds
<1>2. ClientTyped /\ result = <<>>
    BY <1>1 DEF QuietInv, ClientInv, NothingEarly
<1>3. ASSUME Quiet
      PROVE  runNaiveTwoHopWithoutExtension = <<>>
    <2>1. input.seeds \in Seq(Ids) /\ edges \in Seq(EdgeRows)
        BY <1>2, AskedTexts DEF ClientTyped
    <2>2. ToSet(input.seeds) \ {<<>>} = ToSet(<<>>)
        BY <1>1, <2>1, UniqueSortedIds
    <2>3. \A x \in ToSet(input.seeds) : x = <<>>
        BY <2>2 DEF ToSet
    <2>4. SqlTargets = {}
        BY <2>3, <1>3 DEF SqlTargets, Quiet, NonEmpty
    <2> QED
        BY <2>1, <2>4, NoTargetsNoHops, NothingToRecommend
<1>4. ReadSoFar'
    BY <1>1 DEF ReadSoFar
<1>5. ParityWhenQuiet'
    <2>1. [i \in DOMAIN result' |-> Told(result'[i])] = <<>>
        BY <1>1, <1>2
    <2>2. Quiet => [i \in DOMAIN result' |-> Told(result'[i])] = runNaiveTwoHopWithoutExtension
        BY <1>3, <2>1
    <2> QED
        BY <1>1, <2>2, SamePipeline DEF ParityWhenQuiet, Told
<1> QED
    BY <1>4, <1>5

\* The first query, in a quiet call.
LEMMA TargetsReadAgree ==
    ASSUME QuietInv, ReadTargets
    PROVE  (Quiet => ReadSoFar)' /\ ParityWhenQuiet'
<1> DEFINE X == ToSet(input.seeds) \ {<<>>}
           where == {e \in ToSet(edges) : FirstHop(e)}
           answer == decodeManyPayload(graph_out_many(edges, input.hop1, idsetFromValues(input.seeds), where))
<1>1. ClientTyped /\ counts = <<>> /\ stage = "targets"
    BY DEF QuietInv, ClientInv, NothingEarly, ReadTargets
<1>2. /\ counts' = <<>> /\ UNCHANGED <<edges, input, writes>>
      /\ \/ stage' = "failed"
         \/ /\ answer.ok /\ targets' = uniqueSorted(Texts(answer.rows, 2))
            /\ \/ stage' = "inbound" /\ targets' = <<>>
               \/ stage' = "counts"
    BY <1>1 DEF ReadTargets
<1>3. answer.ok =>
        ToSet(uniqueSorted(Texts(answer.rows, 2)))
          = {row[2] : row \in Neighbours(edges, input.hop1, X, "src", "dst", where)} \ {<<>>}
    BY <1>1, FirstHopsAreRead
<1>4. Quiet => {row[2] : row \in Neighbours(edges, input.hop1, X, "src", "dst", where)} \ {<<>>} = SqlTargets
    BY <1>1, TargetsAgree
<1> HIDE DEF answer, X, where
<1>5. ParityWhenQuiet'
    BY <1>2 DEF ParityWhenQuiet, Returned
<1>6. ASSUME Quiet
      PROVE  ReadSoFar'
    <2>1. CASE stage' = "failed"
        BY <2>1 DEF ReadSoFar
    <2>2. CASE stage' # "failed"
        <3>1. ToSet(targets') = SqlTargets
            BY <1>2, <1>3, <1>4, <1>6, <2>2
        <3>2. ASSUME stage' = "inbound"
              PROVE  Counted(counts', SqlHops(SqlTargets))
            <4>1. SqlTargets = {}
                BY <1>2, <3>1, <3>2 DEF ToSet
            <4> QED
                BY <1>2, <4>1, NoTargetsNoHops
        <3> QED
            BY <1>2, <3>1, <3>2, SamePipeline DEF ReadSoFar
    <2> QED
        BY <2>1, <2>2
<1> QED
    BY <1>2, <1>5, <1>6, SamePipeline

\* The second query.
LEMMA CountsReadAgree ==
    ASSUME QuietInv, ReadCounts
    PROVE  (Quiet => ReadSoFar)' /\ ParityWhenQuiet'
<1> DEFINE answer == decodeNumberedPayload(
               graph_two_hop_counts(edges, input.hop1, input.hop2, idsetFromValues(targets)))
           Of == {hop \in ToSet(edges) \X ToSet(edges) :
                    /\ hop[1].src \in ToSet(targets) \ {<<>>} /\ hop[1].dst = hop[2].src
                    /\ hop[1].type = input.hop1 /\ hop[2].type = input.hop2}
<1>1. ClientTyped /\ stage = "counts" /\ (Quiet => ToSet(targets) = SqlTargets)
    BY DEF QuietInv, ClientInv, ReadSoFar, ReadCounts
<1>2. /\ targets' = targets /\ UNCHANGED <<edges, input, writes>>
      /\ \/ stage' = "failed"
         \/ answer.ok /\ counts' = answer.rows /\ stage' = "inbound"
    BY DEF ReadCounts
<1>3. answer.ok => Counted(answer.rows, Of)
    BY <1>1, CountedHopsAreRead
<1>4. Quiet => Of = SqlHops(SqlTargets)
    BY <1>1, HopsAgree
<1> HIDE DEF answer, Of
<1>5. ParityWhenQuiet'
    BY <1>2 DEF ParityWhenQuiet, Returned
<1>6. Quiet => ReadSoFar'
    BY <1>1, <1>2, <1>3, <1>4, SamePipeline DEF ReadSoFar
<1> QED
    BY <1>2, <1>5, <1>6, SamePipeline

\* The last query.
LEMMA ResultsAgree ==
    ASSUME QuietInv, ReadInbound
    PROVE  (Quiet => ReadSoFar)' /\ ParityWhenQuiet'
<1> DEFINE where == {e \in ToSet(edges) : Live(e)}
           each == decodeNumberedPayload(idset_each(recommendationSet))
           inbound == decodeManyPayload(graph_in_many(edges, input.hop2, recommendationSet, where))
<1>1. /\ ClientTyped /\ CountsReached /\ stage = "inbound"
      /\ (Quiet => ToSet(targets) = SqlTargets /\ Counted(counts, SqlHops(SqlTargets)))
    BY DEF QuietInv, ClientInv, ReadSoFar, ReadInbound
<1>2. /\ UNCHANGED <<edges, input, writes>>
      /\ \/ stage' = "failed"
         \/ /\ each.ok /\ inbound.ok /\ stage' = "done"
            /\ result' = Ranked(Scored(each.rows, inbound.rows))
    BY DEF ReadInbound
<1>3. ReadSoFar'
    BY <1>2 DEF ReadSoFar
<1>4. inbound.ok => /\ inbound.rows \in Seq(Pairs)
                    /\ ToSet(inbound.rows) = Neighbours(edges, input.hop2, Candidates, "dst", "src", where)
    BY <1>1, SetOfCandidates, InboundRows
<1> HIDE DEF inbound, where
<1>5. each.ok => \E ids \in Seq(Candidates) :
             /\ Lists(ids, Candidates, Bytes)
             /\ ScoredFrom(Scored(each.rows, inbound.rows), ids, inbound.rows)
    BY <1>1, CandidatesAreScored
<1> HIDE DEF each
<1>6. CASE stage' = "failed"
    BY <1>6, <1>3 DEF ParityWhenQuiet, Returned
<1>7. CASE /\ each.ok /\ inbound.ok /\ stage' = "done"
           /\ result' = Ranked(Scored(each.rows, inbound.rows))
    <2>1. ASSUME Quiet
          PROVE  [i \in DOMAIN result' |-> Told(result'[i])] = runNaiveTwoHopWithoutExtension
        <3>1. PICK scored : scored = Scored(each.rows, inbound.rows)
            OBVIOUS
        <3>2. PICK ids \in Seq(Candidates) :
                     Lists(ids, Candidates, Bytes) /\ ScoredFrom(scored, ids, inbound.rows)
            BY <1>5, <1>7, <3>1
        <3>3. PICK ranked : ranked = Ranked(scored)
            OBVIOUS
        <3>4. PICK rows : rows = inbound.rows /\ InboundIs(rows)
            BY <1>4, <1>7 DEF InboundIs, where
        <3>5. [i \in DOMAIN ranked |-> Told(ranked[i])] = runNaiveTwoHopWithoutExtension
            BY <1>1, <2>1, <3>2, <3>3, <3>4, RanksAgree
        <3>6. result' = ranked
            BY <1>7, <3>1, <3>3
        <3> QED
            BY <3>5, <3>6
    <2>2. ParityWhenQuiet'
        BY <1>2, <2>1, SamePipeline DEF ParityWhenQuiet, Told
    <2> QED
        BY <2>2, <1>3
<1> QED
    BY <1>2, <1>6, <1>7

\* Each step keeps the invariant of quiet calls.
LEMMA QuietSteps ==
    ASSUME QuietInv, [ClientNext]_clientVars
    PROVE  QuietInv'
<1>1. ClientInv' /\ writes \in Nat
    BY ClientSteps DEF QuietInv
<1>2. CASE NoSeeds
    BY <1>1, <1>2, NoSeedsAgree DEF QuietInv, NoSeeds
<1>3. CASE QueryFails
    <2>1. stage' = "failed" /\ writes' = writes
        BY <1>3 DEF QueryFails
    <2> QED
        BY <1>1, <2>1 DEF QuietInv, ReadSoFar, ParityWhenQuiet, Returned
<1>4. CASE ReadTargets
    BY <1>1, <1>4, TargetsReadAgree DEF QuietInv, ReadTargets
<1>5. CASE ReadCounts
    BY <1>1, <1>5, CountsReadAgree DEF QuietInv, ReadCounts
<1>6. CASE ReadInbound
    BY <1>1, <1>6, ResultsAgree DEF QuietInv, ReadInbound
<1>7. CASE Insert \/ SoftDelete
    <2>1. writes' = writes + 1
        BY <1>7 DEF Insert, SoftDelete
    <2>2. writes' \in Nat /\ ~ Quiet'
        BY <1>1, <2>1 DEF Quiet
    <2> QED
        BY <1>1, <2>2 DEF QuietInv, ParityWhenQuiet
<1>8. CASE UNCHANGED clientVars
    <2>1. UNCHANGED <<edges, input, writes, stage, targets, counts, result>>
        BY <1>8 DEF clientVars
    <2>2. (Quiet => ReadSoFar)'
        BY <2>1, SamePipeline DEF QuietInv, ReadSoFar
    <2>3. ParityWhenQuiet'
        BY <2>1, SamePipeline DEF QuietInv, ParityWhenQuiet, Returned
    <2> QED
        BY <1>1, <2>1, <2>2, <2>3 DEF QuietInv
<1> QED
    BY <1>2, <1>3, <1>4, <1>5, <1>6, <1>7, <1>8 DEF ClientNext

\* client.ts 279-358 with demo.ts 258-362: while nobody writes, the client's
\* composition of id sets, of texts and of sorted arrays returns the rows of the
\* plain pipeline of SQL, in the same order, for every table and every input.
THEOREM QuietCallsAgree == ClientSpec => []ParityWhenQuiet
<1>1. ClientInit => QuietInv
    <2> SUFFICES ASSUME ClientInit
                 PROVE  QuietInv
        OBVIOUS
    <2>1. stage = "targets" /\ writes = 0
        BY DEF ClientInit, ClientStarts
    <2> QED
        BY <2>1, ClientBegins DEF QuietInv, ReadSoFar, ParityWhenQuiet, Returned
<1>2. QuietInv /\ [ClientNext]_clientVars => QuietInv'
    BY QuietSteps
<1>3. QuietInv => ParityWhenQuiet
    BY DEF QuietInv
<1> QED
    BY <1>1, <1>2, <1>3, PTL DEF ClientSpec

=============================================================================
