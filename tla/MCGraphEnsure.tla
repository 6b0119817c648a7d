--------------------------- MODULE MCGraphEnsure ---------------------------
\* A few specs over two tables for TLC.
EXTENDS GraphEnsure, TLC

CONSTANTS t1, t2, k, a, b, i1, text, int

Column(type, notNull, key) ==
    [type |-> type, notNull |-> notNull, key |-> key]

Key   == k :> Column(text, TRUE, TRUE)
Plain == a :> Column(text, FALSE, FALSE)

Table(t, columnDefs, indexDefs, crr) ==
    [name |-> t, columns |-> columnDefs, indexes |-> indexDefs, crr |-> crr]

OnA == i1 :> [on |-> {a}, unique |-> FALSE]
OnB == i1 :> [on |-> {b}, unique |-> FALSE]

\* Two versions of a table, the second of them replicated; one that objects to
\* the first; and a table that wants the name of the first one's index.
Versions == {
    <<Table(t1, Key @@ Plain, <<>>, FALSE)>>,
    <<Table(t1, Key @@ Plain @@ b :> Column(text, TRUE, FALSE), OnB, TRUE)>>,
    <<Table(t1, Key @@ a :> Column(int, TRUE, FALSE), OnA, FALSE),
      Table(t2, Key @@ Plain, OnA, TRUE)>> }

\* Two versions of a table whose primary keys differ.
Keys == {
    <<Table(t1, Key @@ Plain, <<>>, FALSE)>>,
    <<Table(t1, k :> Column(text, TRUE, FALSE) @@ b :> Column(text, TRUE, TRUE),
            <<>>, FALSE)>> }

ClientSymmetry == Permutations(Clients)
=============================================================================
