------------------------------ MODULE GraphExt ------------------------------
(***************************************************************************)
(* The graph functions of packages/sqlite-graph-ext and the way schema.ts  *)
(* decodes what they return.  A function builds one SQL query over an edge *)
(* table, runs it and writes the rows as a text: fields between tabs, rows *)
(* between newlines, the members of a group one to a line.                 *)
(*                                                                         *)
(* An edge table is a sequence of rows, records with texts src, dst and    *)
(* type (nothing keeps rows from being equal); a where_sql is the set of    *)
(* rows it holds of.  Errors, of arguments or of SQLite, end a query       *)
(* without a text and are left out.                                        *)
(***************************************************************************)
EXTENDS IdSet

PairLess(p, q) ==
    lessLexicographic(p[1], q[1]) \/ (p[1] = q[1] /\ lessLexicographic(p[2], q[2]))

Line(fields) == Joined(fields, TAB)
Lines(rows) == Joined([i \in DOMAIN rows |-> Line(rows[i])], NL)

-----------------------------------------------------------------------------
(* The queries. *)

\* FROM edges WHERE edge_type = type (no condition for "") AND ... AND where.
Selected(edges, type, where) ==
    Kept(edges, Rising({i \in DOMAIN edges : /\ type = <<>> \/ edges[i].type = type
                                             /\ edges[i] \in where}))

\* The rows of a table whose id in a column is in a set.
In(edges, column, set) ==
    LET ids == ToSet(parseSet(set))
    IN  {edge \in ToSet(edges) : edge[column] \in ids}

\* ORDER BY one column and then the other.
OrderedPairs(rows, key, member) ==
    LET columns == [i \in DOMAIN rows |-> <<rows[i][key], rows[i][member]>>]
    IN  Ordered(columns, PairLess)

graph_out_many(edges, type, set, where) ==
    Lines(OrderedPairs(Selected(edges, type, In(edges, "src", set) \cap where), "src", "dst"))

graph_in_many(edges, type, set, where) ==
    Lines(OrderedPairs(Selected(edges, type, In(edges, "dst", set) \cap where), "dst", "src"))

\* Mutant: the member that starts a group is not remembered.
GroupedTwice(pairs) ==
    LET Step(text, i) ==
            IF i > 1 /\ pairs[i - 1][1] = pairs[i][1]
            THEN IF pairs[i - 1] = pairs[i] /\ i > 2 /\ pairs[i - 2][1] = pairs[i][1]
                 THEN text ELSE text \o <<NL>> \o pairs[i][2]
            ELSE text \o (IF text = <<>> THEN <<>> ELSE <<NL>>) \o Line(pairs[i])
    IN  FoldLeft(Step, <<>>, [i \in DOMAIN pairs |-> i])

\* Rows in order become groups: a key, a tab, its members one to a line; a
\* member that equals the one before it is left out.
Grouped(pairs) ==
    LET Step(text, i) ==
            IF i > 1 /\ pairs[i - 1][1] = pairs[i][1]
            THEN IF pairs[i - 1] = pairs[i] THEN text ELSE text \o <<NL>> \o pairs[i][2]
            ELSE text \o (IF text = <<>> THEN <<>> ELSE <<NL>>) \o Line(pairs[i])
    IN  FoldLeft(Step, <<>>, [i \in DOMAIN pairs |-> i])

graph_out_idset(edges, type, set) ==
    Grouped(OrderedPairs(Selected(edges, type, In(edges, "src", set)), "src", "dst"))

graph_in_idset(edges, type, set) ==
    Grouped(OrderedPairs(Selected(edges, type, In(edges, "dst", set)), "dst", "src"))

\* Mutant: every edge of the second type joins.
HopsCrossed(edges, hop1, hop2, set) ==
    {hop \in In(edges, "src", set) \X ToSet(edges) : hop[1].type = hop1 /\ hop[2].type = hop2}

\* e1 JOIN e2 ON e2.src = e1.dst, e1 starting in the set: here "" is a type
\* like others, and deleted_at is not looked at.
Hops(edges, hop1, hop2, set) ==
    {hop \in In(edges, "src", set) \X ToSet(edges) :
        hop[1].dst = hop[2].src /\ hop[1].type = hop1 /\ hop[2].type = hop2}

\* Mutant: COUNT(*) for COUNT(DISTINCT e1.src).
counts_paths(edges, hop1, hop2, set) ==
    LET hops == Hops(edges, hop1, hop2, set)
        dsts == Along({hop[2].dst : hop \in hops}, lessLexicographic)
        Support(dst) == Cardinality({hop \in hops : hop[2].dst = dst})
    IN  Lines([i \in DOMAIN dsts |-> <<dsts[i], NumberText(Support(dsts[i]))>>])

graph_two_hop_counts(edges, hop1, hop2, set) ==
    LET hops == Hops(edges, hop1, hop2, set)
        dsts == Along({hop[2].dst : hop \in hops}, lessLexicographic)
        Support(dst) == Cardinality({hop[1].src : hop \in {h \in hops : h[2].dst = dst}})
    IN  Lines([i \in DOMAIN dsts |-> <<dsts[i], NumberText(Support(dsts[i]))>>])

graph_two_hop_supporters(edges, hop1, hop2, set) ==
    LET pairs == {<<hop[2].dst, hop[1].src>> : hop \in Hops(edges, hop1, hop2, set)}
    IN  Grouped(Along(pairs, PairLess))

\* Mutant: only the rows of the old snapshot (no UNION ALL).
UnifiedLeft(table, old, new) ==
    LET Of(serp) == {row \in ToSet(table) : row.serp = serp}
    IN  {[item |-> both[1].item, old |-> both[1].rank, new |-> both[2].rank] :
            both \in {pair \in Of(old) \X Of(new) : pair[1].item = pair[2].item}}
        \cup {[item |-> o.item, old |-> o.rank, new |-> 0] :
                 o \in {a \in Of(old) : \A b \in Of(new) : b.item # a.item}}

\* Rows of a ranking table: which snapshot, the rank, the item.  Matched ones,
\* the old ones left over, and the new ones; 0 stands for NULL.
Unified(table, old, new) ==
    LET Of(serp) == {row \in ToSet(table) : row.serp = serp}
    IN  {[item |-> both[1].item, old |-> both[1].rank, new |-> both[2].rank] :
            both \in {pair \in Of(old) \X Of(new) : pair[1].item = pair[2].item}}
        \cup {[item |-> o.item, old |-> o.rank, new |-> 0] :
                 o \in {a \in Of(old) : \A b \in Of(new) : b.item # a.item}}
        \cup {[item |-> n.item, old |-> 0, new |-> n.rank] :
                 n \in {b \in Of(new) : \A a \in Of(old) : a.item # b.item}}

Statuses == [entered |-> <<101>>, exited |-> <<120>>, moved |-> <<109>>, unchanged |-> <<117>>]

ranked_diff(table, old, new) ==
    LET At(row) == IF row.old # 0 THEN row.old ELSE row.new
        Before(a, b) == At(a) < At(b) \/ (At(a) = At(b) /\ lessLexicographic(a.item, b.item))
        Rank(n) == IF n = 0 THEN <<>> ELSE NumberText(n)
        Delta(row) == IF row.old = 0 \/ row.new = 0 THEN <<>>
                      ELSE NumberText(row.new - row.old)
        Status(row) == IF row.old = 0 THEN Statuses.entered
                       ELSE IF row.new = 0 THEN Statuses.exited
                       ELSE IF row.old # row.new THEN Statuses.moved
                       ELSE Statuses.unchanged
        Fields(row) == <<row.item, Rank(row.old), Rank(row.new), Delta(row), Status(row)>>
        rows == Along(Unified(table, old, new), Before)
    IN  Lines([i \in DOMAIN rows |-> Fields(rows[i])])

-----------------------------------------------------------------------------
(* schema.ts. *)

\* What decoding gives: the rows, or a GraphExtDecodeError.
Decoded(rows) == [ok |-> TRUE, rows |-> rows]
GraphExtDecodeError == [ok |-> FALSE, rows |-> <<>>]

parseTsvRows(payload) ==
    LET lines == Nonblank(Split(payload, NL))
    IN  [i \in DOMAIN lines |-> Split(lines[i], TAB)]

\* What the schema of a field accepts.
Admits(kind, text) ==
    CASE kind = "text" -> TRUE
      [] kind = "number" -> IsNumber(text)
      [] kind = "nullable" -> text = <<>> \/ IsNumber(text)
      [] kind = "status" -> text \in {Statuses[status] : status \in DOMAIN Statuses}

\* A schema of rows is the kinds of their fields.
DecodedRows(payload, schema) ==
    LET rows == parseTsvRows(payload)
    IN  IF \A i \in DOMAIN rows : /\ Len(rows[i]) = Len(schema)
                                  /\ \A k \in DOMAIN schema : Admits(schema[k], rows[i][k])
        THEN Decoded(rows) ELSE GraphExtDecodeError

decodeManyPayload(payload) == DecodedRows(payload, <<"text", "text">>)
decodeNumberedPayload(payload) == DecodedRows(payload, <<"text", "number">>)

decodeRankedDiffPayload(payload) ==
    LET texts == DecodedRows(payload, <<"text", "nullable", "nullable", "nullable", "status">>)
        Number(text) == IF text = <<>> THEN 0 ELSE NumberOf(text)
        Row(row) == [item |-> row[1], old |-> Number(row[2]), new |-> Number(row[3]),
                     delta |-> Number(row[4]), status |-> row[5]]
    IN  [texts EXCEPT !.rows = [i \in DOMAIN @ |-> Row(@[i])]]

\* A line with a tab starts a group, any other is a member of the last one.
parseGroupedSetRows(payload) ==
    LET lines == Nonblank(Split(payload, NL))
        Starts(line) == TAB \in ToSet(line)
        Step(groups, line) ==
            IF Starts(line)
            THEN LET at == CHOOSE k \in DOMAIN line :
                               line[k] = TAB /\ \A j \in 1..(k - 1) : line[j] # TAB
                     member == SubSeq(line, at + 1, Len(line))
                 IN  Append(groups, [key |-> SubSeq(line, 1, at - 1),
                                     members |-> SelectSeq(<<member>>, NonEmpty)])
            ELSE IF groups = <<>> THEN groups
            ELSE [groups EXCEPT ![Len(groups)].members = Append(@, line)]
    IN  FoldLeft(Step, <<>>, lines)

-----------------------------------------------------------------------------
(* Properties. *)

\* Ids are texts that are not empty and hold no tab and no newline.
PlainEdges(edges) ==
    \A i \in DOMAIN edges : \A id \in {edges[i].src, edges[i].dst} :
        NonEmpty(id) /\ {TAB, NL} \cap ToSet(id) = {}

\* The rows, and the groups, are the edges at the given ids.
TellsEdges(chosen, key, member, ids, rows, groups) ==
    /\ Len(rows) = Len(SelectSeq(chosen, LAMBDA e : e[key] \in ids))
    /\ ToSet(rows) = {<<e[key], e[member]>> : e \in {c \in ToSet(chosen) : c[key] \in ids}}
    /\ \A g, h \in DOMAIN groups :
         /\ g < h => lessLexicographic(groups[g].key, groups[h].key)
         /\ IsCanonical(appendSetText(groups[g].members))
    /\ UNION {{<<groups[g].key, m>> : m \in ToSet(groups[g].members)} : g \in DOMAIN groups}
         = ToSet(rows)

\* extension.zig 871-1258 with schema.ts 30-64: a neighbourhood, grouped,
\* written as text and read again, is the neighbourhood; each edge is in it from
\* both of its ends, however often the table has it, and the grouped and the
\* plain form agree.
NeighbourhoodsSurvive(edges, type, set) ==
    PlainEdges(edges) =>
        LET chosen == SelectSeq(edges, LAMBDA e : type = <<>> \/ e.type = type)
        IN
        /\ TellsEdges(chosen, "src", "dst", IdsOf(set),
                      decodeManyPayload(graph_out_many(edges, type, set, ToSet(edges))).rows,
                      parseGroupedSetRows(graph_out_idset(edges, type, set)))
        /\ TellsEdges(chosen, "dst", "src", IdsOf(set),
                      decodeManyPayload(graph_in_many(edges, type, set, ToSet(edges))).rows,
                      parseGroupedSetRows(graph_in_idset(edges, type, set)))

\* Each destination once, with the number of its supporters and the supporters:
\* the ids it is reached from in two steps.
TellsSupport(follows, ids, counts, groups) ==
    LET Step(from) == {p[2] : p \in {q \in follows : q[1] \in from}}
    IN
    /\ Len(counts) = Len(groups)
    /\ {counts[i][1] : i \in DOMAIN counts} = Step(Step(ids))
    /\ \A i \in DOMAIN counts :
         /\ groups[i].key = counts[i][1]
         /\ Len(groups[i].members) = NumberOf(counts[i][2])
         /\ ToSet(groups[i].members) = {id \in ids : counts[i][1] \in Step(Step({id}))}

\* extension.zig 1261-1588: written as text and decoded, the support of a
\* destination is the number of its supporters, and those are the ids of the set
\* that lead to it over edges of the table, however often the table has them.
SupportIsCounted(edges, type, set) ==
    PlainEdges(edges) /\ type # <<>> =>
        TellsSupport({<<e.src, e.dst>> : e \in {x \in ToSet(edges) : x.type = type}}, IdsOf(set),
                     decodeNumberedPayload(graph_two_hop_counts(edges, type, type, set)).rows,
                     parseGroupedSetRows(graph_two_hop_supporters(edges, type, type, set)))

\* The rows of a difference between two snapshots, sets of items with their ranks.
TellsSnapshots(before, after, rows) ==
    /\ \A i, j \in DOMAIN rows : rows[i].item = rows[j].item => i = j
    /\ {<<rows[i].item, rows[i].old>> : i \in DOMAIN rows} \cap (Seq(Nat) \X (Nat \ {0})) = before
    /\ {<<rows[i].item, rows[i].new>> : i \in DOMAIN rows} \cap (Seq(Nat) \X (Nat \ {0})) = after
    /\ \A i \in DOMAIN rows :
         /\ rows[i].old # 0 /\ rows[i].new # 0 => rows[i].old + rows[i].delta = rows[i].new
         /\ rows[i].status = Statuses.moved <=>
              0 \notin {rows[i].old, rows[i].new, rows[i].delta}

\* extension.zig 1590-1820: from the decoded difference of two snapshots both
\* can be had back, each item is in one row, and its status and delta are
\* those of its ranks.
DiffTellsBoth(table, old, new) ==
    LET Snapshot(serp) == {<<r.item, r.rank>> : r \in {x \in ToSet(table) : x.serp = serp}}
        diff == decodeRankedDiffPayload(ranked_diff(table, old, new))
    IN  diff.ok /\ TellsSnapshots(Snapshot(old), Snapshot(new), diff.rows)
=============================================================================
