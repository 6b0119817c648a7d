---------------------------- MODULE TwoHopClient ----------------------------
(***************************************************************************)
(* recommendByTwoHop of packages/sqlite-graph-ext's client.ts, and the     *)
(* pipeline of plain SQL its demo compares it with.  A recommendation is   *)
(* several queries, each a statement of its own: other connections may     *)
(* write the edge table between any two of them.                           *)
(***************************************************************************)
EXTENDS GraphExt

CONSTANTS
    Tables,       \* edge tables to start from
    Inputs,       \* what may be asked: seeds, exclude, hop1, hop2
    Edges,        \* rows that other connections may add
    Bots,         \* ids that are LIKE 'bot-%'
    MaxWrites     \* bound on the writes of others

\* Nothing in a payload is escaped, and its rows are lines (README.md 77): no id
\* has a newline.  An id with a tab makes a row that does not decode.
EdgeRows == [src : Ids, dst : Ids, type : Seq(Nat), deleted : BOOLEAN]

ASSUME RowsAreLines ==
    /\ \A table \in Tables : table \in Seq(EdgeRows)
    /\ \A row \in Edges : row \in EdgeRows
    /\ \A asked \in Inputs : asked \in [seeds : Seq(Ids), exclude : Seq(Ids),
                                      hop1 : Seq(Nat), hop2 : Seq(Nat)]
    /\ MaxWrites \in Nat

VARIABLES
    edges,        \* the table: a sequence of rows with deleted (deleted_at is set)
    input,        \* what was asked
    stage,        \* "targets", "counts", "inbound" or "done": the query that is next
    targets,      \* firstHopTargets
    counts,       \* secondHopCounts
    result,       \* the rows that were returned
    ever,         \* history: rows the table had since the call began
    writes        \* history: how often others wrote

clientVars == <<edges, input, stage, targets, counts, result, ever, writes>>

Live(edge) == ~ edge.deleted
FirstHop(edge) == Live(edge) /\ edge.dst \notin Bots   \* the default where_sql

Texts(rows, k) == [i \in DOMAIN rows |-> rows[i][k]]

ClientStarts ==
    /\ stage = "targets"
    /\ targets = <<>> /\ counts = <<>> /\ result = <<>>
    /\ ever = ToSet(edges)
    /\ writes = 0

ClientInit == edges \in Tables /\ input \in Inputs /\ ClientStarts

-----------------------------------------------------------------------------
(* The steps of one recommendation. *)

\* Nothing to start from: no query reads the table.
NoSeeds ==
    /\ stage = "targets" /\ uniqueSorted(input.seeds) = <<>>
    /\ stage' = "done"
    /\ UNCHANGED <<edges, input, targets, counts, result, ever, writes>>

\* SQLite refuses a query (GraphExtQueryError).
QueryFails ==
    /\ stage \in {"targets", "counts", "inbound"}
    /\ stage' = "failed"
    /\ UNCHANGED <<edges, input, targets, counts, result, ever, writes>>

\* Without targets the second query is not made.
ReadTargets ==
    LET rows == decodeManyPayload(
            graph_out_many(edges, input.hop1, idsetFromValues(input.seeds),
                           {e \in ToSet(edges) : FirstHop(e)}))
    IN
    /\ stage = "targets" /\ uniqueSorted(input.seeds) # <<>>
    /\ IF ~ rows.ok THEN stage' = "failed" /\ UNCHANGED targets
       ELSE /\ targets' = uniqueSorted(Texts(rows.rows, 2))
            /\ stage' = IF targets' = <<>> THEN "inbound" ELSE "counts"
    /\ UNCHANGED <<edges, input, counts, result, ever, writes>>

ReadCounts ==
    LET rows == decodeNumberedPayload(
            graph_two_hop_counts(edges, input.hop1, input.hop2, idsetFromValues(targets)))
    IN
    /\ stage = "counts"
    /\ IF ~ rows.ok THEN stage' = "failed" /\ UNCHANGED counts
       ELSE counts' = rows.rows /\ stage' = "inbound"
    /\ UNCHANGED <<edges, input, targets, result, ever, writes>>

\* Mutant: what the caller excludes is forgotten.
keepsExcluded ==
    idset_diff(idsetFromValues(Texts(counts, 1)),
               idsetFromValues(input.seeds \o targets))

\* candidateSet, excludedSet and their difference: a blob.
recommendationSet ==
    idset_diff(idsetFromValues(Texts(counts, 1)),
               idsetFromValues(input.seeds \o targets \o input.exclude))

\* supportByCandidate: the last row of a candidate, 0 without one.
Support(candidate) ==
    LET own == {i \in DOMAIN counts : counts[i][1] = candidate}
    IN  IF own = {} THEN 0 ELSE NumberOf(counts[Max(own)][2])

\* The rows of idset_each with their support and the sources that lead to them.
Scored(each, inbound) ==
    [i \in DOMAIN each |->
        LET own == Kept(inbound, Rising({k \in DOMAIN inbound : inbound[k][1] = each[i][1]}))
        IN  [candidate |-> each[i][1], ord |-> NumberOf(each[i][2]),
             support |-> Support(each[i][1]), via |-> uniqueSorted(Texts(own, 2))]]

\* Most supported first; the rank is the position.
Outranks(a, b) ==
    a.support > b.support \/ (a.support = b.support /\ localeLess(a.candidate, b.candidate))

Ranked(rows) == Ordered(rows, Outranks)

\* idsetHash and idsetEach do not read the table; graphInMany does.
ReadInbound ==
    LET set == recommendationSet
        each == decodeNumberedPayload(idset_each(set))
        inbound == decodeManyPayload(
            graph_in_many(edges, input.hop2, set, {e \in ToSet(edges) : Live(e)}))
    IN
    /\ stage = "inbound"
    /\ IF ~ (each.ok /\ inbound.ok) THEN stage' = "failed" /\ UNCHANGED result
       ELSE result' = Ranked(Scored(each.rows, inbound.rows)) /\ stage' = "done"
    /\ UNCHANGED <<edges, input, targets, counts, ever, writes>>

-----------------------------------------------------------------------------
(* Other connections: rows are added and soft-deleted. *)

MayWrite == writes < MaxWrites /\ stage \notin {"done", "failed"}

Insert ==
    /\ MayWrite
    /\ \E edge \in Edges : edges' = Append(edges, edge)
    /\ ever' = ever \cup ToSet(edges')
    /\ writes' = writes + 1
    /\ UNCHANGED <<input, stage, targets, counts, result>>

SoftDelete ==
    /\ MayWrite
    /\ \E i \in DOMAIN edges :
         ~ edges[i].deleted /\ edges' = [edges EXCEPT ![i].deleted = TRUE]
    /\ ever' = ever \cup ToSet(edges')
    /\ writes' = writes + 1
    /\ UNCHANGED <<input, stage, targets, counts, result>>

ClientNext ==
    \/ NoSeeds \/ QueryFails \/ ReadTargets \/ ReadCounts \/ ReadInbound
    \/ Insert \/ SoftDelete

ClientSpec == ClientInit /\ [][ClientNext]_clientVars

-----------------------------------------------------------------------------
(* The demo's pipeline, on one table. *)

SqlTargets ==
    {e.dst : e \in {x \in ToSet(edges) : /\ x.type = input.hop1 /\ FirstHop(x)
                                         /\ x.src \in ToSet(input.seeds)}}

SqlHops(start) ==
    {hop \in ToSet(edges) \X ToSet(edges) :
        /\ hop[1].dst = hop[2].src /\ hop[1].src \in start
        /\ hop[1].type = input.hop1 /\ hop[2].type = input.hop2}

runNaiveTwoHopWithoutExtension ==
    LET hops == SqlHops(SqlTargets)
        excluded == ToSet(input.seeds) \cup SqlTargets \cup ToSet(input.exclude)
        candidates == {hop[2].dst : hop \in hops} \ excluded
        Supporters(c) == {hop[1].src : hop \in {h \in hops : h[2].dst = c}}
        Connectors(c) == {e.src : e \in {x \in ToSet(edges) :
                              x.type = input.hop2 /\ Live(x) /\ x.dst = c}}
    IN  Along({[candidate |-> c, support |-> Cardinality(Supporters(c)),
                via |-> Along(Connectors(c), localeLess)] : c \in candidates}, Outranks)

-----------------------------------------------------------------------------
(* Properties. *)

Returned == stage = "done"

\* Nobody has written, and neither a hop type nor an id is empty (the client
\* drops the id "").
Quiet ==
    /\ writes = 0 /\ <<>> \notin {input.hop1, input.hop2}
    /\ \A e \in ToSet(edges) : NonEmpty(e.src) /\ NonEmpty(e.dst)

\* client.ts 279-358 with demo.ts 264-360: while nobody writes, the client's
\* composition of id sets gives the rows of the plain pipeline, in the same
\* order.  (deterministicOrd may differ: the extension orders bytes, the
\* pipeline as localeCompare does.)
ParityWhenQuiet ==
    Returned /\ Quiet =>
        [i \in DOMAIN result |-> [candidate |-> result[i].candidate,
                                  support |-> result[i].support, via |-> result[i].via]]
          = runNaiveTwoHopWithoutExtension

\* client.ts 300-356: whatever others write between the queries, no candidate
\* is a seed, a target or excluded, none comes twice, support never grows with
\* the rank, deterministicOrd numbers the candidates, and each comes from a path
\* that was there: a seed, a target, a node and the candidate, each edge a row
\* of the table at some time during the call.
RecommendsTheReachable ==
    /\ {result[j].ord : j \in DOMAIN result} = 1..Len(result)
    /\ \A i \in DOMAIN result :
        /\ result[i].candidate \notin ToSet(input.seeds \o targets \o input.exclude)
        /\ \A j \in DOMAIN result : i < j =>
             /\ result[i].candidate # result[j].candidate
             /\ result[i].support >= result[j].support
        /\ result[i].support > 0
        /\ \E a, b, c \in ever :
            /\ a.src \in ToSet(input.seeds) /\ FirstHop(a)
            /\ b.src = a.dst /\ c.src = b.dst
            /\ c.dst = result[i].candidate
=============================================================================
