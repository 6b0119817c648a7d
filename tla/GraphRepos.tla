----------------------------- MODULE GraphRepos -----------------------------
(***************************************************************************)
(* The repositories of packages/graph-db: nodes by kind and id             *)
(* (nodeRepo.ts) and edges by a deterministic id (edgeRepo.ts).            *)
(*                                                                         *)
(* Texts are sequences of characters.  A table of nodes is a function from *)
(* columns to [notNull, default], its rows one from ids: the id column of  *)
(* a definition is taken for the key of its table.  A schema is a struct   *)
(* of "required", "optional" (absent or a text) and "nullable" fields; a   *)
(* definition also says whether its schema encodes to a record at all.  A  *)
(* result that may be missing is a set of at most one value.  The hashes   *)
(* in the id of an edge are taken for injective.  Left out: schemas of a   *)
(* database, values that SQLite stores as another type.                    *)
(***************************************************************************)
EXTENDS Naturals, SequencesExt

Null == "null"
NUL == "nul"

-----------------------------------------------------------------------------
(* edgeRepo.ts *)

\* JSON.stringify: NULL (the empty text) for what has no JSON; the order of keys
\* counts.  It throws for what is not listed.
Stringify == [p \in {"undefined", "function"} |-> <<>>] @@ "null" :> <<"null">>
             @@ "since, until" :> <<"{">> @@ "until, since" :> <<"}">>
Parse == <<"null">> :> "null" @@ [json \in {<<"{">>, <<"}">>} |-> "interval"]

encodePropsJson(props) == {Stringify[p] : p \in {props} \cap DOMAIN Stringify}
decodePropsJson(json) == IF json = <<>> THEN {"null"} ELSE {Parse[j] : j \in {json} \cap DOMAIN Parse}

deterministicEdgeId(type, src, dst, json) ==
    <<type \o <<NUL>> \o src \o <<NUL>> \o dst \o <<NUL>> \o json, dst>>

Edge(type, src, dst, json) == [type |-> type, src |-> src, dst |-> dst, json |-> json]

\* ON CONFLICT (id) DO NOTHING
insertEdge(table, id, edge) == IF id \in DOMAIN table THEN table ELSE id :> edge @@ table

\* The table after put, and the id it gives.
putEdge(table, type, src, dst, props) ==
    LET ids == {deterministicEdgeId(type, src, dst, json) : json \in encodePropsJson(props)}
    IN  [id |-> ids,
         table |-> IF ids = {} THEN table
                   ELSE insertEdge(table, CHOOSE id \in ids : TRUE,
                                   Edge(type, src, dst, CHOOSE json \in encodePropsJson(props) : TRUE))]

\* The rows as edges; one that cannot be read fails the query.
toEdges(table, ids) ==
    IF \E id \in ids : decodePropsJson(table[id].json) = {} THEN {}
    ELSE {{[id |-> id, type |-> table[id].type, src |-> table[id].src, dst |-> table[id].dst,
            props |-> CHOOSE p \in decodePropsJson(table[id].json) : TRUE] : id \in ids}}

\* types is empty when the caller gives none.
outEdges(table, src, types) ==
    toEdges(table, {id \in DOMAIN table : table[id].src = src /\ \A t \in types : table[id].type = t})
inEdges(table, dst, types) ==
    toEdges(table, {id \in DOMAIN table : table[id].dst = dst /\ \A t \in types : table[id].type = t})

-----------------------------------------------------------------------------
(* nodeRepo.ts *)

resolveNodeDef(spec, kind) ==
    LET same == SelectSeq(spec, LAMBDA node : node.kind = kind) IN IF same = <<>> THEN {} ELSE {Head(same)}

\* What a struct accepts, encoding or decoding.
Accepts(schema, value) ==
    \A f \in DOMAIN schema :
        IF f \in DOMAIN value THEN value[f] # Null \/ schema[f] = "nullable" ELSE schema[f] = "optional"
Struct(schema, value) == [f \in DOMAIN schema \cap DOMAIN value |-> value[f]]

\* What INSERT refuses, also when the row is there already.
Inserted(table, row) ==
    [c \in DOMAIN table |-> IF c \in DOMAIN row THEN row[c] ELSE table[c].default]
Refuses(table, row) ==
    \/ ~ DOMAIN row \subseteq DOMAIN table
    \/ \E c \in DOMAIN table : table[c].notNull /\ Inserted(table, row)[c] = Null

\* Mutant: the row that is there is replaced.
replaceRow(rows, table, row, idColumn) == row[idColumn] :> Inserted(table, row) @@ rows

\* A row that is there gets the columns that were encoded and keeps the others.
upsert(rows, table, row, idColumn) ==
    LET id == row[idColumn]
    IN  IF id \in DOMAIN rows THEN [rows EXCEPT ![id] = row @@ @] ELSE id :> Inserted(table, row) @@ rows

\* The error of put, or none.
putError(spec, tables, kind, value) ==
    LET found == resolveNodeDef(spec, kind)
        node == CHOOSE n \in found : TRUE
        row == Struct(node.schema, value)
    IN  CASE found = {} -> "node.lookup"
          [] found # {} /\ ~ Accepts(node.schema, value) -> "SchemaError"
          [] found # {} /\ ~ node.record -> "node.encode"
          [] DOMAIN row = {} \/ node.idColumn \notin DOMAIN row -> "node.put"
          [] Refuses(tables[node.table], row) -> "SqlError"
          [] OTHER -> "none"

putNode(store, spec, tables, kind, value) ==
    IF putError(spec, tables, kind, value) # "none" THEN store
    ELSE LET node == CHOOSE n \in resolveNodeDef(spec, kind) : TRUE
         IN  [store EXCEPT ![node.table] =
                 upsert(@, tables[node.table], Struct(node.schema, value), node.idColumn)]

\* The row of an id, decoded: an error, or at most one value.
queryById(store, spec, kind, id) ==
    LET found == resolveNodeDef(spec, kind)
        node == CHOOSE n \in found : TRUE
        rows == {store[node.table][i] : i \in {id} \cap DOMAIN store[node.table]}
    IN  CASE found = {} -> [error |-> "node.lookup", value |-> {}]
          [] \E row \in rows : ~ Accepts(node.schema, row) -> [error |-> "SchemaError", value |-> {}]
          [] OTHER -> [error |-> "none", value |-> {Struct(node.schema, row) : row \in rows}]

-----------------------------------------------------------------------------
(* Properties. *)

\* Texts with a NUL in them can make two edges one.
Plainly(text) == NUL \notin Range(text)

\* edgeRepo.ts 59-228: whatever was put, in whatever order and however often, an
\* edge is read once for each type, source, destination and JSON it was put with,
\* forwards and backwards, and put gives the id it is read with.
EdgesAreRead(puts) ==
    LET put(table, p) == putEdge(table, p.type, p.src, p.dst, p.props).table
        table == FoldLeft(put, <<>>, puts)
        stored == {p \in Range(puts) : encodePropsJson(p.props) # {}}
        made(p) == [type |-> p.type, src |-> p.src, dst |-> p.dst, json |-> encodePropsJson(p.props)]
        ends == {p.src : p \in Range(puts)} \cup {p.dst : p \in Range(puts)}
        types == {{}} \cup {{p.type} : p \in Range(puts)}
    IN  (\A p \in Range(puts) : Plainly(p.type) /\ Plainly(p.src))
        => \A e \in ends, t \in types :
               LET out == UNION outEdges(table, e, t)
                   in == UNION inEdges(table, e, t)
                   from == {p \in stored : p.src = e /\ p.type \in (IF t = {} THEN {p.type} ELSE t)}
                   into == {p \in stored : p.dst = e /\ p.type \in (IF t = {} THEN {p.type} ELSE t)}
               IN  /\ Cardinality(out) = Cardinality({made(p) : p \in from})
                   /\ Cardinality(in) = Cardinality({made(p) : p \in into})
                   /\ \A p \in from : \E edge \in out :
                          /\ edge.type = p.type /\ edge.dst = p.dst
                          /\ edge.props = (CHOOSE v \in decodePropsJson(CHOOSE j \in encodePropsJson(p.props) : TRUE) : TRUE)
                          /\ {edge.id} = putEdge(table, p.type, p.src, p.dst, p.props).id

\* nodeRepo.ts 28-140: of the kinds that share a table each writes its own columns
\* and no others; a field is read as it was put last by a kind that has it, a put
\* that fails changes nothing.
NodesAreRead(spec, tables, puts, kind, id) ==
    LET put(store, p) == putNode(store, spec, tables, p.kind, p.value)
        store == FoldLeft(put, [t \in DOMAIN tables |-> <<>>], puts)
        defOf(k) == CHOOSE n \in resolveNodeDef(spec, k) : TRUE
        node == defOf(kind)
        mine == SelectSeq(puts, LAMBDA p : /\ putError(spec, tables, p.kind, p.value) = "none"
                                           /\ defOf(p.kind).table = node.table
                                           /\ p.value[node.idColumn] = id)
        last(f) == LET having == SelectSeq(mine, LAMBDA p : f \in DOMAIN p.value \cap DOMAIN defOf(p.kind).schema)
                   IN  IF having = <<>> THEN tables[node.table][f].default ELSE Last(having).value[f]
        expected == [f \in DOMAIN node.schema |-> last(f)]
    IN  (\E n \in Range(spec) : n.kind = kind) =>
            queryById(store, spec, kind, id) =
                IF mine = <<>> THEN [error |-> "none", value |-> {}]
                ELSE IF Accepts(node.schema, expected) THEN [error |-> "none", value |-> {expected}]
                ELSE [error |-> "SchemaError", value |-> {}]
=============================================================================
