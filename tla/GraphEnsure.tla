---------------------------- MODULE GraphEnsure ----------------------------
(***************************************************************************)
(* Schema ensure of packages/graph-db: planTable compares a table          *)
(* definition with the database and lists the statements that are missing; *)
(* ensureTable runs them one by one; GraphDb's ensure does so for every    *)
(* table of a spec inside one transaction.                                 *)
(*                                                                         *)
(* Clients have their own connections to one database.  A transaction      *)
(* works on the database as it was when it began and is refused when       *)
(* somebody else changed it meanwhile (SQLite's busy error).  ensureTable  *)
(* called by itself commits each statement, and others run in between.     *)
(*                                                                         *)
(* Left out: the order of the columns of a table and of an index (any      *)
(* order of the statements of one kind is tried), schemas other than       *)
(* main, and rows: whether a statement suits them is up to its failure.    *)
(***************************************************************************)
EXTENDS Naturals, Sequences, FiniteSets

CONSTANTS
    Clients,
    Tables, Columns, Indexes, Types,  \* names; column types, normalised
    None,
    Specs,     \* what tablesFromSpec gives for each spec: a sequence of tables
    MaxCalls   \* bound on the calls of ensure and ensureTable

\* ColumnDef, and a column as table_info gives it: defaults are not compared.
ColumnDefs == [type : Types, notNull : BOOLEAN, key : BOOLEAN]
Shapes     == [on : SUBSET Columns, unique : BOOLEAN]

\* TableDef, its replication resolved from the table, the spec or the default.
Definitions ==
    [name    : Tables,
     columns : UNION {[S -> ColumnDefs] : S \in SUBSET Columns},
     indexes : UNION {[S -> Shapes] : S \in SUBSET Indexes},
     crr     : BOOLEAN]

ASSUME Instance ==
    /\ Specs \subseteq Seq(Definitions) \ {<<>>}
    /\ None \notin ColumnDefs \cup Tables \cup Shapes \cup [table : Tables, shape : Shapes]
    /\ MaxCalls \in Nat

Databases ==
    [cols     : [Tables -> [Columns -> ColumnDefs \cup {None}]],
     index    : [Indexes -> [table : Tables, shape : Shapes] \cup {None}],
     altering : SUBSET Tables]   \* begin_alter was run, and no commit_alter

\* TablePlan: which statements of each kind are still to be run.
Plans ==
    [create : BOOLEAN, begin : BOOLEAN, alters : SUBSET Columns,
     commit : BOOLEAN, indexes : SUBSET Indexes]

NoPlan ==
    [create |-> FALSE, begin |-> FALSE, alters |-> {}, commit |-> FALSE, indexes |-> {}]

VARIABLES
    db,       \* what is committed
    pc,       \* client -> what it does next
    tx,       \* client -> it is in a transaction
    base,     \* client -> the database when its call began
    view,     \* client -> the database its transaction sees
    todo,     \* client -> the tables it has yet to ensure
    done,     \* client -> the tables its transaction has ensured
    owners,   \* client -> the owner of each index name, as it read it
    columns,  \* client -> the columns of the table, as it read them
    plan,     \* client -> the rest of the plan it is running
    outcome,  \* client -> how its last call ended
    ensured,  \* history: the tables of the calls that succeeded
    alone,    \* history: client -> nobody else changed db during its call
    clean,    \* history: no call outside a transaction failed or overlapped
    calls     \* number of calls

reading == <<owners, columns>>
call    == <<tx, base, view, todo, done, reading, plan>>
history == <<ensured, alone, clean>>
vars    == <<db, pc, call, outcome, history, calls>>

TypeOK ==
    /\ db \in Databases
    /\ pc \in [Clients -> {"idle", "owners", "table", "indexes", "run", "commit"}]
    /\ tx \in [Clients -> BOOLEAN]
    /\ base \in [Clients -> Databases] /\ view \in [Clients -> Databases]
    /\ todo \in [Clients -> Seq(Definitions)]
    /\ \A c \in Clients : pc[c] \in {"owners", "table", "indexes", "run"} => todo[c] # <<>>
    /\ done \in [Clients -> SUBSET Definitions]
    /\ owners \in [Clients -> [Indexes -> Tables \cup {None}]]
    /\ columns \in [Clients -> [Columns -> ColumnDefs \cup {None}]]
    /\ plan \in [Clients -> Plans]
    /\ \A c \in Clients :
         pc[c] = "run" => /\ plan[c].alters \subseteq DOMAIN Head(todo[c]).columns
                          /\ plan[c].indexes \subseteq DOMAIN Head(todo[c]).indexes
    /\ outcome \in [Clients -> {"none", "done", "incompatible", "refused", "failed"}]
    /\ ensured \subseteq Definitions
    /\ alone \in [Clients -> BOOLEAN] /\ clean \in BOOLEAN
    /\ calls \in 0 .. MaxCalls

NoColumns == [x \in Columns |-> None]
NoIndexes == [i \in Indexes |-> None]

\* A database where nothing has been ensured; rows and other tables are free.
Empty == [cols |-> [t \in Tables |-> NoColumns], index |-> NoIndexes, altering |-> {}]

Init ==
    /\ db = Empty
    /\ pc = [c \in Clients |-> "idle"]
    /\ tx = [c \in Clients |-> FALSE]
    /\ base = [c \in Clients |-> Empty] /\ view = [c \in Clients |-> Empty]
    /\ todo = [c \in Clients |-> <<>>] /\ done = [c \in Clients |-> {}]
    /\ owners = [c \in Clients |-> NoIndexes]
    /\ columns = [c \in Clients |-> NoColumns]
    /\ plan = [c \in Clients |-> NoPlan]
    /\ outcome = [c \in Clients |-> "none"]
    /\ ensured = {}
    /\ alone = [c \in Clients |-> TRUE] /\ clean = TRUE
    /\ calls = 0

----------------------------------------------------------------------------
(* planTable: what a definition lacks, and what of it cannot be had.       *)

HasKey(def) == \E x \in DOMAIN def.columns : def.columns[x].key

\* compareColumns: types must agree; NOT NULL and keys are asked for, or not.
Fits(want, have) ==
    /\ have.type = want.type
    /\ want.notNull => have.notNull
    /\ want.key => have.key

Lacks(def, cols) == {x \in DOMAIN def.columns : cols[x] = None}

ColumnsClash(def, cols) ==
    \E x \in DOMAIN def.columns : cols[x] # None /\ ~Fits(def.columns[x], cols[x])

\* Mutant: an index of that name on another table is not looked for.
IndexesClashByShape(def, owner, found) ==
    \E i \in DOMAIN def.indexes :
        \/ def.crr /\ def.indexes[i].unique
        \/ found[i] # None /\ found[i] # def.indexes[i]

\* compareIndexes: found are the indexes of the table itself.
IndexesClash(def, owner, found) ==
    \E i \in DOMAIN def.indexes :
        \/ def.crr /\ def.indexes[i].unique
        \/ found[i] # None /\ found[i] # def.indexes[i]
        \/ found[i] = None /\ owner[i] # None

Exists(cols) == \E x \in Columns : cols[x] # None

IndexesOf(d, t) ==
    [i \in Indexes |-> IF d.index[i] # None /\ d.index[i].table = t
                       THEN d.index[i].shape ELSE None]

OwnersIn(d) == [i \in Indexes |-> IF d.index[i] = None THEN None ELSE d.index[i].table]

\* Mutant: the alteration of a single column is not committed.
PlanUnpaired(def, cols, found) ==
    LET more == Exists(cols) /\ Lacks(def, cols) # {}
    IN  [create  |-> ~Exists(cols),
         begin   |-> def.crr /\ more,
         alters  |-> IF more THEN Lacks(def, cols) ELSE {},
         commit  |-> def.crr /\ Cardinality(Lacks(def, cols)) > 1,
         indexes |-> {i \in DOMAIN def.indexes : found[i] = None}]

PlanOf(def, cols, found) ==
    LET more == Exists(cols) /\ Lacks(def, cols) # {}
    IN  [create  |-> ~Exists(cols),
         begin   |-> def.crr /\ more,
         alters  |-> IF more THEN Lacks(def, cols) ELSE {},
         commit  |-> def.crr /\ more,
         indexes |-> {i \in DOMAIN def.indexes : found[i] = None}]

----------------------------------------------------------------------------
(* Calls.                                                                  *)

Sees(c) == IF tx[c] THEN view[c] ELSE db
Def(c)  == Head(todo[c])

Idle == \A c \in Clients : pc[c] = "idle"

Calls(c, inTx, tables) ==
    /\ pc[c] = "idle"
    /\ calls < MaxCalls
    /\ calls' = calls + 1
    /\ pc' = [pc EXCEPT ![c] = "owners"]
    /\ tx' = [tx EXCEPT ![c] = inTx]
    /\ base' = [base EXCEPT ![c] = db]
    /\ view' = [view EXCEPT ![c] = db]
    /\ todo' = [todo EXCEPT ![c] = tables]
    /\ outcome' = [outcome EXCEPT ![c] = "none"]
    /\ alone' = [alone EXCEPT ![c] = TRUE]
    /\ clean' = (/\ clean
                  /\ \/ Idle
                     \/ inTx /\ \A d \in Clients : pc[d] = "idle" \/ tx[d])
    /\ UNCHANGED <<db, done, reading, plan, ensured>>

\* GraphDb's ensure, and the dialect's ensureTable by itself.
Ensure(c)      == \E s \in Specs : Calls(c, TRUE, s)
EnsureTable(c) == \E s \in Specs : \E k \in DOMAIN s : Calls(c, FALSE, <<s[k]>>)

\* The call is over, and what it held is gone with it: a failed transaction too.
Ends(c, how) ==
    /\ pc' = [pc EXCEPT ![c] = "idle"]
    /\ outcome' = [outcome EXCEPT ![c] = how]
    /\ clean' = (clean /\ (tx[c] \/ how = "done"))
    /\ base' = [base EXCEPT ![c] = Empty] /\ view' = [view EXCEPT ![c] = Empty]
    /\ todo' = [todo EXCEPT ![c] = <<>>] /\ done' = [done EXCEPT ![c] = {}]
    /\ owners' = [owners EXCEPT ![c] = NoIndexes]
    /\ columns' = [columns EXCEPT ![c] = NoColumns]
    /\ plan' = [plan EXCEPT ![c] = NoPlan]
    /\ UNCHANGED <<tx, calls>>

Goes(c, from, to) ==
    /\ pc[c] = from
    /\ pc' = [pc EXCEPT ![c] = to]
    /\ UNCHANGED <<tx, base, outcome, clean, calls>>

\* planTable, then readExistingState: sqlite_master, the table, its indexes.
ReadOwners(c) ==
    /\ pc[c] = "owners"
    /\ UNCHANGED <<db, ensured, alone>>
    /\ IF HasKey(Def(c))
       THEN /\ Goes(c, "owners", "table")
            /\ owners' = [owners EXCEPT ![c] = OwnersIn(Sees(c))]
            /\ UNCHANGED <<view, todo, done, columns, plan>>
       ELSE Ends(c, "incompatible")

ReadTable(c) ==
    /\ Goes(c, "table", "indexes")
    /\ columns' = [columns EXCEPT ![c] = Sees(c).cols[Def(c).name]]
    /\ UNCHANGED <<db, view, todo, done, owners, plan, ensured, alone>>

\* The indexes of a table that was not there are not read.
ReadIndexes(c) ==
    LET found == IF Exists(columns[c]) THEN IndexesOf(Sees(c), Def(c).name)
                 ELSE NoIndexes
    IN  /\ pc[c] = "indexes"
        /\ UNCHANGED <<db, ensured, alone>>
        /\ IF ColumnsClash(Def(c), columns[c]) \/ IndexesClash(Def(c), owners[c], found)
           THEN Ends(c, "incompatible")
           ELSE /\ Goes(c, "indexes", "run")
                /\ plan' = [plan EXCEPT ![c] = PlanOf(Def(c), columns[c], found)]
                /\ UNCHANGED <<view, todo, done, reading>>

----------------------------------------------------------------------------
(* The statements of a plan, and what SQLite makes of them.                *)

\* c's statement turns the database it sees into d; rest is left of the plan.
Runs(c, d, rest) ==
    /\ Goes(c, "run", "run")
    /\ plan' = [plan EXCEPT ![c] = rest]
    /\ IF tx[c]
       THEN view' = [view EXCEPT ![c] = d] /\ UNCHANGED <<db, alone>>
       ELSE /\ db' = d
            /\ alone' = [e \in Clients |-> alone[e] /\ (e = c \/ d = db)]
            /\ UNCHANGED view
    /\ UNCHANGED <<todo, done, reading, ensured>>

\* Mutant: columnSql forgets NOT NULL.
AsNullable(def) ==
    [x \in Columns |-> IF x \in DOMAIN def.columns
                       THEN [def.columns[x] EXCEPT !.notNull = FALSE] ELSE None]

AsStored(def) ==
    [x \in Columns |-> IF x \in DOMAIN def.columns THEN def.columns[x] ELSE None]

\* columnSql writes PRIMARY KEY behind every key column: one is all it can be.
OneKey(def) == Cardinality({x \in DOMAIN def.columns : def.columns[x].key}) = 1

CreateTable(c) ==
    LET d   == Sees(c)
        t   == Def(c).name
        new == IF Exists(d.cols[t]) THEN d
               ELSE [d EXCEPT !.cols[t] = AsStored(Def(c))]
    IN  /\ plan[c].create
        /\ Exists(d.cols[t]) \/ OneKey(Def(c))
        /\ Runs(c, new, [plan[c] EXCEPT !.create = FALSE])

BeginAlter(c) ==
    /\ plan[c].begin
    /\ Runs(c, [Sees(c) EXCEPT !.altering = @ \cup {Def(c).name}],
            [plan[c] EXCEPT !.begin = FALSE])

\* ADD COLUMN adds no key.  (NOT NULL without a default is up to the rows.)
CanAdd(def, x, cols) == cols[x] = None /\ ~def.columns[x].key

AddColumn(c, x) ==
    LET d == Sees(c)
        t == Def(c).name
    IN  /\ ~plan[c].begin /\ x \in plan[c].alters
        /\ CanAdd(Def(c), x, d.cols[t])
        /\ Runs(c, [d EXCEPT !.cols[t][x] = AsStored(Def(c))[x]],
                [plan[c] EXCEPT !.alters = @ \ {x}])

CommitAlter(c) ==
    /\ plan[c].commit /\ plan[c].alters = {}
    /\ Runs(c, [Sees(c) EXCEPT !.altering = @ \ {Def(c).name}],
            [plan[c] EXCEPT !.commit = FALSE])

\* Mutant: the index is dropped before it is created.
CreateIndexAgain(c, i) ==
    LET t     == Def(c).name
        shape == Def(c).indexes[i]
    IN  /\ plan[c] = [NoPlan EXCEPT !.indexes = plan[c].indexes] /\ i \in plan[c].indexes
        /\ \A x \in shape.on : Sees(c).cols[t][x] # None
        /\ Runs(c, [Sees(c) EXCEPT !.index[i] = [table |-> t, shape |-> shape]],
                [plan[c] EXCEPT !.indexes = @ \ {i}])

\* IF NOT EXISTS: an index of that name, on whatever table, is left alone.
CreateIndex(c, i) ==
    LET d     == Sees(c)
        t     == Def(c).name
        shape == Def(c).indexes[i]
    IN  /\ plan[c] = [NoPlan EXCEPT !.indexes = plan[c].indexes] /\ i \in plan[c].indexes
        /\ d.index[i] # None \/ \A x \in shape.on : d.cols[t][x] # None
        /\ Runs(c, IF d.index[i] # None THEN d
                   ELSE [d EXCEPT !.index[i] = [table |-> t, shape |-> shape]],
                [plan[c] EXCEPT !.indexes = @ \ {i}])

\* The statement whose turn it is cannot be executed, whatever the rows.
Refused(c) ==
    LET d == Sees(c)
        t == Def(c).name
        p == plan[c]
    IN  /\ pc[c] = "run"
        /\ \/ p.create /\ ~Exists(d.cols[t]) /\ ~OneKey(Def(c))
           \/ ~p.begin /\ \E x \in p.alters : ~CanAdd(Def(c), x, d.cols[t])
           \/ /\ p = [NoPlan EXCEPT !.indexes = p.indexes]
              /\ \E i \in p.indexes :
                   d.index[i] = None /\ \E x \in Def(c).indexes[i].on : d.cols[t][x] = None
        /\ Ends(c, "refused")
        /\ UNCHANGED <<db, ensured, alone>>

\* A query or a statement fails for a reason of its own (a lock, a full disk,
\* rows that do not suit it, a missing extension), or the process dies.
Fails(c) ==
    /\ pc[c] # "idle"
    /\ Ends(c, "failed")
    /\ UNCHANGED <<db, ensured, alone>>

\* The table is ensured; on to the next, or to the end of the call.
NextTable(c) ==
    /\ pc[c] = "run" /\ plan[c] = NoPlan
    /\ UNCHANGED <<db, alone>>
    /\ IF tx[c]
       THEN /\ Goes(c, "run", IF Tail(todo[c]) = <<>> THEN "commit" ELSE "owners")
            /\ todo' = [todo EXCEPT ![c] = Tail(@)]
            /\ done' = [done EXCEPT ![c] = @ \cup {Def(c)}]
            /\ UNCHANGED <<view, reading, plan, ensured>>
       ELSE /\ Ends(c, "done")
            /\ ensured' = IF alone[c] THEN ensured \cup {Def(c)} ELSE ensured

\* A transaction that wrote something commits on the database it began with.
Commit(c) ==
    /\ pc[c] = "commit"
    /\ view[c] = base[c] \/ db = base[c]
    /\ db' = IF view[c] = base[c] THEN db ELSE view[c]
    /\ alone' = [e \in Clients |-> alone[e] /\ (e = c \/ view[c] = base[c])]
    /\ ensured' = ensured \cup done[c]
    /\ Ends(c, "done")

Next ==
    \E c \in Clients :
        \/ Ensure(c) \/ EnsureTable(c)
        \/ ReadOwners(c) \/ ReadTable(c) \/ ReadIndexes(c)
        \/ CreateTable(c) \/ BeginAlter(c) \/ CommitAlter(c)
        \/ \E x \in Columns : AddColumn(c, x)
        \/ \E i \in Indexes : CreateIndex(c, i)
        \/ Refused(c) \/ Fails(c)
        \/ NextTable(c) \/ Commit(c)

Spec == Init /\ [][Next]_vars

----------------------------------------------------------------------------
(* Properties.  ensured holds the tables of every call that succeeded: in a *)
(* transaction, or while nobody else changed the database.                 *)

\* What a definition asks for, whatever statements were chosen to get it.
Provided(def, d) ==
    /\ \A x \in DOMAIN def.columns :
         LET want == def.columns[x]
             have == d.cols[def.name][x]
         IN  have # None /\ have.type = want.type
             /\ (want.notNull => have.notNull) /\ (want.key => have.key)
    /\ \A i \in DOMAIN def.indexes :
         d.index[i] = [table |-> def.name, shape |-> def.indexes[i]]

\* A call that succeeded left what its tables ask for, whatever was there
\* before (a part of an interrupted call, say), and no later call of any client,
\* for any spec, takes it away (ensureTable, GraphDb's ensure).
EnsuredIsProvided ==
    \A def \in ensured : Provided(def, db)

\* Ensuring them once more finds nothing to do and nothing to object to: the
\* statements give back, when they are read, what they were planned for
\* (compareColumns and compareIndexes after columnSql and createIndexSql).
EnsuredIsSettled ==
    \A def \in ensured :
        LET cols  == db.cols[def.name]
            found == IndexesOf(db, def.name)
        IN  /\ PlanOf(def, cols, found) = NoPlan
            /\ ~ColumnsClash(def, cols) /\ ~IndexesClash(def, OwnersIn(db), found)

\* Calls in transactions may fail at any point, and the others when none of
\* them fails or overlaps another call: no table is left between begin_alter
\* and commit_alter (the wrapped statements of planTable).
AlteringEnds ==
    clean /\ Idle => db.altering = {}

\* "expand-only migrations": no step of anybody drops or changes a column or
\* an index.
ExpandsOnly ==
    [][/\ \A t \in Tables, x \in Columns :
            db.cols[t][x] # None => db'.cols[t][x] = db.cols[t][x]
       /\ \A i \in Indexes : db.index[i] # None => db'.index[i] = db.index[i]]_vars
=============================================================================
