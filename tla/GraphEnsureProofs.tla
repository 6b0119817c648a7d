------------------------- MODULE GraphEnsureProofs -------------------------
(***************************************************************************)
(* Proofs about GraphEnsure for any clients, specs, names and bounds: the  *)
(* database only grows, what a call has ensured stays provided and needs   *)
(* nothing more, and an alteration that begins is committed.               *)
(***************************************************************************)
EXTENDS GraphEnsure, TLAPS

USE Instance

----------------------------------------------------------------------------
(* Definitions and databases.                                              *)

\* What is known of the columns and indexes a definition names.
LEMMA DefinitionParts ==
    ASSUME NEW def \in Definitions
    PROVE  /\ def.name \in Tables /\ def.crr \in BOOLEAN
           /\ DOMAIN def.columns \subseteq Columns
           /\ \A x \in DOMAIN def.columns : def.columns[x] \in ColumnDefs
           /\ DOMAIN def.indexes \subseteq Indexes
           /\ \A i \in DOMAIN def.indexes : def.indexes[i] \in Shapes
<1>1. PICK S \in SUBSET Columns : def.columns \in [S -> ColumnDefs]
    BY DEF Definitions
<1>2. PICK T \in SUBSET Indexes : def.indexes \in [T -> Shapes]
    BY DEF Definitions
<1> QED
    BY <1>1, <1>2 DEF Definitions

\* The columns a definition asks for, as they are stored.
LEMMA AsStoredType ==
    ASSUME NEW def \in Definitions
    PROVE  AsStored(def) \in [Columns -> ColumnDefs \cup {None}]
BY DefinitionParts DEF AsStored

LEMMA EmptyType == Empty \in Databases
BY DEF Empty, Databases, NoColumns, NoIndexes

LEMMA ReadTypes ==
    ASSUME NEW d \in Databases, NEW t \in Tables
    PROVE  /\ OwnersIn(d) \in [Indexes -> Tables \cup {None}]
           /\ d.cols[t] \in [Columns -> ColumnDefs \cup {None}]
           /\ IndexesOf(d, t) \in [Indexes -> Shapes \cup {None}]
BY DEF OwnersIn, IndexesOf, Databases

LEMMA PlanTypes ==
    ASSUME NEW def \in Definitions, NEW cols, NEW found
    PROVE  /\ PlanOf(def, cols, found) \in Plans /\ NoPlan \in Plans
           /\ PlanOf(def, cols, found).alters \subseteq DOMAIN def.columns
           /\ PlanOf(def, cols, found).indexes \subseteq DOMAIN def.indexes
BY DefinitionParts DEF PlanOf, NoPlan, Plans, Exists, Lacks

\* e holds all that d holds.
Grows(d, e) ==
    /\ \A t \in Tables, x \in Columns : d.cols[t][x] # None => e.cols[t][x] = d.cols[t][x]
    /\ \A i \in Indexes : d.index[i] # None => e.index[i] = d.index[i]

LEMMA GrowsItself == \A d : Grows(d, d)
BY DEF Grows

LEMMA GrowsOn ==
    ASSUME NEW d, NEW e, NEW f, Grows(d, e), Grows(e, f)
    PROVE  Grows(d, f)
BY DEF Grows

\* What is provided stays so while the database grows.
LEMMA ProvidedStays ==
    ASSUME NEW def \in Definitions, NEW d, NEW e, Provided(def, d), Grows(d, e)
    PROVE  Provided(def, e)
<1>1. \A i \in DOMAIN def.indexes : d.index[i] # None
    <2> SUFFICES ASSUME NEW i \in DOMAIN def.indexes
                 PROVE  d.index[i] # None
        OBVIOUS
    <2>1. [table |-> def.name, shape |-> def.indexes[i]] \in [table : Tables, shape : Shapes]
        BY DefinitionParts
    <2> QED
        BY <2>1 DEF Provided, Instance
<1> QED
    BY <1>1, DefinitionParts DEF Provided, Grows

----------------------------------------------------------------------------
(* The statements: the database grows, and what they leave undone is still  *)
(* in the plan.                                                            *)

\* What the rest of a plan is for: every column wanted is there, or one of the
\* statements adds it; so is every index, and none of them has its name taken.
Planned(def, d, p) ==
    /\ p.create => p.alters = {}
    /\ \A x \in DOMAIN def.columns :
         LET have == d.cols[def.name][x]
         IN  IF have = None
             THEN x \in p.alters \/ (p.create /\ ~Exists(d.cols[def.name]))
             ELSE Fits(def.columns[x], have)
    /\ \A i \in DOMAIN def.indexes :
         IF i \in p.indexes THEN d.index[i] = None
         ELSE d.index[i] = [table |-> def.name, shape |-> def.indexes[i]]

\* A plan made from what the database holds is enough for the definition.
LEMMA PlanIsEnough ==
    ASSUME NEW def \in Definitions, NEW d \in Databases,
           NEW cols, cols = d.cols[def.name],
           NEW found, found = IF Exists(cols) THEN IndexesOf(d, def.name) ELSE NoIndexes,
           ~ColumnsClash(def, cols), ~IndexesClash(def, OwnersIn(d), found)
    PROVE  Planned(def, d, PlanOf(def, cols, found))
<1>1. /\ def.name \in Tables /\ DOMAIN def.columns \subseteq Columns
      /\ DOMAIN def.indexes \subseteq Indexes
    BY DefinitionParts
<1>2. ASSUME NEW x \in DOMAIN def.columns
      PROVE  IF cols[x] = None
             THEN \/ x \in PlanOf(def, cols, found).alters
                  \/ PlanOf(def, cols, found).create /\ ~Exists(cols)
             ELSE Fits(def.columns[x], cols[x])
    BY DEF ColumnsClash, PlanOf, Lacks
<1>3. ASSUME NEW i \in DOMAIN def.indexes
      PROVE  IF found[i] = None THEN d.index[i] = None
             ELSE d.index[i] = [table |-> def.name, shape |-> def.indexes[i]]
    <2>1. d.index[i] \in [table : Tables, shape : Shapes] \cup {None} /\ i \in Indexes
        BY <1>1 DEF Databases
    <2>2. CASE found[i] = None
        <3>1. OwnersIn(d)[i] = None
            BY <2>2 DEF IndexesClash
        <3> QED
            BY <2>1, <2>2, <3>1 DEF OwnersIn, Instance
    <2>3. CASE found[i] # None
        <3>1. found[i] = def.indexes[i]
            BY <2>3 DEF IndexesClash
        <3>2. Exists(cols)
            BY <2>1, <2>3 DEF NoIndexes
        <3>3. found[i] = IF d.index[i] # None /\ d.index[i].table = def.name
                         THEN d.index[i].shape ELSE None
            BY <2>1, <3>2 DEF IndexesOf
        <3>4. d.index[i] # None /\ d.index[i].table = def.name /\ d.index[i].shape = found[i]
            BY <2>3, <3>3
        <3> QED
            BY <2>1, <2>3, <3>1, <3>4
    <2> QED
        BY <2>2, <2>3
<1>4. \A i \in DOMAIN def.indexes : i \in PlanOf(def, cols, found).indexes <=> found[i] = None
    BY DEF PlanOf
<1>5. PlanOf(def, cols, found).create => PlanOf(def, cols, found).alters = {}
    BY DEF PlanOf
<1> QED
    BY <1>2, <1>3, <1>4, <1>5 DEF Planned

\* Nothing is left to be run: the definition is provided.
LEMMA NothingLeft ==
    ASSUME NEW def, NEW d, Planned(def, d, NoPlan)
    PROVE  Provided(def, d)
BY DEF Planned, Provided, NoPlan, Fits

LEMMA StoredFits ==
    ASSUME NEW def \in Definitions, NEW x \in DOMAIN def.columns
    PROVE  AsStored(def)[x] # None /\ Fits(def.columns[x], AsStored(def)[x])
<1>1. x \in Columns /\ def.columns[x] \in ColumnDefs
    BY DefinitionParts
<1>2. AsStored(def)[x] = def.columns[x]
    BY <1>1 DEF AsStored
<1> QED
    BY <1>1, <1>2 DEF Instance, Fits

\* A statement of def turns d into e and leaves rest of the plan p.
Advances(def, d, p, e, rest) ==
    Grows(d, e) /\ (Planned(def, d, p) => Planned(def, e, rest))

LEMMA CreateTableAdvances ==
    ASSUME NEW def \in Definitions, NEW d \in Databases, NEW p \in Plans, p.create
    PROVE  Advances(def, d, p,
                    IF Exists(d.cols[def.name]) THEN d
                    ELSE [d EXCEPT !.cols[def.name] = AsStored(def)],
                    [p EXCEPT !.create = FALSE])
<1> DEFINE t    == def.name
           e    == IF Exists(d.cols[t]) THEN d ELSE [d EXCEPT !.cols[t] = AsStored(def)]
           rest == [p EXCEPT !.create = FALSE]
<1>1. /\ t \in Tables /\ DOMAIN def.columns \subseteq Columns
    BY DefinitionParts
<1>2. rest.create = FALSE /\ rest.alters = p.alters /\ rest.indexes = p.indexes
    BY DEF Plans
<1>3. CASE Exists(d.cols[t])
    BY <1>2, <1>3 DEF Advances, Grows, Planned
<1>4. CASE ~Exists(d.cols[t])
    <2>1. /\ e.cols = [d.cols EXCEPT ![t] = AsStored(def)] /\ e.index = d.index
        BY <1>4 DEF Databases
    <2>2. e.cols[t] = AsStored(def) /\ \A u \in Tables : u # t => e.cols[u] = d.cols[u]
        BY <1>1, <2>1 DEF Databases
    <2>3. \A x \in Columns : d.cols[t][x] = None
        BY <1>4 DEF Exists
    <2>4. Grows(d, e)
        BY <2>1, <2>2, <2>3 DEF Grows
    <2>5. Planned(def, d, p) => Planned(def, e, rest)
        <3> HIDE DEF e, rest
        <3> QED
            BY <1>2, <2>1, <2>2, StoredFits DEF Planned
    <2> QED
        BY <1>4, <2>4, <2>5 DEF Advances
<1> QED
    BY <1>3, <1>4

LEMMA AddColumnAdvances ==
    ASSUME NEW def \in Definitions, NEW d \in Databases, NEW p \in Plans,
           NEW x \in DOMAIN def.columns, x \in p.alters, d.cols[def.name][x] = None
    PROVE  Advances(def, d, p, [d EXCEPT !.cols[def.name][x] = AsStored(def)[x]],
                    [p EXCEPT !.alters = @ \ {x}])
<1> DEFINE t    == def.name
           e    == [d EXCEPT !.cols[t][x] = AsStored(def)[x]]
           rest == [p EXCEPT !.alters = @ \ {x}]
<1>1. /\ t \in Tables /\ DOMAIN def.columns \subseteq Columns
    BY DefinitionParts
<1>2. rest.create = p.create /\ rest.alters = p.alters \ {x} /\ rest.indexes = p.indexes
    BY DEF Plans
<1>3. /\ e.cols = [d.cols EXCEPT ![t] = [d.cols[t] EXCEPT ![x] = AsStored(def)[x]]]
      /\ e.index = d.index
    BY DEF Databases
<1>4. /\ \A u \in Tables : u # t => e.cols[u] = d.cols[u]
      /\ e.cols[t][x] = AsStored(def)[x]
      /\ \A y \in Columns : y # x => e.cols[t][y] = d.cols[t][y]
    BY <1>1, <1>3 DEF Databases
<1> HIDE DEF e, rest
<1>5. Grows(d, e)
    BY <1>1, <1>3, <1>4 DEF Grows
<1>6. ASSUME Planned(def, d, p)
      PROVE  Planned(def, e, rest)
    <2>1. ~p.create
        BY <1>6 DEF Planned
    <2>2. ASSUME NEW y \in DOMAIN def.columns
          PROVE  IF e.cols[t][y] = None THEN y \in rest.alters
                 ELSE Fits(def.columns[y], e.cols[t][y])
        <3>1. CASE y = x
            BY <1>4, <3>1, StoredFits
        <3>2. CASE y # x
            BY <1>1, <1>2, <1>4, <1>6, <2>1, <3>2 DEF Planned
        <3> QED
            BY <3>1, <3>2
    <2> QED
        BY <1>2, <1>3, <1>6, <2>1, <2>2 DEF Planned
<1> QED
    BY <1>5, <1>6 DEF Advances, e, rest

LEMMA CreateIndexAdvances ==
    ASSUME NEW def \in Definitions, NEW d \in Databases, NEW p \in Plans,
           NEW i \in DOMAIN def.indexes, i \in p.indexes
    PROVE  Advances(def, d, p,
                    IF d.index[i] # None THEN d
                    ELSE [d EXCEPT !.index[i] = [table |-> def.name, shape |-> def.indexes[i]]],
                    [p EXCEPT !.indexes = @ \ {i}])
<1> DEFINE new  == [table |-> def.name, shape |-> def.indexes[i]]
           e    == IF d.index[i] # None THEN d ELSE [d EXCEPT !.index[i] = new]
           rest == [p EXCEPT !.indexes = @ \ {i}]
<1>1. DOMAIN def.indexes \subseteq Indexes
    BY DefinitionParts
<1>2. rest.create = p.create /\ rest.alters = p.alters /\ rest.indexes = p.indexes \ {i}
    BY DEF Plans
<1>3. CASE d.index[i] # None
    BY <1>3, GrowsItself DEF Advances, Planned
<1>4. CASE d.index[i] = None
    <2>1. e.cols = d.cols /\ e.index = [d.index EXCEPT ![i] = new]
        BY <1>4 DEF Databases
    <2>2. e.index[i] = new /\ \A j \in Indexes : j # i => e.index[j] = d.index[j]
        BY <1>1, <2>1 DEF Databases
    <2>3. Grows(d, e)
        BY <1>4, <2>1, <2>2 DEF Grows
    <2>4. ASSUME Planned(def, d, p)
          PROVE  Planned(def, e, rest)
        <3> HIDE DEF e, rest
        <3>1. ASSUME NEW j \in DOMAIN def.indexes
              PROVE  IF j \in rest.indexes THEN e.index[j] = None
                     ELSE e.index[j] = [table |-> def.name, shape |-> def.indexes[j]]
            BY <1>1, <1>2, <2>2, <2>4, <3>1 DEF Planned
        <3> QED
            BY <1>2, <2>1, <2>4, <3>1 DEF Planned
    <2> HIDE DEF e, rest
    <2>5. Advances(def, d, p, e, rest)
        BY <2>3, <2>4 DEF Advances
    <2> QED
        BY <2>5 DEF e, rest
<1> QED
    BY <1>3, <1>4

LEMMA AlterAdvances ==
    ASSUME NEW def \in Definitions, NEW d \in Databases, NEW p \in Plans, NEW A
    PROVE  /\ Advances(def, d, p, [d EXCEPT !.altering = A], [p EXCEPT !.begin = FALSE])
           /\ Advances(def, d, p, [d EXCEPT !.altering = A], [p EXCEPT !.commit = FALSE])
<1>1. /\ [d EXCEPT !.altering = A].cols = d.cols
      /\ [d EXCEPT !.altering = A].index = d.index
    BY DEF Databases
<1>2. ASSUME NEW rest \in {[p EXCEPT !.begin = FALSE], [p EXCEPT !.commit = FALSE]}
      PROVE  rest.create = p.create /\ rest.alters = p.alters /\ rest.indexes = p.indexes
    BY <1>2 DEF Plans
<1> QED
    BY <1>1, <1>2 DEF Advances, Planned, Grows

----------------------------------------------------------------------------
(* Type correctness.                                                       *)

LEMMA InitType == Init => TypeOK
BY EmptyType DEF Init, TypeOK, NoPlan, Plans, NoColumns, NoIndexes, Instance

\* A client that has begun and not ended has a table to ensure.
LEMMA DefType ==
    ASSUME TypeOK, NEW c \in Clients, pc[c] \in {"owners", "table", "indexes", "run"}
    PROVE  /\ Def(c) \in Definitions /\ Sees(c) \in Databases
           /\ Tail(todo[c]) \in Seq(Definitions)
           /\ todo[c] \in Seq(Definitions) /\ todo[c] # <<>>
BY DEF TypeOK, Def, Sees

LEMMA EndsType ==
    ASSUME TypeOK, NEW c \in Clients, NEW how \in {"done", "incompatible", "refused", "failed"},
           Ends(c, how), db' \in Databases, ensured' \subseteq Definitions,
           alone' \in [Clients -> BOOLEAN]
    PROVE  TypeOK'
<1>1. NoPlan \in Plans /\ NoColumns \in [Columns -> ColumnDefs \cup {None}]
      /\ NoIndexes \in [Indexes -> Tables \cup {None}]
    BY DEF NoPlan, Plans, NoColumns, NoIndexes
<1>2. /\ todo' \in [Clients -> Seq(Definitions)]
      /\ base' \in [Clients -> Databases] /\ view' \in [Clients -> Databases]
    BY EmptyType DEF Ends, TypeOK
<1>3. /\ plan' \in [Clients -> Plans] /\ columns' \in [Clients -> [Columns -> ColumnDefs \cup {None}]]
      /\ owners' \in [Clients -> [Indexes -> Tables \cup {None}]]
      /\ done' \in [Clients -> SUBSET Definitions] /\ clean' \in BOOLEAN
    BY <1>1 DEF Ends, TypeOK
<1>4. /\ pc' \in [Clients -> {"idle", "owners", "table", "indexes", "run", "commit"}]
      /\ outcome' \in [Clients -> {"none", "done", "incompatible", "refused", "failed"}]
      /\ tx' \in [Clients -> BOOLEAN] /\ calls' \in 0 .. MaxCalls
    BY DEF Ends, TypeOK
<1>5. \A e \in Clients : e # c => pc'[e] = pc[e] /\ todo'[e] = todo[e] /\ plan'[e] = plan[e]
    BY DEF Ends, TypeOK
<1>6. pc'[c] = "idle"
    BY DEF Ends, TypeOK
<1> QED
    BY <1>2, <1>3, <1>4, <1>5, <1>6 DEF TypeOK

LEMMA RunsType ==
    ASSUME TypeOK, NEW c \in Clients, NEW d \in Databases, NEW rest \in Plans,
           Runs(c, d, rest),
           rest.alters \subseteq plan[c].alters, rest.indexes \subseteq plan[c].indexes
    PROVE  TypeOK'
<1>1. /\ db' \in Databases /\ view' \in [Clients -> Databases]
      /\ alone' \in [Clients -> BOOLEAN]
    <2>1. CASE tx[c]
        BY <2>1 DEF Runs, TypeOK
    <2>2. CASE ~tx[c]
        <3>1. db' = d /\ view' = view
            BY <2>2 DEF Runs
        <3>2. alone' \in [Clients -> BOOLEAN]
            BY <2>2 DEF Runs, TypeOK
        <3> QED
            BY <3>1, <3>2 DEF TypeOK
    <2> QED
        BY <2>1, <2>2
<1>2. /\ pc[c] = "run" /\ pc' = pc
      /\ plan' \in [Clients -> Plans]
      /\ plan'[c] = rest
      /\ \A e \in Clients : e # c => plan'[e] = plan[e]
      /\ UNCHANGED <<tx, base, outcome, clean, calls, todo, done, owners, columns, ensured>>
    BY DEF Runs, Goes, TypeOK, reading
<1>3. ASSUME NEW e \in Clients, pc'[e] = "run"
      PROVE  /\ plan'[e].alters \subseteq DOMAIN Head(todo'[e]).columns
             /\ plan'[e].indexes \subseteq DOMAIN Head(todo'[e]).indexes
    <2>1. /\ plan[e].alters \subseteq DOMAIN Head(todo[e]).columns
          /\ plan[e].indexes \subseteq DOMAIN Head(todo[e]).indexes
          /\ todo'[e] = todo[e]
        BY <1>2, <1>3 DEF TypeOK
    <2>2. /\ plan'[e].alters \subseteq plan[e].alters
          /\ plan'[e].indexes \subseteq plan[e].indexes
        BY <1>2
    <2> QED
        BY <2>1, <2>2
<1>4. \A e \in Clients : pc'[e] \in {"owners", "table", "indexes", "run"} => todo'[e] # <<>>
    BY <1>2 DEF TypeOK
<1> QED
    BY <1>1, <1>2, <1>3, <1>4 DEF TypeOK

\* The statements turn databases into databases.
LEMMA StatementTypes ==
    ASSUME NEW d \in Databases, NEW def \in Definitions, NEW p \in Plans
    PROVE  /\ [d EXCEPT !.cols[def.name] = AsStored(def)] \in Databases
           /\ \A x \in DOMAIN def.columns :
                [d EXCEPT !.cols[def.name][x] = AsStored(def)[x]] \in Databases
           /\ [d EXCEPT !.altering = @ \cup {def.name}] \in Databases
           /\ [d EXCEPT !.altering = @ \ {def.name}] \in Databases
           /\ \A i \in DOMAIN def.indexes :
                [d EXCEPT !.index[i] = [table |-> def.name, shape |-> def.indexes[i]]]
                    \in Databases
           /\ [p EXCEPT !.create = FALSE] \in Plans
           /\ [p EXCEPT !.begin = FALSE] \in Plans
           /\ [p EXCEPT !.commit = FALSE] \in Plans
           /\ \A x : [p EXCEPT !.alters = @ \ {x}] \in Plans
           /\ \A x : [p EXCEPT !.indexes = @ \ {x}] \in Plans
<1>1. /\ def.name \in Tables
      /\ DOMAIN def.columns \subseteq Columns
      /\ DOMAIN def.indexes \subseteq Indexes
      /\ \A i \in DOMAIN def.indexes : def.indexes[i] \in Shapes
    BY DefinitionParts
<1>2. AsStored(def) \in [Columns -> ColumnDefs \cup {None}]
    BY AsStoredType
<1>3. \A x : [p EXCEPT !.alters = @ \ {x}] \in Plans
    BY DEF Plans
<1>4. \A x : [p EXCEPT !.indexes = @ \ {x}] \in Plans
    BY DEF Plans
<1>5. /\ [p EXCEPT !.create = FALSE] \in Plans
      /\ [p EXCEPT !.begin = FALSE] \in Plans
      /\ [p EXCEPT !.commit = FALSE] \in Plans
    BY DEF Plans
<1>6. /\ [d EXCEPT !.altering = @ \cup {def.name}] \in Databases
      /\ [d EXCEPT !.altering = @ \ {def.name}] \in Databases
    BY <1>1 DEF Databases
<1>7. [d EXCEPT !.cols[def.name] = AsStored(def)] \in Databases
    BY <1>1, <1>2 DEF Databases
<1>8. \A x \in DOMAIN def.columns :
        [d EXCEPT !.cols[def.name][x] = AsStored(def)[x]] \in Databases
    BY <1>1, <1>2 DEF Databases
<1>9. \A i \in DOMAIN def.indexes :
        [d EXCEPT !.index[i] = [table |-> def.name, shape |-> def.indexes[i]]] \in Databases
    BY <1>1 DEF Databases
<1> QED
    BY <1>3, <1>4, <1>5, <1>6, <1>7, <1>8, <1>9

Statement(c) ==
    \/ CreateTable(c) \/ BeginAlter(c) \/ CommitAlter(c)
    \/ \E x \in Columns : AddColumn(c, x)
    \/ \E i \in Indexes : CreateIndex(c, i)

\* Every statement runs one of the plan, which advances it.
LEMMA StatementRuns ==
    ASSUME TypeOK, NEW c \in Clients, Statement(c)
    PROVE  /\ Def(c) \in Definitions /\ Sees(c) \in Databases /\ pc[c] = "run"
           /\ \E d \in Databases, rest \in Plans :
                /\ Runs(c, d, rest)
                /\ rest.alters \subseteq plan[c].alters
                /\ rest.indexes \subseteq plan[c].indexes
                /\ Advances(Def(c), Sees(c), plan[c], d, rest)
<1> DEFINE def == Def(c)
           p   == plan[c]
           Goal(d, rest) == /\ d \in Databases /\ rest \in Plans /\ Runs(c, d, rest)
                            /\ rest.alters \subseteq p.alters /\ rest.indexes \subseteq p.indexes
                            /\ Advances(def, Sees(c), p, d, rest)
<1>1. pc[c] = "run"
    BY DEF Statement, CreateTable, BeginAlter, CommitAlter, AddColumn, CreateIndex, Runs, Goes
<1>2. def \in Definitions /\ Sees(c) \in Databases /\ p \in Plans
    BY <1>1, DefType DEF TypeOK
<1>3. CASE CreateTable(c)
    <2> DEFINE e == IF Exists(Sees(c).cols[def.name]) THEN Sees(c)
                    ELSE [Sees(c) EXCEPT !.cols[def.name] = AsStored(def)]
    <2>1. e \in Databases /\ [p EXCEPT !.create = FALSE] \in Plans
        BY <1>2, StatementTypes
    <2>2. Advances(def, Sees(c), p, e, [p EXCEPT !.create = FALSE])
        BY <1>2, <1>3, CreateTableAdvances DEF CreateTable
    <2>3. /\ [p EXCEPT !.create = FALSE].alters = p.alters
          /\ [p EXCEPT !.create = FALSE].indexes = p.indexes
        BY <1>2 DEF Plans
    <2>4. Goal(e, [p EXCEPT !.create = FALSE])
        BY <1>3, <2>1, <2>2, <2>3 DEF CreateTable
    <2> HIDE DEF def, p, e
    <2> QED
        BY <1>1, <1>2, <2>4 DEF def, p
<1>4. CASE BeginAlter(c)
    <2> DEFINE e == [Sees(c) EXCEPT !.altering = @ \cup {def.name}]
    <2>1. e \in Databases /\ [p EXCEPT !.begin = FALSE] \in Plans
        BY <1>2, StatementTypes
    <2>2. Advances(def, Sees(c), p, e, [p EXCEPT !.begin = FALSE])
        BY <1>2, AlterAdvances
    <2>3. /\ [p EXCEPT !.begin = FALSE].alters = p.alters
          /\ [p EXCEPT !.begin = FALSE].indexes = p.indexes
        BY <1>2 DEF Plans
    <2>4. Goal(e, [p EXCEPT !.begin = FALSE])
        BY <1>4, <2>1, <2>2, <2>3 DEF BeginAlter
    <2> HIDE DEF def, p, e
    <2> QED
        BY <1>1, <1>2, <2>4 DEF def, p
<1>5. CASE CommitAlter(c)
    <2> DEFINE e == [Sees(c) EXCEPT !.altering = @ \ {def.name}]
    <2>1. e \in Databases /\ [p EXCEPT !.commit = FALSE] \in Plans
        BY <1>2, StatementTypes
    <2>2. Advances(def, Sees(c), p, e, [p EXCEPT !.commit = FALSE])
        BY <1>2, AlterAdvances
    <2>3. /\ [p EXCEPT !.commit = FALSE].alters = p.alters
          /\ [p EXCEPT !.commit = FALSE].indexes = p.indexes
        BY <1>2 DEF Plans
    <2>4. Goal(e, [p EXCEPT !.commit = FALSE])
        BY <1>5, <2>1, <2>2, <2>3 DEF CommitAlter
    <2> HIDE DEF def, p, e
    <2> QED
        BY <1>1, <1>2, <2>4 DEF def, p
<1>6. ASSUME NEW x \in Columns, AddColumn(c, x)
      PROVE  \E d, rest : Goal(d, rest)
    <2> DEFINE e == [Sees(c) EXCEPT !.cols[def.name][x] = AsStored(def)[x]]
    <2>1. x \in DOMAIN def.columns /\ x \in p.alters /\ Sees(c).cols[def.name][x] = None
        BY <1>1, <1>6 DEF AddColumn, CanAdd, TypeOK, Def
    <2>2. e \in Databases /\ [p EXCEPT !.alters = @ \ {x}] \in Plans
        BY <1>2, <2>1, StatementTypes
    <2>3. Advances(def, Sees(c), p, e, [p EXCEPT !.alters = @ \ {x}])
        BY <1>2, <2>1, AddColumnAdvances
    <2>4. /\ [p EXCEPT !.alters = @ \ {x}].alters \subseteq p.alters
          /\ [p EXCEPT !.alters = @ \ {x}].indexes = p.indexes
        BY <1>2 DEF Plans
    <2>5. Goal(e, [p EXCEPT !.alters = @ \ {x}])
        BY <1>6, <2>2, <2>3, <2>4 DEF AddColumn
    <2> HIDE DEF Goal
    <2> QED
        BY <2>5
<1>7. ASSUME NEW i \in Indexes, CreateIndex(c, i)
      PROVE  \E d, rest : Goal(d, rest)
    <2> DEFINE new == [table |-> def.name, shape |-> def.indexes[i]]
               e   == IF Sees(c).index[i] # None THEN Sees(c)
                      ELSE [Sees(c) EXCEPT !.index[i] = new]
    <2>1. i \in DOMAIN def.indexes /\ i \in p.indexes
        BY <1>1, <1>7 DEF CreateIndex, TypeOK, Def
    <2>2. e \in Databases /\ [p EXCEPT !.indexes = @ \ {i}] \in Plans
        BY <1>2, <2>1, StatementTypes
    <2>3. Advances(def, Sees(c), p, e, [p EXCEPT !.indexes = @ \ {i}])
        BY <1>2, <2>1, CreateIndexAdvances
    <2>4. /\ [p EXCEPT !.indexes = @ \ {i}].indexes \subseteq p.indexes
          /\ [p EXCEPT !.indexes = @ \ {i}].alters = p.alters
        BY <1>2 DEF Plans
    <2>5. Goal(e, [p EXCEPT !.indexes = @ \ {i}])
        BY <1>7, <2>2, <2>3, <2>4 DEF CreateIndex
    <2> HIDE DEF Goal
    <2> QED
        BY <2>5
<1> HIDE DEF def, p
<1> QED
    BY <1>1, <1>2, <1>3, <1>4, <1>5, <1>6, <1>7 DEF Statement, def, p

LEMMA NextTypeOK == TypeOK /\ [Next]_vars => TypeOK'
<1> SUFFICES ASSUME TypeOK, [Next]_vars
             PROVE  TypeOK'
    OBVIOUS
<1>1. ASSUME NEW c \in Clients, Ensure(c) \/ EnsureTable(c)
      PROVE  TypeOK'
    <2>1. PICK inTx \in BOOLEAN, tables \in Seq(Definitions) :
            tables # <<>> /\ Calls(c, inTx, tables)
        <3>1. CASE Ensure(c)
            <4>1. PICK s \in Specs : Calls(c, TRUE, s)
                BY <3>1 DEF Ensure
            <4> QED
                BY <4>1 DEF Instance
        <3>2. CASE EnsureTable(c)
            <4>1. PICK s \in Specs : \E k \in DOMAIN s : Calls(c, FALSE, <<s[k]>>)
                BY <3>2 DEF EnsureTable
            <4>2. PICK k \in DOMAIN s : Calls(c, FALSE, <<s[k]>>)
                BY <4>1
            <4>3. s \in Seq(Definitions)
                BY DEF Instance
            <4>4. s[k] \in Definitions
                BY <4>3
            <4>5. <<s[k]>> \in Seq(Definitions) /\ <<s[k]>> # <<>>
                BY <4>4
            <4> QED
                BY <4>2, <4>5
        <3> QED
            BY <1>1, <3>1, <3>2
    <2>2. calls' \in 0 .. MaxCalls
        BY <2>1 DEF Calls, TypeOK, Instance
    <2>3. clean' \in BOOLEAN
        BY <2>1 DEF Calls
    <2> QED
        BY <2>1, <2>2, <2>3 DEF Calls, TypeOK, reading
<1>2. ASSUME NEW c \in Clients, ReadOwners(c)
      PROVE  TypeOK'
    <2>1. Def(c) \in Definitions /\ Sees(c) \in Databases
        BY <1>2, DefType DEF ReadOwners
    <2>2. CASE HasKey(Def(c))
        <3>1. OwnersIn(Sees(c)) \in [Indexes -> Tables \cup {None}]
            BY <2>1, ReadTypes, DefinitionParts
        <3>2. /\ pc[c] = "owners" /\ pc' = [pc EXCEPT ![c] = "table"]
              /\ owners' = [owners EXCEPT ![c] = OwnersIn(Sees(c))]
              /\ UNCHANGED <<db, ensured, alone, view, todo, done, columns, plan, tx, base,
                             outcome, clean, calls>>
            BY <1>2, <2>2 DEF ReadOwners, Goes
        <3>3. owners' \in [Clients -> [Indexes -> Tables \cup {None}]]
            BY <3>1, <3>2 DEF TypeOK
        <3>4. \A e \in Clients : pc'[e] = IF e = c THEN "table" ELSE pc[e]
            BY <3>2 DEF TypeOK
        <3> QED
            BY <3>2, <3>3, <3>4 DEF TypeOK
    <2>3. CASE ~HasKey(Def(c))
        BY <1>2, <2>3, EndsType DEF ReadOwners, TypeOK
    <2> QED
        BY <2>2, <2>3
<1>3. ASSUME NEW c \in Clients, ReadTable(c)
      PROVE  TypeOK'
    <2>1. Def(c) \in Definitions /\ Sees(c) \in Databases
        BY <1>3, DefType DEF ReadTable, Goes
    <2>2. Sees(c).cols[Def(c).name] \in [Columns -> ColumnDefs \cup {None}]
        BY <2>1, ReadTypes, DefinitionParts
    <2> QED
        BY <1>3, <2>2 DEF ReadTable, Goes, TypeOK
<1>4. ASSUME NEW c \in Clients, ReadIndexes(c)
      PROVE  TypeOK'
    <2> DEFINE found == IF Exists(columns[c]) THEN IndexesOf(Sees(c), Def(c).name)
                        ELSE NoIndexes
               bad == ColumnsClash(Def(c), columns[c]) \/ IndexesClash(Def(c), owners[c], found)
    <2>1. Def(c) \in Definitions
        BY <1>4, DefType DEF ReadIndexes
    <2>2. CASE bad
        BY <1>4, <2>2, EndsType DEF ReadIndexes, TypeOK
    <2>3. CASE ~bad
        <3>1. /\ PlanOf(Def(c), columns[c], found) \in Plans
              /\ PlanOf(Def(c), columns[c], found).alters \subseteq DOMAIN Def(c).columns
              /\ PlanOf(Def(c), columns[c], found).indexes \subseteq DOMAIN Def(c).indexes
            BY <2>1, PlanTypes
        <3>2. /\ Goes(c, "indexes", "run")
              /\ plan' = [plan EXCEPT ![c] = PlanOf(Def(c), columns[c], found)]
              /\ UNCHANGED <<view, todo, done, reading, db, ensured, alone>>
            BY <1>4, <2>3 DEF ReadIndexes
        <3>3. /\ plan' \in [Clients -> Plans]
              /\ \A e \in Clients : plan'[e] = IF e = c THEN PlanOf(Def(c), columns[c], found)
                                               ELSE plan[e]
              /\ \A e \in Clients : pc'[e] = IF e = c THEN "run" ELSE pc[e]
            BY <3>1, <3>2 DEF Goes, TypeOK
        <3> HIDE DEF found
        <3> QED
            BY <1>4, <3>1, <3>2, <3>3 DEF Goes, TypeOK, reading, Def
    <2> QED
        BY <2>2, <2>3
<1>5. ASSUME NEW c \in Clients, Statement(c)
      PROVE  TypeOK'
    <2>1. PICK d \in Databases, rest \in Plans :
            /\ Runs(c, d, rest)
            /\ rest.alters \subseteq plan[c].alters /\ rest.indexes \subseteq plan[c].indexes
        BY <1>5, StatementRuns
    <2> QED
        BY <2>1, RunsType
<1>6. ASSUME NEW c \in Clients, Refused(c) \/ Fails(c)
      PROVE  TypeOK'
    BY <1>6, EndsType DEF Refused, Fails, TypeOK
<1>7. ASSUME NEW c \in Clients, NextTable(c)
      PROVE  TypeOK'
    <2>1. Def(c) \in Definitions /\ Tail(todo[c]) \in Seq(Definitions)
        BY <1>7, DefType DEF NextTable
    <2>2. CASE tx[c]
        <3>1. /\ todo' = [todo EXCEPT ![c] = Tail(@)]
              /\ done' = [done EXCEPT ![c] = @ \cup {Def(c)}]
              /\ pc' = [pc EXCEPT ![c] = IF Tail(todo[c]) = <<>> THEN "commit" ELSE "owners"]
              /\ UNCHANGED <<db, alone, tx, base, outcome, clean, calls, view, owners, columns,
                             plan, ensured>>
            BY <1>7, <2>2 DEF NextTable, Goes, reading
        <3>2. todo' \in [Clients -> Seq(Definitions)] /\ done' \in [Clients -> SUBSET Definitions]
            BY <2>1, <3>1 DEF TypeOK
        <3> QED
            BY <3>1, <3>2 DEF TypeOK
    <2>3. CASE ~tx[c]
        <3>1. ensured' \subseteq Definitions
            BY <1>7, <2>1, <2>3 DEF NextTable, TypeOK
        <3> QED
            BY <1>7, <2>3, <3>1, EndsType DEF NextTable, TypeOK
    <2> QED
        BY <2>2, <2>3
<1>8. ASSUME NEW c \in Clients, Commit(c)
      PROVE  TypeOK'
    <2>1. db' \in Databases
        BY <1>8 DEF Commit, TypeOK
    <2>2. ensured' \subseteq Definitions
        BY <1>8 DEF Commit, TypeOK
    <2>3. alone' \in [Clients -> BOOLEAN]
        BY <1>8 DEF Commit, TypeOK
    <2> QED
        BY <1>8, <2>1, <2>2, <2>3, EndsType DEF Commit
<1>9. CASE UNCHANGED vars
    BY <1>9 DEF vars, call, history, reading, TypeOK
<1> QED
    BY <1>1, <1>2, <1>3, <1>4, <1>5, <1>6, <1>7, <1>8, <1>9 DEF Next, Statement

\* Every reachable state is well typed.
THEOREM TypeCorrect == Spec => []TypeOK
<1>1. TypeOK /\ [Next]_vars => TypeOK'
    BY NextTypeOK
<1> QED
    BY <1>1, InitType, PTL DEF Spec

----------------------------------------------------------------------------
(* The inductive invariant: of a client in a transaction, or that has been  *)
(* alone, what it has read still is so and its plan still is enough.        *)

Informed(c) ==
    /\ pc[c] \in {"table", "indexes"} => owners[c] = OwnersIn(Sees(c))
    /\ pc[c] = "indexes" => columns[c] = Sees(c).cols[Def(c).name]
    /\ pc[c] = "run" => Planned(Def(c), Sees(c), plan[c])

ClientInv(c) ==
    /\ pc[c] # "idle" => Grows(base[c], db)
    /\ pc[c] # "idle" /\ tx[c] => Grows(base[c], view[c])
    /\ pc[c] = "commit" => tx[c]
    /\ pc[c] = "idle" \/ ~tx[c] => done[c] = {}
    /\ \A def \in done[c] : Provided(def, view[c])
    /\ tx[c] \/ alone[c] => Informed(c)

IInv ==
    /\ TypeOK
    /\ \A c \in Clients : ClientInv(c)
    /\ EnsuredIsProvided

LEMMA InitIInv == Init => IInv
BY InitType DEF Init, IInv, ClientInv, Informed, EnsuredIsProvided

\* What one client does leaves what another one knows to be so.
OtherKept(e) ==
    /\ UNCHANGED <<pc[e], tx[e], base[e], view[e], todo[e], done[e], owners[e],
                   columns[e], plan[e]>>
    /\ alone'[e] => alone[e] /\ db' = db

LEMMA OtherInv ==
    ASSUME NEW e \in Clients, ClientInv(e), OtherKept(e), Grows(db, db')
    PROVE  ClientInv(e)'
<1>1. pc[e] # "idle" => Grows(base[e], db')
    BY GrowsOn DEF ClientInv
<1>2. Sees(e)' = Sees(e) \/ (~tx'[e] /\ ~alone'[e])
    BY DEF Sees, OtherKept
<1>3. Def(e)' = Def(e)
    BY DEF Def, OtherKept
<1>4. tx'[e] \/ alone'[e] => Informed(e)'
    BY <1>2, <1>3 DEF ClientInv, Informed, OtherKept
<1> QED
    BY <1>1, <1>4 DEF ClientInv, OtherKept

\* A call that ends leaves nothing behind.
LEMMA EndsInv ==
    ASSUME TypeOK, NEW c \in Clients, NEW how, Ends(c, how)
    PROVE  /\ ClientInv(c)'
           /\ \A e \in Clients \ {c} : (alone'[e] => alone[e] /\ db' = db) => OtherKept(e)
<1>1. pc'[c] = "idle" /\ done'[c] = {}
    BY DEF Ends, TypeOK
<1>2. ClientInv(c)'
    BY <1>1 DEF ClientInv, Informed
<1>3. ASSUME NEW e \in Clients \ {c}, alone'[e] => alone[e] /\ db' = db
      PROVE  OtherKept(e)
    BY <1>3 DEF Ends, OtherKept, TypeOK
<1> QED
    BY <1>2, <1>3

\* What a step of one client does to the database, to itself and to the others.
Safe(c) ==
    /\ Grows(db, db')
    /\ ClientInv(c)'
    /\ \A e \in Clients \ {c} : OtherKept(e)
    /\ \A def \in ensured' : def \in ensured \/ (def \in Definitions /\ Provided(def, db'))

LEMMA CallsSafe ==
    ASSUME IInv, NEW c \in Clients, Ensure(c) \/ EnsureTable(c)
    PROVE  Safe(c)
<1>1. PICK inTx, tables : Calls(c, inTx, tables)
    BY DEF Ensure, EnsureTable
<1>2. /\ db' = db /\ ensured' = ensured
      /\ pc'[c] = "owners" /\ base'[c] = db /\ view'[c] = db /\ done'[c] = done[c]
      /\ done[c] = {}
    BY <1>1 DEF Calls, IInv, TypeOK, ClientInv
<1>3. ClientInv(c)'
    BY <1>2, GrowsItself DEF ClientInv, Informed
<1>4. \A e \in Clients \ {c} : OtherKept(e)
    BY <1>1 DEF Calls, OtherKept, IInv, TypeOK, reading
<1> QED
    BY <1>2, <1>3, <1>4, GrowsItself DEF Safe

LEMMA EndsSafe ==
    ASSUME IInv, NEW c \in Clients, NEW how, Ends(c, how), UNCHANGED <<db, ensured, alone>>
    PROVE  Safe(c)
<1>1. \A e \in Clients \ {c} : OtherKept(e)
    BY EndsInv DEF IInv
<1> QED
    BY <1>1, EndsInv, GrowsItself DEF Safe, IInv

LEMMA ReadsSafe ==
    ASSUME IInv, NEW c \in Clients, ReadOwners(c) \/ ReadTable(c) \/ ReadIndexes(c)
    PROVE  Safe(c)
<1>1. CASE \E how : Ends(c, how)
    <2>1. PICK how : Ends(c, how)
        BY <1>1
    <2>2. UNCHANGED <<db, ensured, alone>>
        BY <2>1 DEF Ends, ReadOwners, ReadTable, ReadIndexes, Goes
    <2> QED
        BY <2>1, <2>2, EndsSafe
<1>2. CASE ~\E how : Ends(c, how)
    <2> DEFINE found == IF Exists(columns[c]) THEN IndexesOf(Sees(c), Def(c).name)
                        ELSE NoIndexes
    <2>1. /\ UNCHANGED <<db, ensured, alone, tx, base, view, todo, done>>
          /\ Sees(c)' = Sees(c) /\ Def(c)' = Def(c)
        BY <1>2 DEF ReadOwners, ReadTable, ReadIndexes, Goes, Sees, Def
    <2>2. \A e \in Clients \ {c} : OtherKept(e)
        BY <1>2, <2>1 DEF ReadOwners, ReadTable, ReadIndexes, Goes, OtherKept, IInv, TypeOK, reading
    <2>3. pc[c] # "idle" /\ pc'[c] \notin {"idle", "commit"}
        BY <1>2 DEF ReadOwners, ReadTable, ReadIndexes, Goes, IInv, TypeOK
    <2>4. ASSUME tx[c] \/ alone[c]
          PROVE  Informed(c)'
        <3>1. Informed(c)
            BY <2>4 DEF IInv, ClientInv
        <3>2. CASE ReadOwners(c)
            <4>1. pc'[c] = "table" /\ owners'[c] = OwnersIn(Sees(c))
                BY <1>2, <3>2 DEF ReadOwners, Goes, IInv, TypeOK
            <4> QED
                BY <2>1, <4>1 DEF Informed, OwnersIn
        <3>3. CASE ReadTable(c)
            <4>1. /\ pc[c] = "table" /\ pc'[c] = "indexes" /\ owners'[c] = owners[c]
                  /\ columns'[c] = Sees(c).cols[Def(c).name]
                BY <3>3 DEF ReadTable, Goes, IInv, TypeOK
            <4> QED
                BY <2>1, <3>1, <4>1 DEF Informed, OwnersIn
        <3>4. CASE ReadIndexes(c)
            <4>1. /\ pc[c] = "indexes" /\ pc'[c] = "run"
                  /\ plan'[c] = PlanOf(Def(c), columns[c], found)
                  /\ ~ColumnsClash(Def(c), columns[c])
                  /\ ~IndexesClash(Def(c), owners[c], found)
                BY <1>2, <3>4 DEF ReadIndexes, Goes, IInv, TypeOK
            <4>2. owners[c] = OwnersIn(Sees(c)) /\ columns[c] = Sees(c).cols[Def(c).name]
                BY <3>1, <4>1 DEF Informed
            <4>3. Def(c) \in Definitions /\ Sees(c) \in Databases
                BY <4>1, DefType DEF IInv
            <4>4. Planned(Def(c), Sees(c), plan'[c])
                <5> HIDE DEF found
                <5>1. found = IF Exists(columns[c]) THEN IndexesOf(Sees(c), Def(c).name)
                              ELSE NoIndexes
                    BY DEF found
                <5> QED
                    BY <4>1, <4>2, <4>3, <5>1, PlanIsEnough
            <4> QED
                BY <2>1, <4>1, <4>4 DEF Informed
        <3> QED
            BY <3>2, <3>3, <3>4
    <2>5. ClientInv(c)'
        BY <2>1, <2>3, <2>4 DEF ClientInv, IInv
    <2> QED
        BY <2>1, <2>2, <2>5, GrowsItself DEF Safe
<1> QED
    BY <1>1, <1>2

LEMMA StatementSafe ==
    ASSUME IInv, NEW c \in Clients, Statement(c)
    PROVE  Safe(c)
<1>1. PICK d \in Databases, rest \in Plans :
        Runs(c, d, rest) /\ Advances(Def(c), Sees(c), plan[c], d, rest)
    BY StatementRuns DEF IInv
<1>2. /\ UNCHANGED <<pc, tx, base, todo, done, owners, columns, ensured>>
      /\ pc[c] = "run" /\ plan'[c] = rest /\ Def(c)' = Def(c)
      /\ \A e \in Clients \ {c} : plan'[e] = plan[e]
    BY <1>1 DEF Runs, Goes, IInv, TypeOK, reading, Def
<1>3. Grows(Sees(c), d)
    BY <1>1 DEF Advances
<1>4. CASE tx[c]
    <2>1. /\ db' = db /\ alone' = alone /\ view'[c] = d /\ Sees(c) = view[c]
          /\ \A e \in Clients \ {c} : view'[e] = view[e]
        BY <1>1, <1>4 DEF Runs, Sees, IInv, TypeOK
    <2>2. Sees(c)' = d
        BY <1>2, <1>4, <2>1 DEF Sees
    <2>3. Grows(base[c], d)
        BY <1>2, <1>3, <1>4, <2>1, GrowsOn DEF IInv, ClientInv
    <2>4. \A def \in done[c] : Provided(def, d)
        BY <1>3, <2>1, ProvidedStays DEF IInv, ClientInv, TypeOK
    <2>5. Informed(c)'
        BY <1>1, <1>2, <1>4, <2>2 DEF Informed, Advances, IInv, ClientInv
    <2>6. ClientInv(c)'
        BY <1>2, <1>4, <2>1, <2>3, <2>4, <2>5 DEF ClientInv, IInv
    <2>7. \A e \in Clients \ {c} : OtherKept(e)
        BY <1>2, <2>1 DEF OtherKept
    <2> QED
        BY <1>2, <2>1, <2>6, <2>7, GrowsItself DEF Safe
<1>5. CASE ~tx[c]
    <2>1. /\ db' = d /\ view' = view /\ Sees(c) = db
          /\ alone' = [e \in Clients |-> alone[e] /\ (e = c \/ d = db)]
        BY <1>1, <1>5 DEF Runs, Sees
    <2>2. Sees(c)' = d
        BY <1>2, <1>5, <2>1 DEF Sees
    <2>3. Grows(base[c], d)
        BY <1>2, <1>3, <2>1, GrowsOn DEF IInv, ClientInv
    <2>4. done[c] = {}
        BY <1>5 DEF IInv, ClientInv
    <2>5. alone'[c] => Informed(c)'
        <3>1. alone'[c] => alone[c]
            BY <2>1
        <3> QED
            BY <1>1, <1>2, <2>2, <3>1 DEF Informed, Advances, IInv, ClientInv
    <2>6. ClientInv(c)'
        BY <1>2, <1>5, <2>1, <2>3, <2>4, <2>5 DEF ClientInv
    <2>7. \A e \in Clients \ {c} : OtherKept(e)
        <3>1. \A e \in Clients \ {c} : alone'[e] => alone[e] /\ db' = db
            BY <2>1
        <3> QED
            BY <1>2, <2>1, <3>1 DEF OtherKept
    <2> QED
        BY <1>2, <1>3, <2>1, <2>6, <2>7 DEF Safe
<1> QED
    BY <1>4, <1>5

LEMMA NextTableSafe ==
    ASSUME IInv, NEW c \in Clients, NextTable(c)
    PROVE  Safe(c)
<1>1. Def(c) \in Definitions /\ pc[c] = "run" /\ plan[c] = NoPlan /\ db' = db /\ alone' = alone
    BY DefType DEF NextTable, IInv
<1>2. tx[c] \/ alone[c] => Provided(Def(c), Sees(c))
    BY <1>1, NothingLeft DEF IInv, ClientInv, Informed
<1>3. CASE tx[c]
    <2>1. /\ pc' = [pc EXCEPT ![c] = IF Tail(todo[c]) = <<>> THEN "commit" ELSE "owners"]
          /\ todo' = [todo EXCEPT ![c] = Tail(@)]
          /\ done' = [done EXCEPT ![c] = @ \cup {Def(c)}]
          /\ UNCHANGED <<tx, base, view, owners, columns, plan, ensured>>
        BY <1>3 DEF NextTable, Goes, reading
    <2>2. /\ pc'[c] \in {"commit", "owners"} /\ done'[c] = done[c] \cup {Def(c)}
        BY <2>1 DEF IInv, TypeOK
    <2>3. Provided(Def(c), view[c])
        BY <1>2, <1>3 DEF Sees
    <2>4. \A def \in done'[c] : Provided(def, view[c])
        BY <2>2, <2>3 DEF IInv, ClientInv
    <2>5. ClientInv(c)'
        BY <1>1, <1>3, <2>1, <2>2, <2>4 DEF ClientInv, Informed, IInv
    <2>6. \A e \in Clients \ {c} : OtherKept(e)
        BY <1>1, <2>1 DEF OtherKept, IInv, TypeOK
    <2> QED
        BY <1>1, <2>1, <2>5, <2>6, GrowsItself DEF Safe
<1>4. CASE ~tx[c]
    <2>1. Ends(c, "done") /\ ensured' = IF alone[c] THEN ensured \cup {Def(c)} ELSE ensured
        BY <1>4 DEF NextTable
    <2>2. alone[c] => Provided(Def(c), db)
        BY <1>2, <1>4 DEF Sees
    <2>3. ClientInv(c)' /\ \A e \in Clients \ {c} : OtherKept(e)
        BY <1>1, <2>1, EndsInv DEF IInv
    <2> QED
        BY <1>1, <2>1, <2>2, <2>3, GrowsItself DEF Safe
<1> QED
    BY <1>3, <1>4

\* A transaction that wrote nothing provides what it found, which is there
\* still; one that did write commits what it saw on what it began with.
LEMMA CommitSafe ==
    ASSUME IInv, NEW c \in Clients, Commit(c)
    PROVE  Safe(c)
<1>1. /\ Ends(c, "done") /\ pc[c] = "commit"
      /\ view[c] = base[c] \/ db = base[c]
      /\ db' = IF view[c] = base[c] THEN db ELSE view[c]
      /\ alone' = [e \in Clients |-> alone[e] /\ (e = c \/ view[c] = base[c])]
      /\ ensured' = ensured \cup done[c]
    BY DEF Commit
<1>2. /\ Grows(base[c], db)
      /\ tx[c] => Grows(base[c], view[c])
      /\ ~tx[c] => done[c] = {}
      /\ \A def \in done[c] : def \in Definitions /\ Provided(def, view[c])
    BY <1>1 DEF IInv, ClientInv, TypeOK
<1>3. tx[c]
    BY <1>1 DEF IInv, ClientInv
<1>4. Grows(db, db')
    BY <1>1, <1>2, <1>3, GrowsItself
<1>5. \A def \in done[c] : Provided(def, db')
    BY <1>1, <1>2, ProvidedStays
<1>6. \A e \in Clients \ {c} : alone'[e] => alone[e] /\ db' = db
    BY <1>1
<1>7. ClientInv(c)' /\ \A e \in Clients \ {c} : OtherKept(e)
    BY <1>1, <1>6, EndsInv DEF IInv
<1> QED
    BY <1>1, <1>2, <1>4, <1>5, <1>7 DEF Safe

LEMMA NextSafe ==
    ASSUME IInv, Next
    PROVE  \E c \in Clients : Safe(c)
<1>1. PICK c \in Clients :
        \/ Ensure(c) \/ EnsureTable(c)
        \/ ReadOwners(c) \/ ReadTable(c) \/ ReadIndexes(c)
        \/ Statement(c)
        \/ Refused(c) \/ Fails(c)
        \/ NextTable(c) \/ Commit(c)
    BY DEF Next, Statement
<1>2. CASE Refused(c) \/ Fails(c)
    BY <1>2, EndsSafe DEF Refused, Fails
<1> QED
    BY <1>1, <1>2, CallsSafe, ReadsSafe, StatementSafe, NextTableSafe, CommitSafe

LEMMA NextIInv == IInv /\ [Next]_vars => IInv'
<1> SUFFICES ASSUME IInv, [Next]_vars
             PROVE  IInv'
    OBVIOUS
<1>1. TypeOK'
    BY NextTypeOK DEF IInv
<1>2. CASE Next
    <2>1. PICK c \in Clients : Safe(c)
        BY <1>2, NextSafe
    <2>2. ASSUME NEW e \in Clients
          PROVE  ClientInv(e)'
        <3>1. CASE e = c
            BY <2>1, <3>1 DEF Safe
        <3>2. CASE e # c
            BY <2>1, <3>2, OtherInv DEF Safe, IInv
        <3> QED
            BY <3>1, <3>2
    <2>3. ASSUME NEW def \in ensured'
          PROVE  Provided(def, db')
        <3>1. CASE def \in ensured
            BY <2>1, <3>1, ProvidedStays DEF Safe, IInv, EnsuredIsProvided, TypeOK
        <3>2. CASE def \notin ensured
            BY <2>1, <2>3, <3>2 DEF Safe
        <3> QED
            BY <3>1, <3>2
    <2> QED
        BY <1>1, <2>2, <2>3 DEF IInv, EnsuredIsProvided, Provided
<1>3. CASE UNCHANGED vars
    <2>1. ASSUME NEW e \in Clients
          PROVE  ClientInv(e)'
        BY <1>3, OtherInv, GrowsItself DEF IInv, OtherKept, vars, call, history, reading
    <2>2. EnsuredIsProvided'
        BY <1>3 DEF vars, history, IInv, EnsuredIsProvided, Provided
    <2> QED
        BY <1>1, <2>1, <2>2 DEF IInv
<1> QED
    BY <1>2, <1>3

LEMMA Invariance == Spec => []IInv
<1>1. IInv /\ [Next]_vars => IInv'
    BY NextIInv
<1> QED
    BY <1>1, InitIInv, PTL DEF Spec

\* What a successful call left is as its tables ask for, and stays so.
THEOREM EnsuredStaysProvided == Spec => []EnsuredIsProvided
<1>1. IInv => EnsuredIsProvided
    BY DEF IInv
<1> QED
    BY <1>1, Invariance, PTL

\* No step of anybody drops or changes a column or an index.
THEOREM NothingIsTakenAway == Spec => ExpandsOnly
<1> DEFINE Expands ==
        /\ \A t \in Tables, x \in Columns :
             db.cols[t][x] # None => db'.cols[t][x] = db.cols[t][x]
        /\ \A i \in Indexes : db.index[i] # None => db'.index[i] = db.index[i]
<1>1. IInv /\ [Next]_vars => [Expands]_vars
    <2> SUFFICES ASSUME IInv, Next
                 PROVE  Expands
        OBVIOUS
    <2>1. Grows(db, db')
        BY NextSafe DEF Safe
    <2> QED
        BY <2>1 DEF Grows
<1>2. Spec => [][Expands]_vars
    BY <1>1, Invariance, PTL DEF Spec
<1> QED
    BY <1>2 DEF ExpandsOnly

----------------------------------------------------------------------------
(* What was ensured needs nothing more, and an alteration that begins is   *)
(* committed.                                                              *)

\* An action of one client.
Act(c) ==
    \/ Ensure(c) \/ EnsureTable(c)
    \/ ReadOwners(c) \/ ReadTable(c) \/ ReadIndexes(c)
    \/ Statement(c)
    \/ Refused(c) \/ Fails(c)
    \/ NextTable(c) \/ Commit(c)

LEMMA NextActs == Next => \E c \in Clients : Act(c)
BY DEF Next, Act, Statement

LEMMA ActSafe ==
    ASSUME IInv, NEW c \in Clients, Act(c)
    PROVE  \A e \in Clients \ {c} : OtherKept(e)
<1>1. CASE Refused(c) \/ Fails(c)
    BY <1>1, EndsSafe DEF Refused, Fails, Safe
<1> QED
    BY <1>1, CallsSafe, ReadsSafe, StatementSafe, NextTableSafe, CommitSafe DEF Act, Safe

LEMMA EndsIdle ==
    ASSUME TypeOK, NEW c \in Clients, NEW how, Ends(c, how)
    PROVE  /\ pc'[c] = "idle" /\ done'[c] = {}
           /\ clean' = (clean /\ (tx[c] \/ how = "done")) /\ tx' = tx
BY DEF Ends, TypeOK

----------------------------------------------------------------------------
(* What a definition must be to be ensured.                                *)

Legal(def) ==
    /\ HasKey(def)
    /\ def.crr => \A i \in DOMAIN def.indexes : ~def.indexes[i].unique

LegalClient(c) ==
    /\ pc[c] \in {"table", "indexes", "run"} => HasKey(Def(c))
    /\ pc[c] = "run" => Legal(Def(c))
    /\ \A def \in done[c] : Legal(def)

LInv ==
    /\ \A c \in Clients : LegalClient(c)
    /\ \A def \in ensured : Legal(def)

LEMMA InitLInv == Init => LInv
BY DEF Init, LInv, LegalClient

LEMMA ActLegal ==
    ASSUME IInv, LInv, NEW c \in Clients, Act(c)
    PROVE  LegalClient(c)' /\ \A def \in ensured' : Legal(def)
<1> USE DEF IInv
<1>1. CASE \E how : Ends(c, how)
    <2>1. LegalClient(c)'
        BY <1>1, EndsIdle DEF LegalClient
    <2>2. \/ ensured' = ensured
          \/ pc[c] = "run" /\ ensured' = ensured \cup {Def(c)}
          \/ ensured' = ensured \cup done[c]
        BY <1>1 DEF Act, Ensure, EnsureTable, Calls, ReadOwners, ReadTable, ReadIndexes, Goes,
                    Statement, CreateTable, BeginAlter, CommitAlter, AddColumn, CreateIndex, Runs,
                    Refused, Fails, NextTable, Commit
    <2> QED
        BY <2>1, <2>2 DEF LInv, LegalClient
<1>2. CASE Ensure(c) \/ EnsureTable(c)
    <2>1. PICK inTx, tables : Calls(c, inTx, tables)
        BY <1>2 DEF Ensure, EnsureTable
    <2>2. pc'[c] = "owners" /\ done' = done /\ ensured' = ensured
        BY <2>1 DEF Calls, TypeOK
    <2> QED
        BY <2>2 DEF LInv, LegalClient
<1>3. CASE (ReadOwners(c) \/ ReadTable(c) \/ ReadIndexes(c)) /\ ~\E how : Ends(c, how)
    <2>1. UNCHANGED <<todo, done, ensured>>
        BY <1>3 DEF ReadOwners, ReadTable, ReadIndexes
    <2>2. Def(c)' = Def(c)
        BY <2>1 DEF Def
    <2>3. \/ pc'[c] = "table" /\ HasKey(Def(c))
          \/ pc[c] = "table" /\ pc'[c] = "indexes"
          \/ /\ pc[c] = "indexes" /\ pc'[c] = "run"
             /\ \A i \in DOMAIN Def(c).indexes : ~(Def(c).crr /\ Def(c).indexes[i].unique)
        BY <1>3 DEF ReadOwners, ReadTable, ReadIndexes, Goes, TypeOK, IndexesClash
    <2>4. HasKey(Def(c)')  /\ (pc'[c] = "run" => Legal(Def(c)'))
        BY <2>2, <2>3 DEF LInv, LegalClient, Legal
    <2>5. \A def \in done'[c] : Legal(def)
        BY <2>1 DEF LInv, LegalClient
    <2>6. HasKey(Def(c))' /\ (pc'[c] = "run" => Legal(Def(c))')
        BY <2>4 DEF HasKey, Legal
    <2>7. (\A def \in done[c] : Legal(def))'
        BY <2>5 DEF HasKey, Legal
    <2>8. \A def \in ensured' : Legal(def)
        BY <2>1 DEF LInv
    <2> QED
        BY <2>6, <2>7, <2>8 DEF LegalClient
<1>4. CASE Statement(c)
    <2>1. PICK d, rest : Runs(c, d, rest)
        BY <1>4, StatementRuns
    <2>2. UNCHANGED <<pc, todo, done, ensured>>
        BY <2>1 DEF Runs, Goes, TypeOK
    <2> QED
        BY <2>2 DEF LInv, LegalClient, Def
<1>5. CASE NextTable(c) /\ tx[c]
    <2>1. /\ pc[c] = "run" /\ pc'[c] \in {"commit", "owners"} /\ ensured' = ensured
          /\ done'[c] = done[c] \cup {Def(c)}
        BY <1>5 DEF NextTable, Goes, TypeOK
    <2> QED
        BY <2>1 DEF LInv, LegalClient
<1> QED
    BY <1>1, <1>2, <1>3, <1>4, <1>5 DEF Act, Refused, Fails, NextTable, Commit

LEMMA NextLInv == IInv /\ LInv /\ [Next]_vars => LInv'
<1> SUFFICES ASSUME IInv, LInv, [Next]_vars
             PROVE  LInv'
    OBVIOUS
<1>1. CASE Next
    <2>1. PICK c \in Clients : Act(c)
        BY <1>1, NextActs
    <2>2. ASSUME NEW e \in Clients PROVE LegalClient(e)'
        <3>1. CASE e = c
            BY <2>1, <3>1, ActLegal
        <3>2. CASE e # c
            <4>1. UNCHANGED <<pc[e], todo[e], done[e]>>
                BY <2>1, <3>2, ActSafe DEF OtherKept
            <4> QED
                BY <4>1 DEF LInv, LegalClient, Def
        <3> QED
            BY <3>1, <3>2
    <2> QED
        BY <2>1, <2>2, ActLegal DEF LInv, Legal, HasKey
<1>2. CASE UNCHANGED vars
    BY <1>2 DEF vars, call, history, LInv, LegalClient, Def, Legal, HasKey
<1> QED
    BY <1>1, <1>2

\* What is provided for a definition that may be ensured leaves nothing to plan.
LEMMA ProvidedIsSettled ==
    ASSUME NEW def \in Definitions, NEW d \in Databases, Provided(def, d), Legal(def)
    PROVE  LET cols  == d.cols[def.name]
               found == IndexesOf(d, def.name)
           IN  /\ PlanOf(def, cols, found) = NoPlan
               /\ ~ColumnsClash(def, cols) /\ ~IndexesClash(def, OwnersIn(d), found)
<1> DEFINE cols  == d.cols[def.name]
           found == IndexesOf(d, def.name)
<1>1. /\ def.name \in Tables /\ DOMAIN def.columns \subseteq Columns
      /\ DOMAIN def.indexes \subseteq Indexes
      /\ \A i \in DOMAIN def.indexes : def.indexes[i] \in Shapes
    BY DefinitionParts
<1>2. \A x \in DOMAIN def.columns : cols[x] # None /\ Fits(def.columns[x], cols[x])
    BY DEF Provided, Fits
<1>3. \A i \in DOMAIN def.indexes : found[i] = def.indexes[i] /\ found[i] # None
    <2> SUFFICES ASSUME NEW i \in DOMAIN def.indexes
                 PROVE  found[i] = def.indexes[i] /\ found[i] # None
        OBVIOUS
    <2>1. d.index[i] = [table |-> def.name, shape |-> def.indexes[i]]
        BY DEF Provided
    <2>2. i \in Indexes /\ def.indexes[i] \in Shapes /\ def.name \in Tables
        BY <1>1
    <2>3. [table |-> def.name, shape |-> def.indexes[i]] \in [table : Tables, shape : Shapes]
        BY <2>2
    <2>4. d.index[i] # None /\ def.indexes[i] # None
        BY <2>1, <2>2, <2>3, Instance
    <2>5. d.index[i].table = def.name /\ d.index[i].shape = def.indexes[i]
        BY <2>1
    <2>6. found[i] = def.indexes[i]
        BY <2>2, <2>4, <2>5 DEF IndexesOf
    <2> QED
        BY <2>4, <2>6
<1>4. Lacks(def, cols) = {} /\ ~ColumnsClash(def, cols)
    BY <1>2 DEF Lacks, ColumnsClash
<1>5. Exists(cols)
    BY <1>1, <1>2 DEF Exists, Legal, HasKey
<1>6. ~IndexesClash(def, OwnersIn(d), found)
    BY <1>3 DEF IndexesClash, Legal
<1>7. {i \in DOMAIN def.indexes : found[i] = None} = {}
    BY <1>3
<1> HIDE DEF cols, found
<1>8. PlanOf(def, cols, found) = NoPlan
    BY <1>4, <1>5, <1>7 DEF PlanOf, NoPlan
<1> QED
    BY <1>4, <1>6, <1>8 DEF cols, found

LEMMA LegalInvariance == Spec => []LInv
<1>1. IInv /\ LInv /\ [Next]_vars => LInv'
    BY NextLInv
<1> QED
    BY <1>1, InitLInv, Invariance, PTL DEF Spec

\* Ensuring once more what was ensured finds nothing to do and nothing to object
\* to (compareColumns and compareIndexes on what columnSql and createIndexSql made).
THEOREM EnsuredStaysSettled == Spec => []EnsuredIsSettled
<1>1. IInv /\ LInv => EnsuredIsSettled
    <2> SUFFICES ASSUME IInv, LInv, NEW def \in ensured
                 PROVE  LET cols  == db.cols[def.name]
                            found == IndexesOf(db, def.name)
                        IN  /\ PlanOf(def, cols, found) = NoPlan
                            /\ ~ColumnsClash(def, cols)
                            /\ ~IndexesClash(def, OwnersIn(db), found)
        BY DEF EnsuredIsSettled
    <2>1. def \in Definitions /\ db \in Databases /\ Provided(def, db) /\ Legal(def)
        BY DEF IInv, LInv, TypeOK, EnsuredIsProvided
    <2> QED
        BY <2>1, ProvidedIsSettled
<1> QED
    BY <1>1, Invariance, LegalInvariance, PTL

----------------------------------------------------------------------------
(* Between begin_alter and commit_alter.                                   *)

\* The tables that are being altered under plan p.
Mid(def, p) == IF p.commit /\ ~p.begin THEN {def.name} ELSE {}

\* What is begun is for columns that are yet to be added, and will be committed.
Paired(p) == p.begin => p.commit /\ p.alters # {}

Altered(c) == IF pc[c] = "run" THEN Mid(Def(c), plan[c]) ELSE {}

InTransactions == \A c \in Clients : pc[c] # "idle" => tx[c]

\* A call outside a transaction has the database for itself, or somebody failed.
CleanInv ==
    /\ \A c, d \in Clients : pc[c] # "idle" /\ ~tx[c] /\ pc[d] # "idle" => c = d
    /\ \A c \in Clients : pc[c] # "idle" => Sees(c).altering = Altered(c)
    /\ InTransactions => db.altering = {}

AInv ==
    /\ \A c \in Clients : pc[c] = "run" => Paired(plan[c])
    /\ clean => CleanInv

LEMMA InitAInv == Init => AInv
BY DEF Init, AInv, CleanInv, Empty

\* d is what is left of the database as rest is left of the plan.
Follows(c, d, rest) ==
    /\ Paired(rest)
    /\ Sees(c).altering = Mid(Def(c), plan[c]) => d.altering = Mid(Def(c), rest)

\* Each statement moves the database as its plan says.
LEMMA StatementAlters ==
    ASSUME TypeOK, NEW c \in Clients, Statement(c), Paired(plan[c])
    PROVE  \E d, rest : Runs(c, d, rest) /\ Follows(c, d, rest)
<1> DEFINE s == Sees(c)
           def == Def(c)
           p == plan[c]
<1>1. s \in Databases /\ def \in Definitions /\ p \in Plans /\ def.name \in Tables
    BY StatementRuns, DefinitionParts DEF TypeOK
<1>2. Paired(p)
    OBVIOUS
<1>3. ASSUME NEW d, NEW rest, Runs(c, d, rest), Paired(rest),
             s.altering = Mid(def, p) => d.altering = Mid(def, rest)
      PROVE  \E e, left : Runs(c, e, left) /\ Follows(c, e, left)
    BY <1>3 DEF Follows
<1>4. CASE CreateTable(c)
    <2> DEFINE d == IF Exists(s.cols[def.name]) THEN s ELSE [s EXCEPT !.cols[def.name] = AsStored(def)]
               rest == [p EXCEPT !.create = FALSE]
    <2>1. Runs(c, d, rest)
        BY <1>4 DEF CreateTable
    <2>2. rest.begin = p.begin /\ rest.commit = p.commit /\ rest.alters = p.alters
        BY <1>1 DEF Plans
    <2>3. d.altering = s.altering
        BY <1>1 DEF Databases
    <2> HIDE DEF d, rest, s, p, def
    <2>4. Mid(def, rest) = Mid(def, p) /\ Paired(rest)
        BY <1>2, <2>2 DEF Mid, Paired
    <2> QED
        BY <1>3, <2>1, <2>3, <2>4
<1>5. CASE BeginAlter(c)
    <2> DEFINE d == [s EXCEPT !.altering = @ \cup {def.name}]
               rest == [p EXCEPT !.begin = FALSE]
    <2>1. Runs(c, d, rest) /\ p.begin
        BY <1>5 DEF BeginAlter
    <2>2. ~rest.begin /\ rest.commit = p.commit
        BY <1>1 DEF Plans
    <2>3. d.altering = s.altering \cup {def.name}
        BY <1>1 DEF Databases
    <2> HIDE DEF d, rest, s, p, def
    <2>4. p.commit /\ Mid(def, p) = {}
        BY <1>2, <2>1 DEF Mid, Paired
    <2>5. Mid(def, rest) = {def.name} /\ Paired(rest)
        BY <2>2, <2>4 DEF Mid, Paired
    <2>6. s.altering = Mid(def, p) => d.altering = Mid(def, rest)
        BY <2>3, <2>4, <2>5
    <2> QED
        BY <1>3, <2>1, <2>5, <2>6
<1>6. CASE CommitAlter(c)
    <2> DEFINE d == [s EXCEPT !.altering = @ \ {def.name}]
               rest == [p EXCEPT !.commit = FALSE]
    <2>1. Runs(c, d, rest) /\ p.commit /\ p.alters = {}
        BY <1>6 DEF CommitAlter
    <2>2. rest.begin = p.begin /\ ~rest.commit
        BY <1>1 DEF Plans
    <2>3. d.altering = s.altering \ {def.name}
        BY <1>1 DEF Databases
    <2> HIDE DEF d, rest, s, p, def
    <2>4. Mid(def, p) = {def.name} /\ ~p.begin
        BY <1>2, <2>1 DEF Mid, Paired
    <2> QED
        BY <1>3, <2>1, <2>2, <2>3, <2>4 DEF Mid, Paired
<1>7. ASSUME NEW x \in Columns, AddColumn(c, x)
      PROVE  \E e, left : Runs(c, e, left) /\ Follows(c, e, left)
    <2> DEFINE d == [s EXCEPT !.cols[def.name][x] = AsStored(def)[x]]
               rest == [p EXCEPT !.alters = @ \ {x}]
    <2>1. Runs(c, d, rest) /\ ~p.begin
        BY <1>7 DEF AddColumn
    <2>2. rest.begin = p.begin /\ rest.commit = p.commit
        BY <1>1 DEF Plans
    <2>3. d.altering = s.altering
        BY <1>1 DEF Databases
    <2> HIDE DEF d, rest, s, p, def
    <2> QED
        BY <1>2, <1>3, <2>1, <2>2, <2>3 DEF Mid, Paired
<1>8. ASSUME NEW i \in Indexes, CreateIndex(c, i)
      PROVE  \E e, left : Runs(c, e, left) /\ Follows(c, e, left)
    <2> DEFINE d == IF s.index[i] # None THEN s
                    ELSE [s EXCEPT !.index[i] = [table |-> def.name, shape |-> def.indexes[i]]]
               rest == [p EXCEPT !.indexes = @ \ {i}]
    <2>1. Runs(c, d, rest) /\ p = [NoPlan EXCEPT !.indexes = p.indexes]
        BY <1>8 DEF CreateIndex
    <2>2. rest.begin = p.begin /\ rest.commit = p.commit
        BY <1>1 DEF Plans
    <2>3. d.altering = s.altering
        BY <1>1 DEF Databases
    <2>4. ~p.begin
        BY <2>1 DEF NoPlan
    <2> HIDE DEF d, rest, s, p, def
    <2> QED
        BY <1>2, <1>3, <2>1, <2>2, <2>3, <2>4 DEF Mid, Paired
<1> HIDE DEF s, p, def
<1> QED
    BY <1>4, <1>5, <1>6, <1>7, <1>8 DEF Statement, def

\* The other clients are where they were, and see what they saw or the database.
LEMMA OthersStay ==
    ASSUME NEW e \in Clients, OtherKept(e)
    PROVE  /\ pc'[e] = pc[e] /\ tx'[e] = tx[e] /\ plan'[e] = plan[e]
           /\ (pc[e] = "run" => Paired(plan[e])) => (pc'[e] = "run" => Paired(plan'[e]))
           /\ Altered(e)' = Altered(e)
           /\ tx[e] => Sees(e)' = Sees(e)
BY DEF OtherKept, Altered, Mid, Def, Sees, Paired

LEMMA EndsAlters ==
    ASSUME IInv, AInv, NEW c \in Clients, NEW how, Ends(c, how), pc[c] # "idle", db' = db,
           \A e \in Clients \ {c} : OtherKept(e),
           how = "done" => ~tx[c] /\ Altered(c) = {}
    PROVE  AInv'
<1>1. /\ pc'[c] = "idle" /\ tx'[c] = tx[c]
      /\ clean' = (clean /\ (tx[c] \/ how = "done"))
    BY EndsIdle DEF IInv
<1>2. \A e \in Clients : pc'[e] = "run" => Paired(plan'[e])
    BY <1>1, OthersStay DEF AInv
<1>3. ASSUME clean' PROVE CleanInv'
    <2>1. clean /\ CleanInv
        BY <1>1, <1>3 DEF AInv, IInv, TypeOK
    <2>2. \A e, d \in Clients : pc'[e] # "idle" /\ ~tx'[e] /\ pc'[d] # "idle" => e = d
        BY <1>1, <2>1, OthersStay DEF CleanInv
    <2>3. ASSUME NEW e \in Clients, pc'[e] # "idle" PROVE Sees(e)'.altering = Altered(e)'
        <3>1. e # c
            BY <1>1, <2>3
        <3>2. tx[e]
            BY <1>1, <2>1, <2>3, <3>1, OthersStay DEF CleanInv
        <3> QED
            BY <2>1, <2>3, <3>1, <3>2, OthersStay DEF CleanInv
    <2>4. InTransactions' => db'.altering = {}
        <3>1. CASE tx[c]
            BY <1>1, <2>1, <3>1, OthersStay DEF CleanInv, InTransactions
        <3>2. CASE ~tx[c]
            <4>1. db.altering = {}
                BY <1>1, <1>3, <2>1, <3>2 DEF CleanInv, Sees, IInv, TypeOK
            <4> QED
                BY <4>1
        <3> QED
            BY <3>1, <3>2
    <2> QED
        BY <2>2, <2>3, <2>4 DEF CleanInv
<1> QED
    BY <1>2, <1>3 DEF AInv

LEMMA CallsAlters ==
    ASSUME IInv, AInv, NEW c \in Clients, Ensure(c) \/ EnsureTable(c)
    PROVE  AInv'
<1>1. PICK inTx, tables : Calls(c, inTx, tables)
    BY DEF Ensure, EnsureTable
<1>2. /\ pc[c] = "idle" /\ pc'[c] = "owners" /\ tx'[c] = inTx /\ view'[c] = db /\ db' = db
      /\ clean' => clean /\ (Idle \/ (inTx /\ \A d \in Clients : pc[d] = "idle" \/ tx[d]))
    BY <1>1 DEF Calls, IInv, TypeOK
<1>3. \A e \in Clients \ {c} : OtherKept(e)
    BY ActSafe DEF Act
<1>4. \A e \in Clients : pc'[e] = "run" => Paired(plan'[e])
    BY <1>2, <1>3, OthersStay DEF AInv
<1>5. ASSUME clean' PROVE CleanInv'
    <2>1. CleanInv /\ db.altering = {}
        BY <1>2, <1>5 DEF AInv, CleanInv, InTransactions, Idle
    <2>2. \A e, d \in Clients : pc'[e] # "idle" /\ ~tx'[e] /\ pc'[d] # "idle" => e = d
        BY <1>2, <1>3, <1>5, OthersStay DEF Idle
    <2>3. ASSUME NEW e \in Clients, pc'[e] # "idle" PROVE Sees(e)'.altering = Altered(e)'
        <3>1. CASE e = c
            BY <1>2, <2>1, <3>1 DEF Sees, Altered
        <3>2. CASE e # c
            <4>1. tx[e] /\ pc[e] # "idle"
                BY <1>2, <1>3, <1>5, <2>3, <3>2, OthersStay DEF Idle
            <4> QED
                BY <1>3, <2>1, <3>2, <4>1, OthersStay DEF CleanInv
        <3> QED
            BY <3>1, <3>2
    <2> QED
        BY <1>2, <2>1, <2>2, <2>3 DEF CleanInv
<1> QED
    BY <1>4, <1>5 DEF AInv

LEMMA PlanPaired ==
    ASSUME NEW def, NEW cols, NEW found
    PROVE  /\ Paired(PlanOf(def, cols, found))
           /\ ~(PlanOf(def, cols, found).commit /\ ~PlanOf(def, cols, found).begin)
<1> DEFINE more == Exists(cols) /\ Lacks(def, cols) # {}
           p == PlanOf(def, cols, found)
<1>1. p.begin = (def.crr /\ more)
    BY DEF PlanOf
<1>2. p.commit = (def.crr /\ more)
    BY DEF PlanOf
<1>3. more => p.alters = Lacks(def, cols)
    BY DEF PlanOf
<1> HIDE DEF p
<1>4. Paired(p) /\ ~(p.commit /\ ~p.begin)
    BY <1>1, <1>2, <1>3 DEF Paired
<1> QED
    BY <1>4 DEF p

LEMMA ReadsAlters ==
    ASSUME IInv, AInv, NEW c \in Clients, ReadOwners(c) \/ ReadTable(c) \/ ReadIndexes(c),
           ~\E how : Ends(c, how)
    PROVE  AInv'
<1>1. /\ pc[c] \in {"owners", "table", "indexes"} /\ pc'[c] \in {"table", "indexes", "run"}
      /\ UNCHANGED <<db, tx, view, clean>>
    BY DEF ReadOwners, ReadTable, ReadIndexes, Goes, IInv, TypeOK
<1>2. \A e \in Clients \ {c} : OtherKept(e)
    BY ActSafe DEF Act
<1>3. pc'[c] = "run" => Paired(plan'[c]) /\ \A def : Mid(def, plan'[c]) = {}
    <2> SUFFICES ASSUME pc'[c] = "run"
                 PROVE  Paired(plan'[c]) /\ \A def : Mid(def, plan'[c]) = {}
        OBVIOUS
    <2>1. PICK found : plan'[c] = PlanOf(Def(c), columns[c], found)
        BY DEF ReadOwners, ReadTable, ReadIndexes, Goes, IInv, TypeOK
    <2> QED
        BY <2>1, PlanPaired DEF Mid
<1>4. \A e \in Clients : pc'[e] = "run" => Paired(plan'[e])
    BY <1>2, <1>3, OthersStay DEF AInv
<1>5. Altered(c) = {} /\ Altered(c)' = {} /\ Sees(c)' = Sees(c)
    BY <1>1, <1>3 DEF Altered, Sees, Mid
<1>6. ASSUME clean' PROVE CleanInv'
    <2>1. CleanInv
        BY <1>1, <1>6 DEF AInv
    <2>2. \A e, d \in Clients : pc'[e] # "idle" /\ ~tx'[e] /\ pc'[d] # "idle" => e = d
        BY <1>1, <1>2, <2>1, OthersStay DEF CleanInv
    <2>3. ASSUME NEW e \in Clients, pc'[e] # "idle" PROVE Sees(e)'.altering = Altered(e)'
        <3>1. CASE e = c
            BY <1>1, <1>5, <2>1, <3>1 DEF CleanInv
        <3>2. CASE e # c
            BY <1>1, <1>2, <2>1, <2>3, <3>2, OthersStay DEF CleanInv, Sees
        <3> QED
            BY <3>1, <3>2
    <2>4. InTransactions' => db'.altering = {}
        BY <1>1, <1>2, <2>1, OthersStay DEF CleanInv, InTransactions
    <2> QED
        BY <2>2, <2>3, <2>4 DEF CleanInv
<1> QED
    BY <1>4, <1>6 DEF AInv

LEMMA StatementsAlters ==
    ASSUME IInv, AInv, NEW c \in Clients, Statement(c)
    PROVE  AInv'
<1>1. pc[c] = "run" /\ Paired(plan[c])
    BY StatementRuns DEF IInv, AInv
<1>2. \A e \in Clients \ {c} : OtherKept(e)
    BY ActSafe DEF Act
<1>3. PICK d, rest : Runs(c, d, rest) /\ Follows(c, d, rest)
    BY <1>1, StatementAlters DEF IInv
<1>4. /\ pc' = pc /\ tx' = tx /\ clean' = clean /\ plan'[c] = rest /\ Def(c)' = Def(c)
      /\ IF tx[c] THEN view'[c] = d /\ db' = db ELSE db' = d
    BY <1>3 DEF Runs, Goes, IInv, TypeOK, Def
<1>5. \A e \in Clients : pc'[e] = "run" => Paired(plan'[e])
    BY <1>2, <1>3, <1>4, OthersStay DEF AInv, Follows
<1>6. ASSUME clean' PROVE CleanInv'
    <2>1. CleanInv
        BY <1>4, <1>6 DEF AInv
    <2>2. Sees(c)' = d /\ Altered(c)' = Mid(Def(c), rest)
        BY <1>1, <1>4 DEF Sees, Altered, Mid
    <2>3. d.altering = Mid(Def(c), rest)
        BY <1>1, <1>3, <2>1 DEF CleanInv, Altered, Follows
    <2>4. ASSUME NEW e \in Clients, pc'[e] # "idle" PROVE Sees(e)'.altering = Altered(e)'
        <3>1. CASE e = c
            BY <2>2, <2>3, <3>1
        <3>2. CASE e # c
            <4>1. pc[e] # "idle" /\ Sees(e).altering = Altered(e)
                BY <1>4, <2>1, <2>4 DEF CleanInv
            <4>2. tx[e]
                BY <1>1, <2>1, <3>2, <4>1 DEF CleanInv
            <4> QED
                BY <1>2, <3>2, <4>1, <4>2, OthersStay
        <3> QED
            BY <3>1, <3>2
    <2>5. InTransactions' => db'.altering = {}
        BY <1>1, <1>4, <2>1 DEF CleanInv, InTransactions
    <2> QED
        BY <1>4, <2>1, <2>4, <2>5 DEF CleanInv
<1> QED
    BY <1>5, <1>6 DEF AInv

LEMMA NextTableAlters ==
    ASSUME IInv, AInv, NEW c \in Clients, NextTable(c)
    PROVE  AInv'
<1>1. pc[c] = "run" /\ Altered(c) = {} /\ db' = db
    BY DEF NextTable, Altered, Mid, NoPlan
<1>2. \A e \in Clients \ {c} : OtherKept(e)
    BY ActSafe DEF Act
<1>3. CASE ~tx[c]
    <2>1. Ends(c, "done")
        BY <1>3 DEF NextTable
    <2> QED
        BY <1>1, <1>2, <1>3, <2>1, EndsAlters
<1>4. CASE tx[c]
    <2>1. pc'[c] \in {"commit", "owners"} /\ UNCHANGED <<tx, view, clean>>
        BY <1>4 DEF NextTable, Goes, IInv, TypeOK
    <2>2. \A e \in Clients : pc'[e] = "run" => Paired(plan'[e])
        BY <1>2, <2>1, OthersStay DEF AInv
    <2>3. ASSUME clean' PROVE CleanInv'
        <3>1. CleanInv
            BY <2>1, <2>3 DEF AInv
        <3>2. \A e, d \in Clients : pc'[e] # "idle" /\ ~tx'[e] /\ pc'[d] # "idle" => e = d
            BY <1>1, <1>2, <1>4, <2>1, <3>1, OthersStay DEF CleanInv
        <3>3. ASSUME NEW e \in Clients, pc'[e] # "idle" PROVE Sees(e)'.altering = Altered(e)'
            <4>1. CASE e = c
                BY <1>1, <1>4, <2>1, <3>1, <4>1 DEF CleanInv, Sees, Altered
            <4>2. CASE e # c
                BY <1>1, <1>2, <2>1, <3>1, <3>3, <4>2, OthersStay DEF CleanInv, Sees
            <4> QED
                BY <4>1, <4>2
        <3>4. InTransactions' => db'.altering = {}
            BY <1>1, <1>2, <1>4, <2>1, <3>1, OthersStay DEF CleanInv, InTransactions
        <3> QED
            BY <3>2, <3>3, <3>4 DEF CleanInv
    <2> QED
        BY <2>2, <2>3 DEF AInv
<1> QED
    BY <1>3, <1>4

\* A transaction that commits has committed its alterations.
LEMMA CommitAlters ==
    ASSUME IInv, AInv, NEW c \in Clients, Commit(c)
    PROVE  AInv'
<1>1. /\ pc[c] = "commit" /\ tx[c] /\ Altered(c) = {}
      /\ db' = db \/ db' = view[c]
    BY DEF Commit, Altered, IInv, ClientInv
<1>2. pc'[c] = "idle" /\ tx' = tx /\ clean' = (clean /\ (tx[c] \/ TRUE))
    BY EndsIdle DEF Commit, IInv
<1>3. \A e \in Clients \ {c} : OtherKept(e)
    BY ActSafe DEF Act
<1>4. \A e \in Clients : pc'[e] = "run" => Paired(plan'[e])
    BY <1>2, <1>3, OthersStay DEF AInv
<1>5. ASSUME clean' PROVE CleanInv'
    <2>1. CleanInv
        BY <1>2, <1>5 DEF AInv, IInv, TypeOK
    <2>2. InTransactions
        BY <1>1, <2>1 DEF CleanInv, InTransactions
    <2>3. db.altering = {} /\ view[c].altering = {}
        BY <1>1, <2>1, <2>2 DEF CleanInv, Sees
    <2>4. db'.altering = {}
        BY <1>1, <2>3
    <2>5. ASSUME NEW e \in Clients, pc'[e] # "idle" PROVE tx'[e] /\ Sees(e)'.altering = Altered(e)'
        <3>1. e # c /\ tx[e]
            BY <1>2, <1>3, <2>2, <2>5, OthersStay DEF InTransactions
        <3> QED
            BY <1>2, <1>3, <2>1, <2>5, <3>1, OthersStay DEF CleanInv
    <2> QED
        BY <2>4, <2>5 DEF CleanInv
<1> QED
    BY <1>4, <1>5 DEF AInv

LEMMA NextAInv == IInv /\ AInv /\ [Next]_vars => AInv'
<1> SUFFICES ASSUME IInv, AInv, [Next]_vars
             PROVE  AInv'
    OBVIOUS
<1>1. ASSUME NEW c \in Clients, Act(c) PROVE AInv'
    <2>1. \A e \in Clients \ {c} : OtherKept(e)
        BY <1>1, ActSafe
    <2>2. CASE Refused(c) \/ Fails(c)
        <3>1. PICK how \in {"refused", "failed"} : Ends(c, how)
            BY <2>2 DEF Refused, Fails
        <3>2. pc[c] # "idle" /\ db' = db
            BY <2>2 DEF Refused, Fails
        <3> QED
            BY <2>1, <3>1, <3>2, EndsAlters
    <2>3. CASE (ReadOwners(c) \/ ReadTable(c) \/ ReadIndexes(c)) /\ \E how : Ends(c, how)
        <3>1. Ends(c, "incompatible") /\ pc[c] # "idle" /\ db' = db
            BY <2>3 DEF ReadOwners, ReadTable, ReadIndexes, Goes, Ends, IInv, TypeOK
        <3> QED
            BY <2>1, <3>1, EndsAlters
    <2> QED
        BY <1>1, <2>2, <2>3, CallsAlters, ReadsAlters, StatementsAlters, NextTableAlters,
           CommitAlters DEF Act
<1>2. CASE UNCHANGED vars
    BY <1>2 DEF vars, call, history, reading, AInv, CleanInv, InTransactions, Altered, Mid,
                Paired, Sees, Def
<1> QED
    BY <1>1, <1>2, NextActs

\* No table is left between begin_alter and commit_alter (the wrapped statements of
\* planTable) unless a call outside a transaction failed or overlapped another.
THEOREM AlteringAlwaysEnds == Spec => []AlteringEnds
<1>1. IInv /\ AInv /\ [Next]_vars => AInv'
    BY NextAInv
<1>2. AInv => AlteringEnds
    BY DEF AInv, CleanInv, InTransactions, AlteringEnds, Idle
<1> QED
    BY <1>1, <1>2, InitAInv, Invariance, PTL DEF Spec
=============================================================================
