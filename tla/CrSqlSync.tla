----------------------------- MODULE CrSqlSync -----------------------------
(***************************************************************************)
(* Databases that replicate through packages/crsql: each keeps, for every  *)
(* cell of its replicated tables, a version, a value, the site that wrote  *)
(* it and the database version at which it came to be here.  A loop of the *)
(* caller's brings one site up to date with another: it reads the version  *)
(* tracked for the peer, pulls what the peer has beyond it, applies that   *)
(* in one transaction and tracks the highest version it received.  Loops   *)
(* overlap, repeat a batch, give up anywhere, and die with their process.  *)
(*                                                                         *)
(* CR-SQLite merges row by row (a greater version wins, then a greater     *)
(* value) and numbers what it accepts with versions of its own.            *)
(*                                                                         *)
(* Left out: deletions, which are changes like others, fractional indexes, *)
(* the metadata queries, and the order inside one version (seq).           *)
(***************************************************************************)
EXTENDS Naturals

CONSTANTS
    Sites, Cells, Tables,
    Values,        \* ordered as SQLite orders values
    TableOf,       \* cell -> its table
    Loops,         \* synchronisations that may be under way at a time
    ServiceKinds,  \* how services are made: "layer", "client" or both
    Nowhere,
    MaxVersion     \* bound on the versions of a database

ASSUME SyncInstance ==
    /\ Values \subseteq Nat \ {0}
    /\ TableOf \in [Cells -> Tables]
    /\ ServiceKinds \subseteq {"layer", "client"}
    /\ MaxVersion \in Nat
    /\ Nowhere \notin Sites

VARIABLES
    link,      \* site -> its connection, and the CrSql service made on it
    crr,       \* site -> its replicated tables
    rows,      \* site -> cell -> its row of crsql_changes, or NoRow
    version,   \* site -> crsql_db_version()
    tracked,   \* site -> peer -> the version in crsql_tracked_peers; 0: no row
    sync,      \* loop -> what it is doing
    given      \* history: the stamps that were written

syncVars == <<link, crr, rows, version, tracked, sync, given>>

\* A cell's row as pullChanges gives it, and as the table holds it.
Rows    == [ver : Nat, val : Values \cup {0}, origin : Sites \cup {Nowhere}, at : Nat]
NoRow   == [ver |-> 0, val |-> 0, origin |-> Nowhere, at |-> 0]
Changes == [cell : Cells, row : Rows]

Idle == [stage |-> "idle", site |-> Nowhere, peer |-> Nowhere, since |-> 0, batch |-> {}]
Syncs ==
    [stage : {"begun", "pulled", "applied"},
     site : Sites,         \* the database it brings up to date
     peer : Sites,
     since : Nat,          \* the tracked version it read
     batch : SUBSET Changes]

SyncTypeOK ==
    /\ link \in [Sites -> {"closed", "released"} \cup ServiceKinds]
    /\ crr \in [Sites -> SUBSET Tables]
    /\ rows \in [Sites -> [Cells -> Rows]]
    /\ version \in [Sites -> Nat]
    /\ tracked \in [Sites -> [Sites -> Nat]]
    /\ sync \in [Loops -> Syncs \cup {Idle}]
    /\ given \subseteq Cells \X [ver : Nat, val : Values \cup {0}]

SyncInit ==
    /\ link = [s \in Sites |-> "closed"]
    /\ crr = [s \in Sites |-> {}]
    /\ rows = [s \in Sites |-> [c \in Cells |-> NoRow]]
    /\ version = [s \in Sites |-> 0]
    /\ tracked = [s \in Sites |-> [p \in Sites |-> 0]]
    /\ sync = [l \in Loops |-> Idle]
    /\ given = {}

Stamp(row) == [ver |-> row.ver, val |-> row.val]
Less(a, b) == a.ver < b.ver \/ (a.ver = b.ver /\ a.val < b.val)

-----------------------------------------------------------------------------
(* The service on a connection. *)

Serves(s) == link[s] \in ServiceKinds

\* loadLibCrSql, or the caller's word that it was done; then makeCrSql, once
\* sqlExtInfo has an answer and unhex() is there.
Open(s) ==
    /\ ~ Serves(s)
    /\ \E kind \in ServiceKinds : link' = [link EXCEPT ![s] = kind]
    /\ UNCHANGED <<crr, rows, version, tracked, sync, given>>

\* Loops die with the scope of their service, and with its process.
Stopped(s) == [l \in Loops |-> IF sync[l].site = s THEN Idle ELSE sync[l]]

\* CrSql.Default adds a finalizer that runs crsql_finalize; make does not.
CloseScope(s) ==
    /\ Serves(s)
    /\ link' = [link EXCEPT ![s] = IF @ = "layer" THEN "closed" ELSE "released"]
    /\ sync' = Stopped(s)
    /\ UNCHANGED <<crr, rows, version, tracked, given>>

SiteCrash(s) ==
    /\ link[s] # "closed"
    /\ link' = [link EXCEPT ![s] = "closed"]
    /\ sync' = Stopped(s)
    /\ UNCHANGED <<crr, rows, version, tracked, given>>

\* automigrate or asCrr, for one table.
Migrate(s, t) ==
    /\ Serves(s)
    /\ crr' = [crr EXCEPT ![s] = @ \cup {t}]
    /\ UNCHANGED <<link, rows, version, tracked, sync, given>>

-----------------------------------------------------------------------------
(* Writing and synchronising. *)

\* A statement of the application on a replicated table.
Write(s, c, v) ==
    LET row == [ver |-> rows[s][c].ver + 1, val |-> v, origin |-> s,
                at |-> version[s] + 1] IN
    /\ Serves(s) /\ TableOf[c] \in crr[s]
    /\ version[s] < MaxVersion
    /\ rows[s][c].val # v
    /\ rows' = [rows EXCEPT ![s][c] = row]
    /\ version' = [version EXCEPT ![s] = @ + 1]
    /\ given' = given \cup {<<c, Stamp(row)>>}
    /\ UNCHANGED <<link, crr, tracked, sync>>

\* getPeerVersion; no row is version 0.
BeginSync(l, s, p) ==
    /\ sync[l] = Idle
    /\ s # p /\ Serves(s)
    /\ sync' = [sync EXCEPT ![l] =
          [stage |-> "begun", site |-> s, peer |-> p, since |-> tracked[s][p],
           batch |-> {}]]
    /\ UNCHANGED <<link, crr, rows, version, tracked, given>>

\* Mutant: the bound is exclusive twice.
BeyondNext(s, p, v) ==
    {change \in {[cell |-> c, row |-> rows[p][c]] : c \in Cells} :
        change.row.at > v + 1 /\ change.row.origin # s}

\* pullChanges(v, [s]) at p.
Beyond(s, p, v) ==
    {change \in {[cell |-> c, row |-> rows[p][c]] : c \in Cells} :
        change.row.at > v /\ change.row.origin # s}

Pull(l) ==
    LET changes == Beyond(sync[l].site, sync[l].peer, sync[l].since) IN
    /\ sync[l].stage = "begun" /\ Serves(sync[l].peer)
    /\ changes # {}
    /\ sync' = [sync EXCEPT ![l].batch = changes, ![l].stage = "pulled"]
    /\ UNCHANGED <<link, crr, rows, version, tracked, given>>

\* The changes CR-SQLite accepts, and the row it then holds.
Wins(s, change) == Less(Stamp(rows[s][change.cell]), Stamp(change.row))
Numbered(s, row) ==
    [row EXCEPT !.at = IF version[s] < @ THEN @ ELSE version[s] + 1]

\* Mutant: the row that comes last replaces what there is.
MergedBlindly(s, changes, c) ==
    IF \E change \in changes : change.cell = c
    THEN Numbered(s, (CHOOSE change \in changes : change.cell = c).row)
    ELSE rows[s][c]

\* The row of a cell, and the versions there are, once changes are inserted.
Merged(s, changes, c) ==
    IF \E change \in changes : change.cell = c /\ Wins(s, change)
    THEN Numbered(s, (CHOOSE change \in changes : change.cell = c).row)
    ELSE rows[s][c]

Versions(s, changes) ==
    {version[s]} \cup
    {Numbered(s, change.row).at : change \in {x \in changes : Wins(s, x)}}

\* applyChanges: all rows in one transaction, if all have a replicated table.
\* The same batch may be applied again.
Apply(l) ==
    LET s == sync[l].site
        changes == sync[l].batch
    IN
    /\ sync[l].stage \in {"pulled", "applied"}
    /\ \A change \in changes : TableOf[change.cell] \in crr[s]
    /\ \E n \in Versions(s, changes) :
         /\ \A m \in Versions(s, changes) : m <= n
         /\ version' = [version EXCEPT ![s] = n]
    /\ rows' = [rows EXCEPT ![s] = [c \in Cells |-> Merged(s, changes, c)]]
    /\ sync' = [sync EXCEPT ![l].stage = "applied"]
    /\ UNCHANGED <<link, crr, tracked, given>>

\* Mutant: the version tracked is the one the peer has by now (getDbVersion).
TrackNow(l) ==
    /\ sync[l].stage = "applied"
    /\ tracked' = [tracked EXCEPT ![sync[l].site][sync[l].peer] = version[sync[l].peer]]
    /\ sync' = [sync EXCEPT ![l] = Idle]
    /\ UNCHANGED <<link, crr, rows, version, given>>

\* setPeerVersion with the highest version of the batch: INSERT OR REPLACE.
Track(l) ==
    /\ sync[l].stage = "applied"
    /\ \E change \in sync[l].batch :
         /\ \A other \in sync[l].batch : other.row.at <= change.row.at
         /\ tracked' = [tracked EXCEPT ![sync[l].site][sync[l].peer] = change.row.at]
    /\ sync' = [sync EXCEPT ![l] = Idle]
    /\ UNCHANGED <<link, crr, rows, version, given>>

\* Any step may fail: a missing table, a busy database, a lost message.
GiveUp(l) ==
    /\ sync[l] # Idle
    /\ sync' = [sync EXCEPT ![l] = Idle]
    /\ UNCHANGED <<link, crr, rows, version, tracked, given>>

SyncNext ==
    \/ \E s \in Sites : Open(s) \/ CloseScope(s) \/ SiteCrash(s)
    \/ \E s \in Sites, t \in Tables : Migrate(s, t)
    \/ \E s \in Sites, c \in Cells, v \in Values : Write(s, c, v)
    \/ \E l \in Loops, s, p \in Sites : BeginSync(l, s, p)
    \/ \E l \in Loops : Pull(l) \/ Apply(l) \/ Track(l) \/ GiveUp(l)

SyncSpec == SyncInit /\ [][SyncNext]_syncVars
-----------------------------------------------------------------------------
(* Properties. *)

\* A tracked version never promises too much (CrSql.ts 488-516): whatever the
\* peer has now at or below it, the site has that or something greater, however
\* loops overlap, repeat, give up or die, and whichever of them ends last.
TrackedIsCovered ==
    \A s, p \in Sites, c \in Cells :
        rows[p][c].at <= tracked[s][p] =>
            ~ Less(Stamp(rows[s][c]), Stamp(rows[p][c]))

\* Nobody's changes are withheld for good by the version or by the exclusion of
\* the puller's own site (CrSql.ts 96-134): when no pull would bring anything,
\* all sites hold the same values.
NothingLeftIsConverged ==
    (\A s, p \in Sites : s # p => Beyond(s, p, tracked[s][p]) = {}) =>
        \A s, p \in Sites, c \in Cells : Stamp(rows[s][c]) = Stamp(rows[p][c])

Map == INSTANCE ReplicatedMap
    WITH stamp <- [s \in Sites |-> [c \in Cells |-> Stamp(rows[s][c])]]

\* Sites only write and join: no batch, in whatever order and however often it
\* is applied (CrSql.ts 337-376), takes a known change back or invents one.
ImplementsMap == Map!Spec
=============================================================================
