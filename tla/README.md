# Specifications of effect-native

TLA+ models of the packages of this repository that carry logic of their own: a
debugger session over a socket, a DOM mirrored into a terminal and the keys that
come back from it, a record-and-replay cache, databases that migrate and
replicate, graph functions in SQL, the libraries that test terminals, and three
programs one starts from a shell. The models are translated from the TypeScript
and Zig under `src/packages`; TLC checks them on small instances and TLAPS proves
the safety of most of those with a state of their own for every value of the constants. `PROJECT.json` lists components, runs, hazards, theorems,
and for every definition the lines it models.

- [Inventory](#inventory): what is in the repository, and what can go wrong in it
- [Modules](#modules): what is specified where, and what composes what
- [CdpSession and RequestReply](#cdpsession-and-requestreply)
- [DomTuiBridge](#domtuibridge), [EventRelay](#eventrelay)
- [FetchCache](#fetchcache)
- [GraphEnsure](#graphensure)
- [CrSqlSync and ReplicatedMap](#crsqlsync-and-replicatedmap)
- [TuiSpawn](#tuispawn)
- [TwoHopClient](#twohopclient), [SharedLayers](#sharedlayers)
- [StepsCli](#stepscli), [NoteCli and SshKeep](#notecli-and-sshkeep)
- [Functions](#functions): the parts that keep no state
- [Runs](#runs), [Proofs](#proofs), [Not modelled](#not-modelled), [Disagreements](#disagreements)

To check a model: `tlc -config CdpSession_calls.cfg MCCdpSession.tla`; to check
proofs: `tlapm CdpSessionProofs.tla`.

## Inventory

Packages do not call each other much: they are libraries, each used by programs
and tests. Interaction is inside a package, between its fibers or callbacks and
a peer: a socket, a DOM, a file system, a database, a child process.

| Part | State | Operations | With whom | What is hard | What makes it correct |
|---|---|---|---|---|---|
| **debug: CDP session** (`internal/Cdp.ts`, `Debug.ts`) | pending table, next id, listeners, `closed`, the WeakMap from a session to its state | `sendCommand`, `handleIncoming`, `subscribe`, `disconnect`, the scope's finalizer | a Chrome DevTools target on a WebSocket | fibers interleave at every yield; answers are late, repeated or undecodable; writes and the socket fail; calls time out; releases race | a call is settled once, by its own answer; a failure settles what is in the table; a listener misses nothing; a released session is quiet and holds nothing |
| **opentui-dom: bridge** (`bridge/dom-to-tui-bridge.ts`, `node-map.ts`) | node map, renderables, the observer's records | `observe`, `disconnect`, `processExistingChildren`, `handleMutations` | a DOM, a tree of renderables | records are handled after all the changes of a batch, against the final tree | at rest map, nesting and content, up to blanks around a text, are those of the document |
| **opentui-dom: event relay** (`event-relay.ts`) | trap, the focus to give back, scroll position, a document's focus, radios and fields | `attach`, `detach`, traps, `handleKeypress` | the DOM, listeners of the page, the terminal | listeners run between a key and its default action; focus moves while nodes go; cursors at boundaries | Tab visits what can be seen, and stays in a trap; what it lands on is scrolled into sight; a field is a line editor |
| **opentui-dom: styles** (`style-bridge.ts`, `tailwind-mapper.ts`, `theme-map.ts`) | none | class list and attributes to style | the bridge | patterns in each other's way; three layers; variables | a class that can be read is read; layers override in order; an `hsl` is the colour CSS says |
| **fetch-hooks: cached fetch** (`index.ts`, `cache-manager.ts`) | files per key, a copy at a log server | `getCachedResponse`, `storeRequest`, `storeResponse` | the origin, the file system, dev-fs-logs | an entry is several writes; crash between; a server failing at any request; callers of one key overlap | what is replayed is one response, whole, and the same for ever |
| **fetch-hooks: streams** (`sse-handler.ts`) | a buffer per stream | record, replay | the origin's stream | events are split over network chunks | whole events come back in order, with the delays that were |
| **fetch-hooks: keys, sidecars, flat files** (`request-hasher.ts`, `binary-extractor.ts`, two storages) | files | `get`, `set`, `has` for each kind of file | the file system | spellings of one request; images cut out of a text into files that are written over | the text written last for a request is found by every spelling of it |
| **crsql: replication** (`CrSql.ts`) | a replicated database, versions tracked per peer | `pullChanges`, `applyChanges`, `setPeerVersion` | other databases, through a loop the caller writes | lost, repeated, reordered batches; cursors that move backwards | a cursor never passes a change that was not applied; equal sets of changes give equal databases |
| **graph-db: schema ensure** (`ensure/GraphDialectSqlite.ts`, `GraphDb.ts`) | the database's schema | `planTable`, `ensureTable`, `ensure` | SQLite, other processes | failure between statements; plans made stale by others; old versions of a table | success means provided, for good; nothing is dropped; a second run does nothing |
| **graph-db: repositories** (`nodeRepo.ts`, `edgeRepo.ts`) | rows | `put`, `queryById`, `get`, `out`, `in` | SQLite | columns of other kinds in one table; ids joined from texts | what was put last is read, and nothing else |
| **sqlite-graph-ext: extension** (`extension.zig`) | id sets as text; an edge table | set algebra, neighbourhoods, two hops, ranked difference | SQLite | repeated ids, separators, groups | set laws; the text decodes to what the table says |
| **sqlite-graph-ext: clients** (`client.ts`, `idset.ts`, `schema.ts`) | none; several queries | `recommendByTwoHop` | a database others write | the table changes between the queries | the rows of one SQL pipeline when quiet; never a known or unreachable candidate |
| **tui-testing-library: spawned terminals** (`Spawn.ts`) | output so far, exit state | `waitForText`, `waitForStable`, `clearOutput`, `close` | a child process in a terminal | polls race with data, exit and timeout | a text that arrived in time is found; stable means quiet, or closed; waits end |
| **tui-testing-library: harness and assertions** (`assertions.ts`) | a screen | `ansi`, `waitFor` | an emulator | styles written as differences | the text restores the screen |
| **opentui-dom-testing-library** (`queries.ts`, `events.ts`) | none; a document | queries, waits, `fireEvent` | a document | labels in four ways; braces in typed text | queries agree with each other; a text is typed key by key |
| **debug: steps CLI** (`cli/steps.ts`) | what is known of each script, a count, forked fibers | `steps`: enable, handle events, step, resume, leave | a debuggee, through a session | StepOvers nobody waits for; refused sources; a lost connection | every stop is answered once; what is printed is where the program stands |
| **bun-test** (`internal/internal.ts`) | a memo map and a scope per suite | `layer`, nested suites, their tests and ends | Bun's runner | tests that fail, time out and go on; layers that fail | a test has its layers; all are released at the end |
| **note** (`Validate.ts`, `Note.ts`, `bin.ts`; `schemas`: `Slug.ts`) | a directory | one command | the file system, other runs | two looks and a write; midnight; kills | a created note is in its file |
| **ssh-keep** (`cli.ts`) | a helper on a server, sessions of tmux | one command | other clients, dropping connections | installing half-way; sessions that come and go between look and attach | the helper is whole; one lands in the session one asked for |
| **patterns** (`list.ts`, `tree.ts`, `thing.ts`, `CodexSession.ts`) | none | lists, trees, tagged things, schemas of session logs | | sizes and hashes beside the data; a union with a member without a tag | what is put in comes out; equal things have equal hashes |
| **adapters**, **libcrsql**, **libsqlite**, **effect-native**, demos | little or none | see [Not modelled](#not-modelled) | | | |

`.specs`, `.patterns` and the like are documents; `.specs` was used to learn
what is promised, never to define what a model does. The hazards in
`PROJECT.json` name, line by line, what a test of these parts would hardly
reach, and which property watches it.

## Modules

| Module | Models | Instance | Proofs |
|---|---|---|---|
| `RequestReply`, `CdpSession` | debugger session; the first is what it promises | `MCCdpSession` | `CdpSessionProofs` |
| `DomTuiBridge` | DOM to TUI bridge | `MCDomTuiBridge` | `DomTuiBridgeProofs` |
| `EventRelay`, over `TextField`; `LineEditor` is what a field promises | keys, focus, traps, editing | `MCEventRelay` | `TerminalProofs` |
| `FetchCache` | record-and-replay cache | `MCFetchCache` | `StoreProofs` |
| `GraphEnsure` | schema ensure | `MCGraphEnsure` | `GraphEnsureProofs` |
| `ReplicatedMap`, `CrSqlSync` | replication; the first is what it promises | `MCCrSqlSync` | `StoreProofs` |
| `TuiSpawn` | a process, its terminal and the waits | `MCTuiSpawn` | `TerminalProofs` |
| `StepsCli` | the command that steps a program | `MCCommands` | `CommandProofs` |
| `NoteCli` (over `Slug`), `SshKeep` | two more commands | `MCCommands` | `CommandProofs` |
| `SharedLayers` | suites that share layers | `MCFunctions` | `CommandProofs` |
| `TwoHopClient`, over `GraphExt`, over `IdSet` | queries of a recommendation among writers | `MCFunctions` | `IdSetProofs`, `TwoHopProofs` |
| `IdSet`, `GraphExt`, `Styles`, `ThemeMap`, `TerminalScreen`, `SseCodec`, `FileStorage` (over `SseCodec`), `DomQueries`, `FireEvents`, `GraphRepos`, `Slug`, `CodexSession`, `Patterns` | functions without state of their own | `MCFunctions` | |

Abstract specifications: `RequestReply` for any transport of commands,
`ReplicatedMap` for any replication (both shown to be implemented by TLC and by
TLAPS), and `LineEditor` for any text field: relations between a line and what a key
makes of it, without positions (an action property of `EventRelay`, by TLC and by TLAPS:
each edit is one of them). What would be worth stating next: for `FetchCache` a
cache that chooses one response per key and keeps it, and for `GraphEnsure` a
schema that only grows, of which `ExpandsOnly` and `EnsuredIsProvided` are the
two halves.

## CdpSession and RequestReply

`RequestReply` is what a session promises a caller: a call that was issued is
settled at most once, with its own answer or an error; it returns only then;
a call is refused only by a session that is gone or that it does not suit.

`CdpSession` is one session just connected. Sessions share only the WeakMap
that finds their state, so one stands for all. Correspondence:

| Code | Model |
|---|---|
| `sendCommand`: find the state, take an id, put the deferred into the table, write, await | `GetState`, `AllocateId`, `Register`, `Write` or `WriteFails`, `Await`; `Interrupt` anywhere between |
| `handleIncoming` | `ReceiveStale`, `ReceiveError`, `ReceiveResult` then `Decoded` or `Undecodable`, `ReceiveInvalid`, `ReceiveEvent` |
| the forked `runRaw` and its error handler | `SocketFails`, `PeerCloses`, `PumpFailsPending`, `PumpEndsStreams` |
| `disconnect` and the finalizer, both `releaseSession` | `Disconnect`, then `FindSession`, `CheckClosed`, `MarkClosed`, `ReleaseTakesPending`, `ReleaseFailsPending`, `ReleaseTakesStreams`, `ReleaseEndsStreams`, `CloseScope`; `InterruptDisconnect` between |
| `subscribe` and its scope | `Subscribe`, `AddSubscriber`, `Unsubscribe` |

*Atomicity.* A fiber may be descheduled at each yield of an Effect operation, so
an action is one operation on shared state and the plain code up to the next
yield. The clean-up after a failed write, and the pump's, run right after their
fiber was resumed and need far fewer operations than a time slice has; they are
one step each. A release may have used up its slice anywhere, so emptying the
table and failing the calls found in it are two steps. A handler of a chunk runs
to its end unless the response schema decodes asynchronously; then other
handlers run meanwhile, and all are interrupted when `runRaw` ends.
A writer waits for an open socket, so it never writes once the pump
has ended. `runRaw` succeeds on a clean close. The finalizer runs
uninterruptibly; `disconnect` does not.

*Abstractions.* A successful value is the command it answers, so a value given to
the wrong caller is visible. `MaxId` bounds the ids (the code's are unbounded)
and `MaxEvents` the events. Opening the socket, whose failure leaves no
session, is the initial state.

*Fairness* (`FairSpec`): weak, for `Register`, `Await`, a handler's end, the
pump's two clean-up steps, and a release once begun: Effect's scheduler runs
every runnable fiber, and schemas terminate. Nothing is assumed of the peer, of
writes, of interruption, or of anyone deciding to call or to disconnect.

*Bounds.* Two calls with two ids are enough for wrong pairings, repeated answers
and one failing with the other; a disconnect and the finalizer for every race
of two releases; one listener and two events for a listener that joins,
leaves and returns between events (queues of different listeners do not touch, and
`CdpSessionProofs` covers any number).

## DomTuiBridge

Scripts and the handler share one thread. A script changes the document in any
number of steps (`Remove`, `InsertNode`, `SetData`) while the MutationObserver
collects records; `Deliver` hands over the batch, and `HandleRemoved`,
`HandleAdded`, `HandleData` go through it before any script runs again. So each
record is read against the *final* tree, and the gap between the two is
what the properties are about. `Observe`, `Disconnect` and
`ProcessExistingChildren` may come at any time between batches.

`node-map.ts` is `map` (a node's current box), a box is a node and a number so
that an old box of a node stays visible; `inside` and `shown` are the tree of
renderables. What is above a node is the least set that has its parent and is
closed upwards (`Above`): the same as following parents, and something to reason
about without recursion. The class tables are one style key: `Blank` gives no style.
The document and the observer are external: records are those of a
`childList`, `characterData` and `attributes` observer with `subtree`.
Left out: the order of siblings, ignored node kinds, transient observers (records
for a subtree after it was taken out in the same batch), and `getNode`.

History: `synced` is given up when the bridge cannot know of a change (one made
while nothing is observed, or inside a subtree whose removal is still to be handled;
records dropped by `disconnect` or a second `observe`) and when
`processExistingChildren` draws with records pending; `blanked` are the texts that were blank once, which the
bridge does not map. `AtRest` is "synced and nothing to handle";
`MirrorsTheDocument` (map, places and content) is required there. A text is trimmed when
its box is made and shown as it is when it changes later, so what a box may show of a content
with blanks around it is either form (`MayShow`); a content without them, and an element's style, is
shown exactly. `Trim` is a constant, any function on the contents; in the run one content is the other with blanks around it.

*Bounds.* Two elements and a text give every shape that matters to
`findParentRenderable` (a parent, a parent of the parent, a sibling); three
changes are enough to add, move and take out one node inside a batch.

## EventRelay

A key is two steps, because the page's listeners run between them: `Keypress`
reads the focused element and dispatches keydown; then scripts may do anything
(`FocusElement`, `RemoveElement`, `HideElement`, `DisableElement`, `SelectText`,
`Scroll`, `Attach`, `Detach`, the two operations of the trap,
`SetScrollContainer`); then comes `Prevented`, or one of the default actions in the
order in which `handleKeypress` tries them: `ReleaseTrap`, `handleAccesskey`,
`moveFocus`, `moveRadioFocus`, `dispatchClick`, `Edit`, or `Ignored`. The default action
uses the target that was read before, as the code does.

An element has a kind, a parent, rows, a radio group, an accesskey and, for a label,
a target; an element that is `drawn` has a renderable, whose place is counted from the
drawn element around it (`Holder`). `Top` is the row of the scroll content where an element
is, `elementTop` the row that `scrollIntoView` works out for it: it adds up at most `MaxDepth` boxes
(20 in the code), so that the two differ for what is deeper (`Depth`). `TextField` holds the editing functions (`findWordBoundaryForward` and the
like) on sequences of characters with a selection; a field of a type without
selection is edited at its end. `LineEditor` says what such keys mean, without
positions: which lines Ctrl, Alt, a character and Backspace may make of a line, where a
line is the text before its cursor, the text after it, and how much of that is selected.
`Line(f)` is the line of a field, and `EditsLikeALine` says that every edit makes
of it what the key may. `MovedAmong` is the step to the next stop in document order,
for Tab and for the arrows in a group of radios; `TabVisitsEverything` says of it that
any set of stops which holds the first one reached and is closed under Tab holds them all. happy-dom is external: `focus()` takes any connected element, a
removed one loses the focus to the body. Listeners of focus, change and input
events run after the step. Left out: the fields of dispatched events.

`TabLandsInSight` asks for sight only where the code can give it: of a drawn element, at most
`MaxDepth` boxes down, no higher than a viewport that has rows. No property speaks of what a trap gives back: `preTrapFocus`
is remembered and restored by one assignment each, and a trap activated inside another one loses it.

*Bounds.* `Dialog` has a trap whose radio group goes on outside; `Form` has a field
with a label and letters, blanks and ranges up to three characters; in `Nested`, with
`MaxDepth` 2, a button is three boxes down and another one has no box. Two
script steps, besides the first `Attach`, are what a listener needs to
move the focus and take the target away.

## FetchCache

One cache key; files of two keys have nothing in common. `Begin`, then `Lookup`,
`DevMeta`, `Load`, `DevBody` are the awaits of `getCachedResponse`; on a miss,
`Answered` or `Rejected`, `StoreMeta`, `StoreBody`, `Offer`, `OfferBody` are
`storeRequest`, the origin and `storeResponse`. `Crash` may come at any await,
`CrashInWrite` in the middle of a write, and the next calls start on what
is stored. Each request to the log server may fail, unnoticed. A response is
its number, its kind (binary, stream, text) and the size of its body (none, empty,
full): what `storeResponse` and `getCachedResponse` branch on.

An entry is not written in one step, so most properties speak of executions in
which no two calls overlapped and no write was torn (`clean`). Not
claimed, because the code does not keep it: with overlapping calls the metadata of
one can end up with the body of another; a torn body is replayed as
if whole; an empty body may come with the metadata of another response.
Left out: requests that bypass the cache, hooks (the identity by default), the
timing of streams, and the storage-less variant.

*Bounds.* Two callers and two answers: the second answer is what shows that
something was asked again or mixed. Kinds and sizes are complete.

## GraphEnsure

Clients are connections of processes to one database; a client makes one call at a
time. `Ensure` is `GraphDb.ensure` (all tables of a spec, in `sql.withTransaction`),
`EnsureTable` the dialect's own `ensureTable`, whose statements commit one
by one. `ReadOwners`, `ReadTable`, `ReadIndexes` are the queries of
`readExistingState` (existence and columns of a table are one step: tables
are never dropped, so reading them apart shows nothing else). `PlanOf`,
`ColumnsClash`, `IndexesClash` are `planTableWithDefaults`, `compareColumns`,
`compareIndexes`. The rest of a plan is a set per kind of statement, run by
`CreateTable`, `BeginAlter`, `AddColumn`, `CommitAlter`, `CreateIndex`, in
every order that keeps kinds apart. `Refused` is a statement SQLite cannot
execute whatever the rows; `Fails` is any other failure, and the death of the
process. SQLite itself is external: a transaction works on a copy taken when it
begins and is refused at its end if somebody else changed the database, which
allows every interleaving SQLite's locks allow and more.

Left out: the order of columns, schemas other than `main`, defaults (never
compared), and rows; whether rows suit a statement is up to `Fails`.

History: `ensured` are the tables of calls that succeeded, in a transaction
or while nobody else changed the database (`alone`): outside a transaction a plan can
go stale, and `IF NOT EXISTS` then hides it. `clean` says that no
call outside a transaction failed or overlapped another; only then does
`AlteringEnds` claim that `begin_alter` was always matched.

*Bounds.* The specs are two versions of a table (the second adds a column and an
index and is replicated), a version that the first two refuse, and a second table
that wants the first one's index name. Two clients and four calls: a direct call
that fails half-way, its repetition, another client's transaction, and one more.

## CrSqlSync and ReplicatedMap

A site is a database with the service made on its connection. Each cell (a
column of a row) has a version, a value, the site that wrote it and the database version
at which it came to be here, as `crsql_changes` gives them. `Migrate` is `automigrate` or
`asCrr`, `Write` a statement of the application. A loop of the caller's is
`BeginSync` (`getPeerVersion`), `Pull` (`pullChanges` with the puller's own site
excluded), `Apply` (one transaction, all rows or none), `Track` (`setPeerVersion`
with the highest version received, stored whatever was there). `Apply` may come again,
`GiveUp` anywhere (also for a lost message), and `CloseScope` and `SiteCrash` end all
loops of a site; several loops bring the same site up to date, so the one that
started first may track last. `Open` makes the service
with a finalizer or without, and a connection can be used for several services in turn.

CR-SQLite is external: a greater version wins, then a greater value, and what
is accepted is numbered beyond what there is. Left out: deletions (which are
changes like others), the order within one version, fractional indexes, and
the schema derived from changes.

`ReplicatedMap` says what replication promises: a cell's stamp only grows, by a
write or by taking what a site was given.

*Bounds.* Two cells in two tables show a batch with one table missing; two loops
show overlap and repetition; two versions and two values show every outcome of
a merge.

## TuiSpawn

The process prints its chunks (`ProcessPrints`) and ends (`ProcessExits`); the
terminal delivers them (`Data`) and the end (`Exit`), which may overtake data
not yet read. `CallWait` is a wait's first look; `Fire` each later one, made when its
timer is due and possibly a tick late; the checks (`CheckText`, `CheckStable`,
`CheckPoll`) are the bodies of the three loops with their order of conditions.
`Close` and `ClearOutput` may come at any time. Waits share the output and
nothing else, so one call of each kind is enough (`MaxCalls`).

*Fairness:* weak, for `Tick` (time passes) and for each wait's `Fire` (the event
loop runs due timers). Nothing is assumed of the process.

*History:* `arrived` are text waits during which the text was in the output;
`ArrivedIsFound` requires that they do not fail. `StableIsQuiet` is about both ways in which `waitForStable` succeeds:
no data for `stableMs`, or a terminal that is closed, which the code takes for stable whenever data came
last (`Spawn.ts` 357). `cleared` excuses it: clearing the output while a wait runs can hide a change.

*Bounds.* A needle of two chunks among four, intervals that do and do not divide
the timeout, and a clock that goes on past two timeouts.

## StepsCli

Three kinds of fibers share the session: the command's own (`Discover`, `MainSends`,
`MainGoesOn`), the one that takes events one at a time and waits for the answers to
what an event makes it send (`HandleScript`, `HandlePause`, then `Listed`, `SourceRead`,
`Answered`, `Leave` or `PrintError`), and those forked to send a StepOver (`ForkSends`).
The debuggee is external: it serves commands in the order they were written, announces
scripts before it stops in them, stops where it likes, and may finish;
`LoseConnection` may come at any time. `WithSource` and `Show` are what is done with a
stop in a script of the user's.

History: `dropped` are the stops whose event ended in a printed error, after which
nothing is sent for them; the properties do not speak of those.

*Fairness:* weak, for the command's fiber, the handler, the forked fibers (Effect's scheduler
runs what is runnable) and the debuggee's answers (without which nothing can be promised);
nothing is assumed of the program or the connection. `StopsEnd` rests on it.

*Bounds.* A script of each kind (the user's, internal, without source), one source the
debuggee may refuse, two steps asked for and three stops: one more than the command counts.

## NoteCli and SshKeep

A run of `note` is a process: `Start` (validation), `CheckWord` for each word,
`CheckTarget`, `Open` and `WriteNote` (the write empties the file before it fills it),
`Kill` anywhere, and `Tick` is the clock. `Slug` is `slugify`, letter by letter.
`collided` remembers runs that wrote one file at once. *Bounds:* two runs, a file that
is there, titles that share a slug, midnight between any two steps.

A client of `ssh-keep` connects, installs the helper if it may not be executed
(`TestHelper`, `OpenHelper`, `FillHelper`, `ChmodHelper`), and runs it: `Look`, then `Attach`
or `Create`. tmux is external: it takes a name for the session whose name is that, or the
only one that starts with it. Connections drop at any step (`Disconnect`). `overlap`
remembers that two clients wrote the helper at once. *Bounds:* two clients that connect
twice each, names that start with each other.

## SharedLayers

`plan` is what was declared, in Bun's order: tests, and the end of each suite. The first test
of a suite builds its layer and those around it (`BuildContext`), some of which may
fail; a test ends, fails or times out and goes on; `Teardown` is the end of a suite.
`observers` is Effect's memo map, which is external: the scopes that hold each layer.
*Bounds:* four suites, nested up to three deep, and seven tests in every order.

## TwoHopClient

`recommendByTwoHop` is three queries (`ReadTargets`, `ReadCounts`,
`ReadInbound`), each of which may fail (`QueryFails`) or give a text that does
not decode; between them other connections add rows (`Insert`) and soft-delete them.
The queries are those of `GraphExt`, on id sets built by
`idsetFromValues`, so text, sorting and decoding are in the model.
`runNaiveTwoHopWithoutExtension` is the demo's pipeline over plain SQL, written as
the sets it means; `ParityWhenQuiet` compares the two. `graph_two_hop_counts` does not look at
`deleted_at` and takes "" for a type like others (`Hops`).

`RowsAreLines` assumes that no id has a newline: a payload's rows are lines (`README.md` 77 of the
package) and nothing in them is escaped. Ids may be empty, have tabs and be equal but for their case.
Parity is about calls that are `Quiet`: nobody writes, the types are given, and no row has the id "", which
the client drops from its sets while the SQL of the demo follows it. It compares candidates, support, connectors
and their order; the demo also compares `deterministicOrd` (`demo.ts` 408), which parity leaves out because it differs.

*Bounds.* Tables of three to five edges among five nodes, ids in both cases (byte
order and letter order differ), rows that are equal, an id with a tab, two
writes.

## Functions

`MCFunctions` runs three things that share nothing: `TwoHopClient`, `SharedLayers`, and the
functions, for which `args` is the call that is made. Each call belongs to a family, and a property says
of the calls of its families what the results must be: `QueriesTellTheGraph` (`IdSet`,
`GraphExt`, `GraphRepos`), `ScreensFollowTheStyles` (`Styles`, `ThemeMap`, `TerminalScreen`),
`DataSurvives` (`SseCodec`, `FileStorage`, `CodexSession`, `Slug`, `Patterns`) and `DomAgrees`
(`DomQueries`, `FireEvents`), each a conjunction of the named laws below.
Bounded inputs are chosen so that every branch of the functions is taken.

- `IdSet` (extension.zig, idset.ts): texts are bytes. `parseSet` keeps the first,
  third, fifth of equal ids, for it compares with freed memory, which a ReleaseSafe build has
  filled with a pattern. `AlgebraOfSets`: on blobs without three equal ids the
  functions are those of sets, and what they write is canonical.
- `GraphExt` (extension.zig, schema.ts): the SQL is a selection on a sequence of rows;
  a `where_sql` is the set of rows it holds of. `NeighbourhoodsSurvive`, `SupportIsCounted`,
  `DiffTellsBoth`: a neighbourhood or support that is written and decoded is that of the table; from a ranked difference
  both snapshots can be had back.
- `Styles`, `ThemeMap` (tailwind-mapper.ts, style-bridge.ts, theme-map.ts): a class is what its
  dashes separate; of each table of words a row of each shape is kept.
  `NoClassIsLost`, `SpacesAreSizes`, `LayersCascade`, `HslIsCss`: no readable class is lost, each layer overrides the
  one below, references are resolved, and `hslToHex` is the colour of the CSS
  definition (in exact arithmetic).
- `TerminalScreen` (assertions.ts): `ansi` and a terminal that reads it.
  `AnsiRestores`: the terminal shows the screen again, but for the three cases
  under [Disagreements](#disagreements).
- `SseCodec` (sse-handler.ts): `StreamSurvives`: whole events come back in order, with their
  delays up to the cap; every file that was written is read as it was meant.
- `FileStorage` (request-hasher.ts, binary-extractor.ts, filesystem-storage.ts,
  flat-file-storage.ts): the files of both storages, one operator per operation and kind of file. `LastWriteIsFound`:
  after any writes, what is read for a request is what was last written for that
  request however it is spelt, images included.
- `DomQueries` (queries.ts): `ScopeNarrows`, `ExactIsStricter`, `FieldsHaveOneName`, `StatesDivide`, `WaitsFind`: variants of a query agree
  (one, many, none); labels, names and states divide a document as told; a wait
  finds what was there when it looked.
- `FireEvents` (events.ts): a page with a focus and the events so far.
  `TextIsTyped`, `TabGoesRound`, `ActsKeepApart`: a typed text is in the field key by key, with each key coming up
  before the next goes down; Tab goes round the stops in order; acts on one element leave the other alone.
- `GraphRepos` (nodeRepo.ts, edgeRepo.ts): `EdgesAreRead`, `NodesAreRead`: what was put last is read,
  other kinds and columns are untouched, and edges are one per content.
- `CodexSession` (CodexSession.ts): the schemas, and what decoding makes of a value by
  them. `EntryIsReadAsWritten`, `NothingIsReadAsLess`: each kind of entry is read by its own
  member of the union, and nothing that was written is read as something smaller.
- `Slug` (Slug.ts): `SlugIsClean`. `Patterns` (list.ts, tree.ts, thing.ts): `ListsAreSequences`,
  `TreesAreTheirNodes`, `TagsAreASet`: sizes, equalities, hashes and walks agree with the data.

## Runs

| Run | Instance | States | Shows |
|---|---|---|---|
| `calls` | 2 calls, 1 disconnect | 606 k | a call is settled once, by its own answer or an error, and only an interrupted disconnect loses one; `CdpSession` implements `RequestReply` |
| `live` | 1 call, 1 listener, 2 events, 1 disconnect, fairness | 746 k | streams are gap-free; a released session is quiet; what is pending or open when a session ends, ends with it (`NobodyWaitsForEver`) |
| `disconnect` | 1 call, 1 disconnect | small | disagreement 1 |
| `dom_mirror` | 2 elements, 1 text, 3 changes, any first page | 1.44 M | map, nesting and content (a text's up to the blanks around it) mirror the document at rest |
| `relay` | 3 pages, 2 script steps, fields of 3 characters, `MaxDepth` 2 | 910 k | Tab visits every stop and lands in sight, unless too deep or not drawn; fields are line editors |
| `fetch_replay` | 2 callers, 2 answers | 1.49 M | one response per key, whole, for ever |
| `graph_versions` | 2 clients, 4 calls, 3 specs | 341 k | what was ensured is provided for good and needs nothing more; alterations end; nothing is taken away |
| `crsql_sync` | 2 sites, 2 cells, 2 tables, 2 loops, 2 versions | 329 k | cursors are sound, nothing is withheld, `CrSqlSync` implements `ReplicatedMap` |
| `terminal` | 4 chunks, a wait of each kind, fairness | 386 k | texts are found, stable is quiet or closed, waits end |
| `commands` | steps: 3 scripts, 2 steps, 3 stops, fairness; note: 2 runs, 3 half-days; ssh-keep: 2 clients that connect twice | 198 k | commands reach a program that stands, stops are answered and end, lines show where it stands; a created note is in its file; the helper is whole and leads to the session one asked for |
| `ssh_helper` | 2 clients that connect twice, no name | small | disagreement 2 |
| `functions` | the arguments of one call; 5 ids and 2 writes; 4 suites and 7 tests | 921 k | the functions are what they are said to be; a recommendation has the rows of the plain pipeline when nobody writes and no id or type is empty, and never names what is known or unreachable; tests keep their layers, and all are released |

Symmetry is used over interchangeable calls, nodes, callers, clients, sites and loops,
never in a run that checks liveness. Deadlock checking is off where the
instance really stops: a session whose calls are all made, clients whose
calls are used up, a recommendation that was returned, a call of a function, suites that have
ended, a program that has finished, a page that has used
its script steps, a clock at its bound. Sites may stop at their last version.
Each property of a passing run has a mutant in
`PROJECT.json`, a plausible bug in a mapped definition, that violates it. Type
invariants are not among the runs' properties: those of `CdpSession`, `DomTuiBridge`, `GraphEnsure`,
`CrSqlSync`, `FetchCache`, `TuiSpawn` and `StepsCli` are proved, the others are stated (`TypeOK`, `NoteTypeOK`,
`SshTypeOK`, `LayersTypeOK`). Those of a module whose proofs share a file with another's bear its
name (`SyncTypeOK`, `SpawnTypeOK`).

## Proofs

`CdpSessionProofs` proves, for any calls, listeners, disconnects and bounds:
`TypeOK`, `AnswerMatchesRequest`, `UnsettledIsPending`, `LiveSessionOrphansNobody`,
`EventsGapFree`, `ReleasedIsQuiet`, and that a session implements `RequestReply`.
None of the safety properties is inductive alone. `IInv` adds what keeps
them so: ids in the table were handed out, are below `nextId` and are given to one
call each (`IdsAreFresh`, `IdsAreUnique`); an entry is filed under its call's own id
(`FiledUnderOwnId`), so that an answer found by id is the right one; a call that has
not registered has no deferred, and the reverse (`DeferredFollowsCaller`); a
release holds calls only between taking and failing them, or for ever when it was
interrupted there, which the finalizer cannot be (`HoldersAreKnown`). So
`UnsettledIsPending` tells the calls a release will still fail (`InHand`) from those an
interrupted disconnect took with it (`Lost`), and there is no third way to lose one.
`EInv` does the same for queues: a release under way has made the session inactive; a
queue in `subs` is open, and every open one is there while the session is active
and the pump runs; a queue in `subs` has had every event. `ReleasedIsStopped` (the pump has ended and no handler runs)
carries `ReleasedIsQuiet`. The refinement maps each action to a step of the
contract or a stutter; a failure of several calls is one `Fail`.

`GraphEnsureProofs` proves, for any clients, specs, names and number of calls:
`TypeOK`, `EnsuredIsProvided` and `ExpandsOnly`. `Advances` says of a statement that
the database it makes holds all it held before and that what the statement
leaves undone is still in the plan (`Planned`); there is one lemma for each statement. The
invariant `ClientInv` says of every client: the database, and the copy of its
transaction, have only grown since its call began; what its transaction has ensured
is provided in that copy; and if it is in a transaction or has been alone, what it
read still is so, and the plan it made is still enough. A step of
one client is `Safe` for all the others: it either leaves the database alone or ends
their being alone. A transaction that wrote nothing may commit on a changed
database; that its tables are provided there too is what the first part is for.

It goes on to `EnsuredIsSettled` and `AlteringEnds`. For the first, `LInv` adds that an ensured definition, and one that is
being worked on, is `Legal`: it has a key, and no unique index if it is replicated,
for it passed the checks of `planTable`. With `EnsuredIsProvided` nothing is then left to
plan or to refuse. For the second, `AInv` says that in a clean execution a plan
has a begin exactly when it has a commit still to come (`Paired`), that the
database a client works on is altering its own table, and only
while it is between the two (`Mid`), and that a call outside a transaction is alone.

`TerminalProofs` proves of `TuiSpawn`, for any program, needle, times and bounds: `SpawnTypeOK`,
`ArrivedIsFound` and `StableIsQuiet`. `TextInv` says that the text of a wait that
saw it arrive is still in the output while the wait runs (output only grows
at its end unless it is cleared, `IncludesStays`), so the next look, however late, succeeds.
`StableInv` relates what a wait saw last to the output there is: it is no longer, and
if it is as long, no data has come since the wait's last change. So a success is a quiet time or the end of the terminal.

`StoreProofs` proves of `FetchCache`, for any callers and answers: `TypeOK`, `BodyKeepsItsMeta`,
`RecordedBodyIsFound` and `ReplayIsDeterministic`. The last three are about
executions without overlaps and torn writes, and `CleanInv` is what holds of
those: no two calls are under way; the entry is `Settled` once a stored body can be used,
and then the metadata are those of that body's response and every call is at a place from
which it asks and stores nothing (`Quiet`); and nothing full is at the log server,
recorded or replayed unless the entry is settled. A crash or a failed write leaves an entry that
is not settled, and the next call starts over. All actions that only read are treated at once (`Looks`).

`StoreProofs` proves of `CrSqlSync`, for any sites, cells, tables, values, loops and bounds:
`SyncTypeOK`, `TrackedIsCovered`, `NothingLeftIsConverged` and that the sites implement
`ReplicatedMap`. Neither safety property is inductive: what a loop will track
depends on the batch it holds and on the version it read long ago. `SyncInv` therefore
says of every loop that the site already covers the peer up to that version and that the
batch (`BatchOK`) is what the peer had beyond it, except for what the site has
or what the peer has replaced since, which is numbered higher (`NumberedByVersion`); and of every row
that its writer still has it or something greater (`OwnIsKnown`), which is why excluding
the puller's own rows loses nothing. `Grows` is what each step does to the rows: a
row is replaced by a greater one with a number above all there were. Everything the
invariant claims is monotone in it, so each action needs to be looked at only for the loop that takes it. Convergence
follows: when no pull would bring anything, each site covers each other one entirely.

`DomTuiBridgeProofs` proves, for any document, any number of changes and however they are batched: `TypeOK` and
`MirrorsTheDocument`. The property speaks of rest only, and while records are waiting the screen is
rightly wrong; so `Told` says, of a bridge that was told of what it needs, how the records
still in the queue will mend it. A box of a node that left the document has its removal waiting (`GoneAreDoomed`),
after any addition that could bring it back (`GoneStayGone`). A node that has
no box will be added, itself or with a node above it, and by way of nodes without a box, for the handler does not
go below one that has one (`MissingAreExpected`). A removal of what is back in the document is followed
by its addition (`RemovedComeBack`), and an addition of a node that comes before that of something above it is undone in
between (`AddedInOrder`); without these two a late removal would take away what is on screen for good. A box is in the right place, or goes
(`PlacesHold`), and shows the right content, or goes, or has a change waiting (`ContentHolds`).
A script's step adds records at the end of the queue; a handler's takes the first. Each of
the two is looked at once per conjunct, over lemmas on trees: what is above a node is in one line (`OneLine`),
and moving a node changes only what is above the nodes below it (`SubtreeMoves`).
`TypeOK` needs that the boxes of a node are finitely many and have numbers up to how many there are (`BoxesAreNumbered`),
so that the next one is new.

`CommandProofs` proves the commands and the layers.
*StepsCli*, any scripts and any bounds: `RunsFindAPause`,
`StopIsRemembered`, that a handled stop has its script among those the handler knows, that no more lines are
counted than were asked for, and `ShownWhereItStands`. The invariant says that a stop has exactly one *token*: the
event not yet taken (`EventIsToken`), the handler that reads the source for it
(`ReadingIsToken`), the forked fiber that will step on (`ForkIsToken`), or the one command on the wire that
answers for it (`RunIsToken`). A token is there exactly while the program
stands paused (`HasToken`), there is never a second (`OneRun`), and no event comes after the one of
the pause (`PauseIsLast`). That no StepOver reaches a running program is then a counting argument: whoever
writes one gives up his own token. A stop dropped after an error has no token, and the invariant does not
ask for one.

*SshKeep*, any number of clients, connections and drops: `ExecutableIsWhole` and `LandsInTmux`. `SshIInv` says
that while nobody overlapped anybody only one client is installing and the text of the helper follows that
client's place (`OneInstaller`); whoever is about to run the helper may execute it, and whoever is about to
attach or to create saw a list of sessions that has, or has not, a name that suits.
*NoteCli*, any number of runs, failures and kills: `NotesAreKept`. `NoteIInv` says that two runs
with one file open collided (`TwoWritersCollide`), that what a run created is in its file unless it collided
(`KeptOrCollided`), and that an empty file was there before or has a run to blame: one that has it open,
failed or was killed (`Blamed`).
*SharedLayers*, any tree of suites and any plan in which each suite's tests come before its end:
`LayersOutliveTests` and `EverythingIsReleased`. `LayersIInv` says that a scope holds a layer in one
memo map only, the one its suite shares with those around it, from the build of its context to its end (`HoldersAreOpen`);
that a suite which is ready holds all its layers (`Provided`); and that Bun waits for one test, which is ready (`OneIsWaitedFor`).

`TerminalProofs` also proves the three properties of `EventRelay`, on every document, with any script
in between. `RelayIInv` keeps the page a document and the scroll position a number. `RowsAreNumbers` gives every element a
row and a depth, for the box around it comes before it (`HoldersComeBefore`); an element that is not deeper than
`MaxDepth` has nothing left out above it, so that `scrollIntoView` places it where it is (`PlacesOfElements`).
`TabVisitsEverything` is a property of one page at a time: Tab goes to the next stop
in document order or to the first, so a set of stops closed under Tab that leaves
some out has a least one left out, whose predecessor is in the set
(`GoingOnComesByAll`, over `PrecedesIsWellFounded`, a least counterexample among the positions);
Shift+Tab undoes Tab (`GoingBackReturns`). `EditsLikeALine` is proved for texts of every length: `FieldsIInv`
keeps each cursor inside its text; the lemmas on cutting and putting (`TextField`) turn positions
into the two halves of a line, and those on words show that the boundary the loops find is
the one where a word begins or ends in the sense of `LineEditor`, which is defined without
any search.

`IdSetProofs` proves what the id sets and payloads of sqlite-graph-ext are, for every blob, id and row.
The functions are definitions by recursion, on texts, on arrays walked at once, on numbers. The library's induction theorems
take a predicate as parameter, which the provers cannot instantiate, so the module proves its own from the
well-foundedness of the naturals, over sets instead of predicates: a recursive definition has a solution
(`RecursionHasASolution`), and what is inherited along a rank holds of everything (`ByRank`).
Sorted arrays are described by a relation, `Lists(list, S, R)`: each element of the set S once, in the order R.
A set has one list (`ListsAreUnique`), so two ways to sort the same set give the same rows.
With that: `uniqueSorted` lists what it is given (`UniqueSortedLists`); sets built by `idset_add` hold what was added
(`FromValuesHolds`), also though `parseSet` compares with freed memory, for what the functions write repeats
nothing (`NothingIsFreed`); `idset_diff` holds the difference (`HoldsDifference`, over the rank of the two pointers that are left);
a text of lines splits into those lines (`SplitJoined`), so that rows come back as they were written (`DecodedAsWritten`), and
numbers too (`NumbersSurvive`). `IdSetsAreSets` is `AlgebraOfSets`, the first of the laws of `QueriesTellTheGraph`, for all blobs
of bytes that repeat no id three times, sorted or not, with blank lines or without: such a blob holds the ids it shows
(`BlobsHoldTheirIds`: of two equal ids the first is left, `TheFirstIsLeft`), and each function writes the sorted ids of the
right set (`WritesUnion`, `WritesIntersection`, `WritesDifference`, `WritesOneMore`), which there is one way to write
(`WrittenInOneWay`); `idset_contains` finds what is there by halving (`SearchFinds`). Its one more hypothesis, that the id
is not empty, is needed: `idset_add` of an empty id writes a blank line, which `IsCanonical` forbids. Ids with a newline in
them are covered: they add the ids between their newlines (`JoinedIds`).

`TwoHopProofs` proves `RecommendsTheReachable` and `ParityWhenQuiet` from these, for any table, input and writes.
`ClientInv` says what each query has found while others wrote: rows the table once had are in `ever`; each target is the end of a first
hop in `ever` (`TargetsReached`); each counted id is reached from a target over two rows of `ever`, and its count
is a positive number (`CountsReached`); what was not asked for yet is not there (`NothingEarly`). The last query turns this
into the property: a row's candidate is in the difference of two sets, hence counted and not excluded.
Parity is for tables without empty ids and hop types that are not empty, and without `deterministicOrd`.
`QuietInv` adds that a call nobody disturbed has read exactly the targets and hops of the plain pipeline (`ReadSoFar`): its
targets are the SQL's, its candidates those that are counted and not excluded, with the same support and connectors;
then both sides list one set in one order.

Assumptions are the named ones of the modules: bounds are numbers (`BoundsAreNat`, `BoundsAreNumbers`,
`MaxStepsIsAnInteger`, `ClockIsBounded`...), values are
positive numbers and each cell has a table, texts are sequences of strings, `None`, `NoFrame`, `NoScript` and the
other placeholders are none of the values they stand beside (`NobodyIsNoRun`, `DistinctNodes`), tags and names that must differ do, a spec has at least
one table, in a document parents come before their children (`PagesAreDocuments`), and the
suites and plans of `SharedLayers` are such as nested calls of `describe` and `it` make
(`UsesAreNested`, `PlansAreDeclared`), and ids have no newline (`RowsAreLines`).

Only model-checked:

- `QueriesTellTheGraph`, `ScreensFollowTheStyles`, `DataSurvives` and `DomAgrees`: each is a conjunction of
  laws of functions that are folds and recursive definitions over texts, sequences and trees. What such a definition computes on
  every input needs an induction of its own, done by hand as in `IdSetProofs`; that module has done it for the
  id sets (`AlgebraOfSets`) and the rows of two fields, not for the groups (a fold of the community modules), the ranked
  difference, the codecs, the styles and the trees.
- Liveness: `NobodyWaitsForEver`, `StopsEnd` and `WaitsEnd`; fairness and `ENABLED` are out of reach of the provers.
- The two runs that refute a promise are counterexamples and need no proof.

## Not modelled

- **debug: data model**, **schemas** but for slugs, **fetch-hooks: environment and types**: types,
  schemas, values and constants. No operation of theirs changes a state.
- **opentui-dom: adapters**: a happy-dom window that is made once, and an interface.
- **crsql: extension loading**, **libcrsql**, **libsqlite**, loading in the graph clients:
  finding a file for a platform and handing it to SQLite.
- **effect-native**, demos, `miniapp.tsx`: programs that run once from arguments to
  output, or show something. Of the demo of two hops the pipeline is modelled.
- **bun-test** beyond `layer`: property tests, flaky tests and equality; **patterns**: the jsx runtime.
- **.zig and C beyond the functions**: registration, allocation failures, the texts of SQL.

Of what is modelled, the components in `PROJECT.json` that are "partly" say what they leave
out, and the sections above why that does not reach the properties.

## Disagreements

Two are runs that TLC must find violated, with a quote of what is promised in `PROJECT.json`.

1. `disconnect`: a `disconnect` interrupted after it forgot the session leaves
   the scope's finalizer nothing to release; the pump goes on.
2. `ssh_helper`: two clients install the helper at once and one is cut off between emptying and
   filling it; the file stays empty and executable, and no later run writes it again
   (`ssh-keep/src/cli.ts` 104). `SPEC.md` 120 of the package says of repeated runs "They converge to the same helper state".

Others were met while modelling. The models behave as the code does, and the
properties say what holds in spite of them; no run refutes a promise for them.

- *Session:* a response that its schema rejects has lost its entry, so its own call is
  never told, and a clean close by the target leaves pending calls waiting; a call that
  registers, or a stream that is subscribed, after the release, waits for ever (`Cdp.ts` 122, 216, 261, 305);
  so does a call that a disconnect has taken from the table when it is interrupted (66).
- *Bridge:* an element taken out of another one stays on the screen
  (`dom-to-tui-bridge.ts` 204); a text shows the blanks around it after a change and not before (176, 242);
  `processExistingChildren` with records pending loses nodes (321);
  styles that a class gave are never cleared (`style-bridge.ts` 425).
- *Keys:* arrows in a radio group and accesskeys leave an active trap
  (`event-relay.ts` 293), against `.specs/tui-dom/requirements.md` 33; a nested trap forgets the focus of the
  page; radio arrows do not scroll; `scrollIntoView` misplaces an
  element more than 20 boxes down (448) and passes over one without a renderable (424); a key edits the field it was
  pressed in even when a listener has moved the focus or taken that field out.
- *Cache:* responses without a body are never replayed; two overlapping misses mix two
  entries (`index.ts` 206); a torn write is replayed as if whole (`filesystem-storage.ts` 36).
- *Stored texts:* letters with two underscores, or an underscore, right after a data URL
  make it irrecoverable (`binary-extractor.ts` 63); so does a text that has a reference in it, and
  base64 that is not as `Buffer` writes it. A body that begins with a header-like line has the key of the
  request with that header; requests that differ in credentials only share a key.
- *Streams:* `id` and `event` fields, further data lines, comments within an event and
  unfinished lines are not recorded, and an event split over two chunks is replayed as two.
- *Schema:* a new key column is planned as `ADD COLUMN ... PRIMARY KEY`, which
  SQLite refuses (`GraphDialectSqlite.ts` 272).
- *Repositories:* an edge with `null` and one without properties are two edges that read
  alike; another order of the keys of properties is another edge; a NUL in a type or source can
  make two edges one; an optional field that was never given is NULL, which its schema refuses to read.
- *Styles:* a header comment (`style-bridge.ts` 10) calls attributes a fallback, line 394 and the tests make them
  override; `data-tui-width="50%"` is 50 cells, `w-2xl` two; a theme class always
  wins over a utility class; a class named like a property of every
  object (`constructor`) is found in the table.
- *Screens:* characters from U+F000 on, emoji and fullwidth forms among them, are not written and come back as
  blanks (`assertions.ts` 239, against 209); an empty cell with a background is not painted, and the code that
  ends faint ends bold as well (242). `AnsiRestores` requires the blanks, with everything else in its place, and leaves the other two out.
- *Waits:* `waitForStable` succeeds with output that is not quiet when the terminal closes (`Spawn.ts` 357, against 318); an exit reported before the last data fails `waitForText` with a text the process did
  print; `waitFor` of the DOM library never looks after its deadline.
- *Queries and events:* a field inside its label is found by the label but has no
  accessible name; a field with two equal labels is listed twice; a key that a listener prevents is
  typed all the same; a disabled field with a `tabindex` is a stop.
- *Commands:* `note` dates a file by UTC (`note/src/Note.ts`), so a note taken late in the evening may
  bear tomorrow's date; tmux attaches to a session whose name only begins with the one asked for; the layer of
  a suite whose nested suite runs first is released at the end of that one and acquired again for the suite's own tests
  (`bun-test/src/internal/internal.ts` 284).
- *Graph functions:* `parseSet` frees an id that equals the one before it and compares the next with it, so a
  blob with one id on three lines is a set of two (`extension.zig`); `graph_two_hop_counts` ignores `deleted_at` and takes "" for a type;
  `deterministicOrd` is byte order where the pipeline has letter order.
