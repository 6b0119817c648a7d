---------------------------- MODULE SharedLayers ----------------------------
(***************************************************************************)
(* The suites of bun-test that share a layer: layer() of                   *)
(* packages/bun-test/src/internal/internal.ts. A suite's tests build its   *)
(* layer, and the layers of the suites it is nested in, when the first of  *)
(* them runs; the layers of nested suites are kept in one memo map, where  *)
(* each counts the scopes that hold it; a suite's scope is closed when its *)
(* last test has run. Bun runs what was declared in order, and goes on     *)
(* without a test that took too long.                                      *)
(***************************************************************************)
EXTENDS Naturals, Sequences

CONSTANTS
    Suites,  \* calls of layer()
    Uses,    \* Uses[s]: the suites whose layers s needs: s and those it is nested in
    Plans    \* what may be declared: the tests and the ends of suites, in Bun's order

(* A suite is nested in those around it, up to one that is nested in none. *)
ASSUME UsesAreNested ==
    \A s \in Suites :
        /\ s \in Uses[s] /\ Uses[s] \subseteq Suites
        /\ \A l \in Uses[s] : Uses[l] \subseteq Uses[s]
        /\ \A l, m \in Uses[s] : l \in Uses[m] \/ m \in Uses[l]
        /\ \E root \in Uses[s] : Uses[root] = {root}

(* afterAll runs once for every suite that has tests, after all of them.   *)
ASSUME PlansAreDeclared ==
    \A p \in Plans :
        /\ p \in Seq([suite : Suites, kind : {"test", "end"}])
        /\ \A i, j \in DOMAIN p :
              p[i].kind = "end" /\ p[j].suite = p[i].suite => j <= i
        /\ \A i \in DOMAIN p :
              \E j \in DOMAIN p : p[j] = [suite |-> p[i].suite, kind |-> "end"]

VARIABLES
    plan,      \* what was declared
    at,        \* the next of it
    ctx,       \* ctx[s]: contextEffect, which is run once and cached
    observers, \* observers[m][l]: scopes that hold the layer of l in the memo map m
    broken,    \* layers whose acquisition failed, as long as they are held
    acquired,  \* acquired[l]: how often the layer of l was acquired
    running,   \* tests that have begun and not ended
    late       \* those that Bun no longer waits for

layersVars == <<plan, at, ctx, observers, broken, acquired, running, late>>

Item(kind) == at \in DOMAIN plan /\ plan[at].kind = kind
Current == plan[at].suite

(* Mutant: a nested suite makes a memo map of its own. *)
OwnMap(s) == s

(* it.layer passes its memoMap on: one map for all that are nested in one suite. *)
memoMap(s) == CHOOSE root \in Uses[s] : Uses[root] = {root}

Held(m, l) == observers[m][l] # {}
Alive(s, l) == Held(memoMap(s), l) /\ l \notin broken

LayersStart ==
    /\ at = 1 /\ broken = {} /\ running = {} /\ late = {}
    /\ ctx = [s \in Suites |-> "none"] /\ acquired = [l \in Suites |-> 0]
    /\ observers = [m \in Suites |-> [l \in Suites |-> {}]]

LayersInit == plan \in Plans /\ LayersStart

(* buildWithMemoMap: the layers that are not held are acquired, those of   *)
(* the suites outside first; one of them may fail, and what is inside it   *)
(* is then not reached.                                                    *)
Build(s) ==
    LET new == {l \in Uses[s] : ~Held(memoMap(s), l)}
    IN  \E failing \in SUBSET new :
          LET bad == broken \cup failing
              reached == {l \in Uses[s] : (Uses[l] \ {l}) \cap bad = {}}
          IN  /\ failing \subseteq reached
              /\ broken' = bad
              /\ observers' = [observers EXCEPT ![memoMap(s)] =
                    [l \in Suites |-> IF l \in reached THEN @[l] \cup {s} ELSE @[l]]]
              /\ acquired' = [l \in Suites |->
                    IF l \in (new \cap reached) \ failing THEN acquired[l] + 1 ELSE acquired[l]]
              /\ ctx' = [ctx EXCEPT ![s] = IF Uses[s] \cap bad = {} THEN "ready" ELSE "failed"]

(* The first test of a suite builds its context. *)
BuildContext ==
    /\ Item("test") /\ ctx[Current] = "none" /\ Build(Current)
    /\ UNCHANGED <<plan, at, running, late>>

(* Effect.orDie: without its context a test fails at once. *)
FailWithoutContext ==
    /\ Item("test") /\ ctx[Current] = "failed" /\ at' = at + 1
    /\ UNCHANGED <<plan, ctx, observers, broken, acquired, running, late>>

BeginTest ==
    /\ Item("test") /\ ctx[Current] = "ready" /\ at \notin running
    /\ running' = running \cup {at}
    /\ UNCHANGED <<plan, at, ctx, observers, broken, acquired, late>>

EndTest ==
    /\ Item("test") /\ at \in running
    /\ running' = running \ {at} /\ at' = at + 1
    /\ UNCHANGED <<plan, ctx, observers, broken, acquired, late>>

(* Bun's timeout rejects the test; the effect is not interrupted. *)
TimeOut ==
    /\ Item("test") /\ at \in running
    /\ late' = late \cup {at} /\ at' = at + 1
    /\ UNCHANGED <<plan, ctx, observers, broken, acquired, running>>

EndLate ==
    /\ \E t \in late : late' = late \ {t} /\ running' = running \ {t}
    /\ UNCHANGED <<plan, at, ctx, observers, broken, acquired>>

(* Mutant: the end of a suite releases what it uses, whoever holds it. *)
TeardownAll ==
    /\ Item("end") /\ at' = at + 1
    /\ observers' = [observers EXCEPT ![memoMap(Current)] =
          [l \in Suites |-> IF l \in Uses[Current] THEN {} ELSE @[l]]]
    /\ UNCHANGED <<plan, ctx, broken, acquired, running, late>>

(* Mutant: only the scope of the outermost suite is closed. *)
TeardownOuter ==
    /\ Item("end") /\ at' = at + 1
    /\ observers' = IF Uses[Current] # {Current} THEN observers ELSE
          [observers EXCEPT ![Current] = [l \in Suites |-> @[l] \ {Current}]]
    /\ UNCHANGED <<plan, ctx, broken, acquired, running, late>>

(* afterAll: the scope lets go of its layers; one that nobody holds is     *)
(* released and leaves the memo map.                                       *)
Teardown ==
    /\ Item("end") /\ at' = at + 1
    /\ observers' = [observers EXCEPT ![memoMap(Current)] = [l \in Suites |-> @[l] \ {Current}]]
    /\ broken' = {l \in broken : observers'[memoMap(l)][l] # {}}
    /\ UNCHANGED <<plan, ctx, acquired, running, late>>

LayersNext ==
    \/ BuildContext \/ FailWithoutContext \/ BeginTest \/ EndTest \/ TimeOut \/ EndLate
    \/ Teardown

LayersSpec == LayersInit /\ [][LayersNext]_layersVars

-----------------------------------------------------------------------------
LayersTypeOK ==
    /\ plan \in Plans /\ at \in 1..(Len(plan) + 1)
    /\ ctx \in [Suites -> {"none", "ready", "failed"}]
    /\ observers \in [Suites -> [Suites -> SUBSET Suites]]
    /\ broken \subseteq Suites /\ acquired \in [Suites -> Nat]
    /\ running \subseteq DOMAIN plan /\ late \subseteq running

(* internal.ts 278-301: while a test that Bun waits for is running, the    *)
(* layers it was given are held, whatever nested suites have ended since   *)
(* they were built.                                                        *)
LayersOutliveTests ==
    \A t \in running \ late : \A l \in Uses[plan[t].suite] : Alive(plan[t].suite, l)

(* internal.ts 331-334, 261, 284-286: nested suites share the layers of    *)
(* the suites around them, so that no layer is held in two memo maps; and  *)
(* when the last suite has ended no layer is held, those that failed       *)
(* included.                                                               *)
EverythingIsReleased ==
    /\ \A l, m, n \in Suites : Held(m, l) /\ Held(n, l) => m = n
    /\ at > Len(plan) => \A m, l \in Suites : ~Held(m, l)
=============================================================================
