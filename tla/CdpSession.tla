------------------------------ MODULE CdpSession ------------------------------
(***************************************************************************)
(* One Chrome DevTools Protocol session (packages/debug/src/internal/      *)
(* Cdp.ts): the pending table that matches responses to requests, the pump *)
(* that reads the socket, the listeners of protocol events, and release.   *)
(*                                                                         *)
(* Sessions share nothing but the WeakMap that finds their state, so one   *)
(* session, just connected, stands for all.  Fibers are cooperative and    *)
(* may be descheduled at every yield of an Effect operation: each action   *)
(* below is one such operation on shared state together with the plain     *)
(* code that runs before the next yield.  runRaw starts a handler for      *)
(* every chunk as it arrives; a handler runs to its end at once, unless    *)
(* the command's response schema decodes asynchronously, and then other    *)
(* handlers run meanwhile.  When runRaw ends, for whatever reason, the     *)
(* handlers still running are interrupted with it.                         *)
(*                                                                         *)
(* A successful value is represented by the command it answers.            *)
(***************************************************************************)
EXTENDS Naturals, Sequences, FiniteSets

CONSTANTS
    Commands,     \* calls of sendCommand, each made once
    Foreign,      \* those whose command is meant for another transport
    NoCommand,    \* an id that is not in the pending table
    Listeners,    \* calls of subscribe
    Disconnects,  \* calls of disconnect
    Finalizer,    \* the release that acquireRelease runs with connect's scope
    MaxId,        \* bound: ids handed out
    MaxEvents     \* bound: protocol events the peer sends

Absent    == "absent"       \* the call has no deferred yet
Open      == "open"         \* the deferred is not completed
StateError == "DebugStateError"
WriteError == "write failed"
Closed    == "session closed"
PumpErrors == {"DebugTransportError", "DebugDecodeError", "DebugInvalidMessage"}
Errors == PumpErrors \cup {"DebugCommandError", WriteError, Closed}

Ids == 1..MaxId
Releases == Disconnects \cup {Finalizer}

ASSUME BoundsAreNat == MaxId \in Nat /\ MaxEvents \in Nat
ASSUME NoCommandIsNone == NoCommand \notin Commands
ASSUME CommandsAreNoTags ==
    Commands \cap (Errors \cup {Absent, Open, StateError}) = {}
ASSUME ForeignAreCommands == Foreign \subseteq Commands
ASSUME FinalizerIsItsOwn == Finalizer \notin Disconnects

VARIABLES
    pc,         \* pc[c]: where the fiber of sendCommand stands
    idOf,       \* idOf[c]: the id the fiber was given, 0 before
    nextId,     \* Ref nextId
    pending,    \* Ref pending: the command waiting under each id
    deferred,   \* deferred[c]: what the command's deferred holds
    wire,       \* requests the peer has received
    decoding,   \* decoding[c]: whose answer a handler is decoding for c
    answered,   \* history: commands whose entry a response has consumed
    active,     \* sessionStates still maps the session to its state
    closed,     \* Ref closed
    rel,        \* rel[r]: where each call of releaseSession stands
    taken,      \* taken[r]: calls it took from the table and has not failed
    detached,   \* detached[r]: streams it took and has yet to end
    pump,       \* the fiber that runs runRaw and its error handler
    pumpError,  \* why the pump is dying
    subs,       \* Ref subscribers
    stream,     \* stream[l]: the queue behind the listener's stream
    since,      \* history: events the pump had read when l subscribed
    delivered,  \* delivered[l]: events offered to the listener's queue
    emitted     \* events the pump has read

callVars == <<pc, idOf, nextId, pending, deferred, wire, decoding, answered>>
releaseVars == <<rel, taken, detached>>
sessionVars == <<active, closed, releaseVars, pump, pumpError>>
eventVars == <<subs, stream, since, delivered, emitted>>
vars == <<callVars, sessionVars, eventVars>>

-------------------------------------------------------------------------------
(* The state createSession leaves behind, and connect's acquireRelease has *)
(* registered the finalizer for.                                           *)

Init ==
    /\ pc = [c \in Commands |-> "idle"]
    /\ idOf = [c \in Commands |-> 0]
    /\ nextId = 1
    /\ pending = [i \in Ids |-> NoCommand]
    /\ deferred = [c \in Commands |-> Absent]
    /\ wire = {}
    /\ decoding = [c \in Commands |-> NoCommand]
    /\ answered = {}
    /\ active = TRUE
    /\ closed = FALSE
    /\ rel = [r \in Releases |-> "idle"]
    /\ taken = [r \in Releases |-> {}]
    /\ detached = [r \in Releases |-> {}]
    /\ pump = "running"
    /\ pumpError = "none"
    /\ subs = {}
    /\ stream = [l \in Listeners |-> "none"]
    /\ since = [l \in Listeners |-> 0]
    /\ delivered = [l \in Listeners |-> <<>>]
    /\ emitted = 0

InPending(c) == \E i \in Ids : pending[i] = c

(* A release that has emptied the table and not yet failed what it took:   *)
(* the calls it will fail, or, once it is interrupted there, never will.   *)
InHand(c) == \E r \in Releases : rel[r] = "taken" /\ c \in taken[r]
Lost(c) == \E r \in Disconnects : rel[r] = "interrupted" /\ c \in taken[r]

(* Mutant: the last completion wins. *)
Overwrite(d, c, v) == [d EXCEPT ![c] = v]

(* Deferred.into: only the first completion counts. *)
Complete(d, c, v) == [d EXCEPT ![c] = IF @ = Open THEN v ELSE @]

(* Mutants: the table is emptied, or the queues forgotten, and that is all. *)
FailNone(S, e) == UNCHANGED deferred
EndNone(S) == UNCHANGED stream

(* failAllPending: empty the table, then complete every deferred found in  *)
(* it.  The pump does both in one run; a release may be descheduled in     *)
(* between, and so has them as two steps.                                  *)
EmptyTable == pending' = [i \in Ids |-> NoCommand]

FailEach(S, e) ==
    deferred' = [c \in Commands |->
        IF c \in S /\ deferred[c] = Open THEN e ELSE deferred[c]]

(* shutdownSubscribers, likewise: the second step. *)
EndEach(S) ==
    stream' = [l \in Listeners |-> IF l \in S THEN "ended" ELSE stream[l]]

-------------------------------------------------------------------------------
(* sendCommand *)

(* The fiber of call c moves; only the calls' own state can be changed.    *)
CallerMoves(c, from, to) ==
    /\ pc[c] = from
    /\ pc' = [pc EXCEPT ![c] = to]
    /\ UNCHANGED <<decoding, answered, sessionVars, eventVars>>

GetState(c) ==
    /\ CallerMoves(c, "idle",
           IF active /\ c \notin Foreign THEN "checked" ELSE "refused")
    /\ UNCHANGED <<idOf, nextId, pending, deferred, wire>>

(* Mutant: Ref.get and Ref.update lose an increment. *)
AllocateIdTwice(c) ==
    /\ CallerMoves(c, "checked", "allocated")
    /\ nextId \in Ids
    /\ idOf' = [idOf EXCEPT ![c] = nextId]
    /\ UNCHANGED <<nextId, pending, deferred, wire>>

AllocateId(c) ==
    /\ CallerMoves(c, "checked", "allocated")
    /\ nextId \in Ids
    /\ idOf' = [idOf EXCEPT ![c] = nextId]
    /\ nextId' = nextId + 1
    /\ UNCHANGED <<pending, deferred, wire>>

Register(c) ==
    /\ CallerMoves(c, "allocated", "registered")
    /\ pending' = [pending EXCEPT ![idOf[c]] = c]
    /\ deferred' = [deferred EXCEPT ![c] = Open]
    /\ UNCHANGED <<idOf, nextId, wire>>

(* The writer waits for the socket to be open: with no runRaw it never is. *)
Write(c) ==
    /\ CallerMoves(c, "registered", "awaiting")
    /\ pump = "running"
    /\ wire' = wire \cup {[id |-> idOf[c], cmd |-> c]}
    /\ UNCHANGED <<idOf, nextId, pending, deferred>>

(* The writer fails: withdraw the entry, fail the deferred, return; the    *)
(* fiber was waiting and has its whole time slice for that.                *)
WriteFails(c) ==
    /\ CallerMoves(c, "registered", "writeFailed")
    /\ pending' = [pending EXCEPT ![idOf[c]] = NoCommand]
    /\ deferred' = Complete(deferred, c, WriteError)
    /\ UNCHANGED <<idOf, nextId, wire>>

Await(c) ==
    /\ CallerMoves(c, "awaiting", "returned")
    /\ deferred[c] # Open
    /\ UNCHANGED <<idOf, nextId, pending, deferred, wire>>

(* The calling fiber is interrupted, for instance by a timeout.  Nothing   *)
(* in sendCommand withdraws the entry.                                     *)
Interrupt(c) ==
    /\ pc[c] \in {"checked", "allocated", "registered", "awaiting"}
    /\ CallerMoves(c, pc[c], "interrupted")
    /\ UNCHANGED <<idOf, nextId, pending, deferred, wire>>

-------------------------------------------------------------------------------
(* handleIncoming, run by the pump for each chunk, and the pump's end *)

(* Mutants: handlers outlive the pump; the pump outlives its error. *)
KeepHandlers == UNCHANGED decoding
PumpGoesOn(e) == decoding' = [c \in Commands |-> NoCommand] /\ UNCHANGED sessionVars

(* runRaw ends: the handlers that were still decoding are interrupted. *)
StopHandlers == decoding' = [c \in Commands |-> NoCommand]

PumpDies(e) ==
    /\ pump' = "dying"
    /\ pumpError' = e
    /\ StopHandlers
    /\ UNCHANGED <<active, closed, releaseVars>>

(* The peer answers request q for the first time, or once more. *)
Response(q) == pump = "running" /\ q \in wire

(* An id nobody waits under is ignored. *)
ReceiveStale(q) ==
    /\ Response(q)
    /\ pending[q.id] = NoCommand
    /\ UNCHANGED vars

ReceiveError(q) ==
    LET c == pending[q.id] IN
    /\ Response(q)
    /\ c # NoCommand
    /\ pending' = [pending EXCEPT ![q.id] = NoCommand]
    /\ deferred' = Complete(deferred, c, "DebugCommandError")
    /\ answered' = answered \cup {c}
    /\ UNCHANGED <<pc, idOf, nextId, wire, decoding, sessionVars, eventVars>>

(* A result: the entry goes at once, the decoding may take its time. *)
ReceiveResult(q) ==
    LET c == pending[q.id] IN
    /\ Response(q)
    /\ c # NoCommand
    /\ pending' = [pending EXCEPT ![q.id] = NoCommand]
    /\ decoding' = [decoding EXCEPT ![c] = q.cmd]
    /\ answered' = answered \cup {c}
    /\ UNCHANGED <<pc, idOf, nextId, deferred, wire, sessionVars, eventVars>>

Decoded(c) ==
    /\ decoding[c] # NoCommand
    /\ deferred' = Complete(deferred, c, decoding[c])
    /\ decoding' = [decoding EXCEPT ![c] = NoCommand]
    /\ UNCHANGED <<pc, idOf, nextId, pending, wire, answered, sessionVars, eventVars>>

(* The schema rejects the result: the handler fails, not the deferred. *)
Undecodable(c) ==
    /\ decoding[c] # NoCommand
    /\ PumpDies("DebugDecodeError")
    /\ UNCHANGED <<pc, idOf, nextId, pending, deferred, wire, answered, eventVars>>

ReceiveInvalid ==
    /\ pump = "running"
    /\ PumpDies("DebugInvalidMessage")
    /\ UNCHANGED <<pc, idOf, nextId, pending, deferred, wire, answered, eventVars>>

(* Mutant: an event is dropped while a response is being decoded. *)
ReceiveEventWhenIdle ==
    /\ pump = "running"
    /\ emitted < MaxEvents
    /\ emitted' = emitted + 1
    /\ delivered' = [l \in Listeners |->
           IF l \in subs /\ \A c \in Commands : decoding[c] = NoCommand
           THEN Append(delivered[l], emitted + 1)
           ELSE delivered[l]]
    /\ UNCHANGED <<subs, stream, since, callVars, sessionVars>>

ReceiveEvent ==
    /\ pump = "running"
    /\ emitted < MaxEvents
    /\ emitted' = emitted + 1
    /\ delivered' = [l \in Listeners |->
           IF l \in subs THEN Append(delivered[l], emitted + 1) ELSE delivered[l]]
    /\ UNCHANGED <<subs, stream, since, callVars, sessionVars>>

SocketFails ==
    /\ pump = "running"
    /\ PumpDies("DebugTransportError")
    /\ UNCHANGED <<pc, idOf, nextId, pending, deferred, wire, answered, eventVars>>

(* A close the socket does not count as an error: runRaw succeeds, and the *)
(* pump has nothing to do after a success.                                 *)
PeerCloses ==
    /\ pump = "running"
    /\ pump' = "finished"
    /\ StopHandlers
    /\ UNCHANGED <<pc, idOf, nextId, pending, deferred, wire, answered>>
    /\ UNCHANGED <<active, closed, releaseVars, pumpError, eventVars>>

PumpFailsPending ==
    /\ pump = "dying"
    /\ EmptyTable
    /\ FailEach({c \in Commands : InPending(c)}, pumpError)
    /\ pump' = "drained"
    /\ UNCHANGED <<pc, idOf, nextId, wire, decoding, answered>>
    /\ UNCHANGED <<active, closed, releaseVars, pumpError, eventVars>>

PumpEndsStreams ==
    /\ pump = "drained"
    /\ subs' = {}
    /\ EndEach(subs)
    /\ UNCHANGED <<since, delivered, emitted>>
    /\ pump' = "failed"
    /\ UNCHANGED <<active, closed, releaseVars, pumpError, callVars>>

-------------------------------------------------------------------------------
(* disconnect and releaseSession *)

At(r, from, to) == rel[r] = from /\ rel' = [rel EXCEPT ![r] = to]

(* A step of release r that reads and writes nothing else of the session. *)
Step(r, from, to) ==
    /\ At(r, from, to)
    /\ UNCHANGED <<taken, detached, active, closed, pump, pumpError>>
    /\ UNCHANGED <<callVars, eventVars>>

Disconnect(r) ==
    /\ r \in Disconnects
    /\ Step(r, "idle", IF active THEN "entered" ELSE "refused")

FindSession(r) ==
    Step(r, IF r = Finalizer THEN "idle" ELSE "entered",
            IF active THEN "found" ELSE "done")

CheckClosed(r) == Step(r, "found", IF closed THEN "done" ELSE "unclosed")

MarkClosed(r) ==
    /\ At(r, "unclosed", "marked")
    /\ closed' = TRUE
    /\ active' = FALSE
    /\ UNCHANGED <<taken, detached, pump, pumpError, callVars, eventVars>>

ReleaseTakesPending(r) ==
    /\ At(r, "marked", "taken")
    /\ EmptyTable
    /\ taken' = [taken EXCEPT ![r] = {c \in Commands : InPending(c)}]
    /\ UNCHANGED <<detached, active, closed, pump, pumpError>>
    /\ UNCHANGED <<pc, idOf, nextId, deferred, wire, decoding, answered, eventVars>>

ReleaseFailsPending(r) ==
    /\ At(r, "taken", "drained")
    /\ FailEach(taken[r], Closed)
    /\ taken' = [taken EXCEPT ![r] = {}]
    /\ UNCHANGED <<detached, active, closed, pump, pumpError>>
    /\ UNCHANGED <<pc, idOf, nextId, pending, wire, decoding, answered, eventVars>>

ReleaseTakesStreams(r) ==
    /\ At(r, "drained", "detached")
    /\ subs' = {}
    /\ detached' = [detached EXCEPT ![r] = subs]
    /\ UNCHANGED <<taken, active, closed, pump, pumpError>>
    /\ UNCHANGED <<stream, since, delivered, emitted, callVars>>

ReleaseEndsStreams(r) ==
    /\ At(r, "detached", "quiet")
    /\ EndEach(detached[r])
    /\ detached' = [detached EXCEPT ![r] = {}]
    /\ UNCHANGED <<taken, active, closed, pump, pumpError>>
    /\ UNCHANGED <<subs, since, delivered, emitted, callVars>>

(* Scope.close: the pump's fiber is interrupted and the socket closed. *)
CloseScope(r) ==
    /\ At(r, "quiet", "released")
    /\ pump' = IF pump \in {"running", "dying", "drained"}
               THEN "interrupted" ELSE pump
    /\ StopHandlers
    /\ UNCHANGED <<taken, detached, active, closed, pumpError>>
    /\ UNCHANGED <<pc, idOf, nextId, pending, deferred, wire, answered, eventVars>>

(* A call of disconnect is interrupted; the finalizer cannot be. *)
InterruptDisconnect(r) ==
    /\ r \in Disconnects
    /\ rel[r] \in {"entered", "found", "unclosed", "marked", "taken",
                   "drained", "detached", "quiet"}
    /\ Step(r, rel[r], "interrupted")

Release(r) ==
    \/ Disconnect(r)
    \/ FindSession(r)
    \/ CheckClosed(r)
    \/ MarkClosed(r)
    \/ ReleaseTakesPending(r)
    \/ ReleaseFailsPending(r)
    \/ ReleaseTakesStreams(r)
    \/ ReleaseEndsStreams(r)
    \/ CloseScope(r)

-------------------------------------------------------------------------------
(* subscribe *)

Subscribe(l) ==
    /\ stream[l] = "none"
    /\ stream' = [stream EXCEPT ![l] = IF active THEN "acquiring" ELSE "refused"]
    /\ UNCHANGED <<subs, since, delivered, emitted, callVars, sessionVars>>

AddSubscriber(l) ==
    /\ stream[l] = "acquiring"
    /\ stream' = [stream EXCEPT ![l] = "open"]
    /\ subs' = subs \cup {l}
    /\ since' = [since EXCEPT ![l] = emitted]
    /\ UNCHANGED <<delivered, emitted, callVars, sessionVars>>

(* The listener's scope closes. *)
Unsubscribe(l) ==
    /\ stream[l] = "open"
    /\ stream' = [stream EXCEPT ![l] = "ended"]
    /\ subs' = subs \ {l}
    /\ UNCHANGED <<since, delivered, emitted, callVars, sessionVars>>

-------------------------------------------------------------------------------
Send(c) ==
    \/ GetState(c)
    \/ AllocateId(c)
    \/ Register(c)
    \/ Write(c)
    \/ WriteFails(c)
    \/ Await(c)

Handle ==
    \/ \E q \in wire : ReceiveStale(q) \/ ReceiveError(q) \/ ReceiveResult(q)
    \/ \E c \in Commands : Decoded(c) \/ Undecodable(c)
    \/ ReceiveInvalid
    \/ ReceiveEvent

Pump ==
    \/ SocketFails
    \/ PeerCloses
    \/ PumpFailsPending
    \/ PumpEndsStreams

Next ==
    \/ \E c \in Commands : Send(c) \/ Interrupt(c)
    \/ Handle
    \/ Pump
    \/ \E r \in Releases : Release(r) \/ InterruptDisconnect(r)
    \/ \E l \in Listeners : Subscribe(l) \/ AddSubscriber(l) \/ Unsubscribe(l)

Spec == Init /\ [][Next]_vars

(* Every fiber that can run is run: the callers, the handler of a response *)
(* (schemas terminate), the pump's error handler and a release under way.  *)
(* Nothing is assumed of the peer, of interruption, or of anybody deciding *)
(* to subscribe or to disconnect.                                          *)
Fairness ==
    /\ \A c \in Commands : WF_vars(Register(c)) /\ WF_vars(Await(c))
    /\ \A c \in Commands : WF_vars(Decoded(c) \/ Undecodable(c))
    /\ WF_vars(PumpFailsPending)
    /\ WF_vars(PumpEndsStreams)
    /\ \A r \in Releases : WF_vars(rel[r] # "idle" /\ Release(r))

FairSpec == Spec /\ Fairness
-------------------------------------------------------------------------------
(* Properties *)

(* Every variable stays in the set its declaration in SessionState (or its *)
(* role in this module) allows.                                            *)
TypeOK ==
    /\ pc \in [Commands -> {"idle", "checked", "allocated", "registered", "awaiting",
                             "returned", "writeFailed", "refused", "interrupted"}]
    /\ idOf \in [Commands -> {0} \cup Ids]
    /\ \A c \in Commands :
           pc[c] \in {"allocated", "registered", "awaiting"} => idOf[c] \in Ids
    /\ nextId \in 1..(MaxId + 1)
    /\ pending \in [Ids -> Commands \cup {NoCommand}]
    /\ deferred \in [Commands -> Commands \cup Errors \cup {Absent, Open}]
    /\ wire \subseteq [id : Ids, cmd : Commands]
    /\ decoding \in [Commands -> Commands \cup {NoCommand}]
    /\ answered \subseteq Commands
    /\ active \in BOOLEAN
    /\ closed \in BOOLEAN
    /\ rel \in [Releases -> {"idle", "refused", "entered", "found", "unclosed",
                             "marked", "taken", "drained", "detached", "quiet",
                             "released", "done", "interrupted"}]
    /\ taken \in [Releases -> SUBSET Commands]
    /\ detached \in [Releases -> SUBSET Listeners]
    /\ pump \in {"running", "dying", "drained", "failed", "finished", "interrupted"}
    /\ pumpError \in PumpErrors \cup {"none"}
    /\ pump \in {"dying", "drained", "failed"} => pumpError # "none"
    /\ subs \subseteq Listeners
    /\ stream \in [Listeners -> {"none", "acquiring", "open", "ended", "refused"}]
    /\ since \in [Listeners -> 0..MaxEvents]
    /\ delivered \in [Listeners -> Seq(1..MaxEvents)]
    /\ emitted \in 0..MaxEvents

(* A call that succeeds is given the answer to its own request, however    *)
(* calls, responses, repeated responses and interruptions interleave       *)
(* (sendCommand's id and the lookup in handleIncoming).                    *)
AnswerMatchesRequest ==
    \A c \in Commands : deferred[c] \in Commands => deferred[c] = c

(* A registered call nobody has settled is in the pending table, or in the *)
(* hands of a release on its way to fail it, unless a response consumed    *)
(* its entry: no other failure path of sendCommand, of the pump or of      *)
(* releaseSession drops an entry and leaves its deferred open, but one.    *)
(* The exception is named: a disconnect interrupted between emptying the   *)
(* table and failing what it took (the Ref.modify and the forEach of       *)
(* failAllPending) loses those calls, and nobody will settle them.  The    *)
(* scope's finalizer, which cannot be interrupted, loses none.             *)
UnsettledIsPending ==
    \A c \in Commands :
        deferred[c] = Open /\ c \notin answered =>
            InPending(c) \/ InHand(c) \/ Lost(c)

(* While the pump runs a consumed response is either settled or being      *)
(* decoded: a call is orphaned only together with the whole session's      *)
(* pump (the decode error of handleIncoming, or the pump's interruption).  *)
LiveSessionOrphansNobody ==
    pump = "running" =>
        \A c \in answered : deferred[c] = Open => decoding[c] # NoCommand

(* A listener's queue holds the events the pump has read since the         *)
(* subscription, all of them, once, in order, while the stream is open and *)
(* nobody releases the session; after that, a prefix of them.              *)
EventsGapFree ==
    \A l \in Listeners :
        /\ \A i \in DOMAIN delivered[l] : delivered[l][i] = since[l] + i
        /\ stream[l] = "open" /\ active /\ pump = "running" =>
               since[l] + Len(delivered[l]) = emitted

(* Once one release has closed the session's scope nothing reaches a       *)
(* caller or a listener any more: no answer completes a deferred and no    *)
(* event is offered, whatever the other releases still do.                 *)
ReleasedIsQuiet ==
    [][(\E r \in Releases : rel[r] = "released") =>
           /\ delivered' = delivered
           /\ \A c \in Commands : deferred'[c] \in Commands => deferred'[c] = deferred[c]
      ]_vars

(* The session as its callers see it: a call is issued when its session    *)
(* was found, and what its deferred holds is what it was settled with.     *)
PhaseOf(stage) ==
    CASE stage = "idle" -> "new"
      [] stage \in {"checked", "allocated", "registered", "awaiting"} -> "issued"
      [] stage = "interrupted" -> "abandoned"
      [] stage \in {"returned", "writeFailed", "refused"} -> "returned"

Phase == [c \in Commands |-> PhaseOf(pc[c])]

Value ==
    [c \in Commands |->
        IF pc[c] = "refused" THEN StateError
        ELSE IF deferred[c] = Absent THEN Open ELSE deferred[c]]

Contract == INSTANCE RequestReply WITH
    Refused <- StateError, Unfit <- Foreign, phase <- Phase, value <- Value, alive <- active

(* Every call is settled at most once, by its own answer or an error; it   *)
(* returns only after that, and only a session that is gone, or one of     *)
(* another transport, refuses it.                                          *)
ImplementsContract == Contract!Spec

(* A release has marked the session closed, or the pump of a session that  *)
(* nobody has released yet has failed.                                     *)
SessionEnding ==
    \/ \E r \in Releases : rel[r] = "marked"
    \/ pump = "dying" /\ active

(* The one way out of releasing a session that is left to its caller. *)
CutShort == \E r \in Disconnects : rel[r] = "interrupted"

(* A call pending when the session is released, or when its socket fails   *)
(* under a session not yet released, is settled, unless a response already *)
(* consumed its entry; and a stream open then ends. Only a disconnect that *)
(* is interrupted half-way leaves them waiting.                            *)
NobodyWaitsForEver ==
    /\ \A c \in Commands :
          InPending(c) /\ SessionEnding
          ~> deferred[c] # Open \/ c \in answered \/ CutShort
    /\ \A l \in Listeners :
          l \in subs /\ SessionEnding
          ~> stream[l] = "ended" \/ CutShort

(* README.md: "disconnect happens automatically even if errors occur" in   *)
(* the scope of connect.  When that scope has closed and no disconnect is  *)
(* under way, the pump does not read the socket any more.                  *)
ScopeEndDisconnects ==
    /\ rel[Finalizer] \in {"done", "released"}
    /\ \A r \in Disconnects :
           rel[r] \in {"idle", "refused", "released", "done", "interrupted"}
    => pump # "running"
===============================================================================
