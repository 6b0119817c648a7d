--------------------------- MODULE CdpSessionProofs ---------------------------
(***************************************************************************)
(* Proofs about CdpSession for every number of calls, listeners and        *)
(* releases, and every bound.                                              *)
(***************************************************************************)
EXTENDS CdpSession, TLAPS

USE BoundsAreNat, NoCommandIsNone, CommandsAreNoTags, FinalizerIsItsOwn,
    ForeignAreCommands

-------------------------------------------------------------------------------
(* The inductive invariant: ids are handed out once, the table and the     *)
(* requests on the wire file a call under its own id, and the state of the *)
(* deferred follows the caller's progress.                                 *)

IdsAreFresh ==
    \A c \in Commands :
        /\ idOf[c] # 0 => idOf[c] < nextId
        /\ pc[c] \in {"idle", "checked", "refused"} => idOf[c] = 0

IdsAreUnique ==
    \A c, d \in Commands : idOf[c] = idOf[d] /\ idOf[c] # 0 => c = d

FiledUnderOwnId ==
    /\ \A i \in Ids : pending[i] # NoCommand => idOf[pending[i]] = i
    /\ \A q \in wire : idOf[q.cmd] = q.id
    /\ \A c \in Commands : decoding[c] # NoCommand => decoding[c] = c

(* Some release took the call, whatever became of the release. *)
Held(c) == \E r \in Releases : c \in taken[r]

DeferredFollowsCaller ==
    \A c \in Commands :
        /\ pc[c] \in {"idle", "checked", "allocated", "refused"} => deferred[c] = Absent
        /\ pc[c] \in {"registered", "awaiting", "returned", "writeFailed"}
              => deferred[c] # Absent
        /\ pc[c] \in {"returned", "writeFailed"} => deferred[c] # Open
        /\ InPending(c) \/ Held(c) => deferred[c] # Absent
        /\ decoding[c] # NoCommand => deferred[c] # Absent
        /\ c \in answered => deferred[c] # Absent

UnsettledIsHeld ==
    \A c \in Commands :
        deferred[c] = Open /\ c \notin answered => InPending(c) \/ Held(c)

HoldersAreKnown ==
    /\ \A r \in Releases : rel[r] \notin {"taken", "interrupted"} => taken[r] = {}
    /\ rel[Finalizer] # "interrupted"

IInv ==
    /\ TypeOK
    /\ HoldersAreKnown
    /\ IdsAreFresh
    /\ IdsAreUnique
    /\ FiledUnderOwnId
    /\ DeferredFollowsCaller
    /\ AnswerMatchesRequest
    /\ UnsettledIsHeld
    /\ LiveSessionOrphansNobody

-------------------------------------------------------------------------------
(* Type correctness *)

LEMMA InitTypeOK == Init => TypeOK
<1> SUFFICES ASSUME Init PROVE TypeOK
    OBVIOUS
<1>1. nextId \in 1..(MaxId + 1) /\ 0 \in 0..MaxEvents
    BY DEF Init
<1>2. delivered \in [Listeners -> Seq(1..MaxEvents)]
    BY DEF Init
<1> QED
    BY <1>1, <1>2 DEF Init, TypeOK, Errors

(* No action leaves the types, one step per action. *)
LEMMA NextTypeOK == TypeOK /\ [Next]_vars => TypeOK'
<1> SUFFICES ASSUME TypeOK, [Next]_vars PROVE TypeOK'
    OBVIOUS
<1> USE DEF TypeOK, callVars, sessionVars, releaseVars, eventVars, Errors, PumpErrors
<1>1. ASSUME NEW c \in Commands, GetState(c) PROVE TypeOK'
    BY <1>1 DEF GetState, CallerMoves
<1>2. ASSUME NEW c \in Commands, AllocateId(c) PROVE TypeOK'
    BY <1>2 DEF AllocateId, Ids, CallerMoves
<1>3. ASSUME NEW c \in Commands, Register(c) PROVE TypeOK'
    BY <1>3 DEF Register, CallerMoves
<1>4. ASSUME NEW c \in Commands, Write(c) PROVE TypeOK'
    BY <1>4 DEF Write, Ids, CallerMoves
<1>5. ASSUME NEW c \in Commands, WriteFails(c) PROVE TypeOK'
    BY <1>5 DEF WriteFails, Complete, CallerMoves
<1>6. ASSUME NEW c \in Commands, Await(c) PROVE TypeOK'
    BY <1>6 DEF Await, CallerMoves
<1>7. ASSUME NEW c \in Commands, Interrupt(c) PROVE TypeOK'
    BY <1>7 DEF Interrupt, CallerMoves
<1>8. ASSUME NEW q \in wire, ReceiveStale(q) PROVE TypeOK'
    BY <1>8 DEF ReceiveStale, vars
<1>9. ASSUME NEW q \in wire, ReceiveError(q) PROVE TypeOK'
    BY <1>9 DEF ReceiveError, Complete
<1>10. ASSUME NEW q \in wire, ReceiveResult(q) PROVE TypeOK'
    BY <1>10 DEF ReceiveResult
<1>11. ASSUME NEW c \in Commands, Decoded(c) PROVE TypeOK'
    BY <1>11 DEF Decoded, Complete
<1>12. ASSUME NEW c \in Commands, Undecodable(c) PROVE TypeOK'
    BY <1>12 DEF Undecodable, PumpDies, StopHandlers
<1>13. CASE ReceiveInvalid
    BY <1>13 DEF ReceiveInvalid, PumpDies, StopHandlers
<1>14. CASE ReceiveEvent
    <2>1. emitted + 1 \in 1..MaxEvents
        BY <1>14 DEF ReceiveEvent
    <2>2. \A l \in Listeners : Append(delivered[l], emitted + 1) \in Seq(1..MaxEvents)
        BY <2>1
    <2>3. delivered' \in [Listeners -> Seq(1..MaxEvents)]
        BY <1>14, <2>2 DEF ReceiveEvent
    <2>4. emitted' \in 0..MaxEvents
        BY <1>14, <2>1 DEF ReceiveEvent
    <2> QED
        BY <1>14, <2>3, <2>4 DEF ReceiveEvent
<1>15. CASE SocketFails
    BY <1>15 DEF SocketFails, PumpDies, StopHandlers
<1>16. CASE PeerCloses
    BY <1>16 DEF PeerCloses, StopHandlers
<1>17. CASE PumpFailsPending
    BY <1>17 DEF PumpFailsPending, EmptyTable, FailEach
<1>18. CASE PumpEndsStreams
    BY <1>18 DEF PumpEndsStreams, EndEach
<1>19. ASSUME NEW r \in Releases, Release(r) \/ InterruptDisconnect(r) PROVE TypeOK'
    <2>1. CASE Disconnect(r)
        BY <2>1 DEF Disconnect, Step, At
    <2>2. CASE FindSession(r)
        BY <2>2 DEF FindSession, Step, At
    <2>3. CASE CheckClosed(r)
        BY <2>3 DEF CheckClosed, Step, At
    <2>4. CASE MarkClosed(r)
        BY <2>4 DEF MarkClosed, At
    <2>5. CASE ReleaseTakesPending(r)
        BY <2>5 DEF ReleaseTakesPending, EmptyTable, At
    <2>6. CASE ReleaseFailsPending(r)
        BY <2>6 DEF ReleaseFailsPending, FailEach, At
    <2>7. CASE ReleaseTakesStreams(r)
        BY <2>7 DEF ReleaseTakesStreams, At
    <2>8. CASE ReleaseEndsStreams(r)
        BY <2>8 DEF ReleaseEndsStreams, EndEach, At
    <2>9. CASE CloseScope(r)
        BY <2>9 DEF CloseScope, StopHandlers, At
    <2>10. CASE InterruptDisconnect(r)
        BY <2>10 DEF InterruptDisconnect, Step, At
    <2> QED
        BY <1>19, <2>1, <2>2, <2>3, <2>4, <2>5, <2>6, <2>7, <2>8, <2>9, <2>10 DEF Release
<1>20. ASSUME NEW l \in Listeners, Subscribe(l) PROVE TypeOK'
    BY <1>20 DEF Subscribe
<1>21. ASSUME NEW l \in Listeners, AddSubscriber(l) PROVE TypeOK'
    BY <1>21 DEF AddSubscriber
<1>22. ASSUME NEW l \in Listeners, Unsubscribe(l) PROVE TypeOK'
    BY <1>22 DEF Unsubscribe
<1>23. CASE UNCHANGED vars
    BY <1>23 DEF vars
<1> QED
    BY <1>1, <1>2, <1>3, <1>4, <1>5, <1>6, <1>7, <1>8, <1>9, <1>10, <1>11, <1>12,
       <1>13, <1>14, <1>15, <1>16, <1>17, <1>18, <1>19, <1>20, <1>21, <1>22, <1>23
       DEF Next, Send, Handle, Pump

(* Every reachable state of the session is well typed. *)
THEOREM TypeCorrect == Spec => []TypeOK
<1>1. Init => TypeOK
    BY InitTypeOK
<1>2. TypeOK /\ [Next]_vars => TypeOK'
    BY NextTypeOK
<1> QED
    BY <1>1, <1>2, PTL DEF Spec
-------------------------------------------------------------------------------
(* The calls *)

LEMMA InitIInv == Init => IInv
<1> SUFFICES ASSUME Init PROVE IInv
    OBVIOUS
<1>1. TypeOK
    BY InitTypeOK
<1>2. \A c \in Commands : deferred[c] = Absent /\ pc[c] = "idle" /\ idOf[c] = 0
    BY DEF Init
<1>3. \A i \in Ids : pending[i] = NoCommand
    BY DEF Init
<1>4. HoldersAreKnown
    BY DEF Init, HoldersAreKnown, Releases
<1>5. IdsAreFresh /\ IdsAreUnique
    BY DEF Init, IdsAreFresh, IdsAreUnique
<1>6. FiledUnderOwnId
    BY DEF Init, FiledUnderOwnId
<1>7. \A c \in Commands : ~ InPending(c) /\ ~ Held(c)
    BY <1>3, NoCommandIsNone DEF Init, InPending, Held
<1>8. DeferredFollowsCaller
    BY <1>2, <1>7 DEF Init, DeferredFollowsCaller
<1>9. AnswerMatchesRequest
    BY <1>2, CommandsAreNoTags DEF AnswerMatchesRequest
<1>10. UnsettledIsHeld /\ LiveSessionOrphansNobody
    BY <1>2 DEF Init, UnsettledIsHeld, LiveSessionOrphansNobody, Open, Absent
<1> QED
    BY <1>1, <1>4, <1>5, <1>6, <1>8, <1>9, <1>10 DEF IInv

LEMMA NextHolders == IInv /\ [Next]_vars => HoldersAreKnown'
<1> SUFFICES ASSUME IInv, [Next]_vars PROVE HoldersAreKnown'
    OBVIOUS
<1>1. /\ HoldersAreKnown
      /\ taken \in [Releases -> SUBSET Commands]
      /\ DOMAIN rel = Releases
    BY DEF IInv, TypeOK
<1>2. CASE UNCHANGED <<rel, taken>>
    BY <1>1, <1>2 DEF HoldersAreKnown
(* A release that goes on and holds no call keeps none. *)
<1>3. ASSUME NEW r \in Releases, NEW from, NEW to, At(r, from, to), taken' = taken,
             from \notin {"taken", "interrupted"}, to # "interrupted"
      PROVE  HoldersAreKnown'
    BY <1>1, <1>3 DEF At, HoldersAreKnown
<1>4. ASSUME NEW r \in Releases, Release(r) \/ InterruptDisconnect(r)
      PROVE  HoldersAreKnown'
    <2>1. CASE Disconnect(r)
        <3>1. PICK to \in {"entered", "refused"} : Step(r, "idle", to)
            BY <2>1 DEF Disconnect
        <3> QED
            BY <1>3, <3>1 DEF Step
    <2>2. CASE FindSession(r)
        <3>1. PICK from \in {"idle", "entered"}, to \in {"found", "done"} : Step(r, from, to)
            BY <2>2 DEF FindSession
        <3> QED
            BY <1>3, <3>1 DEF Step
    <2>3. CASE CheckClosed(r)
        <3>1. PICK to \in {"done", "unclosed"} : Step(r, "found", to)
            BY <2>3 DEF CheckClosed
        <3> QED
            BY <1>3, <3>1 DEF Step
    <2>4. CASE MarkClosed(r)
        BY <1>3, <2>4 DEF MarkClosed
    <2>5. CASE ReleaseTakesPending(r)
        BY <1>1, <2>5 DEF ReleaseTakesPending, At, HoldersAreKnown
    <2>6. CASE ReleaseFailsPending(r)
        BY <1>1, <2>6 DEF ReleaseFailsPending, At, HoldersAreKnown
    <2>7. CASE ReleaseTakesStreams(r) \/ ReleaseEndsStreams(r)
        BY <1>3, <2>7 DEF ReleaseTakesStreams, ReleaseEndsStreams
    <2>8. CASE CloseScope(r)
        BY <1>3, <2>8 DEF CloseScope
    <2>9. CASE InterruptDisconnect(r)
        <3>1. rel' = [rel EXCEPT ![r] = "interrupted"] /\ taken' = taken /\ r # Finalizer
            BY <2>9, FinalizerIsItsOwn DEF InterruptDisconnect, Step, At
        <3> QED
            BY <1>1, <3>1 DEF HoldersAreKnown, Releases
    <2> QED
        BY <1>4, <2>1, <2>2, <2>3, <2>4, <2>5, <2>6, <2>7, <2>8, <2>9 DEF Release
<1>5. \/ \E r \in Releases : Release(r) \/ InterruptDisconnect(r)
      \/ UNCHANGED <<rel, taken>>
    BY DEF Next, Send, Handle, Pump, GetState, AllocateId, Register, Write, WriteFails,
        Await, Interrupt, ReceiveStale, ReceiveError, ReceiveResult, Decoded, Undecodable,
        ReceiveInvalid, ReceiveEvent, SocketFails, PeerCloses, PumpDies, PumpFailsPending,
        PumpEndsStreams, Subscribe, AddSubscriber, Unsubscribe, vars, sessionVars,
        releaseVars, CallerMoves
<1> QED
    BY <1>2, <1>4, <1>5

(* No action disturbs the invariant, one step per action that changes what *)
(* it is about.                                                            *)
LEMMA NextIInv == IInv /\ [Next]_vars => IInv'
<1> SUFFICES ASSUME IInv, [Next]_vars PROVE IInv'
    OBVIOUS
<1>0. TypeOK /\ TypeOK' /\ HoldersAreKnown'
    BY NextTypeOK, NextHolders DEF IInv
<1>a. /\ pc \in [Commands -> {"idle", "checked", "allocated", "registered", "awaiting",
                              "returned", "writeFailed", "refused", "interrupted"}]
      /\ idOf \in [Commands -> {0} \cup Ids]
      /\ pending \in [Ids -> Commands \cup {NoCommand}]
      /\ deferred \in [Commands -> Commands \cup Errors \cup {Absent, Open}]
      /\ decoding \in [Commands -> Commands \cup {NoCommand}]
      /\ \A c \in Commands :
            pc[c] \in {"allocated", "registered", "awaiting"} => idOf[c] \in Ids
      /\ \A q \in wire : q.id \in Ids /\ q.cmd \in Commands
      /\ answered \subseteq Commands
      /\ taken \in [Releases -> SUBSET Commands]
      /\ Ids \subseteq Nat \ {0}
    BY <1>0 DEF TypeOK, Ids
<1>b. /\ IdsAreFresh /\ IdsAreUnique /\ FiledUnderOwnId /\ DeferredFollowsCaller
      /\ AnswerMatchesRequest /\ UnsettledIsHeld /\ LiveSessionOrphansNobody
    BY DEF IInv
<1>1. ASSUME NEW c \in Commands, \/ GetState(c) \/ Write(c) \/ Await(c) \/ Interrupt(c)
      PROVE  IInv'
    <2>1. UNCHANGED <<idOf, nextId, pending, deferred, decoding, answered, taken, pump>>
        BY <1>1 DEF GetState, Write, Await, Interrupt, sessionVars, releaseVars,
            CallerMoves
    <2>2. IdsAreFresh' /\ IdsAreUnique' /\ DeferredFollowsCaller'
        BY <1>a, <1>b, <1>1, <2>1 DEF IdsAreFresh, IdsAreUnique, DeferredFollowsCaller,
            InPending, Held, GetState, Write, Await, Interrupt, CallerMoves
    <2>3. FiledUnderOwnId'
        BY <1>a, <1>b, <1>1, <2>1 DEF FiledUnderOwnId, GetState, Write, Await, Interrupt,
            CallerMoves
    <2> QED
        BY <1>0, <1>b, <2>1, <2>2, <2>3 DEF IInv, AnswerMatchesRequest,
            UnsettledIsHeld, LiveSessionOrphansNobody, InPending, Held
<1>2. ASSUME NEW c \in Commands, AllocateId(c) PROVE IInv'
    <2> DEFINE i == nextId
    <2>1. /\ i \in Nat /\ nextId' = i + 1 /\ idOf[c] = 0
          /\ \A d \in Commands : /\ idOf'[d] = IF d = c THEN i ELSE idOf[d]
                                 /\ idOf[d] \in Nat
        <3>1. i \in Ids /\ nextId' = i + 1 /\ idOf' = [idOf EXCEPT ![c] = i]
            BY <1>2 DEF AllocateId, CallerMoves
        <3>2. idOf[c] = 0
            BY <1>b, <1>2 DEF AllocateId, IdsAreFresh, CallerMoves
        <3>3. \A d \in Commands : idOf[d] \in Nat
            BY <1>0 DEF TypeOK, Ids
        <3> QED
            BY <1>a, <3>1, <3>2, <3>3
    <2>2. UNCHANGED <<pending, wire, decoding>>
        BY <1>2 DEF AllocateId, CallerMoves
    <2>3. IdsAreFresh'
        BY <1>a, <1>b, <1>2, <2>1 DEF AllocateId, IdsAreFresh, CallerMoves
    <2>4. IdsAreUnique'
        BY <1>b, <2>1 DEF IdsAreFresh, IdsAreUnique
    <2>5. FiledUnderOwnId'
        <3>1. \A j \in Ids : pending[j] # NoCommand => pending[j] # c
            BY <1>a, <1>b, <2>1 DEF FiledUnderOwnId
        <3>2. \A q \in wire : q.cmd # c
            BY <1>a, <1>b, <2>1 DEF FiledUnderOwnId
        <3> QED
            BY <1>a, <1>b, <2>1, <2>2, <3>1, <3>2 DEF FiledUnderOwnId
    <2> QED
        BY <1>0, <1>a, <1>b, <1>2, <2>3, <2>4, <2>5 DEF AllocateId, IInv,
            DeferredFollowsCaller,
            AnswerMatchesRequest, UnsettledIsHeld, LiveSessionOrphansNobody,
            InPending, Held, sessionVars, releaseVars, CallerMoves
<1>3. ASSUME NEW c \in Commands, Register(c) PROVE IInv'
    <2>1. pending[idOf[c]] = NoCommand
        <3>1. deferred[c] = Absent /\ ~InPending(c) /\ idOf[c] \in Ids
            BY <1>a, <1>b, <1>3 DEF Register, DeferredFollowsCaller, CallerMoves
        <3>2. pending[idOf[c]] # NoCommand => pending[idOf[c]] = c
            BY <1>a, <1>b, <3>1 DEF FiledUnderOwnId, IdsAreUnique
        <3> QED
            BY <1>a, <3>1, <3>2 DEF InPending
    <2>2. \A d \in Commands : InPending(d)' <=> InPending(d) \/ d = c
        BY <1>a, <1>3, <2>1 DEF Register, InPending, CallerMoves
    <2>3. UNCHANGED <<idOf, nextId, wire, decoding, answered, taken, pump>>
        BY <1>3 DEF Register, sessionVars, releaseVars, CallerMoves
    <2>4. IdsAreFresh' /\ IdsAreUnique' /\ FiledUnderOwnId'
        BY <1>a, <1>b, <1>3, <2>3 DEF Register, IdsAreFresh, IdsAreUnique,
            FiledUnderOwnId, CallerMoves
    <2>5. DeferredFollowsCaller'
        BY <1>a, <1>b, <1>3, <2>2, <2>3 DEF Register, DeferredFollowsCaller, Held,
            Absent, Open, CallerMoves
    <2>6. c \notin answered
        BY <1>b, <1>3 DEF Register, DeferredFollowsCaller, CallerMoves
    <2>7. AnswerMatchesRequest' /\ UnsettledIsHeld' /\ LiveSessionOrphansNobody'
        BY <1>a, <1>b, <1>3, <2>2, <2>3, <2>6 DEF Register, AnswerMatchesRequest,
            UnsettledIsHeld, LiveSessionOrphansNobody, Held, Open, CallerMoves
    <2> QED
        BY <1>0, <2>4, <2>5, <2>7 DEF IInv
<1>4. ASSUME NEW c \in Commands, WriteFails(c) PROVE IInv'
    <2>1. UNCHANGED <<idOf, nextId, wire, decoding, answered, taken, pump>>
        BY <1>4 DEF WriteFails, sessionVars, releaseVars, CallerMoves
    <2>2. \A d \in Commands : InPending(d)' => InPending(d)
        BY <1>a, <1>4 DEF WriteFails, InPending, CallerMoves
    <2>3. \A d \in Commands : InPending(d) => InPending(d)' \/ d = c
        BY <1>a, <1>b, <1>4 DEF WriteFails, InPending, FiledUnderOwnId, IdsAreUnique,
            CallerMoves
    <2>4. IdsAreFresh' /\ IdsAreUnique' /\ FiledUnderOwnId'
        BY <1>a, <1>b, <1>4, <2>1 DEF WriteFails, IdsAreFresh, IdsAreUnique,
            FiledUnderOwnId, CallerMoves
    <2>5. \A d \in Commands :
              deferred'[d] = IF d = c /\ deferred[d] = Open THEN WriteError ELSE deferred[d]
        BY <1>a, <1>4 DEF WriteFails, Complete, CallerMoves
    <2>6. WriteError \notin Commands \cup {Absent, Open}
        BY DEF WriteError, Absent, Open, Errors
    <2>7. DeferredFollowsCaller'
        BY <1>a, <1>b, <1>4, <2>1, <2>2, <2>5, <2>6 DEF WriteFails,
            DeferredFollowsCaller, Held, CallerMoves
    <2>8. AnswerMatchesRequest' /\ UnsettledIsHeld' /\ LiveSessionOrphansNobody'
        BY <1>a, <1>b, <2>1, <2>3, <2>5, <2>6 DEF AnswerMatchesRequest,
            UnsettledIsHeld, LiveSessionOrphansNobody, Held
    <2> QED
        BY <1>0, <2>4, <2>7, <2>8 DEF IInv
<1>5. ASSUME NEW q \in wire, ReceiveError(q) \/ ReceiveResult(q) PROVE IInv'
    <2> DEFINE c == pending[q.id]
    <2>1. /\ c \in Commands /\ c = q.cmd
          /\ pending' = [pending EXCEPT ![q.id] = NoCommand]
          /\ answered' = answered \cup {c}
          /\ UNCHANGED <<pc, idOf, nextId, wire, taken, pump>>
        <3>1. c # NoCommand
            BY <1>5 DEF ReceiveError, ReceiveResult
        <3>2. c \in Commands /\ idOf[c] = q.id /\ idOf[q.cmd] = q.id /\ q.id # 0
            BY <1>a, <1>b, <3>1 DEF FiledUnderOwnId
        <3>3. c = q.cmd
            BY <1>a, <1>b, <3>2 DEF IdsAreUnique
        <3> QED
            BY <1>5, <3>2, <3>3 DEF ReceiveError, ReceiveResult, sessionVars, releaseVars
    <2>2. \A d \in Commands : InPending(d)' => InPending(d)
        BY <1>a, <2>1 DEF InPending
    <2>3. \A d \in Commands : InPending(d) => InPending(d)' \/ d = c
        BY <1>a, <2>1 DEF InPending
    <2>4. deferred[c] # Absent
        BY <1>a, <1>b, <2>1 DEF DeferredFollowsCaller, InPending
    <2>5. \A d \in Commands :
              /\ deferred'[d] = deferred[d] /\ decoding'[d] = IF d = c THEN c ELSE decoding[d]
              \/ /\ decoding'[d] = decoding[d]
                 /\ deferred'[d] = IF d = c /\ deferred[d] = Open
                                   THEN "DebugCommandError" ELSE deferred[d]
        BY <1>a, <1>5, <2>1 DEF ReceiveError, ReceiveResult, Complete
    <2>6. "DebugCommandError" \notin Commands \cup {Absent, Open}
        BY DEF Absent, Open, Errors
    <2>7. IdsAreFresh' /\ IdsAreUnique' /\ FiledUnderOwnId'
        BY <1>a, <1>b, <2>1, <2>5 DEF IdsAreFresh, IdsAreUnique, FiledUnderOwnId
    <2>8. DeferredFollowsCaller'
        BY <1>a, <1>b, <2>1, <2>2, <2>4, <2>5, <2>6 DEF DeferredFollowsCaller, Held
    <2>9. AnswerMatchesRequest' /\ UnsettledIsHeld'
        BY <1>b, <2>1, <2>3, <2>5, <2>6 DEF AnswerMatchesRequest, UnsettledIsHeld,
            Held
    <2>10. LiveSessionOrphansNobody'
        BY <1>a, <1>b, <2>1, <2>5, <2>6 DEF LiveSessionOrphansNobody
    <2> QED
        BY <1>0, <2>7, <2>8, <2>9, <2>10 DEF IInv
<1>6. ASSUME NEW c \in Commands, Decoded(c) PROVE IInv'
    <2>1. decoding[c] = c /\ deferred[c] # Absent
        BY <1>b, <1>6 DEF Decoded, FiledUnderOwnId, DeferredFollowsCaller
    <2>2. UNCHANGED <<pc, idOf, nextId, pending, wire, answered, taken, pump>>
        BY <1>6 DEF Decoded, sessionVars, releaseVars
    <2>3. \A d \in Commands :
              /\ deferred'[d] = IF d = c /\ deferred[d] = Open THEN c ELSE deferred[d]
              /\ decoding'[d] = IF d = c THEN NoCommand ELSE decoding[d]
        BY <1>a, <1>6, <2>1 DEF Decoded, Complete
    <2>4. c \notin {Absent, Open}
        BY DEF Absent, Open
    <2>5. IdsAreFresh' /\ IdsAreUnique' /\ FiledUnderOwnId'
        BY <1>b, <2>2, <2>3 DEF IdsAreFresh, IdsAreUnique, FiledUnderOwnId
    <2>6. DeferredFollowsCaller'
        BY <1>a, <1>b, <2>1, <2>2, <2>3, <2>4 DEF DeferredFollowsCaller, InPending, Held
    <2>7. AnswerMatchesRequest' /\ UnsettledIsHeld' /\ LiveSessionOrphansNobody'
        BY <1>a, <1>b, <2>2, <2>3, <2>4 DEF AnswerMatchesRequest, UnsettledIsHeld,
            LiveSessionOrphansNobody, InPending, Held
    <2> QED
        BY <1>0, <2>5, <2>6, <2>7 DEF IInv
<1>7. CASE \/ \E c \in Commands : Undecodable(c)
           \/ ReceiveInvalid
           \/ SocketFails
           \/ PeerCloses
           \/ \E r \in Releases : CloseScope(r)
    <2>1. /\ UNCHANGED <<pc, idOf, nextId, pending, deferred, wire, answered, taken>>
          /\ decoding' = [c \in Commands |-> NoCommand]
        BY <1>7 DEF Undecodable, ReceiveInvalid, SocketFails, PeerCloses, CloseScope,
            PumpDies, StopHandlers, releaseVars
    <2>2. pump' # "running"
        BY <1>0, <1>7 DEF Undecodable, ReceiveInvalid, SocketFails, PeerCloses,
            CloseScope, PumpDies, TypeOK
    <2> QED
        BY <1>0, <1>b, <2>1, <2>2 DEF IInv, IdsAreFresh, IdsAreUnique, FiledUnderOwnId,
            DeferredFollowsCaller, AnswerMatchesRequest, UnsettledIsHeld,
            LiveSessionOrphansNobody, InPending, Held
<1>8. ASSUME NEW S \in SUBSET Commands, NEW e \in Errors, FailEach(S, e),
             UNCHANGED <<pc, idOf, nextId, wire, decoding, answered>>,
             \A i \in Ids : pending'[i] \in {pending[i], NoCommand},
             \A d \in Commands : InPending(d)' => InPending(d),
             \A d \in Commands : InPending(d) => InPending(d)' \/ d \in S,
             \A d \in Commands : Held(d)' => Held(d),
             \A d \in Commands : Held(d) => Held(d)' \/ d \in S,
             pump' = "running" => pump = "running"
      PROVE  IInv'
    <2>2. e \notin Commands \cup {Absent, Open}
        BY DEF Errors, PumpErrors, Absent, Open, WriteError, Closed
    <2>5. \A d \in Commands :
              deferred'[d] = IF d \in S /\ deferred[d] = Open THEN e ELSE deferred[d]
        BY <1>8 DEF FailEach
    <2>6. IdsAreFresh' /\ IdsAreUnique' /\ FiledUnderOwnId'
        BY <1>b, <1>8 DEF IdsAreFresh, IdsAreUnique, FiledUnderOwnId
    <2>7. DeferredFollowsCaller'
        <3>1. \A d \in Commands :
                  /\ deferred'[d] = Absent <=> deferred[d] = Absent
                  /\ deferred'[d] = Open => deferred[d] = Open
            BY <2>2, <2>5 DEF Absent, Open
        <3>2. \A d \in Commands : (InPending(d) \/ Held(d))' => deferred'[d] # Absent
            BY <1>b, <1>8, <3>1 DEF DeferredFollowsCaller
        <3> QED
            BY <1>b, <1>8, <3>1, <3>2 DEF DeferredFollowsCaller
    <2>8. AnswerMatchesRequest' /\ UnsettledIsHeld' /\ LiveSessionOrphansNobody'
        BY <1>a, <1>b, <1>8, <2>2, <2>5 DEF AnswerMatchesRequest, UnsettledIsHeld,
            LiveSessionOrphansNobody
    <2> QED
        BY <1>0, <2>6, <2>7, <2>8 DEF IInv
<1>9. CASE PumpFailsPending
    <2>1. pumpError \in Errors
        BY <1>0, <1>9 DEF PumpFailsPending, TypeOK, Errors
    <2> DEFINE S == {c \in Commands : InPending(c)}
    <2>2. /\ FailEach(S, pumpError)
          /\ UNCHANGED <<pc, idOf, nextId, wire, decoding, answered, taken>>
          /\ \A i \in Ids : pending'[i] = NoCommand
          /\ pump' # "running"
        BY <1>9 DEF PumpFailsPending, EmptyTable, releaseVars
    <2> QED
        BY <1>8, <2>1, <2>2 DEF InPending, Held
<1>10. ASSUME NEW r \in Releases, ReleaseFailsPending(r) PROVE IInv'
    <2>1. Closed \in Errors
        BY DEF Errors
    <2> DEFINE S == taken[r]
    <2>2. /\ FailEach(S, Closed)
          /\ UNCHANGED <<pc, idOf, nextId, pending, wire, decoding, answered, pump>>
          /\ taken' = [taken EXCEPT ![r] = {}]
        BY <1>10 DEF ReleaseFailsPending
    <2>3. S \in SUBSET Commands
        BY <1>a
    <2>4. /\ \A d \in Commands : InPending(d)' <=> InPending(d)
          /\ \A d \in Commands : Held(d)' => Held(d)
          /\ \A d \in Commands : Held(d) => Held(d)' \/ d \in S
        BY <1>a, <2>2 DEF InPending, Held
    <2> QED
        BY <1>8, <2>1, <2>2, <2>3, <2>4
<1>11. ASSUME NEW r \in Releases, ReleaseTakesPending(r) PROVE IInv'
    <2>1. /\ UNCHANGED <<pc, idOf, nextId, deferred, wire, decoding, answered, pump>>
          /\ \A i \in Ids : pending'[i] = NoCommand
          /\ taken' = [taken EXCEPT ![r] = {c \in Commands : InPending(c)}]
        BY <1>11 DEF ReleaseTakesPending, EmptyTable
    <2>2. taken[r] = {}
        BY <1>11 DEF IInv, HoldersAreKnown, ReleaseTakesPending, At
    <2>3. \A d \in Commands : /\ ~InPending(d)'
                              /\ Held(d)' => Held(d) \/ InPending(d)
        BY <1>a, <2>1 DEF InPending, Held
    <2>4. \A d \in Commands : Held(d) \/ InPending(d) => Held(d)'
        BY <1>a, <2>1, <2>2 DEF Held
    <2>5. IdsAreFresh' /\ IdsAreUnique' /\ FiledUnderOwnId'
        BY <1>b, <2>1 DEF IdsAreFresh, IdsAreUnique, FiledUnderOwnId
    <2>6. DeferredFollowsCaller'
        BY <1>b, <2>1, <2>3 DEF DeferredFollowsCaller
    <2>7. AnswerMatchesRequest' /\ UnsettledIsHeld' /\ LiveSessionOrphansNobody'
        BY <1>b, <2>1, <2>4 DEF AnswerMatchesRequest, UnsettledIsHeld,
            LiveSessionOrphansNobody
    <2> QED
        BY <1>0, <2>5, <2>6, <2>7 DEF IInv
<1>12. CASE \/ \E q \in wire : ReceiveStale(q)
            \/ ReceiveEvent
            \/ PumpEndsStreams
            \/ \E r \in Releases : \/ Disconnect(r)
                                   \/ FindSession(r)
                                   \/ CheckClosed(r)
                                   \/ MarkClosed(r)
                                   \/ ReleaseTakesStreams(r)
                                   \/ ReleaseEndsStreams(r)
                                   \/ InterruptDisconnect(r)
            \/ \E l \in Listeners : Subscribe(l) \/ AddSubscriber(l) \/ Unsubscribe(l)
            \/ UNCHANGED vars
    <2>1. UNCHANGED <<callVars, taken>> /\ (pump' = "running" => pump = "running")
        BY <1>12 DEF ReceiveStale, ReceiveEvent, PumpEndsStreams, Disconnect, FindSession,
            CheckClosed, MarkClosed, ReleaseTakesStreams, ReleaseEndsStreams,
            InterruptDisconnect, Step, Subscribe, AddSubscriber, Unsubscribe, vars,
            sessionVars, releaseVars
    <2> QED
        BY <1>0, <1>b, <2>1 DEF callVars, IInv, IdsAreFresh, IdsAreUnique,
            FiledUnderOwnId,
            DeferredFollowsCaller, AnswerMatchesRequest, UnsettledIsHeld,
            LiveSessionOrphansNobody, InPending, Held
<1> QED
    BY <1>1, <1>2, <1>3, <1>4, <1>5, <1>6, <1>7, <1>9, <1>10, <1>11, <1>12
       DEF Next, Send, Handle, Pump, Release

LEMMA SpecIInv == Spec => []IInv
BY InitIInv, NextIInv, PTL DEF Spec

(* Every successful call gets the answer to its own request. *)
THEOREM AnswersMatch == Spec => []AnswerMatchesRequest
<1>1. IInv => AnswerMatchesRequest
    BY DEF IInv
<1> QED
    BY <1>1, SpecIInv, PTL

(* An open call whose response has not come is in the pending table or in  *)
(* the hands of a release that goes on to fail it, unless an interrupted   *)
(* disconnect lost it.                                                     *)
THEOREM UnsettledCallsArePending == Spec => []UnsettledIsPending
<1>1. ASSUME IInv PROVE UnsettledIsPending
    <2>1. ASSUME NEW c \in Commands, Held(c) PROVE InHand(c) \/ Lost(c)
        <3>1. PICK r \in Releases : c \in taken[r]
            BY <2>1 DEF Held
        <3>2. rel[r] \in {"taken", "interrupted"}
            BY <1>1, <3>1 DEF IInv, HoldersAreKnown
        <3>3. rel[r] = "interrupted" => r \in Disconnects
            BY <1>1 DEF IInv, HoldersAreKnown, Releases
        <3> QED
            BY <3>1, <3>2, <3>3 DEF InHand, Lost
    <2> QED
        BY <1>1, <2>1 DEF IInv, UnsettledIsHeld, UnsettledIsPending
<1> QED
    BY <1>1, SpecIInv, PTL

(* A session whose pump runs has orphaned no call. *)
THEOREM LiveSessionsOrphanNobody == Spec => []LiveSessionOrphansNobody
<1>1. IInv => LiveSessionOrphansNobody
    BY DEF IInv
<1> QED
    BY <1>1, SpecIInv, PTL
-------------------------------------------------------------------------------
(* The contract *)

(* The phase and the value of one call, case by case. *)
View ==
    \A c \in Commands :
        /\ Phase[c] = IF pc[c] = "idle" THEN "new"
                      ELSE IF pc[c] \in {"checked", "allocated", "registered", "awaiting"}
                      THEN "issued"
                      ELSE IF pc[c] = "interrupted" THEN "abandoned" ELSE "returned"
        /\ Value[c] = IF pc[c] = "refused" THEN StateError
                      ELSE IF deferred[c] = Absent THEN Open ELSE deferred[c]

LEMMA ViewOfCall == TypeOK => View
<1> SUFFICES ASSUME TypeOK, NEW c \in Commands
             PROVE  /\ Phase[c] = IF pc[c] = "idle" THEN "new"
                         ELSE IF pc[c] \in {"checked", "allocated", "registered", "awaiting"}
                         THEN "issued"
                         ELSE IF pc[c] = "interrupted" THEN "abandoned" ELSE "returned"
                    /\ Value[c] = IF pc[c] = "refused" THEN StateError
                         ELSE IF deferred[c] = Absent THEN Open ELSE deferred[c]
    BY DEF View
<1>1. pc[c] \in {"idle", "checked", "allocated", "registered", "awaiting",
                 "returned", "writeFailed", "refused", "interrupted"}
    BY DEF TypeOK
<1> QED
    BY <1>1 DEF Phase, PhaseOf, Value

(* What a step that changes one call's phase and value, or settles a set   *)
(* of calls, does to the two functions.                                    *)
LEMMA ViewUnchanged ==
    ASSUME TypeOK, TypeOK',
           \A c \in Commands : Phase'[c] = Phase[c] /\ Value'[c] = Value[c]
    PROVE  Phase' = Phase /\ Value' = Value
BY DEF Phase, Value

LEMMA ViewOfOneChanged ==
    ASSUME TypeOK, TypeOK', NEW c \in Commands, NEW p, NEW v,
           Phase'[c] = p, Value'[c] = v,
           \A d \in Commands \ {c} : Phase'[d] = Phase[d] /\ Value'[d] = Value[d]
    PROVE  /\ Phase' = [Phase EXCEPT ![c] = p]
           /\ Value' = [Value EXCEPT ![c] = v]
           /\ Phase[c] = p => Phase' = Phase
           /\ Value[c] = v => Value' = Value
<1>1. Phase = [d \in Commands |-> Phase[d]]
    BY DEF Phase
<1>2. Phase' = [d \in Commands |-> Phase'[d]]
    BY DEF Phase
<1>3. Value = [d \in Commands |-> Value[d]]
    BY DEF Value
<1>4. Value' = [d \in Commands |-> Value'[d]]
    BY DEF Value
<1> QED
    BY <1>1, <1>2, <1>3, <1>4

LEMMA ViewOfManyChanged ==
    ASSUME TypeOK, TypeOK', NEW S \in SUBSET Commands, NEW e,
           \A c \in Commands :
               Phase'[c] = Phase[c] /\ Value'[c] = IF c \in S THEN e ELSE Value[c]
    PROVE  /\ Phase' = Phase
           /\ Value' = [c \in Commands |-> IF c \in S THEN e ELSE Value[c]]
<1>1. Phase' = Phase
    BY DEF Phase
<1>2. Value' = [d \in Commands |-> Value'[d]]
    BY DEF Value
<1> QED
    BY <1>1, <1>2

(* The promise of RequestReply, step by step. *)
LEMMA StepRefines == IInv /\ [Next]_vars => [Contract!Next]_(Contract!vars)
<1> SUFFICES ASSUME IInv, [Next]_vars
             PROVE  Contract!Next \/ UNCHANGED Contract!vars
    OBVIOUS
<1>0. TypeOK /\ TypeOK' /\ IInv'
    BY NextTypeOK, NextIInv DEF IInv
<1>v. View /\ View'
    BY <1>0, ViewOfCall, PTL
<1>d. /\ DOMAIN pc = Commands /\ DOMAIN deferred = Commands
      /\ \A c \in Commands :
            pc[c] \in {"idle", "checked", "allocated", "registered", "awaiting",
                       "returned", "writeFailed", "refused", "interrupted"}
    BY <1>0 DEF TypeOK
<1>u. \A d \in Commands :
          pc'[d] = pc[d] /\ deferred'[d] = deferred[d]
              => Phase'[d] = Phase[d] /\ Value'[d] = Value[d]
    BY <1>v DEF View
<1>s. \A c \in Commands :
          /\ deferred[c] = Open => Phase[c] \in {"issued", "abandoned"} /\ Value[c] = Open
          /\ pc[c] \in {"registered", "awaiting", "returned", "writeFailed"}
                => deferred[c] # Absent
          /\ pc[c] = "idle" => deferred[c] = Absent
          /\ pc[c] = "allocated" => deferred[c] = Absent
    BY <1>v, <1>d DEF View, IInv, DeferredFollowsCaller, Absent, Open
<1>1. ASSUME NEW c \in Commands, GetState(c) PROVE Contract!Next
    <2>1. \A d \in Commands \ {c} : Phase'[d] = Phase[d] /\ Value'[d] = Value[d]
        BY <1>d, <1>u, <1>1 DEF GetState, CallerMoves
    <2>2. Phase[c] = "new" /\ Value[c] = Open
        BY <1>v, <1>s, <1>1 DEF GetState, View, CallerMoves
    <2>3. CASE active /\ c \notin Foreign
        <3>1. Phase'[c] = "issued" /\ Value'[c] = Open
            BY <1>d, <1>v, <1>s, <1>1, <2>3 DEF GetState, View, CallerMoves
        <3>2. Phase' = [Phase EXCEPT ![c] = "issued"] /\ Value' = Value
            BY <1>0, <2>1, <2>2, <3>1, ViewOfOneChanged
        <3> QED
            BY <1>1, <2>2, <2>3, <3>2 DEF GetState, sessionVars, releaseVars,
                Contract!Next, Contract!Issue, CallerMoves
    <2>4. CASE ~active \/ c \in Foreign
        <3>1. Phase'[c] = "returned" /\ Value'[c] = StateError
            BY <1>d, <1>v, <1>1, <2>4 DEF GetState, View, CallerMoves
        <3>2. /\ Phase' = [Phase EXCEPT ![c] = "returned"]
              /\ Value' = [Value EXCEPT ![c] = StateError]
            BY <1>0, <2>1, <3>1, ViewOfOneChanged
        <3> QED
            BY <1>1, <2>2, <2>4, <3>2 DEF GetState, sessionVars, releaseVars,
                Contract!Next, Contract!Refuse, CallerMoves
    <2> QED
        BY <2>3, <2>4
<1>2. ASSUME NEW c \in Commands, AllocateId(c) \/ Register(c) \/ Write(c)
      PROVE  UNCHANGED Contract!vars
    <2>1. \A d \in Commands : Phase'[d] = Phase[d] /\ Value'[d] = Value[d]
        BY <1>d, <1>u, <1>v, <1>s, <1>2 DEF AllocateId, Register, Write, View, CallerMoves
    <2>2. Phase' = Phase /\ Value' = Value
        BY <1>0, <2>1, ViewUnchanged
    <2> QED
        BY <1>2, <2>2 DEF AllocateId, Register, Write, sessionVars, releaseVars,
            Contract!vars, CallerMoves
<1>3. ASSUME NEW c \in Commands, WriteFails(c) PROVE Contract!Next
    <2>1. \A d \in Commands \ {c} : Phase'[d] = Phase[d] /\ Value'[d] = Value[d]
        BY <1>d, <1>u, <1>3 DEF WriteFails, Complete, CallerMoves
    <2>2. /\ Phase[c] = "issued" /\ Phase'[c] = "returned"
          /\ Value'[c] = IF Value[c] = Open THEN WriteError ELSE Value[c]
        <3>1. WriteError # Absent
            BY DEF WriteError, Absent
        <3> QED
            BY <1>d, <1>v, <1>s, <1>3, <3>1 DEF WriteFails, Complete, View, CallerMoves
    <2>3. /\ Phase' = [Phase EXCEPT ![c] = "returned"]
          /\ Value' = [Value EXCEPT ![c] = Value'[c]]
        BY <1>0, <2>1, <2>2, ViewOfOneChanged
    <2>4. Value' = [Value EXCEPT ![c] = IF @ = Open THEN WriteError ELSE @]
        BY <2>2, <2>3 DEF Value
    <2> QED
        BY <1>3, <2>2, <2>3, <2>4 DEF WriteFails, sessionVars, releaseVars, Contract!Next,
            Contract!ReturnWriteError, CallerMoves
<1>4. ASSUME NEW c \in Commands, Await(c) \/ Interrupt(c) PROVE Contract!Next
    <2>1. \A d \in Commands \ {c} : Phase'[d] = Phase[d] /\ Value'[d] = Value[d]
        BY <1>d, <1>u, <1>4 DEF Await, Interrupt, CallerMoves
    <2>2. Phase[c] = "issued" /\ Value'[c] = Value[c]
        BY <1>d, <1>v, <1>4 DEF Await, Interrupt, View, CallerMoves
    <2>3. CASE Await(c)
        <3>1. Phase'[c] = "returned" /\ Value[c] # Open
            BY <1>d, <1>v, <1>s, <2>3 DEF Await, View, CallerMoves
        <3>2. Phase' = [Phase EXCEPT ![c] = "returned"] /\ Value' = Value
            BY <1>0, <2>1, <2>2, <3>1, ViewOfOneChanged
        <3> QED
            BY <2>2, <2>3, <3>1, <3>2 DEF Await, sessionVars, releaseVars, Contract!Next,
                Contract!Return, CallerMoves
    <2>4. CASE Interrupt(c)
        <3>1. Phase'[c] = "abandoned"
            BY <1>d, <1>v, <2>4 DEF Interrupt, View, CallerMoves
        <3>2. Phase' = [Phase EXCEPT ![c] = "abandoned"] /\ Value' = Value
            BY <1>0, <2>1, <2>2, <3>1, ViewOfOneChanged
        <3> QED
            BY <2>2, <2>4, <3>2 DEF Interrupt, sessionVars, releaseVars, Contract!Next,
                Contract!Abandon, CallerMoves
    <2> QED
        BY <1>4, <2>3, <2>4
<1>5. ASSUME NEW S \in SUBSET Commands, NEW e \in Errors,
             UNCHANGED <<pc, active>>,
             \A c \in S : deferred[c] = Open,
             \A c \in Commands : deferred'[c] = IF c \in S THEN e ELSE deferred[c]
      PROVE  Contract!Next
    <2>1. e # Absent
        BY DEF Errors, PumpErrors, Absent, WriteError, Closed
    <2>2. \A c \in S : pc[c] # "refused"
        BY <1>5, <1>s, <1>v DEF View, IInv, DeferredFollowsCaller, Absent, Open
    <2>3. \A c \in Commands :
              Phase'[c] = Phase[c] /\ Value'[c] = IF c \in S THEN e ELSE Value[c]
        BY <1>5, <1>v, <2>1, <2>2 DEF View
    <2>4. /\ Phase' = Phase
          /\ Value' = [c \in Commands |-> IF c \in S THEN e ELSE Value[c]]
        BY <1>0, <2>3, ViewOfManyChanged
    <2> QED
        BY <1>5, <1>s, <2>4 DEF Contract!Next, Contract!Fail
<1>6. ASSUME NEW q \in wire, ReceiveError(q) PROVE Contract!Next
    <2> DEFINE c == pending[q.id]
               S == {d \in {c} : deferred[d] = Open}
    <2>1. c \in Commands
        BY <1>0, <1>6 DEF ReceiveError, TypeOK
    <2>2. "DebugCommandError" \in Errors
        BY DEF Errors
    <2>3. \A d \in Commands :
              deferred'[d] = IF d \in S THEN "DebugCommandError" ELSE deferred[d]
        BY <1>d, <1>6 DEF ReceiveError, Complete
    <2> QED
        BY <1>5, <1>6, <2>1, <2>2, <2>3 DEF ReceiveError, sessionVars, releaseVars
<1>7. CASE PumpFailsPending \/ \E r \in Releases : ReleaseFailsPending(r)
    <2>1. PICK e \in Errors, T \in SUBSET Commands : FailEach(T, e)
        <3>1. pump = "dying" => pumpError \in Errors
            BY <1>0 DEF TypeOK, Errors
        <3>2. Closed \in Errors /\ \A r \in Releases : taken[r] \in SUBSET Commands
            BY <1>0 DEF Errors, TypeOK
        <3>3. {c \in Commands : InPending(c)} \in SUBSET Commands
            OBVIOUS
        <3> QED
            BY <1>7, <3>1, <3>2, <3>3 DEF PumpFailsPending, ReleaseFailsPending
    <2> DEFINE S == {c \in T : deferred[c] = Open}
    <2>2. \A c \in Commands : deferred'[c] = IF c \in S THEN e ELSE deferred[c]
        BY <2>1 DEF FailEach
    <2>3. UNCHANGED <<pc, active>>
        BY <1>7 DEF PumpFailsPending, ReleaseFailsPending
    <2> QED
        BY <1>5, <2>2, <2>3
<1>8. ASSUME NEW c \in Commands, Decoded(c)
      PROVE  Contract!Next \/ UNCHANGED Contract!vars
    <2>1. decoding[c] = c /\ c # Absent
        BY <1>8 DEF Decoded, IInv, FiledUnderOwnId
    <2>2. /\ UNCHANGED <<pc, active>>
          /\ deferred' = [deferred EXCEPT ![c] = IF @ = Open THEN c ELSE @]
        BY <1>8, <2>1 DEF Decoded, Complete, sessionVars, releaseVars
    <2>3. \A d \in Commands \ {c} : Phase'[d] = Phase[d] /\ Value'[d] = Value[d]
        BY <1>d, <1>u, <2>2
    <2>4. CASE deferred[c] = Open
        <3>1. pc[c] # "refused"
            BY <2>4 DEF IInv, DeferredFollowsCaller, Absent, Open
        <3>2. Phase'[c] = Phase[c] /\ Value'[c] = c
            BY <1>d, <1>v, <2>1, <2>2, <2>4, <3>1 DEF View
        <3>3. Phase' = Phase /\ Value' = [Value EXCEPT ![c] = c]
            BY <1>0, <2>3, <3>2, ViewOfOneChanged
        <3> QED
            BY <1>s, <2>2, <2>4, <3>3 DEF Contract!Next, Contract!Answer
    <2>5. CASE deferred[c] # Open
        <3>1. \A d \in Commands : Phase'[d] = Phase[d] /\ Value'[d] = Value[d]
            BY <1>d, <1>u, <2>2, <2>5
        <3> QED
            BY <1>0, <2>2, <3>1, ViewUnchanged DEF Contract!vars
    <2> QED
        BY <2>4, <2>5
<1>9. ASSUME UNCHANGED <<pc, deferred>>, active' \in {active, FALSE}
      PROVE  Contract!Next \/ UNCHANGED Contract!vars
    <2>1. Phase' = Phase /\ Value' = Value
        BY <1>0, <1>9, <1>u, ViewUnchanged
    <2> QED
        BY <1>9, <2>1 DEF Contract!Next, Contract!Close, Contract!vars
<1>10. CASE \/ \E q \in wire : ReceiveStale(q) \/ ReceiveResult(q)
            \/ \E c \in Commands : Undecodable(c)
            \/ ReceiveInvalid \/ ReceiveEvent \/ SocketFails \/ PeerCloses
            \/ PumpEndsStreams
            \/ \E r \in Releases : \/ Disconnect(r) \/ FindSession(r) \/ CheckClosed(r)
                                   \/ MarkClosed(r) \/ ReleaseTakesPending(r)
                                   \/ ReleaseTakesStreams(r) \/ ReleaseEndsStreams(r)
                                   \/ CloseScope(r) \/ InterruptDisconnect(r)
            \/ \E l \in Listeners : Subscribe(l) \/ AddSubscriber(l) \/ Unsubscribe(l)
            \/ UNCHANGED vars
    <2>1. UNCHANGED <<pc, deferred>> /\ active' \in {active, FALSE}
        BY <1>10 DEF ReceiveStale, ReceiveResult, Undecodable, ReceiveInvalid,
            ReceiveEvent,
            SocketFails, PeerCloses, PumpDies, PumpEndsStreams, Disconnect, FindSession,
            CheckClosed, MarkClosed, ReleaseTakesPending, ReleaseTakesStreams,
            ReleaseEndsStreams, CloseScope, InterruptDisconnect, Step, Subscribe,
            AddSubscriber, Unsubscribe, vars, callVars, sessionVars, releaseVars
    <2> QED
        BY <1>9, <2>1
<1> QED
    BY <1>1, <1>2, <1>3, <1>4, <1>6, <1>7, <1>8, <1>10
       DEF Next, Send, Handle, Pump, Release

(* The session implements the promise of RequestReply. *)
THEOREM SessionImplementsContract == Spec => ImplementsContract
<1>1. Init => Contract!Init
    <2> SUFFICES ASSUME Init PROVE Contract!Init
        OBVIOUS
    <2>1. Phase = [c \in Commands |-> "new"]
        BY DEF Init, Phase, PhaseOf
    <2>2. Value = [c \in Commands |-> Open]
        BY DEF Init, Value
    <2> QED
        BY <2>1, <2>2 DEF Init, Contract!Init
<1> QED
    BY <1>1, SpecIInv, StepRefines, PTL DEF Spec, ImplementsContract, Contract!Spec
-------------------------------------------------------------------------------
(* The listeners *)

(* The queues in Ref subscribers are those of the open streams, but for a  *)
(* release under way, and each holds what the pump has read since it was   *)
(* put there.                                                              *)
ReleasingIsInactive ==
    \A r \in Releases :
        rel[r] \in {"marked", "taken", "drained", "detached", "quiet"} => ~active

QueuesAreFiled ==
    \A l \in Listeners :
        /\ l \in subs => stream[l] = "open"
        /\ stream[l] = "open" /\ active /\ pump = "running" => l \in subs
        /\ stream[l] \in {"none", "acquiring"} => delivered[l] = <<>>
        /\ \A r \in Releases :
               l \in detached[r] => l \notin subs /\ stream[l] \in {"open", "ended"}

QueuesAreFilled ==
    \A l \in Listeners :
        /\ \A i \in DOMAIN delivered[l] : delivered[l][i] = since[l] + i
        /\ l \in subs /\ pump = "running" => since[l] + Len(delivered[l]) = emitted

EInv ==
    /\ TypeOK
    /\ ReleasingIsInactive
    /\ QueuesAreFiled
    /\ QueuesAreFilled

(* What a step of a release does to the streams. *)
LEMMA ReleaseEInv ==
    ASSUME EInv, TypeOK', NEW r \in Releases, Release(r) \/ InterruptDisconnect(r)
    PROVE  EInv'
<1>a. /\ rel \in [Releases -> {"idle", "refused", "entered", "found", "unclosed",
                               "marked", "taken", "drained", "detached", "quiet",
                               "released", "done", "interrupted"}]
      /\ stream \in [Listeners -> {"none", "acquiring", "open", "ended", "refused"}]
      /\ detached \in [Releases -> SUBSET Listeners]
      /\ active \in BOOLEAN
    BY DEF EInv, TypeOK
<1>b. ReleasingIsInactive /\ QueuesAreFiled /\ QueuesAreFilled
    BY DEF EInv
<1>1. CASE \/ Disconnect(r) \/ FindSession(r) \/ CheckClosed(r) \/ MarkClosed(r)
           \/ ReleaseTakesPending(r) \/ ReleaseFailsPending(r) \/ CloseScope(r)
           \/ InterruptDisconnect(r)
    <2>1. /\ UNCHANGED <<detached, eventVars>>
          /\ active' => active
          /\ pump' = "running" => pump = "running"
        BY <1>1 DEF Disconnect, FindSession, CheckClosed, MarkClosed, ReleaseTakesPending,
            ReleaseFailsPending, CloseScope, InterruptDisconnect, Step, eventVars
    <2>2. ReleasingIsInactive'
        <3>1. CASE Disconnect(r) \/ FindSession(r) \/ CheckClosed(r)
            BY <1>a, <1>b, <3>1 DEF Disconnect, FindSession, CheckClosed, Step, At,
                ReleasingIsInactive
        <3>2. CASE MarkClosed(r)
            BY <3>2 DEF MarkClosed, ReleasingIsInactive
        <3>3. CASE \/ ReleaseTakesPending(r) \/ ReleaseFailsPending(r) \/ CloseScope(r)
                   \/ InterruptDisconnect(r)
            BY <1>a, <1>b, <3>3 DEF ReleaseTakesPending, ReleaseFailsPending, CloseScope,
                InterruptDisconnect, Step, At, ReleasingIsInactive
        <3> QED
            BY <1>1, <3>1, <3>2, <3>3
    <2>3. QueuesAreFiled' /\ QueuesAreFilled'
        BY <1>b, <2>1 DEF eventVars, QueuesAreFiled, QueuesAreFilled
    <2> QED
        BY <2>2, <2>3 DEF EInv
<1>2. CASE ReleaseTakesStreams(r)
    <2>1. /\ subs' = {} /\ detached' = [detached EXCEPT ![r] = subs] /\ ~active
          /\ UNCHANGED <<active, pump, stream, since, delivered, emitted>>
        BY <1>b, <1>2 DEF ReleaseTakesStreams, At, ReleasingIsInactive
    <2>2. ReleasingIsInactive'
        BY <2>1 DEF ReleasingIsInactive
    <2>3. QueuesAreFiled' /\ QueuesAreFilled'
        BY <1>a, <1>b, <2>1 DEF QueuesAreFiled, QueuesAreFilled
    <2> QED
        BY <2>2, <2>3 DEF EInv
<1>3. CASE ReleaseEndsStreams(r)
    <2>1. /\ \A l \in Listeners :
                 stream'[l] = IF l \in detached[r] THEN "ended" ELSE stream[l]
          /\ detached' = [detached EXCEPT ![r] = {}] /\ ~active
          /\ UNCHANGED <<active, pump, subs, since, delivered, emitted>>
        BY <1>b, <1>3 DEF ReleaseEndsStreams, EndEach, At, ReleasingIsInactive
    <2>2. ReleasingIsInactive'
        BY <2>1 DEF ReleasingIsInactive
    <2>3. QueuesAreFiled' /\ QueuesAreFilled'
        BY <1>a, <1>b, <2>1 DEF QueuesAreFiled, QueuesAreFilled
    <2> QED
        BY <2>2, <2>3 DEF EInv
<1> QED
    BY <1>1, <1>2, <1>3 DEF Release

LEMMA NextEInv == EInv /\ [Next]_vars => EInv'
<1> SUFFICES ASSUME EInv, [Next]_vars PROVE EInv'
    OBVIOUS
<1>0. TypeOK'
    BY NextTypeOK DEF EInv
<1>a. /\ stream \in [Listeners -> {"none", "acquiring", "open", "ended", "refused"}]
      /\ since \in [Listeners -> 0..MaxEvents]
      /\ delivered \in [Listeners -> Seq(1..MaxEvents)]
      /\ emitted \in Nat
    BY DEF EInv, TypeOK
<1>b. ReleasingIsInactive /\ QueuesAreFiled /\ QueuesAreFilled
    BY DEF EInv
<1>1. ASSUME NEW r \in Releases, Release(r) \/ InterruptDisconnect(r) PROVE EInv'
    BY <1>0, <1>1, ReleaseEInv
<1>2. CASE ReceiveEvent
    <2>1. /\ pump = "running" /\ emitted' = emitted + 1
          /\ \A l \in Listeners : delivered'[l] =
                IF l \in subs THEN Append(delivered[l], emitted + 1) ELSE delivered[l]
          /\ UNCHANGED <<active, rel, detached, pump, subs, stream, since>>
        BY <1>2 DEF ReceiveEvent, sessionVars, releaseVars
    <2>2. ReleasingIsInactive' /\ QueuesAreFiled'
        BY <1>b, <2>1 DEF ReleasingIsInactive, QueuesAreFiled
    <2>3. ASSUME NEW l \in Listeners
          PROVE  /\ \A i \in DOMAIN delivered'[l] : delivered'[l][i] = since[l] + i
                 /\ l \in subs => since[l] + Len(delivered'[l]) = emitted + 1
        <3>1. CASE l \in subs
            <4>1. /\ since[l] + Len(delivered[l]) = emitted
                  /\ delivered'[l] = Append(delivered[l], emitted + 1)
                  /\ delivered[l] \in Seq(1..MaxEvents)
                BY <1>a, <1>b, <2>1, <3>1 DEF QueuesAreFilled
            <4>2. /\ Len(delivered'[l]) = Len(delivered[l]) + 1
                  /\ DOMAIN delivered'[l] = 1..(Len(delivered[l]) + 1)
                  /\ delivered'[l][Len(delivered[l]) + 1] = emitted + 1
                  /\ \A i \in 1..Len(delivered[l]) : delivered'[l][i] = delivered[l][i]
                BY <4>1
            <4> QED
                BY <1>a, <1>b, <4>1, <4>2 DEF QueuesAreFilled
        <3>2. CASE l \notin subs
            BY <1>b, <2>1, <3>2 DEF QueuesAreFilled
        <3> QED
            BY <3>1, <3>2
    <2>4. QueuesAreFilled'
        BY <2>1, <2>3 DEF QueuesAreFilled
    <2> QED
        BY <1>0, <2>2, <2>4 DEF EInv
<1>3. CASE PumpEndsStreams
    <2>1. /\ subs' = {} /\ pump' # "running"
          /\ \A l \in Listeners : stream'[l] = IF l \in subs THEN "ended" ELSE stream[l]
          /\ UNCHANGED <<active, rel, detached, since, delivered, emitted>>
        BY <1>3 DEF PumpEndsStreams, EndEach, releaseVars
    <2>2. ReleasingIsInactive' /\ QueuesAreFiled' /\ QueuesAreFilled'
        BY <1>a, <1>b, <2>1 DEF ReleasingIsInactive, QueuesAreFiled, QueuesAreFilled
    <2> QED
        BY <1>0, <2>2 DEF EInv
<1>4. ASSUME NEW l \in Listeners, Subscribe(l) \/ Unsubscribe(l) PROVE EInv'
    <2>1. UNCHANGED <<active, rel, detached, pump, since, delivered, emitted>>
        BY <1>4 DEF Subscribe, Unsubscribe, sessionVars, releaseVars
    <2>2. ReleasingIsInactive' /\ QueuesAreFilled'
        BY <1>b, <1>4, <2>1 DEF ReleasingIsInactive, QueuesAreFilled, Subscribe,
            Unsubscribe
    <2>3. QueuesAreFiled'
        BY <1>a, <1>b, <1>4, <2>1 DEF QueuesAreFiled, Subscribe, Unsubscribe
    <2> QED
        BY <1>0, <2>2, <2>3 DEF EInv
<1>5. ASSUME NEW l \in Listeners, AddSubscriber(l) PROVE EInv'
    <2>1. /\ stream[l] = "acquiring" /\ delivered[l] = <<>>
          /\ stream' = [stream EXCEPT ![l] = "open"]
          /\ subs' = subs \cup {l}
          /\ since' = [since EXCEPT ![l] = emitted]
          /\ UNCHANGED <<active, rel, detached, pump, delivered, emitted>>
        BY <1>b, <1>5 DEF AddSubscriber, QueuesAreFiled, sessionVars, releaseVars
    <2>2. ReleasingIsInactive'
        BY <1>b, <2>1 DEF ReleasingIsInactive
    <2>3. QueuesAreFiled'
        BY <1>a, <1>b, <2>1 DEF QueuesAreFiled
    <2>4. Len(delivered[l]) = 0 /\ DOMAIN delivered[l] = {}
        BY <2>1
    <2>5. QueuesAreFilled'
        <3>1. ASSUME NEW k \in Listeners, k # l
              PROVE  since'[k] = since[k] /\ (k \in subs' <=> k \in subs)
            BY <1>a, <2>1, <3>1
        <3>2. since'[l] = emitted /\ emitted + 0 = emitted
            BY <1>a, <2>1
        <3> QED
            BY <1>b, <2>1, <2>4, <3>1, <3>2 DEF QueuesAreFilled
    <2> QED
        BY <1>0, <2>2, <2>3, <2>5 DEF EInv
<1>6. ASSUME UNCHANGED <<active, rel, detached, eventVars>>,
             pump' = "running" => pump = "running"
      PROVE  EInv'
    BY <1>0, <1>b, <1>6 DEF EInv, eventVars, ReleasingIsInactive, QueuesAreFiled,
        QueuesAreFilled
<1>7. CASE \/ \E c \in Commands : Send(c) \/ Interrupt(c)
           \/ \E q \in wire : ReceiveStale(q) \/ ReceiveError(q) \/ ReceiveResult(q)
           \/ \E c \in Commands : Decoded(c) \/ Undecodable(c)
           \/ ReceiveInvalid \/ SocketFails \/ PeerCloses \/ PumpFailsPending
           \/ UNCHANGED vars
    <2>1. UNCHANGED <<active, rel, detached, eventVars>>
          /\ (pump' = "running" => pump = "running")
        BY <1>7 DEF Send, GetState, AllocateId, Register, Write, WriteFails, Await,
            Interrupt, ReceiveStale, ReceiveError, ReceiveResult, Decoded, Undecodable,
            ReceiveInvalid, SocketFails, PeerCloses, PumpDies, PumpFailsPending, vars,
            sessionVars, releaseVars, CallerMoves
    <2> QED
        BY <1>6, <2>1
<1> QED
    BY <1>1, <1>2, <1>3, <1>4, <1>5, <1>7 DEF Next, Handle, Pump

(* An open stream misses no event and repeats none. *)
THEOREM EventsAreGapFree == Spec => []EventsGapFree
<1>1. Init => EInv
    BY InitTypeOK DEF Init, EInv, ReleasingIsInactive, QueuesAreFiled, QueuesAreFilled
<1>2. EInv => EventsGapFree
    BY DEF EInv, QueuesAreFiled, QueuesAreFilled, EventsGapFree
<1> QED
    BY <1>1, <1>2, NextEInv, PTL DEF Spec

-------------------------------------------------------------------------------
(* After the release *)

(* Closing the scope stops the pump and its handlers for good. *)
ReleasedIsStopped ==
    (\E r \in Releases : rel[r] = "released") =>
        /\ pump # "running"
        /\ \A c \in Commands : decoding[c] = NoCommand

LEMMA NextReleasedIsStopped ==
    TypeOK /\ ReleasedIsStopped /\ [Next]_vars => ReleasedIsStopped'
<1> SUFFICES ASSUME TypeOK, ReleasedIsStopped, [Next]_vars PROVE ReleasedIsStopped'
    OBVIOUS
<1>a. /\ DOMAIN rel = Releases
      /\ pump \in {"running", "dying", "drained", "failed", "finished", "interrupted"}
      /\ decoding \in [Commands -> Commands \cup {NoCommand}]
    BY DEF TypeOK
<1>1. ASSUME NEW r \in Releases, CloseScope(r) PROVE ReleasedIsStopped'
    BY <1>a, <1>1 DEF CloseScope, StopHandlers, ReleasedIsStopped
<1>2. ASSUME NEW r \in Releases, NEW from, NEW to, At(r, from, to), to # "released",
             pump' = pump, decoding' = decoding
      PROVE  ReleasedIsStopped'
    BY <1>a, <1>2 DEF At, ReleasedIsStopped
<1>3. ASSUME NEW r \in Releases,
             \/ Disconnect(r) \/ FindSession(r) \/ CheckClosed(r) \/ MarkClosed(r)
             \/ ReleaseTakesPending(r) \/ ReleaseFailsPending(r)
             \/ ReleaseTakesStreams(r) \/ ReleaseEndsStreams(r) \/ InterruptDisconnect(r)
      PROVE  ReleasedIsStopped'
    BY <1>2, <1>3 DEF Disconnect, FindSession, CheckClosed, MarkClosed,
        ReleaseTakesPending,
        ReleaseFailsPending, ReleaseTakesStreams, ReleaseEndsStreams, InterruptDisconnect,
        Step, callVars
<1>4. ASSUME UNCHANGED rel, pump' = "running" => pump = "running",
             pump # "running" => \A c \in Commands : decoding'[c] \in {decoding[c], NoCommand}
      PROVE  ReleasedIsStopped'
    BY <1>4 DEF ReleasedIsStopped
<1>5. ASSUME NEW c \in Commands, Decoded(c) PROVE ReleasedIsStopped'
    BY <1>a, <1>4, <1>5 DEF Decoded, sessionVars, releaseVars
<1>6. ASSUME NEW q \in wire, ReceiveError(q) \/ ReceiveResult(q) PROVE ReleasedIsStopped'
    BY <1>4, <1>6 DEF ReceiveError, ReceiveResult, Response, sessionVars, releaseVars
<1>7. CASE \/ \E c \in Commands : Undecodable(c)
           \/ ReceiveInvalid \/ SocketFails \/ PeerCloses
    BY <1>4, <1>7 DEF Undecodable, ReceiveInvalid, SocketFails, PeerCloses, PumpDies,
        StopHandlers, releaseVars
<1>8. CASE \/ \E c \in Commands : Send(c) \/ Interrupt(c)
           \/ \E q \in wire : ReceiveStale(q)
           \/ ReceiveEvent \/ PumpFailsPending \/ PumpEndsStreams
           \/ \E l \in Listeners : Subscribe(l) \/ AddSubscriber(l) \/ Unsubscribe(l)
           \/ UNCHANGED vars
    BY <1>4, <1>8 DEF Send, GetState, AllocateId, Register, Write, WriteFails, Await,
        Interrupt, ReceiveStale, ReceiveEvent, PumpFailsPending, PumpEndsStreams,
        Subscribe, AddSubscriber, Unsubscribe, vars, callVars, sessionVars, releaseVars,
        CallerMoves
<1> QED
    BY <1>1, <1>3, <1>5, <1>6, <1>7, <1>8 DEF Next, Handle, Pump, Release

(* A step taken when a release has closed the scope. *)
Quiet ==
    (\E r \in Releases : rel[r] = "released") =>
        /\ delivered' = delivered
        /\ \A c \in Commands : deferred'[c] \in Commands => deferred'[c] = deferred[c]

LEMMA StoppedIsQuiet == TypeOK /\ ReleasedIsStopped /\ [Next]_vars => Quiet
<1> SUFFICES ASSUME TypeOK, [Next]_vars, pump # "running",
                    \A c \in Commands : decoding[c] = NoCommand
             PROVE  /\ delivered' = delivered
                    /\ \A c \in Commands :
                           deferred'[c] \in Commands => deferred'[c] = deferred[c]
    BY DEF ReleasedIsStopped, Quiet
<1>a. /\ DOMAIN deferred = Commands
      /\ Open \notin Commands /\ WriteError \notin Commands /\ Closed \notin Commands
      /\ pump = "dying" => pumpError \notin Commands
    BY DEF TypeOK, Errors, PumpErrors
<1>1. ASSUME NEW S, NEW e, FailEach(S, e), e \notin Commands
      PROVE  \A c \in Commands : deferred'[c] \in Commands => deferred'[c] = deferred[c]
    BY <1>1 DEF FailEach
<1>2. CASE PumpFailsPending
    BY <1>a, <1>1, <1>2 DEF PumpFailsPending, eventVars
<1>3. ASSUME NEW r \in Releases, ReleaseFailsPending(r)
      PROVE  /\ delivered' = delivered
             /\ \A c \in Commands :
                    deferred'[c] \in Commands => deferred'[c] = deferred[c]
    BY <1>a, <1>1, <1>3 DEF ReleaseFailsPending, eventVars
<1>4. ASSUME NEW c \in Commands, Register(c) \/ WriteFails(c)
      PROVE  /\ delivered' = delivered
             /\ \A d \in Commands :
                    deferred'[d] \in Commands => deferred'[d] = deferred[d]
    BY <1>a, <1>4 DEF Register, WriteFails, Complete, eventVars, CallerMoves
<1>5. CASE \/ \E c \in Commands : \/ GetState(c) \/ AllocateId(c) \/ Write(c) \/ Await(c)
                                  \/ Interrupt(c)
           \/ \E q \in wire : ReceiveStale(q)
           \/ PumpEndsStreams
           \/ \E r \in Releases :
                 \/ Disconnect(r) \/ FindSession(r) \/ CheckClosed(r) \/ MarkClosed(r)
                 \/ ReleaseTakesPending(r) \/ ReleaseTakesStreams(r)
                 \/ ReleaseEndsStreams(r) \/ CloseScope(r) \/ InterruptDisconnect(r)
           \/ \E l \in Listeners : Subscribe(l) \/ AddSubscriber(l) \/ Unsubscribe(l)
           \/ UNCHANGED vars
    BY <1>5 DEF GetState, AllocateId, Write, Await, Interrupt, ReceiveStale,
        PumpEndsStreams, Disconnect, FindSession, CheckClosed, MarkClosed,
        ReleaseTakesPending, ReleaseTakesStreams, ReleaseEndsStreams, CloseScope,
        InterruptDisconnect, Step, Subscribe, AddSubscriber, Unsubscribe, vars, callVars,
        eventVars, CallerMoves
<1>6. ~ \/ \E q \in wire : ReceiveError(q) \/ ReceiveResult(q)
        \/ \E c \in Commands : Decoded(c) \/ Undecodable(c)
        \/ ReceiveInvalid \/ ReceiveEvent \/ SocketFails \/ PeerCloses
    BY DEF ReceiveError, ReceiveResult, Response, Decoded, Undecodable, ReceiveInvalid,
        ReceiveEvent, SocketFails, PeerCloses
<1> QED
    BY <1>2, <1>3, <1>4, <1>5, <1>6 DEF Next, Send, Handle, Pump, Release

(* Nothing reaches a caller or a listener of a released session. *)
THEOREM ReleasedStaysQuiet == Spec => ReleasedIsQuiet
<1>1. Init => ReleasedIsStopped
    BY DEF Init, ReleasedIsStopped
<1>2. TypeOK /\ ReleasedIsStopped /\ [Next]_vars => ReleasedIsStopped' /\ [Quiet]_vars
    BY NextReleasedIsStopped, StoppedIsQuiet
<1> QED
    BY <1>1, <1>2, TypeCorrect, PTL DEF Spec, ReleasedIsQuiet, Quiet
===============================================================================
