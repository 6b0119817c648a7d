---------------------------- MODULE StoreProofs -----------------------------
(***************************************************************************)
(* Proofs about what is stored and comes back: FetchCache, for any callers *)
(* and any number of answers, and CrSqlSync, for any sites, cells, loops and *)
(* bounds.                                                                 *)
(***************************************************************************)
EXTENDS FetchCache, CrSqlSync, TLAPS

-----------------------------------------------------------------------------
(* FetchCache *)

\* A body that a lookup will replay is there, and it is replayed for ever.
Settled == \E k \in Kinds : Usable(k)

\* Where a call can be once an entry is settled: it will not ask or store again.
Quiet == {"idle", "lookup", "load", "offer", "offerBody"}

Alone == \A c, d \in Callers : pc[c] # "idle" /\ pc[d] # "idle" => c = d

\* A usable body, of which there is one, is of the response the metadata are of.
UsableHasItsMeta ==
    \A k \in Kinds :
        Usable(k) => meta # None /\ body[k].of = meta.of /\ meta.of.kind = k

CallOK(c) ==
    /\ Settled => pc[c] \in Quiet
    /\ Settled /\ pc[c] = "load" => local[c] = meta.of
    /\ pc[c] = "storeBody" => meta # None /\ meta.of = local[c]
    /\ pc[c] \in {"offer", "offerBody"} /\ Full(local[c]) => Settled

FullIsSettled ==
    /\ \A p \in DevPaths \ {"meta"} : devfs[p] # None /\ Full(devfs[p]) => Settled
    /\ \A r \in recorded : Full(r) => Settled
    /\ \A p \in replays :
         Full(p.body) => Settled /\ p.meta = meta.of /\ p.body = meta.of

CleanInv ==
    /\ Alone
    /\ UsableHasItsMeta
    /\ \A c \in Callers : CallOK(c)
    /\ FullIsSettled
    /\ \A r \in missed : ~ Full(r)

KnownWasRecorded == \A c \in Callers : known[c] \subseteq recorded

IInv == TypeOK /\ KnownWasRecorded /\ (clean => CleanInv)

-----------------------------------------------------------------------------
(* Types. *)

LEMMA ResponseFields ==
    ASSUME NEW r \in Responses
    PROVE  r.kind \in Kinds /\ r.size \in Sizes /\ r # None
BY NoneAssumption DEF Responses

LEMMA FileFields ==
    ASSUME NEW f \in Files
    PROVE  f.of \in Responses /\ f.whole \in BOOLEAN /\ f # None
BY NoneAssumption DEF Files

LEMMA InitIInv == Init => IInv
<1> SUFFICES ASSUME Init PROVE IInv
  OBVIOUS
<1>1. TypeOK
  BY Instance DEF Init, TypeOK
<1>2. ~ Settled
  BY DEF Init, Settled, Usable
<1>3. KnownWasRecorded
  BY DEF Init, KnownWasRecorded
<1>4. CleanInv
  BY <1>2 DEF Init, CleanInv, Alone, UsableHasItsMeta, CallOK, FullIsSettled, Settled
<1> QED BY <1>1, <1>3, <1>4 DEF IInv

-----------------------------------------------------------------------------
(* What is settled stays so while nothing is stored. *)

LEMMA SettledAgain ==
    ASSUME UNCHANGED <<meta, body>>
    PROVE  /\ Settled' <=> Settled
           /\ \A k \in Kinds : Usable(k)' <=> Usable(k)
           /\ UsableHasItsMeta' <=> UsableHasItsMeta
BY DEF Settled, Usable, UsableHasItsMeta

-----------------------------------------------------------------------------
(* Where a call goes and what it holds. *)

Places == {"idle", "lookup", "devMeta", "load", "devBody", "ask",
           "storeMeta", "storeBody", "offer", "offerBody"}

Empty == {"idle", "lookup", "devMeta", "ask"}

LEMMA GoesFrom ==
    ASSUME TypeOK, NEW c \in Callers, NEW from, NEW to \in Places, Goes(c, from, to)
    PROVE  /\ pc[c] = from /\ pc'[c] = to
           /\ \A d \in Callers \ {c} : pc'[d] = pc[d]
           /\ pc' \in [Callers -> Places]
BY DEF TypeOK, Goes, Places

LEMMA KeepsResponse ==
    ASSUME TypeOK, NEW c \in Callers, NEW r \in Responses \cup {None}, Keeps(c, r)
    PROVE  /\ local'[c] = r
           /\ \A d \in Callers \ {c} : local'[d] = local[d]
           /\ local' \in [Callers -> Responses \cup {None}]
BY DEF TypeOK, Keeps

\* All there is to show of where the calls are and of what they hold.
Moved ==
    /\ pc' \in [Callers -> Places]
    /\ local' \in [Callers -> Responses \cup {None}]
    /\ \A d \in Callers : pc'[d] \notin Empty => local'[d] # None

LEMMA MovesType ==
    ASSUME TypeOK, NEW c \in Callers, NEW from, NEW to \in Places, Goes(c, from, to),
           NEW r \in Responses \cup {None}, Keeps(c, r), to \notin Empty => r # None
    PROVE  Moved
<1>1. /\ pc'[c] = to /\ pc' \in [Callers -> Places]
      /\ \A d \in Callers \ {c} : pc'[d] = pc[d]
  BY GoesFrom
<1>2. /\ local'[c] = r /\ local' \in [Callers -> Responses \cup {None}]
      /\ \A d \in Callers \ {c} : local'[d] = local[d]
  BY KeepsResponse
<1> QED BY <1>1, <1>2 DEF TypeOK, Empty, Moved

LEMMA StaysType ==
    ASSUME TypeOK, NEW c \in Callers, NEW from, NEW to \in Places, Goes(c, from, to),
           UNCHANGED local, to \notin Empty => local[c] # None
    PROVE  Moved
<1>1. /\ pc'[c] = to /\ pc' \in [Callers -> Places]
      /\ \A d \in Callers \ {c} : pc'[d] = pc[d]
  BY GoesFrom
<1> QED BY <1>1 DEF TypeOK, Empty, Moved

LEMMA EndsType ==
    ASSUME TypeOK, NEW c \in Callers, NEW from, Ends(c, from)
    PROVE  Moved
BY MovesType DEF Ends, Places, Empty

LEMMA HeldType ==
    ASSUME TypeOK, NEW c \in Callers, pc[c] \notin Empty
    PROVE  /\ local[c] \in Responses
           /\ local[c].kind \in Kinds /\ local[c].size \in Sizes
BY ResponseFields DEF TypeOK, Empty

-----------------------------------------------------------------------------
(* Every step keeps the types. *)

Told ==
    /\ replays' \subseteq [meta : Responses, body : Responses]
    /\ missed' \subseteq recorded

LEMMA MissesType ==
    ASSUME TypeOK, KnownWasRecorded, NEW c \in Callers, NEW from, Misses(c, from)
    PROVE  Moved /\ Told
<1> DEFINE to == IF readOnly[c] THEN "idle" ELSE "ask"
<1>1. to \in Places /\ to \in Empty
  BY DEF Places, Empty
<1>2. Moved
  BY <1>1, MovesType DEF Misses
<1>3. Told
  BY DEF Told, Misses, TypeOK, KnownWasRecorded
<1> QED BY <1>2, <1>3

LEMMA HitsType ==
    ASSUME TypeOK, NEW c \in Callers, NEW from, NEW m \in Responses, NEW b \in Responses,
           Hits(c, from, m, b)
    PROVE  Moved /\ Told
BY EndsType DEF Hits, Told, TypeOK

LEMMA LookupType ==
    ASSUME TypeOK, NEW c \in Callers, Lookup(c)
    PROVE  Moved /\ Told
<1>1. Told
  BY DEF Lookup, Told, TypeOK
<1>2. CASE meta = None
  <2>1. Goes(c, "lookup", "devMeta") /\ UNCHANGED local
    BY <1>2 DEF Lookup
  <2> QED BY <1>1, <2>1, StaysType DEF Places, Empty
<1>3. CASE meta # None /\ meta.whole
  <2>1. meta.of \in Responses /\ meta.of # None
    BY <1>3, FileFields, ResponseFields DEF TypeOK
  <2> QED BY <1>1, <1>3, <2>1, MovesType DEF Lookup, Places
<1>4. CASE meta # None /\ ~ meta.whole
  BY <1>1, <1>4, EndsType DEF Lookup
<1> QED BY <1>1, <1>2, <1>3, <1>4

LEMMA DevMetaType ==
    ASSUME TypeOK, KnownWasRecorded, NEW c \in Callers, DevMeta(c)
    PROVE  Moved /\ Told
<1>1. PICK m \in DevReads("meta") :
          IF m = None THEN Misses(c, "devMeta")
          ELSE Goes(c, "devMeta", "load") /\ Keeps(c, m) /\ UNCHANGED <<replays, missed>>
  BY DEF DevMeta
<1>2. CASE m = None
  BY <1>1, <1>2, MissesType
<1>3. CASE m # None
  <2>1. m \in Responses
    BY <1>3 DEF DevReads, TypeOK, DevPaths
  <2>2. Moved
    BY <1>1, <1>3, <2>1, MovesType DEF Places
  <2> QED BY <1>1, <1>3, <2>2 DEF Told, TypeOK
<1> QED BY <1>2, <1>3

\* What a lookup replays, or how else it goes on.
LEMMA LoadCases ==
    ASSUME TypeOK, NEW c \in Callers, Load(c)
    PROVE  /\ pc[c] = "load" /\ local[c] \in Responses /\ local[c].kind \in Kinds
           /\ \/ /\ Usable(local[c].kind)
                 /\ body[local[c].kind].of \in Responses
                 /\ Hits(c, "load", local[c], body[local[c].kind].of)
              \/ Ends(c, "load") /\ UNCHANGED <<replays, missed>>
              \/ ~ Usable(local[c].kind) /\ Misses(c, "load")
              \/ /\ ~ Usable(local[c].kind)
                 /\ Goes(c, "load", "devBody") /\ UNCHANGED <<local, replays, missed>>
<1>1. pc[c] = "load"
  BY DEF Load
<1>2. local[c] \in Responses /\ local[c].kind \in Kinds
  BY <1>1, HeldType DEF Empty
<1>3. Usable(local[c].kind) => body[local[c].kind].of \in Responses
  BY <1>2, FileFields DEF Usable, TypeOK
<1> QED BY <1>1, <1>2, <1>3 DEF Load

LEMMA LoadType ==
    ASSUME TypeOK, KnownWasRecorded, NEW c \in Callers, Load(c)
    PROVE  Moved /\ Told
<1>1. pc[c] = "load" /\ local[c] \in Responses
  BY LoadCases
<1>2. CASE Hits(c, "load", local[c], body[local[c].kind].of) /\ body[local[c].kind].of \in Responses
  BY <1>1, <1>2, HitsType
<1>3. CASE Ends(c, "load") /\ UNCHANGED <<replays, missed>>
  BY <1>3, EndsType DEF Told, TypeOK
<1>4. CASE Misses(c, "load")
  BY <1>4, MissesType
<1>5. CASE Goes(c, "load", "devBody") /\ UNCHANGED <<local, replays, missed>>
  <2>1. Moved
    BY <1>1, <1>5, ResponseFields, StaysType DEF Places
  <2> QED BY <1>5, <2>1 DEF Told, TypeOK
<1> QED BY <1>2, <1>3, <1>4, <1>5, LoadCases

LEMMA DevBodyCases ==
    ASSUME TypeOK, NEW c \in Callers, DevBody(c)
    PROVE  /\ pc[c] = "devBody"
           /\ \/ Misses(c, "devBody")
              \/ \E m, b \in Responses, p \in DevPaths \ {"meta"} :
                   b = devfs[p] /\ Hits(c, "devBody", m, b)
<1>1. pc[c] = "devBody"
  BY DEF DevBody
<1>2. local[c] \in Responses
  BY <1>1, HeldType DEF Empty
<1> DEFINE p == IF local[c].kind = "sse" THEN "sse" ELSE "response"
<1>3. p \in DevPaths \ {"meta"}
  BY DEF DevPaths
<1>4. PICK b \in DevReads(p) :
          IF b = None THEN Misses(c, "devBody")
          ELSE Hits(c, "devBody", IF local[c].kind = "sse" THEN local[c] ELSE b, b)
  BY Zenon DEF DevBody
<1> HIDE DEF p
<1>5. b # None => b \in Responses /\ b = devfs[p]
  BY <1>3 DEF DevReads, TypeOK
<1> QED BY <1>1, <1>2, <1>3, <1>4, <1>5

LEMMA DevBodyType ==
    ASSUME TypeOK, KnownWasRecorded, NEW c \in Callers, DevBody(c)
    PROVE  Moved /\ Told
BY DevBodyCases, MissesType, HitsType

LEMMA ReadingType ==
    ASSUME TypeOK, KnownWasRecorded, NEW c \in Callers,
           Lookup(c) \/ DevMeta(c) \/ Load(c) \/ DevBody(c)
    PROVE  TypeOK' /\ KnownWasRecorded'
<1>1. Moved /\ Told
  BY LookupType, DevMetaType, LoadType, DevBodyType
<1>2. Reading
  BY DEF Lookup, DevMeta, Load, DevBody
<1>3. TypeOK'
  BY <1>1, <1>2 DEF Moved, Told, TypeOK, Reading, Places, Empty, stored
<1>4. KnownWasRecorded'
  BY <1>2 DEF Reading, KnownWasRecorded
<1> QED BY <1>3, <1>4

LEMMA BeginType ==
    ASSUME TypeOK, NEW c \in Callers, NEW only \in BOOLEAN, Begin(c, only)
    PROVE  TypeOK'
<1>1. Moved
  BY StaysType DEF Begin, Places, Empty
<1>2. readOnly' \in [Callers -> BOOLEAN] /\ clean' \in BOOLEAN /\ known' \in [Callers -> SUBSET Responses]
  BY DEF Begin, TypeOK
<1> QED BY <1>1, <1>2 DEF Begin, Moved, TypeOK, Places, Empty, stored

LEMMA AnsweredType ==
    ASSUME TypeOK, NEW c \in Callers, Answered(c)
    PROVE  TypeOK'
<1>1. PICK k \in Kinds, s \in Sizes : Keeps(c, [id |-> answers + 1, kind |-> k, size |-> s])
  BY DEF Answered
<1>2. answers + 1 \in 1 .. MaxResponses
  BY Instance DEF Answered, TypeOK
<1>3. [id |-> answers + 1, kind |-> k, size |-> s] \in Responses
  BY <1>2 DEF Responses
<1>4. Moved
  BY <1>1, <1>3, ResponseFields, MovesType DEF Answered, Places
<1>5. answers' \in 0 .. MaxResponses
  BY <1>2 DEF Answered
<1> QED BY <1>4, <1>5 DEF Answered, Storing, Moved, TypeOK, Places, Empty, stored

LEMMA RejectedType ==
    ASSUME TypeOK, NEW c \in Callers, Rejected(c)
    PROVE  TypeOK'
<1>1. Moved
  BY EndsType DEF Rejected
<1> QED BY <1>1 DEF Rejected, Storing, Moved, TypeOK, Places, Empty, stored

\* What is being stored.
LEMMA StoredFile ==
    ASSUME NEW r \in Responses, NEW whole \in BOOLEAN
    PROVE  [of |-> r, whole |-> whole] \in Files
BY DEF Files

LEMMA StoreMetaType ==
    ASSUME TypeOK, NEW c \in Callers, StoreMeta(c)
    PROVE  TypeOK'
<1> DEFINE to == IF local[c].size = "none" THEN "offer" ELSE "storeBody"
<1>1. local[c] \in Responses /\ local[c] # None
  BY HeldType, ResponseFields DEF StoreMeta, Goes, Empty
<1>2. Moved
  BY <1>1, StaysType DEF StoreMeta, Places
<1>3. meta' \in Files
  BY <1>1, StoredFile DEF StoreMeta
<1> QED BY <1>2, <1>3 DEF StoreMeta, Storing, Moved, TypeOK, Places, Empty

LEMMA StoreBodyType ==
    ASSUME TypeOK, NEW c \in Callers, StoreBody(c)
    PROVE  TypeOK'
<1>1. local[c] \in Responses /\ local[c] # None /\ local[c].kind \in Kinds
  BY HeldType, ResponseFields DEF StoreBody, Goes, Empty
<1>2. Moved
  BY <1>1, StaysType DEF StoreBody, Places
<1>3. body' \in [Kinds -> Files \cup {None}]
  BY <1>1, StoredFile DEF StoreBody, TypeOK
<1> QED BY <1>2, <1>3 DEF StoreBody, Storing, Moved, TypeOK, Places, Empty

LEMMA TakenType ==
    ASSUME TypeOK, NEW path \in DevPaths, NEW r \in Responses, devfs' \in Taken(path, r)
    PROVE  /\ devfs' \in [DevPaths -> Responses \cup {None}]
           /\ \A p \in DevPaths : devfs'[p] = devfs[p] \/ devfs'[p] = r
<1>1. devfs \in [DevPaths -> Responses \cup {None}]
  BY DEF TypeOK
<1>2. devfs' = devfs \/ devfs' = [devfs EXCEPT ![path] = r]
  BY DEF Taken
<1> QED BY <1>1, <1>2

\* An offer: the server takes it or not, and the call ends or offers the body too.
LEMMA OfferCases ==
    ASSUME TypeOK, NEW c \in Callers, Offer(c) \/ OfferBody(c)
    PROVE  /\ local[c] \in Responses /\ local[c] # None
           /\ devfs' \in [DevPaths -> Responses \cup {None}]
           /\ \A p \in DevPaths : devfs'[p] = devfs[p] \/ devfs'[p] = local[c]
           /\ UNCHANGED <<meta, body, answers>> /\ Storing
           /\ pc[c] \in {"offer", "offerBody"}
           /\ \/ /\ Goes(c, "offer", "offerBody") /\ UNCHANGED <<local, recorded>>
              \/ /\ \E at \in {"offer", "offerBody"} : Ends(c, at)
                 /\ recorded' = recorded \cup {local[c]}
<1>1. pc[c] \in {"offer", "offerBody"}
  BY DEF Offer, OfferBody
<1>2. local[c] \in Responses /\ local[c] # None
  BY <1>1, HeldType, ResponseFields DEF Empty
<1>3. \E path \in DevPaths : devfs' \in Taken(path, local[c])
  BY DEF Offer, OfferBody, DevPaths
<1>4. /\ devfs' \in [DevPaths -> Responses \cup {None}]
      /\ \A p \in DevPaths : devfs'[p] = devfs[p] \/ devfs'[p] = local[c]
  BY <1>2, <1>3, TakenType
<1>5. UNCHANGED <<meta, body, answers>> /\ Storing
  BY DEF Offer, OfferBody
<1>6. \/ Goes(c, "offer", "offerBody") /\ UNCHANGED <<local, recorded>>
      \/ /\ \E at \in {"offer", "offerBody"} : Ends(c, at)
         /\ recorded' = recorded \cup {local[c]}
  BY DEF Offer, OfferBody
<1> QED BY <1>1, <1>2, <1>4, <1>5, <1>6

LEMMA OfferType ==
    ASSUME TypeOK, NEW c \in Callers, Offer(c) \/ OfferBody(c)
    PROVE  TypeOK'
<1>1. Moved
  <2>1. CASE Goes(c, "offer", "offerBody") /\ UNCHANGED local
    BY <2>1, OfferCases, StaysType DEF Places
  <2>2. CASE \E at \in {"offer", "offerBody"} : Ends(c, at)
    BY <2>2, EndsType
  <2> QED BY <2>1, <2>2, OfferCases
<1>2. recorded' \subseteq Responses /\ recorded \subseteq recorded'
  BY OfferCases DEF TypeOK
<1>3. Storing /\ UNCHANGED <<meta, body, answers>> /\ devfs' \in [DevPaths -> Responses \cup {None}]
  BY OfferCases
<1> QED BY <1>1, <1>2, <1>3 DEF Storing, Moved, TypeOK, Places, Empty

LEMMA DiesType ==
    ASSUME TypeOK, Dies,
           meta' \in Files \cup {None}, body' \in [Kinds -> Files \cup {None}], clean' \in BOOLEAN
    PROVE  TypeOK'
<1>1. /\ pc' \in [Callers -> Places] /\ local' \in [Callers -> Responses \cup {None}]
      /\ \A d \in Callers : pc'[d] \in Empty
  BY DEF Dies, Places, Empty
<1> QED BY <1>1 DEF Dies, TypeOK, Places, Empty

LEMMA CrashInWriteType ==
    ASSUME TypeOK, NEW c \in Callers, CrashInWrite(c)
    PROVE  TypeOK'
<1>1. local[c] \in Responses /\ local[c].kind \in Kinds /\ local[c].size \in Sizes
  BY HeldType DEF CrashInWrite, Empty
<1>2. CASE meta' = [of |-> local[c], whole |-> FALSE] /\ UNCHANGED body
  <2>1. meta' \in Files
    BY <1>1, <1>2, StoredFile
  <2> QED BY <1>2, <2>1, DiesType DEF CrashInWrite, TypeOK
<1>3. ASSUME NEW left \in {local[c].size, "empty"}, UNCHANGED meta,
             body' = [body EXCEPT ![local[c].kind] =
                        [of |-> [local[c] EXCEPT !.size = left], whole |-> FALSE]]
      PROVE  TypeOK'
  <2>1. left \in Sizes
    BY <1>1 DEF Sizes
  <2>2. [local[c] EXCEPT !.size = left] \in Responses
    BY <1>1, <2>1 DEF Responses
  <2>3. [of |-> [local[c] EXCEPT !.size = left], whole |-> FALSE] \in Files
    BY <2>2, StoredFile
  <2>4. body' \in [Kinds -> Files \cup {None}]
    BY <1>1, <1>3, <2>3 DEF TypeOK
  <2> QED BY <1>3, <2>4, DiesType DEF CrashInWrite, TypeOK
<1> QED BY <1>2, <1>3 DEF CrashInWrite

LEMMA NextType == TypeOK /\ KnownWasRecorded /\ [Next]_vars => TypeOK' /\ KnownWasRecorded'
<1> SUFFICES ASSUME TypeOK, KnownWasRecorded, [Next]_vars PROVE TypeOK' /\ KnownWasRecorded'
  OBVIOUS
<1>1. ASSUME NEW c \in Callers, NEW only \in BOOLEAN, Begin(c, only)
      PROVE  TypeOK' /\ KnownWasRecorded'
  <2>1. KnownWasRecorded'
    BY <1>1 DEF Begin, KnownWasRecorded, TypeOK
  <2> QED BY <1>1, <2>1, BeginType
<1>2. ASSUME NEW c \in Callers, Lookup(c) \/ DevMeta(c) \/ Load(c) \/ DevBody(c)
      PROVE  TypeOK' /\ KnownWasRecorded'
  BY <1>2, ReadingType
<1>3. ASSUME NEW c \in Callers, Answered(c) \/ Rejected(c) \/ StoreMeta(c) \/ StoreBody(c)
      PROVE  TypeOK' /\ KnownWasRecorded'
  <2>1. KnownWasRecorded'
    BY <1>3 DEF Answered, Rejected, StoreMeta, StoreBody, Storing, KnownWasRecorded
  <2> QED BY <1>3, <2>1, AnsweredType, RejectedType, StoreMetaType, StoreBodyType
<1>4. ASSUME NEW c \in Callers, Offer(c) \/ OfferBody(c)
      PROVE  TypeOK' /\ KnownWasRecorded'
  <2>1. KnownWasRecorded'
    BY <1>4, OfferCases DEF Storing, KnownWasRecorded
  <2> QED BY <1>4, <2>1, OfferType
<1>5. ASSUME Crash \/ \E c \in Callers : CrashInWrite(c)
      PROVE  TypeOK' /\ KnownWasRecorded'
  <2>1. KnownWasRecorded'
    BY <1>5 DEF Crash, CrashInWrite, Dies, KnownWasRecorded
  <2>2. Crash => TypeOK'
    BY DiesType DEF Crash, TypeOK
  <2> QED BY <1>5, <2>1, <2>2, CrashInWriteType
<1>6. UNCHANGED vars => TypeOK' /\ KnownWasRecorded'
  BY DEF vars, stored, control, history, TypeOK, KnownWasRecorded
<1> QED BY <1>1, <1>2, <1>3, <1>4, <1>5, <1>6 DEF Next

-----------------------------------------------------------------------------
(* A step that only looks an entry up. *)

HitOK(m, b) ==
    /\ Settled => m = meta.of /\ b = meta.of
    /\ Full(b) => Settled

Looks(c) ==
    /\ pc[c] # "idle"
    /\ UNCHANGED <<stored, recorded, known, clean>>
    /\ \A d \in Callers \ {c} : pc'[d] = pc[d] /\ local'[d] = local[d]
    /\ \/ pc'[c] \in {"idle", "load"}
       \/ ~ Settled /\ pc'[c] \in {"devMeta", "devBody", "ask"}
    /\ Settled /\ pc'[c] = "load" => local'[c] = meta.of
    /\ \/ UNCHANGED missed
       \/ ~ Settled /\ missed' = missed \cup known[c]
    /\ \/ UNCHANGED replays
       \/ \E m, b \in Responses :
            HitOK(m, b) /\ replays' = replays \cup {[meta |-> m, body |-> b]}

\* In a settled entry what is found is the response it is of.
LEMMA SettledEntry ==
    ASSUME UsableHasItsMeta, Settled
    PROVE  /\ meta # None
           /\ \A k \in Kinds : Usable(k) <=> k = meta.of.kind
           /\ \A k \in Kinds : Usable(k) => body[k].of = meta.of
BY DEF UsableHasItsMeta, Settled

LEMMA LookupLooks ==
    ASSUME TypeOK, CleanInv, NEW c \in Callers, Lookup(c)
    PROVE  Looks(c)
<1>1. /\ pc[c] # "idle" /\ UNCHANGED <<stored, recorded, known, clean>>
      /\ UNCHANGED <<missed, replays>>
  BY DEF Lookup, Reading, Goes, Ends
<1>2. CASE meta = None
  <2>1. Goes(c, "lookup", "devMeta") /\ UNCHANGED local
    BY <1>2 DEF Lookup
  <2>2. ~ Settled
    BY <1>2, SettledEntry DEF CleanInv
  <2>3. pc'[c] = "devMeta" /\ \A d \in Callers \ {c} : pc'[d] = pc[d]
    BY <2>1, GoesFrom DEF Places
  <2> QED BY <1>1, <2>1, <2>2, <2>3 DEF Looks
<1>3. CASE meta # None /\ meta.whole
  <2>1. Goes(c, "lookup", "load") /\ Keeps(c, meta.of)
    BY <1>3 DEF Lookup
  <2>2. meta.of \in Responses
    BY <1>3, FileFields DEF TypeOK
  <2>3. pc'[c] = "load" /\ \A d \in Callers \ {c} : pc'[d] = pc[d]
    BY <2>1, GoesFrom DEF Places
  <2>4. local'[c] = meta.of /\ \A d \in Callers \ {c} : local'[d] = local[d]
    BY <2>1, <2>2, KeepsResponse
  <2> QED BY <1>1, <2>3, <2>4 DEF Looks
<1>4. CASE meta # None /\ ~ meta.whole
  <2>1. Goes(c, "lookup", "idle") /\ Keeps(c, None)
    BY <1>4 DEF Lookup, Ends
  <2>2. pc'[c] = "idle" /\ \A d \in Callers \ {c} : pc'[d] = pc[d]
    BY <2>1, GoesFrom DEF Places
  <2>3. \A d \in Callers \ {c} : local'[d] = local[d]
    BY <2>1, KeepsResponse
  <2> QED BY <1>1, <2>2, <2>3 DEF Looks
<1> QED BY <1>2, <1>3, <1>4

LEMMA MissLooks ==
    ASSUME TypeOK, NEW c \in Callers, NEW from, Misses(c, from), from # "idle", ~ Settled, Reading
    PROVE  Looks(c)
<1> DEFINE to == IF readOnly[c] THEN "idle" ELSE "ask"
<1>1. to \in Places /\ Goes(c, from, to)
  BY DEF Misses, Places
<1>2. pc[c] = from /\ pc'[c] = to /\ \A d \in Callers \ {c} : pc'[d] = pc[d]
  <2> HIDE DEF to
  <2> QED BY <1>1, GoesFrom
<1>3. \A d \in Callers \ {c} : local'[d] = local[d]
  BY KeepsResponse DEF Misses
<1> QED BY <1>2, <1>3 DEF Looks, Misses, Reading

LEMMA HitLooks ==
    ASSUME TypeOK, NEW c \in Callers, NEW from, NEW m \in Responses, NEW b \in Responses,
           Hits(c, from, m, b), from # "idle", HitOK(m, b), Reading
    PROVE  Looks(c)
<1>1. Goes(c, from, "idle") /\ Keeps(c, None) /\ UNCHANGED missed
  BY DEF Hits, Ends
<1>2. pc[c] = from /\ pc'[c] = "idle" /\ \A d \in Callers \ {c} : pc'[d] = pc[d]
  BY <1>1, GoesFrom DEF Places
<1>3. \A d \in Callers \ {c} : local'[d] = local[d]
  BY <1>1, KeepsResponse
<1>4. \E n, o \in Responses : HitOK(n, o) /\ replays' = replays \cup {[meta |-> n, body |-> o]}
  BY DEF Hits
<1> QED BY <1>1, <1>2, <1>3, <1>4 DEF Looks, Reading

LEMMA NotQuiet ==
    ASSUME CleanInv, NEW c \in Callers, pc[c] \notin Quiet
    PROVE  ~ Settled
BY DEF CleanInv, CallOK

LEMMA DevMetaLooks ==
    ASSUME TypeOK, CleanInv, NEW c \in Callers, DevMeta(c)
    PROVE  Looks(c)
<1>1. PICK m \in DevReads("meta") :
          IF m = None THEN Misses(c, "devMeta")
          ELSE Goes(c, "devMeta", "load") /\ Keeps(c, m) /\ UNCHANGED <<replays, missed>>
  BY DEF DevMeta
<1>2. pc[c] = "devMeta" /\ Reading
  BY <1>1 DEF Misses, Goes, DevMeta
<1>3. ~ Settled
  BY <1>2, NotQuiet DEF Quiet
<1>4. CASE m = None
  BY <1>1, <1>2, <1>3, <1>4, MissLooks
<1>5. CASE m # None
  <2>1. m \in Responses
    BY <1>5 DEF DevReads, TypeOK, DevPaths
  <2>2. pc'[c] = "load" /\ \A d \in Callers \ {c} : pc'[d] = pc[d]
    BY <1>1, <1>5, GoesFrom DEF Places
  <2>3. \A d \in Callers \ {c} : local'[d] = local[d]
    BY <1>1, <1>5, <2>1, KeepsResponse
  <2>4. UNCHANGED <<replays, missed>>
    BY <1>1, <1>5
  <2> QED BY <1>2, <1>3, <2>2, <2>3, <2>4 DEF Looks, Reading
<1> QED BY <1>4, <1>5

LEMMA LoadLooks ==
    ASSUME TypeOK, CleanInv, NEW c \in Callers, Load(c)
    PROVE  Looks(c)
<1> DEFINE m == local[c]
<1>1. pc[c] = "load" /\ m \in Responses /\ m.kind \in Kinds /\ Reading
  BY LoadCases DEF Load
<1>2. Settled => m = meta.of
  BY <1>1 DEF CleanInv, CallOK
<1>3. Settled => Usable(m.kind) /\ body[m.kind].of = meta.of
  BY <1>1, <1>2, SettledEntry DEF CleanInv
<1>4. Usable(m.kind) => Settled
  BY <1>1 DEF Settled
<1>5. CASE Usable(m.kind) /\ body[m.kind].of \in Responses /\ Hits(c, "load", m, body[m.kind].of)
  <2>1. HitOK(m, body[m.kind].of)
    BY <1>2, <1>3, <1>4, <1>5 DEF HitOK
  <2> QED BY <1>1, <1>5, <2>1, HitLooks
<1>6. CASE Ends(c, "load") /\ UNCHANGED <<replays, missed>>
  <2>1. pc'[c] = "idle" /\ \A d \in Callers \ {c} : pc'[d] = pc[d]
    BY <1>6, GoesFrom DEF Places, Ends
  <2>2. \A d \in Callers \ {c} : local'[d] = local[d]
    BY <1>6, KeepsResponse DEF Ends
  <2> QED BY <1>1, <1>6, <2>1, <2>2 DEF Looks, Reading
<1>7. CASE ~ Usable(m.kind) /\ Misses(c, "load")
  BY <1>1, <1>3, <1>7, MissLooks
<1>8. CASE ~ Usable(m.kind) /\ Goes(c, "load", "devBody") /\ UNCHANGED <<local, replays, missed>>
  <2>1. pc'[c] = "devBody" /\ \A d \in Callers \ {c} : pc'[d] = pc[d]
    BY <1>8, GoesFrom DEF Places
  <2> QED BY <1>1, <1>3, <1>8, <2>1 DEF Looks, Reading
<1> QED BY <1>5, <1>6, <1>7, <1>8, LoadCases

LEMMA DevBodyLooks ==
    ASSUME TypeOK, CleanInv, NEW c \in Callers, DevBody(c)
    PROVE  Looks(c)
<1>1. pc[c] = "devBody" /\ Reading
  BY DEF DevBody
<1>2. ~ Settled
  BY <1>1, NotQuiet DEF Quiet
<1>3. CASE Misses(c, "devBody")
  BY <1>1, <1>2, <1>3, MissLooks
<1>4. ASSUME NEW m \in Responses, NEW b \in Responses, NEW p \in DevPaths \ {"meta"},
             b = devfs[p], Hits(c, "devBody", m, b)
      PROVE  Looks(c)
  <2>1. ~ Full(b)
    BY <1>2, <1>4, ResponseFields DEF CleanInv, FullIsSettled
  <2> QED BY <1>1, <1>2, <1>4, <2>1, HitLooks DEF HitOK
<1> QED BY <1>3, <1>4, DevBodyCases

LEMMA LooksSafe ==
    ASSUME TypeOK, KnownWasRecorded, CleanInv, NEW c \in Callers, Looks(c)
    PROVE  CleanInv'
<1>1. UNCHANGED <<meta, body, devfs, recorded>>
  BY DEF Looks, stored
<1>2. /\ Settled' <=> Settled
      /\ UsableHasItsMeta'
  BY <1>1, SettledAgain DEF CleanInv
<1>3. Alone'
  BY DEF Alone, CleanInv, Looks
<1>4. ASSUME NEW d \in Callers PROVE CallOK(d)'
  <2>1. CASE d = c
    BY <1>1, <1>2, <2>1 DEF CallOK, Looks, Quiet
  <2>2. CASE d # c
    BY <1>1, <1>2, <2>2 DEF CallOK, Looks, CleanInv
  <2> QED BY <2>1, <2>2
<1>5. FullIsSettled'
  <2>1. ASSUME NEW p \in replays', Full(p.body)
        PROVE  Settled /\ p.meta = meta.of /\ p.body = meta.of
    <3>1. CASE p \in replays
      BY <2>1, <3>1 DEF CleanInv, FullIsSettled
    <3>2. CASE p \notin replays
      <4>1. PICK m \in Responses, b \in Responses : HitOK(m, b) /\ p = [meta |-> m, body |-> b]
        BY <2>1, <3>2 DEF Looks
      <4> QED BY <2>1, <4>1 DEF HitOK
    <3> QED BY <3>1, <3>2
  <2> QED BY <1>1, <1>2, <2>1 DEF FullIsSettled, CleanInv, Full
<1>6. \A r \in missed' : ~ Full(r)
  BY DEF Looks, CleanInv, FullIsSettled, KnownWasRecorded
<1> QED BY <1>2, <1>3, <1>4, <1>5, <1>6 DEF CleanInv, Full

-----------------------------------------------------------------------------
(* A step that stores. *)

LEMMA OthersIdle ==
    ASSUME CleanInv, NEW c \in Callers, pc[c] # "idle"
    PROVE  \A d \in Callers \ {c} : pc[d] = "idle"
BY DEF CleanInv, Alone

\* Nothing that was replayed, recorded or offered has a body yet.
LEMMA NothingFull ==
    ASSUME CleanInv, ~ Settled
    PROVE  /\ \A p \in DevPaths \ {"meta"} : devfs[p] # None => ~ Full(devfs[p])
           /\ \A r \in recorded : ~ Full(r)
           /\ \A p \in replays : ~ Full(p.body)
           /\ \A k \in Kinds : ~ Usable(k)
BY DEF CleanInv, FullIsSettled, Settled

LEMMA AnsweredSafe ==
    ASSUME TypeOK, CleanInv, NEW c \in Callers, Answered(c)
    PROVE  CleanInv'
<1>1. /\ pc[c] = "ask" /\ pc'[c] = "storeMeta"
      /\ \A d \in Callers \ {c} : pc'[d] = pc[d]
  BY GoesFrom DEF Answered, Places
<1>2. UNCHANGED <<meta, body, devfs, recorded, replays, missed>>
  BY DEF Answered, Storing, stored
<1>3. \A d \in Callers \ {c} : pc[d] = "idle"
  BY <1>1, OthersIdle
<1>4. ~ Settled /\ ~ Settled' /\ UsableHasItsMeta'
  BY <1>1, <1>2, NotQuiet, SettledAgain DEF Quiet, CleanInv
<1>5. Alone'
  BY <1>1, <1>3 DEF Alone
<1>6. \A d \in Callers : CallOK(d)'
  BY <1>1, <1>3, <1>4 DEF CallOK
<1>7. FullIsSettled' /\ \A r \in missed' : ~ Full(r)
  BY <1>2, <1>4, NothingFull DEF FullIsSettled, CleanInv, Full
<1> QED BY <1>4, <1>5, <1>6, <1>7 DEF CleanInv, Full

LEMMA RejectedSafe ==
    ASSUME TypeOK, CleanInv, NEW c \in Callers, Rejected(c)
    PROVE  CleanInv'
<1>1. PICK at \in {"ask", "storeMeta", "storeBody"} : Ends(c, at)
  BY DEF Rejected
<1>2. /\ pc[c] # "idle" /\ pc'[c] = "idle"
      /\ \A d \in Callers \ {c} : pc'[d] = pc[d]
  BY <1>1, GoesFrom DEF Ends, Places
<1>3. UNCHANGED <<meta, body, devfs, recorded, replays, missed>>
  BY DEF Rejected, Storing, stored
<1>4. \A d \in Callers : pc'[d] = "idle"
  BY <1>2, OthersIdle
<1>5. (Settled' <=> Settled) /\ UsableHasItsMeta'
  BY <1>3, SettledAgain DEF CleanInv
<1>6. Alone' /\ \A d \in Callers : CallOK(d)'
  BY <1>4 DEF Alone, CallOK, Quiet
<1>7. FullIsSettled' /\ \A r \in missed' : ~ Full(r)
  BY <1>3, <1>5 DEF FullIsSettled, CleanInv, Full
<1> QED BY <1>5, <1>6, <1>7 DEF CleanInv, Full

\* The metadata of another response: there is no usable body that they part from.
LEMMA StoreMetaSafe ==
    ASSUME TypeOK, CleanInv, NEW c \in Callers, StoreMeta(c)
    PROVE  CleanInv'
<1> DEFINE to == IF local[c].size = "none" THEN "offer" ELSE "storeBody"
<1>1. /\ pc[c] = "storeMeta" /\ pc'[c] = to
      /\ \A d \in Callers \ {c} : pc'[d] = pc[d]
  <2>1. to \in Places /\ Goes(c, "storeMeta", to)
    BY DEF StoreMeta, Places
  <2> HIDE DEF to
  <2> QED BY <2>1, GoesFrom
<1>2. local[c] \in Responses
  BY <1>1, HeldType DEF Empty
<1>3. /\ UNCHANGED <<body, devfs, recorded, replays, missed, local>>
      /\ meta' = [of |-> local[c], whole |-> TRUE]
  BY DEF StoreMeta, Storing
<1>4. meta' # None /\ meta'.of = local[c]
  BY <1>2, <1>3, StoredFile, FileFields
<1>5. \A d \in Callers \ {c} : pc[d] = "idle"
  BY <1>1, OthersIdle
<1>6. ~ Settled
  BY <1>1, NotQuiet DEF Quiet
<1>7. \A k \in Kinds : ~ Usable(k)'
  BY <1>3, <1>6, NothingFull DEF Usable
<1>8. ~ Settled' /\ UsableHasItsMeta'
  BY <1>7 DEF Settled, UsableHasItsMeta
<1>9. Alone'
  BY <1>1, <1>5 DEF Alone
<1>10. ASSUME NEW d \in Callers PROVE CallOK(d)'
  <2>1. CASE d = c
    BY <1>1, <1>3, <1>4, <1>8, <2>1 DEF CallOK, Full
  <2>2. CASE d # c
    BY <1>1, <1>5, <1>8, <2>2 DEF CallOK
  <2> QED BY <2>1, <2>2
<1>11. FullIsSettled' /\ \A r \in missed' : ~ Full(r)
  BY <1>3, <1>6, NothingFull DEF FullIsSettled, CleanInv, Full
<1> QED BY <1>8, <1>9, <1>10, <1>11 DEF CleanInv, Full

\* A body after its metadata: if it is usable, the entry is settled with both.
LEMMA StoreBodySafe ==
    ASSUME TypeOK, CleanInv, NEW c \in Callers, StoreBody(c)
    PROVE  CleanInv'
<1> DEFINE r == local[c]
<1>1. /\ pc[c] = "storeBody" /\ pc'[c] = "offer"
      /\ \A d \in Callers \ {c} : pc'[d] = pc[d]
  BY GoesFrom DEF StoreBody, Places
<1>2. r \in Responses /\ r.kind \in Kinds
  BY <1>1, HeldType DEF Empty
<1>3. /\ UNCHANGED <<meta, devfs, recorded, replays, missed, local>>
      /\ body' = [body EXCEPT ![r.kind] = [of |-> r, whole |-> TRUE]]
  BY DEF StoreBody, Storing
<1>4. /\ body'[r.kind] # None /\ body'[r.kind].of = r
      /\ \A k \in Kinds \ {r.kind} : body'[k] = body[k]
  <2>1. body'[r.kind] = [of |-> r, whole |-> TRUE]
    BY <1>2, <1>3 DEF TypeOK
  <2> QED BY <1>2, <1>3, <2>1, StoredFile, FileFields DEF TypeOK
<1>5. \A d \in Callers \ {c} : pc[d] = "idle"
  BY <1>1, OthersIdle
<1>6. ~ Settled
  BY <1>1, NotQuiet DEF Quiet
<1>7. \A k \in Kinds : Usable(k)' => k = r.kind
  BY <1>4, <1>6, NothingFull DEF Usable
<1>8. meta # None /\ meta.of = r
  BY <1>1 DEF CleanInv, CallOK
<1>9. UsableHasItsMeta'
  BY <1>3, <1>4, <1>7, <1>8 DEF UsableHasItsMeta
<1>10. Full(r) => Settled'
  <2>1. ASSUME Full(r), NEW k \in Kinds, k = r.kind PROVE Usable(k)'
    BY <1>4, <2>1 DEF Usable, Full
  <2> QED BY <1>2, <2>1 DEF Settled
<1>11. Alone'
  BY <1>1, <1>5 DEF Alone
<1>12. ASSUME NEW d \in Callers PROVE CallOK(d)'
  <2>1. CASE d = c
    BY <1>1, <1>3, <1>10, <2>1 DEF CallOK, Full, Quiet
  <2>2. CASE d # c
    BY <1>1, <1>5, <2>2 DEF CallOK, Quiet
  <2> QED BY <2>1, <2>2
<1>13. FullIsSettled' /\ \A m \in missed' : ~ Full(m)
  BY <1>3, <1>6, NothingFull DEF FullIsSettled, CleanInv, Full
<1> QED BY <1>9, <1>11, <1>12, <1>13 DEF CleanInv, Full

LEMMA OfferSafe ==
    ASSUME TypeOK, CleanInv, NEW c \in Callers, Offer(c) \/ OfferBody(c)
    PROVE  CleanInv'
<1>1. /\ pc[c] \in {"offer", "offerBody"} /\ local[c] # None
      /\ \A p \in DevPaths : devfs'[p] = devfs[p] \/ devfs'[p] = local[c]
      /\ UNCHANGED <<meta, body, replays, missed>>
  BY OfferCases DEF Storing
<1>2. Full(local[c]) => Settled
  BY <1>1 DEF CleanInv, CallOK
<1>3. \A d \in Callers \ {c} : pc[d] = "idle"
  BY <1>1, OthersIdle
<1>4. (Settled' <=> Settled) /\ UsableHasItsMeta'
  BY <1>1, SettledAgain DEF CleanInv
<1>5. /\ \A d \in Callers \ {c} : pc'[d] = "idle"
      /\ \/ pc'[c] = "offerBody" /\ UNCHANGED <<local, recorded>>
         \/ pc'[c] = "idle" /\ recorded' = recorded \cup {local[c]}
  <2>1. CASE Goes(c, "offer", "offerBody") /\ UNCHANGED <<local, recorded>>
    BY <1>3, <2>1, GoesFrom DEF Places
  <2>2. CASE /\ \E at \in {"offer", "offerBody"} : Ends(c, at)
             /\ recorded' = recorded \cup {local[c]}
    BY <1>3, <2>2, GoesFrom DEF Places, Ends
  <2> QED BY <2>1, <2>2, OfferCases
<1>6. Alone'
  BY <1>5 DEF Alone
<1>7. ASSUME NEW d \in Callers PROVE CallOK(d)'
  <2>1. CASE d = c /\ pc'[c] = "offerBody"
    BY <1>2, <1>4, <1>5, <2>1 DEF CallOK, Full, Quiet
  <2>2. CASE pc'[d] = "idle"
    BY <2>2 DEF CallOK, Quiet
  <2> QED BY <1>5, <2>1, <2>2
<1>8. FullIsSettled'
  <2>1. \A p \in DevPaths \ {"meta"} : devfs'[p] # None /\ Full(devfs'[p]) => Settled
    BY <1>1, <1>2 DEF CleanInv, FullIsSettled
  <2>2. \A r \in recorded' : Full(r) => Settled
    BY <1>2, <1>5 DEF CleanInv, FullIsSettled
  <2> QED BY <1>1, <1>4, <2>1, <2>2 DEF CleanInv, FullIsSettled, Full
<1>9. \A r \in missed' : ~ Full(r)
  BY <1>1 DEF CleanInv
<1> QED BY <1>4, <1>6, <1>7, <1>8, <1>9 DEF CleanInv, Full

-----------------------------------------------------------------------------
(* All steps. *)

LEMMA CrashSafe ==
    ASSUME CleanInv, Crash
    PROVE  CleanInv'
<1>1. UNCHANGED <<meta, body, devfs, recorded, replays, missed>> /\ \A d \in Callers : pc'[d] = "idle"
  BY DEF Crash, Dies
<1>2. (Settled' <=> Settled) /\ UsableHasItsMeta'
  BY <1>1, SettledAgain DEF CleanInv
<1>3. Alone' /\ \A d \in Callers : CallOK(d)'
  BY <1>1 DEF Alone, CallOK, Quiet
<1>4. FullIsSettled' /\ \A r \in missed' : ~ Full(r)
  BY <1>1, <1>2 DEF FullIsSettled, CleanInv, Full
<1> QED BY <1>2, <1>3, <1>4 DEF CleanInv, Full

LEMMA BeginSafe ==
    ASSUME TypeOK, CleanInv, NEW c \in Callers, NEW only \in BOOLEAN, Begin(c, only), clean'
    PROVE  CleanInv'
<1>1. \A d \in Callers : pc[d] = "idle"
  BY DEF Begin
<1>2. pc'[c] = "lookup" /\ \A d \in Callers \ {c} : pc'[d] = "idle"
  BY <1>1, GoesFrom DEF Begin, Places
<1>3. UNCHANGED <<meta, body, devfs, recorded, replays, missed>>
  BY DEF Begin, stored
<1>4. (Settled' <=> Settled) /\ UsableHasItsMeta'
  BY <1>3, SettledAgain DEF CleanInv
<1>5. Alone' /\ \A d \in Callers : CallOK(d)'
  BY <1>2 DEF Alone, CallOK, Quiet
<1>6. FullIsSettled' /\ \A r \in missed' : ~ Full(r)
  BY <1>3, <1>4 DEF FullIsSettled, CleanInv, Full
<1> QED BY <1>4, <1>5, <1>6 DEF CleanInv, Full

LEMMA ReadingLooks ==
    ASSUME TypeOK, CleanInv, NEW c \in Callers,
           Lookup(c) \/ DevMeta(c) \/ Load(c) \/ DevBody(c)
    PROVE  Looks(c)
BY LookupLooks, DevMetaLooks, LoadLooks, DevBodyLooks

\* Overlapping calls and torn writes are remembered.
LEMMA CleanBefore == ASSUME [Next]_vars, clean' = TRUE, TypeOK PROVE clean
<1>1. ASSUME NEW c \in Callers, Offer(c) \/ OfferBody(c)
      PROVE  UNCHANGED clean
  BY <1>1 DEF Offer, OfferBody, Storing
<1> QED BY <1>1 DEF Next, Begin, Lookup, DevMeta, Load, DevBody, Reading, Answered, Rejected,
                    StoreMeta, StoreBody, Storing, Crash, CrashInWrite, vars, history, TypeOK

LEMMA NextIInv == IInv /\ [Next]_vars => IInv'
<1> SUFFICES ASSUME IInv, [Next]_vars PROVE IInv'
  OBVIOUS
<1>1. TypeOK' /\ KnownWasRecorded'
  BY NextType DEF IInv
<1>2. ASSUME clean' PROVE CleanInv'
  <2>1. clean /\ CleanInv /\ TypeOK /\ KnownWasRecorded
    BY <1>1, <1>2, CleanBefore DEF IInv, TypeOK
  <2>2. ASSUME NEW c \in Callers, NEW only \in BOOLEAN, Begin(c, only) PROVE CleanInv'
    BY <1>2, <2>1, <2>2, BeginSafe
  <2>3. ASSUME NEW c \in Callers, Lookup(c) \/ DevMeta(c) \/ Load(c) \/ DevBody(c)
        PROVE  CleanInv'
    BY <2>1, <2>3, ReadingLooks, LooksSafe
  <2>4. ASSUME NEW c \in Callers, Answered(c) \/ Rejected(c) \/ StoreMeta(c) \/ StoreBody(c)
        PROVE  CleanInv'
    BY <2>1, <2>4, AnsweredSafe, RejectedSafe, StoreMetaSafe, StoreBodySafe
  <2>5. ASSUME NEW c \in Callers, Offer(c) \/ OfferBody(c) PROVE CleanInv'
    BY <2>1, <2>5, OfferSafe
  <2>6. ASSUME NEW c \in Callers, CrashInWrite(c) PROVE CleanInv'
    BY <1>2, <2>6 DEF CrashInWrite
  <2>7. Crash => CleanInv'
    BY <2>1, CrashSafe
  <2>8. UNCHANGED vars => CleanInv'
    BY <2>1 DEF vars, stored, control, history, CleanInv, Alone, UsableHasItsMeta, CallOK,
                FullIsSettled, Settled, Usable, Full
  <2> QED BY <2>2, <2>3, <2>4, <2>5, <2>6, <2>7, <2>8 DEF Next
<1> QED BY <1>1, <1>2 DEF IInv

LEMMA Invariance == Spec => []IInv
BY InitIInv, NextIInv, PTL DEF Spec

-----------------------------------------------------------------------------
(* Theorems. *)

\* Every reachable state of the cache is well typed.
THEOREM TypeCorrect == Spec => []TypeOK
<1>1. IInv => TypeOK
  BY DEF IInv
<1> QED BY <1>1, Invariance, PTL

\* A body is replayed with the metadata it came with (storeResponse writes them
\* one after the other, getCachedResponse reads them so).
THEOREM BodiesKeepTheirMeta == Spec => []BodyKeepsItsMeta
<1>1. IInv => BodyKeepsItsMeta
  BY DEF IInv, CleanInv, FullIsSettled, BodyKeepsItsMeta
<1> QED BY <1>1, Invariance, PTL

\* A recorded body is found by every later call (getCachedResponse).
THEOREM RecordedBodiesAreFound == Spec => []RecordedBodyIsFound
<1>1. IInv => RecordedBodyIsFound
  BY DEF IInv, CleanInv, RecordedBodyIsFound
<1> QED BY <1>1, Invariance, PTL

\* Once a body was replayed nothing else is (createCachedFetch).
THEOREM ReplaysAreDeterministic == Spec => ReplayIsDeterministic
<1>1. ASSUME IInv, [Next]_vars, clean', NEW p \in replays, Full(p.body)
      PROVE  replays' = replays
  <2>1. clean /\ CleanInv /\ TypeOK
    BY <1>1, NextType, CleanBefore DEF IInv, TypeOK
  <2>2. Settled /\ p = [meta |-> meta.of, body |-> meta.of]
    BY <1>1, <2>1 DEF CleanInv, FullIsSettled, TypeOK
  <2>3. ASSUME NEW c \in Callers, Lookup(c) \/ DevMeta(c) \/ Load(c) \/ DevBody(c)
        PROVE  replays' = replays
    BY <2>1, <2>2, <2>3, ReadingLooks DEF Looks, HitOK
  <2>4. ASSUME NEW c \in Callers, Offer(c) \/ OfferBody(c)
        PROVE  replays' = replays
    BY <2>4 DEF Offer, OfferBody, Storing
  <2> QED BY <1>1, <2>3, <2>4 DEF Next, Begin, Answered, Rejected, StoreMeta, StoreBody, Storing,
                                  Crash, CrashInWrite, Dies, vars, history
<1>2. ASSUME IInv, [Next]_vars
      PROVE  [clean' /\ (\E p \in replays : Full(p.body)) => replays' = replays]_vars
  BY <1>1, <1>2
<1> QED BY <1>2, Invariance, PTL DEF Spec, ReplayIsDeterministic

-----------------------------------------------------------------------------
(* CrSqlSync *)

AtLeast(a, b) == ~ Less(Stamp(a), Stamp(b))

\* Database versions number the rows.
NumberedByVersion ==
    \A s \in Sites, c \in Cells :
        /\ rows[s][c].at <= version[s]
        /\ rows[s][c].at = 0 => rows[s][c] = NoRow

\* What a site wrote it still has, or something greater.
OwnIsKnown ==
    \A s, p \in Sites, c \in Cells :
        rows[p][c].origin = s => AtLeast(rows[s][c], rows[p][c])

\* The site has what the peer has up to version v.
Covered(s, p, v) ==
    /\ v <= version[p]
    /\ \A c \in Cells : rows[p][c].at <= v => AtLeast(rows[s][c], rows[p][c])

AllGiven ==
    \A s \in Sites, c \in Cells :
        rows[s][c].at > 0 => <<c, Stamp(rows[s][c])>> \in given

\* What is in a batch is what the peer had beyond the version that was read.
BatchOK(l) ==
    LET s == sync[l].site
        p == sync[l].peer
        changes == sync[l].batch
    IN  \A change \in changes :
          /\ change.row.at > 0 /\ change.row.at <= version[p]
          /\ <<change.cell, Stamp(change.row)>> \in given
          /\ \A other \in changes : other.cell = change.cell => other = change
          /\ change.row.origin \in Sites =>
                AtLeast(rows[change.row.origin][change.cell], change.row)
          /\ \A c \in Cells : rows[p][c].at <= change.row.at =>
                \/ AtLeast(rows[s][c], rows[p][c])
                \/ [cell |-> c, row |-> rows[p][c]] \in changes
          /\ sync[l].stage = "applied" => AtLeast(rows[s][change.cell], change.row)

SyncInv ==
    /\ SyncTypeOK
    /\ NumberedByVersion
    /\ OwnIsKnown
    /\ AllGiven
    /\ \A s, p \in Sites : Covered(s, p, tracked[s][p])
    /\ \A l \in Loops : sync[l] # Idle =>
         Covered(sync[l].site, sync[l].peer, sync[l].since) /\ BatchOK(l)

-----------------------------------------------------------------------------
(* Stamps are in a linear order, and rows only move up in it. *)

LEMMA RowNumbers ==
    ASSUME NEW a \in Rows
    PROVE  a.ver \in Nat /\ a.val \in Nat /\ a.at \in Nat
<1>1. Values \cup {0} \subseteq Nat
  BY SyncInstance
<1> QED BY <1>1 DEF Rows

LEMMA AtLeastIs ==
    ASSUME NEW a, NEW b
    PROVE  AtLeast(a, b) <=> ~ (a.ver < b.ver \/ (a.ver = b.ver /\ a.val < b.val))
BY Zenon DEF AtLeast, Less, Stamp

LEMMA AtLeastTransitive ==
    ASSUME NEW a \in Rows, NEW b \in Rows, NEW d \in Rows, AtLeast(a, b), AtLeast(b, d)
    PROVE  AtLeast(a, d)
BY RowNumbers, AtLeastIs

LEMMA AtLeastReflexive ==
    ASSUME NEW a \in Rows
    PROVE  AtLeast(a, a)
BY RowNumbers, AtLeastIs

LEMMA LessIsBelow ==
    ASSUME NEW a \in Rows, NEW b \in Rows, ~ AtLeast(a, b)
    PROVE  AtLeast(b, a)
BY RowNumbers, AtLeastIs

\* What a row is replaced by is greater, and numbered beyond all there was.
Grows ==
    /\ \A p \in Sites : version[p] <= version'[p]
    /\ \A p \in Sites, c \in Cells :
         \/ rows'[p][c] = rows[p][c]
         \/ /\ rows'[p][c].at > version[p] /\ rows'[p][c].at <= version'[p]
            /\ Less(Stamp(rows[p][c]), Stamp(rows'[p][c]))
            /\ <<c, Stamp(rows'[p][c])>> \in given'
            /\ rows'[p][c].origin \in Sites \ {p} =>
                  AtLeast(rows[rows'[p][c].origin][c], rows'[p][c])
    /\ given \subseteq given'

LEMMA GrownRow ==
    ASSUME Grows, NEW p \in Sites, NEW c \in Cells
    PROVE  /\ version[p] <= version'[p]
           /\ \/ rows'[p][c] = rows[p][c]
              \/ rows'[p][c].at > version[p] /\ rows'[p][c].at <= version'[p]
BY Zenon DEF Grows

LEMMA NumberedRow ==
    ASSUME SyncTypeOK, NEW s \in Sites, NEW row \in Rows
    PROVE  /\ Numbered(s, row) \in Rows
           /\ Stamp(Numbered(s, row)) = Stamp(row)
           /\ Numbered(s, row).origin = row.origin
           /\ Numbered(s, row).at > version[s] /\ Numbered(s, row).at > 0
<1>1. version[s] \in Nat /\ row.at \in Nat
  BY DEF SyncTypeOK, Rows
<1> QED BY <1>1 DEF Numbered, Rows, Stamp

\* What applying a batch makes of each cell.
LEMMA MergedRow ==
    ASSUME SyncInv, NEW l \in Loops, sync[l] # Idle, NEW c \in Cells
    PROVE  LET s == sync[l].site
               new == Merged(s, sync[l].batch, c)
           IN  /\ new \in Rows
               /\ \/ /\ new = rows[s][c]
                     /\ \A change \in sync[l].batch :
                          change.cell = c => ~ Wins(s, change)
                  \/ \E change \in sync[l].batch :
                       /\ change.cell = c /\ Wins(s, change)
                       /\ \A other \in sync[l].batch : other.cell = c => other = change
                       /\ new = Numbered(s, change.row)
<1> DEFINE s == sync[l].site
           changes == sync[l].batch
<1>1. s \in Sites /\ changes \subseteq Changes /\ rows[s][c] \in Rows
  BY DEF SyncInv, SyncTypeOK, Syncs
<1>2. CASE \E change \in changes : change.cell = c /\ Wins(s, change)
  <2>1. PICK won \in changes : won.cell = c /\ Wins(s, won)
    BY <1>2
  <2>2. \A other \in changes : other.cell = c => other = won
    BY <2>1 DEF SyncInv, BatchOK
  <2>3. (CHOOSE change \in changes : change.cell = c) = won
    BY <2>1, <2>2
  <2>4. Merged(s, changes, c) = Numbered(s, won.row)
    BY <1>2, <2>3 DEF Merged
  <2>5. won.row \in Rows
    BY <1>1, <2>1 DEF Changes
  <2>6. Numbered(s, won.row) \in Rows
    BY <1>1, <2>5, NumberedRow DEF SyncInv
  <2> QED BY <2>1, <2>2, <2>4, <2>6
<1>3. CASE ~ \E change \in changes : change.cell = c /\ Wins(s, change)
  BY <1>1, <1>3 DEF Merged
<1> QED BY <1>2, <1>3
-----------------------------------------------------------------------------
(* Steps that change no row, and those that do. *)

LEMMA Unmoved ==
    ASSUME SyncTypeOK, UNCHANGED <<rows, version, given>>
    PROVE  Grows
BY DEF Grows, SyncTypeOK

LEMMA WriteGrows ==
    ASSUME SyncInv, NEW s \in Sites, NEW c \in Cells, NEW v \in Values, Write(s, c, v)
    PROVE  Grows
<1> DEFINE row == [ver |-> rows[s][c].ver + 1, val |-> v, origin |-> s,
                   at |-> version[s] + 1]
<1>1. rows[s][c] \in Rows /\ version[s] \in Nat /\ rows[s][c].ver \in Nat
  BY RowNumbers DEF SyncInv, SyncTypeOK
<1>2. /\ rows' = [rows EXCEPT ![s][c] = row]
      /\ version' = [version EXCEPT ![s] = @ + 1]
      /\ given' = given \cup {<<c, Stamp(row)>>}
  BY DEF Write
<1>3. Less(Stamp(rows[s][c]), Stamp(row))
  BY <1>1, AtLeastIs DEF AtLeast
<1>4. \A p \in Sites, d \in Cells :
        rows'[p][d] = IF p = s /\ d = c THEN row ELSE rows[p][d]
  BY <1>2 DEF SyncInv, SyncTypeOK
<1>5. \A p \in Sites : version'[p] = IF p = s THEN version[p] + 1 ELSE version[p]
  BY <1>2 DEF SyncInv, SyncTypeOK
<1>6. \A p \in Sites : version[p] \in Nat
  BY DEF SyncInv, SyncTypeOK
<1> QED BY <1>1, <1>2, <1>3, <1>4, <1>5, <1>6 DEF Grows

LEMMA ApplyGrows ==
    ASSUME SyncInv, NEW l \in Loops, Apply(l)
    PROVE  Grows
<1> DEFINE s == sync[l].site
           changes == sync[l].batch
<1>1. sync[l] # Idle /\ s \in Sites
  BY DEF Apply, Idle, SyncInv, SyncTypeOK, Syncs
<1>2. PICK n \in Versions(s, changes) :
        /\ \A m \in Versions(s, changes) : m <= n
        /\ version' = [version EXCEPT ![s] = n]
  BY DEF Apply
<1>3. version[s] <= n /\ \A p \in Sites : version[p] \in Nat
  BY <1>1, <1>2 DEF Versions, SyncInv, SyncTypeOK
<1>4. \A p \in Sites : version'[p] = IF p = s THEN n ELSE version[p]
  BY <1>2 DEF SyncInv, SyncTypeOK
<1>5. \A p \in Sites, c \in Cells :
        rows'[p][c] = IF p = s THEN Merged(s, changes, c) ELSE rows[p][c]
  BY <1>1 DEF Apply, SyncInv, SyncTypeOK
<1>6. ASSUME NEW c \in Cells
      PROVE  \/ rows'[s][c] = rows[s][c]
             \/ /\ rows'[s][c].at > version[s] /\ rows'[s][c].at <= version'[s]
                /\ Less(Stamp(rows[s][c]), Stamp(rows'[s][c]))
                /\ <<c, Stamp(rows'[s][c])>> \in given'
                /\ rows'[s][c].origin \in Sites \ {s} =>
                      AtLeast(rows[rows'[s][c].origin][c], rows'[s][c])
  <2>1. CASE Merged(s, changes, c) = rows[s][c]
    BY <2>1, <1>1, <1>5
  <2>2. CASE \E change \in changes :
               /\ change.cell = c /\ Wins(s, change)
               /\ Merged(s, changes, c) = Numbered(s, change.row)
    <3>1. PICK change \in changes :
            /\ change.cell = c /\ Wins(s, change)
            /\ Merged(s, changes, c) = Numbered(s, change.row)
      BY <2>2
    <3>2. change.row \in Rows
      BY <3>1, <1>1 DEF SyncInv, SyncTypeOK, Syncs, Changes
    <3>3. /\ Stamp(Numbered(s, change.row)) = Stamp(change.row)
          /\ Numbered(s, change.row).origin = change.row.origin
          /\ Numbered(s, change.row).at > version[s]
      BY <3>2, <1>1, NumberedRow DEF SyncInv
    <3>4. Numbered(s, change.row).at \in Versions(s, changes)
      BY <3>1 DEF Versions
    <3>5. /\ <<c, Stamp(change.row)>> \in given
          /\ change.row.origin \in Sites =>
                AtLeast(rows[change.row.origin][c], change.row)
      BY <3>1, <1>1 DEF SyncInv, BatchOK
    <3>6. given' = given
      BY DEF Apply
    <3> QED BY <3>1, <3>3, <3>4, <3>5, <3>6, <1>1, <1>2, <1>4, <1>5 DEF Wins, AtLeast
  <2> QED BY <1>1, <2>1, <2>2, MergedRow
<1> QED BY <1>3, <1>4, <1>5, <1>6 DEF Grows, Apply
-----------------------------------------------------------------------------
(* What growing keeps. *)

LEMMA RowsOnlyGrow ==
    ASSUME SyncInv, SyncTypeOK', Grows
    PROVE  \A s \in Sites, c \in Cells :
             rows[s][c] \in Rows /\ rows'[s][c] \in Rows /\ AtLeast(rows'[s][c], rows[s][c])
<1>1. \A s \in Sites, c \in Cells : rows[s][c] \in Rows /\ rows'[s][c] \in Rows
  BY DEF SyncInv, SyncTypeOK
<1>2. ASSUME NEW s \in Sites, NEW c \in Cells
      PROVE  AtLeast(rows'[s][c], rows[s][c])
  <2>1. CASE rows'[s][c] = rows[s][c]
    BY <2>1, <1>1, AtLeastReflexive
  <2>2. CASE Less(Stamp(rows[s][c]), Stamp(rows'[s][c]))
    BY <2>2, <1>1, LessIsBelow DEF AtLeast
  <2> QED BY <2>1, <2>2 DEF Grows
<1> QED BY <1>1, <1>2

LEMMA StaysAtLeast ==
    ASSUME SyncInv, SyncTypeOK', Grows, NEW s \in Sites, NEW c \in Cells, NEW row \in Rows,
           AtLeast(rows[s][c], row)
    PROVE  AtLeast(rows'[s][c], row)
BY RowsOnlyGrow, AtLeastTransitive

LEMMA StaysCovered ==
    ASSUME SyncInv, SyncTypeOK', Grows, NEW s \in Sites, NEW p \in Sites, NEW v \in Nat,
           Covered(s, p, v)
    PROVE  Covered(s, p, v)'
<1>1. v <= version'[p]
  <2>1. version[p] \in Nat /\ version'[p] \in Nat
    BY DEF SyncInv, SyncTypeOK
  <2> QED BY <2>1 DEF Covered, Grows
<1>2. ASSUME NEW c \in Cells, rows'[p][c].at <= v
      PROVE  AtLeast(rows'[s][c], rows'[p][c])
  <2>1. /\ version[p] \in Nat /\ rows'[p][c].at \in Nat
        /\ rows[p][c] \in Rows
    BY RowNumbers DEF SyncInv, SyncTypeOK
  <2>2. rows'[p][c] = rows[p][c]
    <3>1. v <= version[p]
      BY DEF Covered
    <3> QED BY <1>2, <2>1, <3>1, GrownRow
  <2> QED BY <1>2, <2>1, <2>2, StaysAtLeast DEF Covered
<1> QED BY <1>1, <1>2 DEF Covered, AtLeast, Less, Stamp

LEMMA GrowthKeeps ==
    ASSUME SyncInv, SyncTypeOK', Grows
    PROVE  NumberedByVersion' /\ OwnIsKnown' /\ AllGiven'
<1>1. NumberedByVersion'
  <2>1. SUFFICES ASSUME NEW s \in Sites, NEW c \in Cells
                 PROVE  /\ rows'[s][c].at <= version'[s]
                        /\ rows'[s][c].at = 0 => rows'[s][c] = NoRow
    BY DEF NumberedByVersion
  <2>2. /\ version[s] \in Nat /\ version'[s] \in Nat
        /\ rows[s][c].at \in Nat /\ rows'[s][c].at \in Nat
    BY RowNumbers DEF SyncInv, SyncTypeOK
  <2>3. rows[s][c].at <= version[s] /\ (rows[s][c].at = 0 => rows[s][c] = NoRow)
    BY DEF SyncInv, NumberedByVersion
  <2>4. CASE rows'[s][c] = rows[s][c]
    BY <2>2, <2>3, <2>4, GrownRow
  <2>5. CASE rows'[s][c].at > version[s] /\ rows'[s][c].at <= version'[s]
    BY <2>2, <2>5
  <2> QED BY <2>4, <2>5, GrownRow
<1>2. OwnIsKnown'
  <2>1. SUFFICES ASSUME NEW s \in Sites, NEW p \in Sites, NEW c \in Cells,
                        rows'[p][c].origin = s
                 PROVE  AtLeast(rows'[s][c], rows'[p][c])
    BY DEF OwnIsKnown, AtLeast, Less, Stamp
  <2>2. rows'[p][c] \in Rows /\ rows[p][c] \in Rows
    BY DEF SyncInv, SyncTypeOK
  <2>3. CASE rows'[p][c] = rows[p][c]
    BY <2>1, <2>2, <2>3, StaysAtLeast DEF SyncInv, OwnIsKnown
  <2>4. CASE s = p
    BY <2>2, <2>4, AtLeastReflexive
  <2>5. CASE s # p /\ rows'[p][c] # rows[p][c]
    <3>1. AtLeast(rows[s][c], rows'[p][c])
      BY <2>1, <2>5 DEF Grows
    <3> QED BY <3>1, <2>2, StaysAtLeast
  <2> QED BY <2>3, <2>4, <2>5
<1>3. AllGiven'
  BY DEF SyncInv, AllGiven, Grows
<1> QED BY <1>1, <1>2, <1>3

LEMMA BatchStays ==
    ASSUME SyncInv, SyncTypeOK', Grows, NEW l \in Loops, sync[l] # Idle, sync'[l] = sync[l]
    PROVE  Covered(sync[l].site, sync[l].peer, sync[l].since)' /\ BatchOK(l)'
<1> DEFINE s == sync[l].site
           p == sync[l].peer
           changes == sync[l].batch
<1>1. s \in Sites /\ p \in Sites /\ sync[l].since \in Nat /\ changes \subseteq Changes
  BY DEF SyncInv, SyncTypeOK, Syncs
<1>2. Covered(s, p, sync[l].since) /\ BatchOK(l)
  BY DEF SyncInv
<1>3. Covered(sync[l].site, sync[l].peer, sync[l].since)'
  <2>1. ASSUME NEW v \in Nat, Covered(s, p, v)
        PROVE  /\ v <= version'[p]
               /\ \A c \in Cells : rows'[p][c].at <= v => AtLeast(rows'[s][c], rows'[p][c])
    BY <1>1, <2>1, StaysCovered DEF Covered, AtLeast, Less, Stamp
  <2> QED BY <1>1, <1>2, <2>1 DEF Covered, AtLeast, Less, Stamp
<1>4. ASSUME NEW change \in changes
      PROVE  /\ change.row.at > 0 /\ change.row.at <= version'[p]
             /\ <<change.cell, Stamp(change.row)>> \in given'
             /\ change.row.origin \in Sites =>
                   AtLeast(rows'[change.row.origin][change.cell], change.row)
             /\ \A c \in Cells : rows'[p][c].at <= change.row.at =>
                   \/ AtLeast(rows'[s][c], rows'[p][c])
                   \/ [cell |-> c, row |-> rows'[p][c]] \in changes
             /\ sync[l].stage = "applied" => AtLeast(rows'[s][change.cell], change.row)
  <2>1. change.cell \in Cells /\ change.row \in Rows /\ change.row.at \in Nat
    BY <1>1, RowNumbers DEF Changes
  <2>2. version[p] \in Nat /\ version'[p] \in Nat
    BY <1>1 DEF SyncInv, SyncTypeOK
  <2>3. change.row.at > 0 /\ change.row.at <= version[p]
    BY <1>2 DEF BatchOK
  <2>4. change.row.at <= version'[p]
    BY <1>1, <2>1, <2>2, <2>3 DEF Grows
  <2>5. ASSUME NEW c \in Cells, rows'[p][c].at <= change.row.at
        PROVE  \/ AtLeast(rows'[s][c], rows'[p][c])
               \/ [cell |-> c, row |-> rows'[p][c]] \in changes
    <3>1. rows'[p][c].at \in Nat /\ rows[p][c] \in Rows
      BY <1>1, RowNumbers DEF SyncInv, SyncTypeOK
    <3>2. rows'[p][c] = rows[p][c]
      BY <1>1, <2>1, <2>2, <2>3, <2>5, <3>1, GrownRow
    <3>3. \/ AtLeast(rows[s][c], rows[p][c])
          \/ [cell |-> c, row |-> rows[p][c]] \in changes
      BY <1>2, <2>5, <3>2 DEF BatchOK
    <3> QED BY <1>1, <3>1, <3>2, <3>3, StaysAtLeast
  <2>6. change.row.origin \in Sites =>
            AtLeast(rows'[change.row.origin][change.cell], change.row)
    BY <1>2, <2>1, StaysAtLeast DEF BatchOK
  <2>7. sync[l].stage = "applied" => AtLeast(rows'[s][change.cell], change.row)
    BY <1>1, <1>2, <2>1, StaysAtLeast DEF BatchOK
  <2>8. <<change.cell, Stamp(change.row)>> \in given'
    BY <1>2 DEF BatchOK, Grows
  <2> QED BY <2>3, <2>4, <2>5, <2>6, <2>7, <2>8
<1>5. \A change \in changes, other \in changes : other.cell = change.cell => other = change
  BY <1>2 DEF BatchOK
<1>6. BatchOK(l)'
  BY <1>4, <1>5 DEF BatchOK, AtLeast, Less, Stamp
<1> QED BY <1>3, <1>6
-----------------------------------------------------------------------------
(* Types. *)

LEMMA InitTypeOK == SyncInit => SyncTypeOK
BY SyncInstance DEF SyncInit, SyncTypeOK, Rows, NoRow

LEMMA VersionsAreNumbers ==
    ASSUME SyncTypeOK, NEW s \in Sites, NEW changes \in SUBSET Changes
    PROVE  Versions(s, changes) \subseteq Nat
<1>1. version[s] \in Nat
  BY DEF SyncTypeOK
<1>2. \A change \in changes : change.row \in Rows
  BY DEF Changes
<1>3. \A change \in changes : Numbered(s, change.row).at \in Nat
  BY <1>2, NumberedRow, RowNumbers
<1> QED BY <1>1, <1>3 DEF Versions

LEMMA ApplyTypeOK ==
    ASSUME SyncInv, NEW l \in Loops, Apply(l)
    PROVE  SyncTypeOK'
<1> DEFINE s == sync[l].site
           changes == sync[l].batch
<1>1. sync[l] # Idle /\ sync[l] \in Syncs /\ s \in Sites /\ changes \in SUBSET Changes
  BY DEF Apply, Idle, SyncInv, SyncTypeOK, Syncs
<1>2. PICK n \in Versions(s, changes) : version' = [version EXCEPT ![s] = n]
  BY DEF Apply
<1>3. version' \in [Sites -> Nat]
  BY <1>1, <1>2, VersionsAreNumbers DEF SyncInv, SyncTypeOK
<1>4. \A c \in Cells : Merged(s, changes, c) \in Rows
  BY <1>1, MergedRow
<1>5. rows' \in [Sites -> [Cells -> Rows]]
  BY <1>1, <1>4 DEF Apply, SyncInv, SyncTypeOK
<1>6. sync' \in [Loops -> Syncs \cup {Idle}]
  <2>1. [sync[l] EXCEPT !.stage = "applied"] \in Syncs
    BY <1>1 DEF Syncs
  <2> QED BY <2>1 DEF Apply, SyncInv, SyncTypeOK
<1> QED BY <1>3, <1>5, <1>6 DEF Apply, SyncInv, SyncTypeOK

LEMMA TrackTypeOK ==
    ASSUME SyncInv, NEW l \in Loops, Track(l)
    PROVE  SyncTypeOK'
<1>1. sync[l] # Idle /\ sync[l] \in Syncs
  BY DEF Track, Idle, SyncInv, SyncTypeOK
<1>2. PICK change \in sync[l].batch :
        tracked' = [tracked EXCEPT ![sync[l].site][sync[l].peer] = change.row.at]
  BY DEF Track
<1>3. change.row \in Rows
  BY <1>1, <1>2 DEF Syncs, Changes
<1>4. change.row.at \in Nat
  BY <1>3, RowNumbers
<1>5. tracked' \in [Sites -> [Sites -> Nat]]
  BY <1>1, <1>2, <1>4 DEF SyncInv, SyncTypeOK, Syncs
<1> QED BY <1>5 DEF Track, SyncInv, SyncTypeOK

LEMMA PullTypeOK ==
    ASSUME SyncInv, NEW l \in Loops, Pull(l)
    PROVE  SyncTypeOK'
<1>1. sync[l] # Idle /\ sync[l] \in Syncs
  BY DEF Pull, Idle, SyncInv, SyncTypeOK
<1>2. Beyond(sync[l].site, sync[l].peer, sync[l].since) \in SUBSET Changes
  BY <1>1 DEF Beyond, Changes, SyncInv, SyncTypeOK, Syncs
<1>3. [sync[l] EXCEPT !.batch = Beyond(sync[l].site, sync[l].peer, sync[l].since),
                      !.stage = "pulled"] \in Syncs
  BY <1>1, <1>2 DEF Syncs
<1>4. sync' \in [Loops -> Syncs \cup {Idle}]
  BY <1>3 DEF Pull, SyncInv, SyncTypeOK
<1> QED BY <1>4 DEF Pull, SyncInv, SyncTypeOK

LEMMA WriteTypeOK ==
    ASSUME SyncInv, NEW s \in Sites, NEW c \in Cells, NEW v \in Values, Write(s, c, v)
    PROVE  SyncTypeOK'
<1> DEFINE row == [ver |-> rows[s][c].ver + 1, val |-> v, origin |-> s,
                   at |-> version[s] + 1]
<1>1. rows[s][c] \in Rows /\ version[s] \in Nat /\ rows[s][c].ver \in Nat
  BY RowNumbers DEF SyncInv, SyncTypeOK
<1>2. row \in Rows
  BY <1>1 DEF Rows
<1>3. Stamp(row) \in [ver : Nat, val : Values \cup {0}]
  BY <1>1 DEF Stamp
<1>4. rows' \in [Sites -> [Cells -> Rows]]
  BY <1>2 DEF Write, SyncInv, SyncTypeOK
<1>5. version' \in [Sites -> Nat]
  BY <1>1 DEF Write, SyncInv, SyncTypeOK
<1>6. given' \subseteq Cells \X [ver : Nat, val : Values \cup {0}]
  BY <1>3 DEF Write, SyncInv, SyncTypeOK
<1> QED BY <1>4, <1>5, <1>6 DEF Write, SyncInv, SyncTypeOK

\* Every step keeps the types.
LEMMA NextTypeOK ==
    ASSUME SyncInv, [SyncNext]_syncVars
    PROVE  SyncTypeOK'
<1>1. CASE UNCHANGED syncVars
  BY <1>1 DEF syncVars, SyncInv, SyncTypeOK
<1>2. ASSUME NEW s \in Sites, Open(s) PROVE SyncTypeOK'
  BY <1>2 DEF Open, SyncInv, SyncTypeOK
<1>3. ASSUME NEW s \in Sites, CloseScope(s) \/ SiteCrash(s) PROVE SyncTypeOK'
  <2>1. sync' \in [Loops -> Syncs \cup {Idle}]
    BY <1>3 DEF CloseScope, SiteCrash, Stopped, SyncInv, SyncTypeOK
  <2>2. link' \in [Sites -> {"closed", "released"} \cup ServiceKinds]
    BY <1>3 DEF CloseScope, SiteCrash, SyncInv, SyncTypeOK
  <2> QED BY <1>3, <2>1, <2>2 DEF CloseScope, SiteCrash, SyncInv, SyncTypeOK
<1>4. ASSUME NEW s \in Sites, NEW t \in Tables, Migrate(s, t) PROVE SyncTypeOK'
  BY <1>4 DEF Migrate, SyncInv, SyncTypeOK
<1>5. ASSUME NEW l \in Loops, NEW s \in Sites, NEW p \in Sites, BeginSync(l, s, p) PROVE SyncTypeOK'
  BY <1>5 DEF BeginSync, SyncInv, SyncTypeOK, Syncs
<1>6. ASSUME NEW l \in Loops, GiveUp(l) PROVE SyncTypeOK'
  BY <1>6 DEF GiveUp, SyncInv, SyncTypeOK
<1> QED BY <1>1, <1>2, <1>3, <1>4, <1>5, <1>6,
           ApplyTypeOK, TrackTypeOK, PullTypeOK, WriteTypeOK DEF SyncNext
-----------------------------------------------------------------------------
(* The invariant. *)

LEMMA InitInv == SyncInit => SyncInv
<1> SUFFICES ASSUME SyncInit PROVE SyncInv
  OBVIOUS
<1>1. \A s \in Sites, c \in Cells : rows[s][c] = NoRow
  BY DEF SyncInit
<1>2. AtLeast(NoRow, NoRow) /\ NoRow.at = 0
  BY AtLeastReflexive DEF NoRow, Rows
<1>3. NumberedByVersion /\ OwnIsKnown /\ AllGiven
  BY <1>1, <1>2 DEF SyncInit, NumberedByVersion, OwnIsKnown, AllGiven
<1>4. \A s, p \in Sites : Covered(s, p, tracked[s][p])
  BY <1>1, <1>2 DEF SyncInit, Covered
<1> QED BY <1>3, <1>4, InitTypeOK DEF SyncInit, SyncInv

\* What a step has to show of the tracked versions and of its loop.
LEMMA StepKeeps ==
    ASSUME SyncInv, SyncTypeOK', Grows,
           \A s, p \in Sites :
              tracked'[s][p] # tracked[s][p] => Covered(s, p, tracked'[s][p]),
           \A l \in Loops :
              sync'[l] # Idle /\ sync'[l] # sync[l] =>
                 Covered(sync[l].site, sync[l].peer, sync[l].since)' /\ BatchOK(l)'
    PROVE  SyncInv'
<1>1. ASSUME NEW s \in Sites, NEW p \in Sites
      PROVE  Covered(s, p, tracked[s][p])'
  <2>1. tracked'[s][p] \in Nat /\ Covered(s, p, tracked'[s][p])
    BY DEF SyncInv, SyncTypeOK
  <2>2. ASSUME NEW v \in Nat, Covered(s, p, v)
        PROVE  /\ v <= version'[p]
               /\ \A c \in Cells : rows'[p][c].at <= v => AtLeast(rows'[s][c], rows'[p][c])
    BY <2>2, StaysCovered DEF Covered, AtLeast, Less, Stamp
  <2> QED BY <2>1, <2>2 DEF Covered, AtLeast, Less, Stamp
<1>2. ASSUME NEW l \in Loops, sync'[l] # Idle
      PROVE  Covered(sync[l].site, sync[l].peer, sync[l].since)' /\ BatchOK(l)'
  BY <1>2, BatchStays
<1> QED BY <1>1, <1>2, GrowthKeeps DEF SyncInv

LEMMA QuietKeeps ==
    ASSUME SyncInv, SyncTypeOK', UNCHANGED <<rows, version, given, tracked>>,
           \A l \in Loops : sync'[l] = Idle \/ sync'[l] = sync[l]
    PROVE  SyncInv'
BY Unmoved, StepKeeps DEF SyncInv

LEMMA BeginKeeps ==
    ASSUME SyncInv, SyncTypeOK', NEW l \in Loops, NEW s \in Sites, NEW p \in Sites, BeginSync(l, s, p)
    PROVE  SyncInv'
<1>1. Grows
  BY Unmoved DEF SyncInv, BeginSync
<1>2. /\ sync'[l].site = s /\ sync'[l].peer = p /\ sync'[l].since = tracked[s][p]
      /\ sync'[l].batch = {}
      /\ \A k \in Loops \ {l} : sync'[k] = sync[k]
  BY DEF BeginSync, SyncInv, SyncTypeOK
<1>3. Covered(s, p, tracked[s][p]) /\ UNCHANGED <<rows, version>>
  BY DEF SyncInv, BeginSync
<1>4. Covered(sync[l].site, sync[l].peer, sync[l].since)'
  BY <1>2, <1>3 DEF Covered, AtLeast, Less, Stamp
<1>5. BatchOK(l)'
  BY <1>2 DEF BatchOK
<1> QED BY <1>1, <1>2, <1>4, <1>5, StepKeeps DEF BeginSync

\* What a pull brings is everything the site may lack up to each of its rows.
LEMMA PullKeeps ==
    ASSUME SyncInv, SyncTypeOK', NEW l \in Loops, Pull(l)
    PROVE  SyncInv'
<1> DEFINE s == sync[l].site
           p == sync[l].peer
           changes == Beyond(s, p, sync[l].since)
<1>1. sync[l] # Idle /\ sync[l] \in Syncs
  BY DEF Pull, Idle, SyncInv, SyncTypeOK
<1>2. s \in Sites /\ p \in Sites /\ sync[l].since \in Nat
  BY <1>1 DEF Syncs
<1>3. UNCHANGED <<rows, version, given, tracked>> /\ Grows
  BY Unmoved DEF Pull, SyncInv
<1>4. /\ sync'[l].site = s /\ sync'[l].peer = p /\ sync'[l].since = sync[l].since
      /\ sync'[l].batch = changes /\ sync'[l].stage = "pulled"
      /\ \A k \in Loops \ {l} : sync'[k] = sync[k]
  BY <1>1 DEF Pull, SyncInv, SyncTypeOK, Syncs
<1>5. Covered(s, p, sync[l].since)
  BY <1>1 DEF SyncInv
<1>6. Covered(sync[l].site, sync[l].peer, sync[l].since)'
  BY <1>3, <1>4, <1>5 DEF Covered, AtLeast, Less, Stamp
<1>7. ASSUME NEW change \in changes
      PROVE  /\ change.row.at > 0 /\ change.row.at <= version[p]
             /\ <<change.cell, Stamp(change.row)>> \in given
             /\ \A other \in changes : other.cell = change.cell => other = change
             /\ change.row.origin \in Sites =>
                   AtLeast(rows[change.row.origin][change.cell], change.row)
             /\ \A c \in Cells : rows[p][c].at <= change.row.at =>
                   \/ AtLeast(rows[s][c], rows[p][c])
                   \/ [cell |-> c, row |-> rows[p][c]] \in changes
  <2>1. /\ change.cell \in Cells /\ change.row = rows[p][change.cell]
        /\ change.row.at > sync[l].since
    BY DEF Beyond
  <2>2. change.row \in Rows /\ change.row.at \in Nat
    BY <1>2, <2>1, RowNumbers DEF SyncInv, SyncTypeOK
  <2>3. change.row.at <= version[p] /\ change.row.at > 0
    BY <1>2, <2>1, <2>2 DEF SyncInv, NumberedByVersion
  <2>4. <<change.cell, Stamp(change.row)>> \in given
    BY <1>2, <2>1, <2>3 DEF SyncInv, AllGiven
  <2>5. \A other \in changes : other.cell = change.cell => other = change
    BY DEF Beyond
  <2>6. change.row.origin \in Sites =>
            AtLeast(rows[change.row.origin][change.cell], change.row)
    BY <1>2, <2>1 DEF SyncInv, OwnIsKnown
  <2>7. ASSUME NEW c \in Cells, ~ AtLeast(rows[s][c], rows[p][c])
        PROVE  [cell |-> c, row |-> rows[p][c]] \in changes
    <3>1. rows[p][c].origin # s
      BY <1>2, <2>7 DEF SyncInv, OwnIsKnown
    <3>2. rows[p][c].at > sync[l].since
      <4>1. ~ (rows[p][c].at <= sync[l].since)
        BY <1>5, <2>7 DEF Covered
      <4>2. rows[p][c].at \in Nat
        BY <1>2, RowNumbers DEF SyncInv, SyncTypeOK
      <4> QED BY <1>2, <4>1, <4>2
    <3> QED BY <3>1, <3>2 DEF Beyond
  <2> QED BY <2>3, <2>4, <2>5, <2>6, <2>7
<1>8. BatchOK(l)'
  BY <1>3, <1>4, <1>7 DEF BatchOK, AtLeast, Less, Stamp
<1> QED BY <1>3, <1>4, <1>6, <1>8, StepKeeps

LEMMA WriteKeeps ==
    ASSUME SyncInv, SyncTypeOK', NEW s \in Sites, NEW c \in Cells, NEW v \in Values, Write(s, c, v)
    PROVE  SyncInv'
BY WriteGrows, StepKeeps DEF Write

\* Once a batch is applied the site has what is in it, or something greater.
LEMMA ApplyKeeps ==
    ASSUME SyncInv, SyncTypeOK', NEW l \in Loops, Apply(l)
    PROVE  SyncInv'
<1> DEFINE s == sync[l].site
           p == sync[l].peer
           changes == sync[l].batch
<1>1. sync[l] # Idle /\ sync[l] \in Syncs
  BY DEF Apply, Idle, SyncInv, SyncTypeOK
<1>2. s \in Sites /\ p \in Sites /\ sync[l].since \in Nat /\ changes \subseteq Changes
  BY <1>1 DEF Syncs
<1>3. Grows
  BY ApplyGrows
<1>4. /\ sync'[l].site = s /\ sync'[l].peer = p /\ sync'[l].since = sync[l].since
      /\ sync'[l].batch = changes /\ sync'[l].stage = "applied"
      /\ \A k \in Loops \ {l} : sync'[k] = sync[k]
  BY <1>1 DEF Apply, SyncInv, SyncTypeOK, Syncs
<1>5. \A v \in Nat : Covered(s, p, v) =>
         /\ v <= version'[p]
         /\ \A c \in Cells : rows'[p][c].at <= v => AtLeast(rows'[s][c], rows'[p][c])
  BY <1>2, <1>3, StaysCovered DEF Covered, AtLeast, Less, Stamp
<1>6. Covered(sync[l].site, sync[l].peer, sync[l].since)'
  <2>1. Covered(s, p, sync[l].since)
    BY <1>1 DEF SyncInv
  <2> QED BY <1>2, <1>4, <1>5, <2>1 DEF Covered, AtLeast, Less, Stamp
<1>7. ASSUME NEW change \in changes
      PROVE  AtLeast(rows'[s][change.cell], change.row)
  <2>1. change.cell \in Cells /\ change.row \in Rows /\ rows[s][change.cell] \in Rows
    BY <1>2 DEF Changes, SyncInv, SyncTypeOK
  <2>2. rows'[s][change.cell] = Merged(s, changes, change.cell)
    BY <1>2, <2>1 DEF Apply, SyncInv, SyncTypeOK
  <2>3. CASE ~ Wins(s, change)
    <3>1. AtLeast(rows[s][change.cell], change.row)
      BY <2>3 DEF Wins, AtLeast
    <3> QED BY <1>2, <1>3, <2>1, <3>1, StaysAtLeast
  <2>4. CASE Wins(s, change)
    <3>1. Merged(s, changes, change.cell) = Numbered(s, change.row)
      BY <1>1, <2>1, <2>4, MergedRow
    <3>2. Stamp(Numbered(s, change.row)) = Stamp(change.row)
      BY <1>2, <2>1, NumberedRow DEF SyncInv
    <3>3. AtLeast(change.row, change.row)
      BY <2>1, AtLeastReflexive
    <3> QED BY <2>2, <3>1, <3>2, <3>3 DEF AtLeast
  <2> QED BY <2>3, <2>4
<1>8. ASSUME NEW change \in changes
      PROVE  /\ change.row.at > 0 /\ change.row.at <= version'[p]
             /\ <<change.cell, Stamp(change.row)>> \in given'
             /\ \A other \in changes : other.cell = change.cell => other = change
             /\ change.row.origin \in Sites =>
                   AtLeast(rows'[change.row.origin][change.cell], change.row)
             /\ \A c \in Cells : rows'[p][c].at <= change.row.at =>
                   \/ AtLeast(rows'[s][c], rows'[p][c])
                   \/ [cell |-> c, row |-> rows'[p][c]] \in changes
  <2>1. change.cell \in Cells /\ change.row \in Rows /\ change.row.at \in Nat
    BY <1>2, RowNumbers DEF Changes
  <2>2. BatchOK(l)
    BY <1>1 DEF SyncInv
  <2>3. version[p] \in Nat /\ version'[p] \in Nat /\ version[p] <= version'[p]
    BY <1>2, <1>3 DEF SyncInv, SyncTypeOK, Grows
  <2>4. change.row.at > 0 /\ change.row.at <= version[p]
    BY <2>2 DEF BatchOK
  <2>5. <<change.cell, Stamp(change.row)>> \in given'
    BY <1>3, <2>2 DEF BatchOK, Grows
  <2>6. \A other \in changes : other.cell = change.cell => other = change
    BY <2>2 DEF BatchOK
  <2>7. change.row.origin \in Sites =>
            AtLeast(rows'[change.row.origin][change.cell], change.row)
    BY <1>3, <2>1, <2>2, StaysAtLeast DEF BatchOK
  <2>8. ASSUME NEW c \in Cells, rows'[p][c].at <= change.row.at
        PROVE  \/ AtLeast(rows'[s][c], rows'[p][c])
               \/ [cell |-> c, row |-> rows'[p][c]] \in changes
    <3>1. rows'[p][c].at \in Nat /\ rows[p][c] \in Rows
      BY <1>2, RowNumbers DEF SyncInv, SyncTypeOK
    <3>2. rows'[p][c] = rows[p][c]
      BY <1>2, <1>3, <2>1, <2>3, <2>4, <2>8, <3>1, GrownRow
    <3>3. \/ AtLeast(rows[s][c], rows[p][c])
          \/ [cell |-> c, row |-> rows[p][c]] \in changes
      BY <2>2, <2>8, <3>2 DEF BatchOK
    <3> QED BY <1>2, <1>3, <3>1, <3>2, <3>3, StaysAtLeast
  <2> QED BY <2>1, <2>3, <2>4, <2>5, <2>6, <2>7, <2>8
<1>9. BatchOK(l)'
  BY <1>4, <1>7, <1>8 DEF BatchOK, AtLeast, Less, Stamp
<1> QED BY <1>3, <1>4, <1>6, <1>9, StepKeeps DEF Apply

\* The highest version of an applied batch: below it nothing is lacking.
LEMMA TrackKeeps ==
    ASSUME SyncInv, SyncTypeOK', NEW l \in Loops, Track(l)
    PROVE  SyncInv'
<1> DEFINE s == sync[l].site
           p == sync[l].peer
<1>1. sync[l] # Idle /\ sync[l] \in Syncs /\ sync[l].stage = "applied"
  BY DEF Track, Idle, SyncInv, SyncTypeOK
<1>2. s \in Sites /\ p \in Sites /\ sync[l].batch \subseteq Changes
  BY <1>1 DEF Syncs
<1>3. PICK change \in sync[l].batch :
        /\ \A other \in sync[l].batch : other.row.at <= change.row.at
        /\ tracked' = [tracked EXCEPT ![s][p] = change.row.at]
  BY DEF Track
<1>4. BatchOK(l)
  BY <1>1 DEF SyncInv
<1>5. Covered(s, p, change.row.at)
  <2>1. ASSUME NEW c \in Cells, rows[p][c].at <= change.row.at
        PROVE  AtLeast(rows[s][c], rows[p][c])
    <3>1. CASE [cell |-> c, row |-> rows[p][c]] \in sync[l].batch
      BY <1>1, <1>4, <3>1 DEF BatchOK
    <3> QED BY <1>4, <2>1, <3>1 DEF BatchOK
  <2> QED BY <1>4, <2>1 DEF BatchOK, Covered
<1>6. \A q, r \in Sites :
        tracked'[q][r] # tracked[q][r] => Covered(q, r, tracked'[q][r])
  <2>1. \A q, r \in Sites :
          tracked'[q][r] = IF q = s /\ r = p THEN change.row.at ELSE tracked[q][r]
    BY <1>2, <1>3 DEF SyncInv, SyncTypeOK
  <2> QED BY <1>5, <2>1
<1>7. \A k \in Loops : sync'[k] = Idle \/ sync'[k] = sync[k]
  BY DEF Track, SyncInv, SyncTypeOK
<1> QED BY <1>6, <1>7, Unmoved, StepKeeps DEF Track, SyncInv

LEMMA NextInv ==
    ASSUME SyncInv, [SyncNext]_syncVars
    PROVE  SyncInv'
<1> SyncTypeOK'
  BY NextTypeOK
<1>1. CASE UNCHANGED syncVars
  BY <1>1, QuietKeeps DEF syncVars
<1>2. ASSUME NEW s \in Sites, Open(s) PROVE SyncInv'
  BY <1>2, QuietKeeps DEF Open
<1>3. ASSUME NEW s \in Sites, CloseScope(s) \/ SiteCrash(s) PROVE SyncInv'
  BY <1>3, QuietKeeps DEF CloseScope, SiteCrash, Stopped
<1>4. ASSUME NEW s \in Sites, NEW t \in Tables, Migrate(s, t) PROVE SyncInv'
  BY <1>4, QuietKeeps DEF Migrate
<1>5. ASSUME NEW l \in Loops, GiveUp(l) PROVE SyncInv'
  <2>1. \A k \in Loops : sync'[k] = Idle \/ sync'[k] = sync[k]
    BY <1>5 DEF GiveUp, SyncInv, SyncTypeOK
  <2> QED BY <1>5, <2>1, QuietKeeps DEF GiveUp
<1> QED BY <1>1, <1>2, <1>3, <1>4, <1>5,
           BeginKeeps, PullKeeps, WriteKeeps, ApplyKeeps, TrackKeeps DEF SyncNext

LEMMA SyncInvariance == SyncSpec => []SyncInv
BY InitInv, NextInv, PTL DEF SyncSpec
-----------------------------------------------------------------------------
(* The theorems. *)

\* The types, for any instance.
THEOREM Types == SyncSpec => []SyncTypeOK
<1>1. SyncInv => SyncTypeOK
  BY DEF SyncInv
<1> QED BY <1>1, SyncInvariance, PTL

\* A tracked version never promises more of a peer than the site has, for any
\* number of sites, cells and overlapping loops.
THEOREM TrackedIsCoveredAlways == SyncSpec => []TrackedIsCovered
<1>1. SyncInv => TrackedIsCovered
  BY Zenon DEF SyncInv, TrackedIsCovered, Covered, AtLeast
<1> QED BY <1>1, SyncInvariance, PTL

\* When no site would pull anything from any other, all have the same values.
THEOREM Convergence == SyncSpec => []NothingLeftIsConverged
<1>1. ASSUME SyncInv, \A s, p \in Sites : s # p => Beyond(s, p, tracked[s][p]) = {},
             NEW s \in Sites, NEW p \in Sites, NEW c \in Cells
      PROVE  AtLeast(rows[s][c], rows[p][c])
  <2>1. rows[p][c] \in Rows /\ rows[p][c].at \in Nat /\ tracked[s][p] \in Nat
    BY <1>1, RowNumbers DEF SyncInv, SyncTypeOK
  <2>2. CASE s = p
    BY <2>1, <2>2, AtLeastReflexive
  <2>3. CASE rows[p][c].origin = s
    BY <1>1, <2>3 DEF SyncInv, OwnIsKnown
  <2>4. CASE rows[p][c].at <= tracked[s][p]
    BY <1>1, <2>4 DEF SyncInv, Covered
  <2>5. CASE s # p /\ rows[p][c].origin # s /\ ~ (rows[p][c].at <= tracked[s][p])
    <3>1. [cell |-> c, row |-> rows[p][c]] \in Beyond(s, p, tracked[s][p])
      BY <2>1, <2>5 DEF Beyond
    <3> QED BY <1>1, <2>5, <3>1
  <2> QED BY <2>2, <2>3, <2>4, <2>5
<1>2. ASSUME NEW a \in Rows, NEW b \in Rows, AtLeast(a, b), AtLeast(b, a)
      PROVE  Stamp(a) = Stamp(b)
  <2>1. a.ver = b.ver /\ a.val = b.val
    BY <1>2, RowNumbers, AtLeastIs
  <2> QED BY <2>1 DEF Stamp
<1>3. SyncInv => NothingLeftIsConverged
  <2>1. SyncInv => \A s \in Sites, c \in Cells : rows[s][c] \in Rows
    BY DEF SyncInv, SyncTypeOK
  <2> QED BY <1>1, <1>2, <2>1 DEF NothingLeftIsConverged
<1> QED BY <1>3, SyncInvariance, PTL

Stamps == [s \in Sites |-> [c \in Cells |-> Stamp(rows[s][c])]]

LEMMA InitMaps == SyncInit => Map!Init
BY DEF SyncInit, Map!Init, Map!Unwritten, Stamp, NoRow

LEMMA WriteMaps ==
    ASSUME SyncInv, NEW s \in Sites, NEW c \in Cells, NEW v \in Values, Write(s, c, v)
    PROVE  Map!Write(s, c, v)
<1> DEFINE row == [ver |-> rows[s][c].ver + 1, val |-> v, origin |-> s,
                   at |-> version[s] + 1]
           new == [ver |-> Stamps[s][c].ver + 1, val |-> v]
<1>1. rows' = [rows EXCEPT ![s][c] = row] /\ given' = given \cup {<<c, Stamp(row)>>}
  BY DEF Write
<1>2. Stamps[s][c].ver = rows[s][c].ver
  BY DEF Stamps, Stamp
<1>3. new = Stamp(row)
  BY <1>2 DEF Stamp
<1>4. \A p \in Sites, d \in Cells :
        rows'[p][d] = IF p = s /\ d = c THEN row ELSE rows[p][d]
  BY <1>1 DEF SyncInv, SyncTypeOK
<1>5. \A p \in Sites, d \in Cells :
        Stamp(rows'[p][d]) = IF p = s /\ d = c THEN new ELSE Stamp(rows[p][d])
  BY <1>3, <1>4
<1>6. Stamps' = [Stamps EXCEPT ![s][c] = new]
  <2> HIDE DEF new, row
  <2>1. Stamps' = [p \in Sites |-> [d \in Cells |-> Stamp(rows'[p][d])]]
    BY DEF Stamps, Stamp
  <2> QED BY <1>5, <2>1 DEF Stamps
<1> QED BY <1>1, <1>3, <1>6 DEF Map!Write, Stamps

LEMMA ApplyMaps ==
    ASSUME SyncInv, NEW l \in Loops, Apply(l), SyncTypeOK'
    PROVE  Map!Join(sync[l].site)
<1> DEFINE s == sync[l].site
<1>1. Grows
  BY ApplyGrows
<1>2. Stamps' = [p \in Sites |-> [c \in Cells |-> Stamp(rows'[p][c])]]
  BY DEF Stamps, Stamp
<1>3. \A p \in Sites, c \in Cells : Stamp(rows'[p][c]) \in Map!Stamps
  BY DEF SyncTypeOK, Rows, Stamp, Map!Stamps
<1>4. \A t \in Sites \ {s} : Stamps'[t] = Stamps[t]
  <2>1. \A t \in Sites \ {s} : rows'[t] = rows[t]
    BY DEF Apply, SyncInv, SyncTypeOK
  <2> QED BY <1>2, <2>1 DEF Stamps
<1>5. s \in Sites /\ given' = given
  BY DEF Apply, Idle, SyncInv, SyncTypeOK, Syncs
<1>6. \A c \in Cells :
         \/ rows'[s][c] = rows[s][c]
         \/ /\ Less(Stamp(rows[s][c]), Stamp(rows'[s][c]))
            /\ <<c, Stamp(rows'[s][c])>> \in given
  BY <1>1, <1>5 DEF Grows
<1>7. \A c \in Cells :
         Stamps'[s][c] # Stamps[s][c] =>
            Map!Less(Stamps[s][c], Stamps'[s][c]) /\ <<c, Stamps'[s][c]>> \in given
  <2>1. \A c \in Cells : Stamps[s][c] = Stamp(rows[s][c]) /\ Stamps'[s][c] = Stamp(rows'[s][c])
    BY <1>2, <1>5 DEF Stamps
  <2> QED BY <1>6, <2>1 DEF Less, Map!Less
<1>8. Stamps' \in [Sites -> [Cells -> Map!Stamps]]
  BY <1>2, <1>3
<1> QED BY <1>4, <1>5, <1>7, <1>8 DEF Map!Join, Stamps

\* Overlapping, repeated and broken loops only ever write and join.
THEOREM Implements == SyncSpec => ImplementsMap
<1>1. ASSUME SyncInv, SyncTypeOK', [SyncNext]_syncVars
      PROVE  [Map!Next]_<<Stamps, given>>
  <2>1. ASSUME UNCHANGED <<rows, given>> PROVE UNCHANGED <<Stamps, given>>
    BY <2>1 DEF Stamps, Stamp
  <2>2. CASE UNCHANGED syncVars
    BY <2>1, <2>2 DEF syncVars
  <2>3. ASSUME NEW s \in Sites, Open(s) \/ CloseScope(s) \/ SiteCrash(s)
        PROVE  UNCHANGED <<Stamps, given>>
    BY <2>1, <2>3 DEF Open, CloseScope, SiteCrash
  <2>4. ASSUME NEW s \in Sites, NEW t \in Tables, Migrate(s, t)
        PROVE  UNCHANGED <<Stamps, given>>
    BY <2>1, <2>4 DEF Migrate
  <2>5. ASSUME NEW l \in Loops, NEW s \in Sites, NEW p \in Sites, BeginSync(l, s, p)
        PROVE  UNCHANGED <<Stamps, given>>
    BY <2>1, <2>5 DEF BeginSync
  <2>6. ASSUME NEW l \in Loops, Pull(l) \/ Track(l) \/ GiveUp(l)
        PROVE  UNCHANGED <<Stamps, given>>
    BY <2>1, <2>6 DEF Pull, Track, GiveUp
  <2>7. ASSUME NEW l \in Loops, Apply(l) PROVE Map!Next
    <3>1. sync[l].site \in Sites
      BY <1>1, <2>7 DEF Apply, Idle, SyncInv, SyncTypeOK, Syncs
    <3> QED BY <1>1, <2>7, <3>1, ApplyMaps DEF Map!Next
  <2>8. ASSUME NEW s \in Sites, NEW c \in Cells, NEW v \in Values, Write(s, c, v)
        PROVE  Map!Next
    BY <1>1, <2>8, WriteMaps DEF Map!Next
  <2> QED BY <1>1, <2>2, <2>3, <2>4, <2>5, <2>6, <2>7, <2>8 DEF SyncNext
<1>2. SyncInv => SyncTypeOK
  BY DEF SyncInv
<1> QED BY <1>1, <1>2, InitMaps, SyncInvariance, PTL DEF SyncSpec, ImplementsMap, Map!Spec, Stamps
=============================================================================
