---------------------------- MODULE FetchCache ----------------------------
(***************************************************************************)
(* The record-and-replay cache of packages/fetch-hooks, as createCachedFetch *)
(* uses it: look the key up, or ask the origin, store its answer and hand  *)
(* it on.  An entry is several files (or rows) written one after another:  *)
(* the metadata, then the body, kept apart by the kind of the response.    *)
(* A second copy is offered to the dev-fs-logs server, whose every request *)
(* may fail unnoticed.                                                     *)
(*                                                                         *)
(* One cache key: the files of two keys have nothing in common.  Callers   *)
(* of the key interleave at every await; the process may crash at any of   *)
(* them, and in the middle of a write, and starts again on what is stored. *)
(*                                                                         *)
(* Left out: requests that never look at the cache (production, localhost),*)
(* the hooks, which default to the identity, and the timing of streams.    *)
(***************************************************************************)
EXTENDS FiniteSets, Naturals

CONSTANTS
    Callers,       \* calls of cachedFetch for the key that can overlap
    None,          \* nothing stored, read or answered
    MaxResponses   \* bound on the answers of the origin

ASSUME Instance ==
    /\ IsFiniteSet(Callers)
    /\ MaxResponses \in Nat

Kinds == {"binary", "sse", "text"}

\* The three cases of storeResponse: no body at all, an empty one, another.
Sizes == {"none", "empty", "full"}

Responses == [id : 1 .. MaxResponses, kind : Kinds, size : Sizes]

\* A stored file: the response it is from, and whether all of it was written.
Files == [of : Responses, whole : BOOLEAN]

ASSUME NoneAssumption == None \notin Responses \cup Files

VARIABLES
    meta,      \* storage.responseMeta
    body,      \* kind -> storage.binaryBody, sseChunks, responseBody
    devfs,     \* what dev-fs-logs holds: /meta, /sse and /response
    pc,        \* caller -> where it is
    readOnly,  \* caller -> a miss is its last word: replay only, or cache:// URL
    local,     \* caller -> the metadata it read, or the response it stores
    answers,   \* number of responses of the origin
    replays,   \* history: what was answered from the cache
    missed,    \* history: what was recorded before a call that found nothing
    recorded,  \* history: the responses whose storing came to its end
    known,     \* history: caller -> what was recorded when it began
    clean      \* history: no two calls overlapped and no write was torn

stored  == <<meta, body, devfs>>
control == <<pc, readOnly, local>>
history == <<replays, missed, recorded, known, clean>>
vars    == <<stored, control, answers, history>>

DevPaths == {"meta", "sse", "response"}

\* What the variables hold.
TypeOK ==
    /\ meta \in Files \cup {None}
    /\ body \in [Kinds -> Files \cup {None}]
    /\ devfs \in [DevPaths -> Responses \cup {None}]
    /\ pc \in [Callers -> {"idle", "lookup", "devMeta", "load", "devBody", "ask",
                           "storeMeta", "storeBody", "offer", "offerBody"}]
    /\ readOnly \in [Callers -> BOOLEAN]
    /\ local \in [Callers -> Responses \cup {None}]
    /\ \A c \in Callers : pc[c] \notin {"idle", "lookup", "devMeta", "ask"} => local[c] # None
    /\ answers \in 0 .. MaxResponses
    /\ replays \subseteq [meta : Responses, body : Responses]
    /\ recorded \subseteq Responses /\ missed \subseteq recorded
    /\ known \in [Callers -> SUBSET Responses]
    /\ clean \in BOOLEAN

Init ==
    /\ meta = None
    /\ body = [k \in Kinds |-> None]
    /\ devfs = [p \in DevPaths |-> None]
    /\ pc = [c \in Callers |-> "idle"]
    /\ readOnly = [c \in Callers |-> FALSE]
    /\ local = [c \in Callers |-> None]
    /\ answers = 0
    /\ replays = {} /\ missed = {} /\ recorded = {}
    /\ known = [c \in Callers |-> {}]
    /\ clean = TRUE

----------------------------------------------------------------------------
Goes(c, from, to) == pc[c] = from /\ pc' = [pc EXCEPT ![c] = to]

Keeps(c, r) == local' = [local EXCEPT ![c] = r]

\* The call ends; what it held is gone with it.
Ends(c, from) == Goes(c, from, "idle") /\ Keeps(c, None)

\* No answer in the cache: ask the origin, or answer 503 or 404.
Misses(c, from) ==
    /\ Goes(c, from, IF readOnly[c] THEN "idle" ELSE "ask")
    /\ Keeps(c, None)
    /\ missed' = missed \cup known[c]
    /\ UNCHANGED replays

Hits(c, from, m, b) ==
    /\ Ends(c, from)
    /\ replays' = replays \cup {[meta |-> m, body |-> b]}
    /\ UNCHANGED missed

Begin(c, only) ==
    /\ Goes(c, "idle", "lookup")
    /\ readOnly' = [readOnly EXCEPT ![c] = only]
    /\ known' = [known EXCEPT ![c] = recorded]
    /\ clean' = (clean /\ \A d \in Callers : pc[d] = "idle")
    /\ UNCHANGED <<stored, local, answers, replays, missed, recorded>>

----------------------------------------------------------------------------
(* getCachedResponse.                                                      *)

Reading == UNCHANGED <<stored, readOnly, answers, recorded, known, clean>>

\* Mutant: the server is asked first, and an answer of null is final.
LookupElsewhere(c) ==
    /\ Reading /\ UNCHANGED <<replays, missed>>
    /\ Goes(c, "lookup", "devMeta") /\ UNCHANGED local

\* storage.responseMeta.get: a torn file does not parse, and the call rejects.
Lookup(c) ==
    /\ Reading /\ UNCHANGED <<replays, missed>>
    /\ \/ /\ meta = None
          /\ Goes(c, "lookup", "devMeta") /\ UNCHANGED local
       \/ /\ meta # None /\ meta.whole
          /\ Goes(c, "lookup", "load") /\ Keeps(c, meta.of)
       \/ /\ meta # None /\ ~meta.whole
          /\ Ends(c, "lookup")

\* tryDevFsLogsRead: what the server holds, or null whatever it holds.
DevReads(path) == {devfs[path], None}

DevMeta(c) ==
    /\ Reading
    /\ \E m \in DevReads("meta") :
         IF m = None THEN Misses(c, "devMeta")
         ELSE Goes(c, "devMeta", "load") /\ Keeps(c, m) /\ UNCHANGED <<replays, missed>>

\* A binary body counts when its file is there; a stream when it has a first
\* chunk, and a text when it is not empty: else dev-fs-logs is asked.
Usable(kind) ==
    body[kind] # None /\ (kind = "binary" \/ body[kind].of.size = "full")

\* The lines of a torn stream do not parse, unless it was cut between two.
Load(c) ==
    LET m == local[c]
    IN  /\ Reading
        /\ pc[c] = "load"
        /\ \/ Usable(m.kind) /\ Hits(c, "load", m, body[m.kind].of)
           \/ /\ m.kind = "sse" /\ Usable("sse") /\ ~body["sse"].whole
              /\ Ends(c, "load")
              /\ UNCHANGED <<replays, missed>>
           \/ m.kind = "binary" /\ ~Usable("binary") /\ Misses(c, "load")
           \/ /\ m.kind # "binary" /\ ~Usable(m.kind)
              /\ Goes(c, "load", "devBody")
              /\ UNCHANGED <<local, replays, missed>>

\* The stream goes with the metadata read before; /response has its own.
DevBody(c) ==
    LET m == local[c]
    IN  /\ Reading
        /\ pc[c] = "devBody"
        /\ \E b \in DevReads(IF m.kind = "sse" THEN "sse" ELSE "response") :
             IF b = None THEN Misses(c, "devBody")
             ELSE Hits(c, "devBody", IF m.kind = "sse" THEN m ELSE b, b)

----------------------------------------------------------------------------
(* storeRequest, baseFetch and storeResponse.                              *)

Storing == UNCHANGED <<readOnly, replays, missed, known, clean>>

\* The request is written, and never read again; the origin answers, and the
\* whole body is awaited before anything of the answer is stored.
Answered(c) ==
    /\ Storing
    /\ Goes(c, "ask", "storeMeta")
    /\ answers < MaxResponses
    /\ answers' = answers + 1
    /\ \E k \in Kinds, s \in Sizes : Keeps(c, [id |-> answers + 1, kind |-> k, size |-> s])
    /\ UNCHANGED <<stored, recorded>>

\* Writing the request, asking, reading the body, or writing a file throws.
Rejected(c) ==
    /\ Storing
    /\ \E at \in {"ask", "storeMeta", "storeBody"} : Ends(c, at)
    /\ UNCHANGED <<stored, answers, recorded>>

\* Mutant: metadata that is there is not written again.
StoreMetaOnce(c) ==
    /\ Storing
    /\ Goes(c, "storeMeta", IF local[c].size = "none" THEN "offer" ELSE "storeBody")
    /\ meta' = IF meta = None THEN [of |-> local[c], whole |-> TRUE] ELSE meta
    /\ UNCHANGED <<body, devfs, local, answers, recorded>>

StoreMeta(c) ==
    /\ Storing
    /\ Goes(c, "storeMeta", IF local[c].size = "none" THEN "offer" ELSE "storeBody")
    /\ meta' = [of |-> local[c], whole |-> TRUE]
    /\ UNCHANGED <<body, devfs, local, answers, recorded>>

\* Mutant: the chunks of a stream go where the texts are.
StoreBodyAsText(c) ==
    LET to == IF pc[c] = "storeBody" /\ local[c].kind = "binary" THEN "binary" ELSE "text"
    IN  /\ Storing
        /\ Goes(c, "storeBody", "offer")
        /\ body' = [body EXCEPT ![to] = [of |-> local[c], whole |-> TRUE]]
        /\ UNCHANGED <<meta, devfs, local, answers, recorded>>

StoreBody(c) ==
    /\ Storing
    /\ Goes(c, "storeBody", "offer")
    /\ body' = [body EXCEPT ![local[c].kind] = [of |-> local[c], whole |-> TRUE]]
    /\ UNCHANGED <<meta, devfs, local, answers, recorded>>

\* tryDevFsLogsWrite: a text is offered whole at /response; the others offer
\* their metadata at /meta, and a stream its chunks at /sse after that.
Taken(path, r) == {devfs, [devfs EXCEPT ![path] = r]}

Offer(c) ==
    LET r    == local[c]
        more == r.kind = "sse" /\ r.size # "none"
        path == IF r.kind = "text" /\ r.size # "none" THEN "response" ELSE "meta"
    IN  /\ Storing
        /\ pc[c] = "offer"
        /\ devfs' \in Taken(path, r)
        /\ IF more THEN Goes(c, "offer", "offerBody") /\ UNCHANGED <<local, recorded>>
           ELSE Ends(c, "offer") /\ recorded' = recorded \cup {r}
        /\ UNCHANGED <<meta, body, answers>>

OfferBody(c) ==
    /\ Storing
    /\ pc[c] = "offerBody"
    /\ devfs' \in Taken("sse", local[c])
    /\ recorded' = recorded \cup {local[c]}
    /\ Ends(c, "offerBody")
    /\ UNCHANGED <<meta, body, answers>>

----------------------------------------------------------------------------
(* The process dies: its calls are gone, the files stay.                   *)

Dies ==
    /\ pc' = [c \in Callers |-> "idle"]
    /\ local' = [c \in Callers |-> None]
    /\ UNCHANGED <<devfs, readOnly, answers, replays, missed, recorded, known>>

Crash == Dies /\ UNCHANGED <<meta, body, clean>>

\* writeFileSync is not atomic: a file can be left with its beginning only,
\* or with nothing in it.
CrashInWrite(c) ==
    LET r == local[c]
    IN  /\ Dies
        /\ clean' = FALSE
        /\ \/ /\ pc[c] = "storeMeta"
              /\ meta' = [of |-> r, whole |-> FALSE]
              /\ UNCHANGED body
           \/ /\ pc[c] = "storeBody"
              /\ \E left \in {r.size, "empty"} :
                   body' = [body EXCEPT ![r.kind] =
                              [of |-> [r EXCEPT !.size = left], whole |-> FALSE]]
              /\ UNCHANGED meta

Next ==
    \/ \E c \in Callers :
         \/ \E only \in BOOLEAN : Begin(c, only)
         \/ Lookup(c) \/ DevMeta(c) \/ Load(c) \/ DevBody(c)
         \/ Answered(c) \/ Rejected(c)
         \/ StoreMeta(c) \/ StoreBody(c) \/ Offer(c) \/ OfferBody(c)
         \/ CrashInWrite(c)
    \/ Crash

Spec == Init /\ [][Next]_vars

----------------------------------------------------------------------------
(* Properties.  An entry is not written in one step, so all but the last   *)
(* speak of calls that do not overlap and of writes that are not torn;     *)
(* crashes between two writes, and a server that fails, are allowed.       *)

Full(r) == r.size = "full"

\* A body that is replayed comes with the status and the headers it came with,
\* though the metadata is written first and a crash may part the two
\* (storeResponse, getCachedResponse).
BodyKeepsItsMeta ==
    clean => \A p \in replays : Full(p.body) => p.meta = p.body

\* "Deterministic API replay": once a body was replayed, nothing else is ever
\* replayed for the key (createCachedFetch does not ask the origin again).
ReplayIsDeterministic ==
    [][clean' /\ (\E p \in replays : Full(p.body)) => replays' = replays]_vars

\* A call finds the response with a body that was recorded before it began,
\* whatever dev-fs-logs does, and neither asks the origin nor answers 503.
RecordedBodyIsFound ==
    clean => \A r \in missed : ~Full(r)
=============================================================================
