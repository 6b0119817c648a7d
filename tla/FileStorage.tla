---------------------------- MODULE FileStorage ----------------------------
(***************************************************************************)
(* Where fetch-hooks keeps what it records: the key of a request           *)
(* (request-hasher.ts), the files of a key in a cache of its own           *)
(* (filesystem-storage.ts, binary-extractor.ts) or in a folder of turns    *)
(* (flat-file-storage.ts).                                                 *)
(*                                                                         *)
(* A request is [origin, path, search, method, headers, body]: segments    *)
(* of the path, the last one empty after a slash; pairs of the search;     *)
(* headers as pairs; lines of the body.  A text is a sequence of tokens    *)
(* [kind, mime, data]: "url" for a data URL and the mark before it, whose  *)
(* data is the bytes and whether they are written as Buffer would write    *)
(* them; "ref" for what the storage writes instead; "tail" for letters     *)
(* that can be taken for the end of a file name; "plain" for the rest.     *)
(* SHA-256 is taken for injective, JSON for a text it gives back.          *)
(***************************************************************************)
EXTENDS SseCodec

Token(kind, mime, data) == [kind |-> kind, mime |-> mime, data |-> data]
Lower == "Accept" :> "accept" @@ "X-Mode" :> "x-mode" @@ "Authorization" :> "authorization" @@ "COOKIE" :> "cookie"
         @@ [n \in {"accept", "x-mode", "authorization", "cookie"} |-> n]
SENSITIVE_HEADERS == {"authorization", "cookie"}
Upper == "get" :> "GET" @@ "GET" :> "GET" @@ "post" :> "POST" @@ "POST" :> "POST"

\* Names in the order of sort().
HeaderOrder == <<"accept", "x-mode">>
ParamOrder == <<"p", "q">>

-----------------------------------------------------------------------------
(* request-hasher.ts *)

normalizeUrl(request) ==
    LET kept == {i \in DOMAIN request.path : \E j \in i..Len(request.path) : request.path[j] # ""}
        sorted == FlattenSeq([n \in DOMAIN ParamOrder |->
                      SelectSeq(request.search, LAMBDA param : param[1] = ParamOrder[n])])
    IN  <<request.origin>> \o SubSeq(request.path, 1, Cardinality(kept)) \o <<"?">> \o FlattenSeq(sorted)

\* The last value of a name, however the name is written.
normalizeHeaders(headers) ==
    FoldLeft(LAMBDA result, h : IF Lower[h[1]] \in SENSITIVE_HEADERS THEN result ELSE Lower[h[1]] :> h[2] @@ result,
             <<>>, headers)

HeaderLine(name, value) == <<name, ":", value>>

\* The lines that are hashed; a body without text adds none.
hashRequest(request) ==
    LET headers == normalizeHeaders(request.headers)
        names == SelectSeq(HeaderOrder, LAMBDA name : name \in DOMAIN headers)
    IN  <<normalizeUrl(request), <<Upper[request.method]>>>>
        \o [n \in DOMAIN names |-> HeaderLine(names[n], headers[names[n]])] \o request.body

-----------------------------------------------------------------------------
(* binary-extractor.ts *)

MIME_TO_EXTENSION ==
    "image/png" :> ".png" @@ "image/jpeg" :> ".jpeg" @@ "image/jpg" :> ".jpg" @@ "audio/wav" :> ".wav"
    @@ "audio/mp3" :> ".mp3" @@ "audio/mpeg" :> ".mp3" @@ "video/mp4" :> ".mp4" @@ "application/pdf" :> ".pdf"
getExtensionForMime(mime) == IF mime \in DOMAIN MIME_TO_EXTENSION THEN MIME_TO_EXTENSION[mime] ELSE ".bin"

Padded == <<"0001", "0002", "0003", "0004">>

\* Mutant: a file that is there is not written again.
extractDataUrlsOnce(content, assets, dir) ==
    LET step(state, token) ==
            LET file == <<Padded[state.index + 1], getExtensionForMime(token.mime)>>
            IN  IF token.kind # "url" THEN [state EXCEPT !.content = Append(@, token)]
                ELSE [index |-> state.index + 1, content |-> Append(state.content, Token("ref", token.mime, file)),
                      assets |-> state.assets @@ <<dir, file>> :> token.data[1]]
    IN  FoldLeft(step, [index |-> 0, content |-> <<>>, assets |-> assets], content)

\* The files are numbered in each text; earlier ones are written over or stay.
extractDataUrls(content, assets, dir) ==
    LET step(state, token) ==
            LET file == <<Padded[state.index + 1], getExtensionForMime(token.mime)>>
            IN  IF token.kind # "url" THEN [state EXCEPT !.content = Append(@, token)]
                ELSE [index |-> state.index + 1, content |-> Append(state.content, Token("ref", token.mime, file)),
                      assets |-> <<dir, file>> :> token.data[1] @@ state.assets]
    IN  FoldLeft(step, [index |-> 0, content |-> <<>>, assets |-> assets], content)

\* A reference whose file is missing, or whose name is read too far, stays.
restoreDataUrls(content, assets, dir) ==
    LET overread(i) == i < Len(content) /\ content[i + 1].kind = "tail"
    IN  [i \in DOMAIN content |->
            IF content[i].kind = "ref" /\ ~ overread(i) /\ <<dir, content[i].data>> \in DOMAIN assets
            THEN Token("url", content[i].mime, <<assets[<<dir, content[i].data>>], "exact">>)
            ELSE content[i]]

-----------------------------------------------------------------------------
(* filesystem-storage.ts and flat-file-storage.ts.  A path is a key and the *)
(* name of a file; the assets of a file are in a directory of its name.     *)

Empty == [files |-> <<>>, assets |-> <<>>]
Sidecars == {"request.json", "response.json"}
Streams == {"response.jsonl"}
Names == Sidecars \cup Streams \cup {"response.meta.json", "response.bin"}

has(store, path) == path \in DOMAIN store.files

\* The kinds of files: JSON and bytes as they are, texts and requests with their
\* images in files of their own, streams as lines.
setFile(store, path, value) == [store EXCEPT !.files = path :> value @@ @]
setText(store, path, value) ==
    LET extracted == extractDataUrls(value, store.assets, path)
    IN  [files |-> path :> extracted.content @@ store.files, assets |-> extracted.assets]
setStream(store, path, chunks) == setFile(store, path, timedChunksToJsonl(chunks))

getFile(store, path) == IF has(store, path) THEN {store.files[path]} ELSE {}
getText(store, path) == {restoreDataUrls(content, store.assets, path) : content \in getFile(store, path)}
getStream(store, path) == {jsonlToTimedChunks(content) : content \in getFile(store, path)}

createFilesystemStorage(store, path, value) ==
    IF path[2] \in Sidecars THEN setText(store, path, value)
    ELSE IF path[2] \in Streams THEN setStream(store, path, value) ELSE setFile(store, path, value)

createFlatFileStorage(store, path, value) ==
    IF path[2] \in Streams THEN setStream(store, path, value) ELSE setFile(store, path, value)

\* What get gives: at most one value; a stream without a file is empty.
get(store, flat, path) ==
    IF path[2] \in Streams THEN getStream(store, path)
    ELSE IF path[2] \in Sidecars /\ ~ flat THEN getText(store, path) ELSE getFile(store, path)

-----------------------------------------------------------------------------
(* Properties. *)

\* Requests that a cache should not tell apart (request-hasher.test.ts 85-181).
SameRequest(r, s) ==
    LET longer == IF Len(r.path) > Len(s.path) THEN r.path ELSE s.path
        shorter == IF Len(r.path) > Len(s.path) THEN s.path ELSE r.path
        last(headers, name) == LET of == SelectSeq(headers, LAMBDA h : Lower[h[1]] = name)
                               IN  IF of = <<>> THEN {} ELSE {of[Len(of)][2]}
    IN  /\ r.origin = s.origin /\ Upper[r.method] = Upper[s.method] /\ r.body = s.body
        /\ IsPrefix(shorter, longer) /\ \A i \in (Len(shorter) + 1)..Len(longer) : longer[i] = ""
        /\ \A name \in Range(ParamOrder) :
              SelectSeq(r.search, LAMBDA p : p[1] = name) = SelectSeq(s.search, LAMBDA p : p[1] = name)
        /\ \A name \in Range(HeaderOrder) : last(r.headers, name) = last(s.headers, name)

\* A body that starts with a line a header could be is hashed as that header.
Unmistakable(request) == \A line \in Range(request.body) : Len(line) # 3

\* A text that sidecar files give back.
Restorable(value) ==
    \A i \in DOMAIN value :
        /\ value[i].kind # "ref"
        /\ value[i].kind = "url" => /\ value[i].data[2] = "exact"
                                    /\ i < Len(value) => value[i + 1].kind # "tail"

\* index.ts 160-215 over either storage: after any writes, what a request finds in
\* a file is what was written last for that file and a request like it, whatever
\* was there before, with the same images in the same places.
LastWriteIsFound(writes, request, flat) ==
    LET write(store, w) ==
            IF flat THEN createFlatFileStorage(store, <<hashRequest(w.request), w.name>>, w.value)
            ELSE createFilesystemStorage(store, <<hashRequest(w.request), w.name>>, w.value)
        store == FoldLeft(write, Empty, writes)
        heard(name, value) == IF name \in Streams THEN Understood(Replayed(value)) ELSE value
    IN  (\A w \in Range(writes) \cup {[request |-> request, name |-> "response.bin", value |-> <<>>]} :
             /\ Unmistakable(w.request)
             /\ w.name \in Sidecars => flat \/ Restorable(w.value)
             /\ w.name \in Streams => \A i \in DOMAIN w.value : Plain(w.value[i]))
        => \A name \in Names :
               LET mine == SelectSeq(writes, LAMBDA w : w.name = name /\ SameRequest(w.request, request))
               IN  {heard(name, v) : v \in get(store, flat, <<hashRequest(request), name>>)} =
                       IF mine = <<>> THEN {} ELSE {heard(name, Last(mine).value)}
=============================================================================
