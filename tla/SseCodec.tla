------------------------------ MODULE SseCodec ------------------------------
(***************************************************************************)
(* How a stream of server-sent events is recorded and replayed             *)
(* (sse-handler.ts of fetch-hooks).  A chunk is what the network gave at   *)
(* once, after a delay; its data is a sequence of lines [kind, payload]:   *)
(* "data", "comment", "field" for any other, and "blank".                  *)
(*                                                                         *)
(* JSON.stringify(JSON.parse(x)) is taken for x, and a line is never cut.  *)
(***************************************************************************)
EXTENDS Integers, SequencesExt

Cap == 30000

SseLine(kind, payload) == [kind |-> kind, payload |-> payload]
Blank == SseLine("blank", <<>>)

\* The pieces between blank lines, without those that are empty.
Events(data) ==
    LET starts == {i \in DOMAIN data : data[i] # Blank /\ (i = 1 \/ data[i - 1] = Blank)}
        end(i) == CHOOSE j \in i..Len(data) :
                     /\ \A k \in i..j : data[k] # Blank
                     /\ j = Len(data) \/ data[j + 1] = Blank
    IN  [n \in 1..Cardinality(starts) |->
            LET i == SetToSortSeq(starts, <)[n] IN SubSeq(data, i, end(i))]

\* The first data line of an event, or an event that starts as a comment.
extractAllSSEItems(data) ==
    LET item(event) ==
            LET lines == SelectSeq(event, LAMBDA line : line.kind = "data")
            IN  IF lines # <<>> THEN <<[type |-> "data", data |-> <<lines[1]>>]>>
                ELSE IF event[1].kind = "comment" THEN <<[type |-> "comment", data |-> event]>>
                ELSE <<>>
    IN  FlattenSeq([n \in DOMAIN Events(data) |-> item(Events(data)[n])])

\* A line of the file.  Of a data payload, json or text, the replay is the same.
Recorded(type, data) == <<[type |-> type, data |-> data, delay_ms |-> 0]>>
Timing(delay_ms) == <<[type |-> "timing", data |-> <<>>, delay_ms |-> delay_ms]>>

\* Mutant: a delay is stored in front of the chunk before it.
timedChunksToJsonlEarly(chunks) ==
    LET stored(chunk) ==
            LET items == extractAllSSEItems(chunk.data)
            IN  IF items = <<>> THEN Recorded("raw", chunk.data)
                ELSE FlattenSeq([n \in DOMAIN items |-> Recorded(items[n].type, items[n].data)])
    IN  FlattenSeq([i \in DOMAIN chunks |->
            (IF i < Len(chunks) THEN Timing(chunks[i + 1].delay_ms) ELSE <<>>) \o stored(chunks[i])])

timedChunksToJsonl(chunks) ==
    LET stored(chunk) ==
            LET items == extractAllSSEItems(chunk.data)
            IN  IF items = <<>> THEN Recorded("raw", chunk.data)
                ELSE FlattenSeq([n \in DOMAIN items |-> Recorded(items[n].type, items[n].data)])
    IN  FlattenSeq([i \in DOMAIN chunks |->
            stored(chunks[i]) \o (IF i < Len(chunks) THEN Timing(chunks[i + 1].delay_ms) ELSE <<>>)])

\* "data: " before what was stored as a raw text, whatever its first line is.
Quoted(data) ==
    IF data = <<>> THEN <<SseLine("data", <<>>)>>
    ELSE <<SseLine("data", <<data[1].kind>> \o data[1].payload)>> \o Tail(data)

\* Lines "with timing" are of files written by earlier versions.
jsonlToTimedChunks(jsonl) ==
    LET data(line) == CASE line.type = "raw" -> Quoted(line.data)
                        [] OTHER -> line.data
        step(state, line) ==
            IF line.type = "timing" THEN [state EXCEPT !.pendingDelay = line.delay_ms]
            ELSE IF line.type = "with timing"
            THEN [state EXCEPT !.chunks = Append(@, [data |-> Append(line.data, Blank), delay_ms |-> line.delay_ms])]
            ELSE [chunks |-> Append(state.chunks,
                                    [data |-> Append(data(line), Blank), delay_ms |-> state.pendingDelay]),
                  pendingDelay |-> 0]
    IN  FoldLeft(step, [chunks |-> <<>>, pendingDelay |-> 0], jsonl).chunks

\* replayStreamWithTiming: the lines with the time they come at.
Replayed(chunks) ==
    LET wait(i) == IF i = 1 THEN 0 ELSE IF chunks[i].delay_ms > Cap THEN Cap ELSE chunks[i].delay_ms
        step(state, i) ==
            LET at == state.at + wait(i)
            IN  [at |-> at,
                 lines |-> state.lines \o [n \in DOMAIN chunks[i].data |-> [line |-> chunks[i].data[n], at |-> at]]]
    IN  FoldLeft(step, [at |-> 0, lines |-> <<>>], [i \in DOMAIN chunks |-> i]).lines

-----------------------------------------------------------------------------
(* What the reader of a stream makes of it, as the standard has it: the data *)
(* lines up to a blank one are one event.                                    *)

Understood(lines) ==
    LET step(state, l) ==
            CASE l.line.kind = "data" -> [state EXCEPT !.pending = Append(@, l.line.payload)]
              [] l.line.kind = "comment" -> [state EXCEPT !.heard = Append(@, <<"comment", l.line.payload, l.at>>)]
              [] l.line = Blank /\ state.pending # <<>> ->
                    [heard |-> Append(state.heard, <<"event", state.pending, l.at>>), pending |-> <<>>]
              [] OTHER -> state
    IN  FoldLeft(step, [heard |-> <<>>, pending |-> <<>>], lines).heard

\* What survives: chunks of whole events, each a single data line or comment.
Plain(chunk) ==
    /\ chunk.data # <<>> /\ Len(chunk.data) % 2 = 0
    /\ \A i \in DOMAIN chunk.data :
          IF i % 2 = 0 THEN chunk.data[i] = Blank ELSE chunk.data[i].kind \in {"data", "comment"}

\* sse-handler.ts 22-281: a stream that is Plain is replayed with the same events
\* and comments, in order, each as long after the first as it was recorded.
StreamSurvives(chunks) ==
    (\A i \in DOMAIN chunks : Plain(chunks[i])) =>
        Understood(Replayed(jsonlToTimedChunks(timedChunksToJsonl(chunks)))) = Understood(Replayed(chunks))
=============================================================================
