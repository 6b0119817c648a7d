------------------------------ MODULE TuiSpawn ------------------------------
(***************************************************************************)
(* A process in a pseudo-terminal (Spawn.ts of tui-testing-library) and    *)
(* the tests' waits on what it prints: waitForText and waitForStable poll  *)
(* the output, waitFor of assertions.ts polls anything (here, whether the  *)
(* text is on the screen).  Data, the end of the process and timers reach  *)
(* the test one by one, and timers may be late.                            *)
(***************************************************************************)
EXTENDS Integers, Sequences, FiniteSets

CONSTANTS
    Program,        \* the chunks that the process prints, in order
    Needle,         \* the text that is waited for: chunks that follow each other
    TextWaits,      \* calls of waitForText
    StableWaits,    \* calls of waitForStable
    PollWaits,      \* calls of waitFor
    TextInterval, StableInterval, PollInterval,
    StableMs, Timeout,
    MaxCalls,       \* bound on the calls; waits share nothing but the output they read
    MaxTime         \* bound on the clock

ASSUME TimesAssumption ==
    /\ {TextInterval, StableInterval, PollInterval, StableMs, Timeout, MaxCalls, MaxTime} \subseteq Nat \ {0}
    /\ MaxTime > 2 * Timeout

ASSUME TextsAssumption == Program \in Seq(STRING) /\ Needle \in Seq(STRING)

VARIABLES
    now,            \* Date.now
    printed,        \* how many chunks the process has printed
    exited,         \* the process is gone
    outputChunks,
    delivered,      \* how many chunks data(...) was given
    closed,
    wait,           \* [wait -> [state, start, due, lastOutput, lastChangeTime]]
    arrived,        \* history: text waits during which the text was in the output
    lastData,       \* history: when data came last
    cleared         \* history: clearOutput was called

spawnVars == <<now, printed, exited, outputChunks, delivered, closed, wait, arrived, lastData, cleared>>
process == <<printed, exited>>
handle == <<outputChunks, delivered, closed, lastData, cleared>>

Waits == TextWaits \cup StableWaits \cup PollWaits
Failures == {"timeout", "closed"}
Idle == [state |-> "idle", start |-> 0, due |-> 0, lastOutput |-> <<>>, lastChangeTime |-> 0]

includes(output) ==
    \E i \in 0..(Len(output) - Len(Needle)) : SubSeq(output, i + 1, i + Len(Needle)) = Needle

Interval(w) ==
    IF w \in TextWaits THEN TextInterval
    ELSE IF w \in StableWaits THEN StableInterval ELSE PollInterval

\* Text waits under way that could now find their text.
Finding(output) == {w \in TextWaits : wait[w].state = "waiting" /\ includes(output)}

SpawnInit ==
    /\ now = 0
    /\ printed = 0 /\ exited = FALSE
    /\ outputChunks = <<>> /\ delivered = 0 /\ closed = FALSE
    /\ wait = [w \in Waits |-> Idle]
    /\ arrived = {} /\ lastData = 0 /\ cleared = FALSE

-----------------------------------------------------------------------------
(* The process, the terminal and the clock. *)

ProcessPrints ==
    /\ ~ exited /\ printed < Len(Program)
    /\ printed' = printed + 1
    /\ UNCHANGED <<now, exited, handle, wait, arrived>>

ProcessExits ==
    /\ ~ exited
    /\ exited' = TRUE
    /\ UNCHANGED <<now, printed, handle, wait, arrived>>

\* The event loop runs what is due before much time passes, but never at once:
\* a timer may be late by one tick of this clock.
Tick ==
    /\ now < MaxTime
    /\ \A w \in Waits : wait[w].state = "waiting" => now <= wait[w].due
    /\ now' = now + 1
    /\ UNCHANGED <<process, handle, wait, arrived>>

\* terminal.data
Data ==
    /\ delivered < printed
    /\ delivered' = delivered + 1
    /\ outputChunks' = Append(outputChunks, Program[delivered'])
    /\ arrived' = arrived \cup Finding(outputChunks')
    /\ lastData' = now
    /\ UNCHANGED <<now, process, closed, wait, cleared>>

\* terminal.exit, which need not wait for the last data.
Exit ==
    /\ exited /\ ~ closed
    /\ closed' = TRUE
    /\ UNCHANGED <<now, process, outputChunks, delivered, wait, arrived, lastData, cleared>>

-----------------------------------------------------------------------------
(* The handle. *)

\* close, by the test or when the scope ends: the process is terminated.
Close ==
    /\ ~ closed
    /\ closed' = TRUE /\ exited' = TRUE
    /\ UNCHANGED <<now, printed, outputChunks, delivered, wait, arrived, lastData, cleared>>

ClearOutput ==
    /\ outputChunks # <<>>
    /\ outputChunks' = <<>> /\ arrived' = {} /\ cleared' = TRUE
    /\ UNCHANGED <<now, process, delivered, closed, wait, lastData>>

-----------------------------------------------------------------------------
(* The waits: what one look at the output makes of a wait. *)

Later(w, looked) == [looked EXCEPT !.due = now + Interval(w)]
Ends(looked, state) == [looked EXCEPT !.state = state]

\* Mutant: the clock is looked at before the output.
CheckTextInTime(w, looked) ==
    IF now - looked.start > Timeout THEN Ends(looked, "timeout")
    ELSE IF includes(outputChunks) THEN Ends(looked, "found")
    ELSE IF closed THEN Ends(looked, "closed")
    ELSE Later(w, looked)

CheckText(w, looked) ==
    IF includes(outputChunks) THEN Ends(looked, "found")
    ELSE IF now - looked.start > Timeout THEN Ends(looked, "timeout")
    ELSE IF closed THEN Ends(looked, "closed")
    ELSE Later(w, looked)

\* Mutant: how long it was quiet is counted from the start.
CheckStableSinceStart(w, looked) ==
    IF outputChunks = looked.lastOutput /\ now - looked.start >= StableMs
    THEN Ends(looked, "stable")
    ELSE IF now - looked.start > Timeout THEN Ends(looked, "timeout")
    ELSE IF closed THEN Ends(looked, "stable")
    ELSE Later(w, [looked EXCEPT !.lastOutput = outputChunks])

\* A terminal that is closed counts as stable, and the wait succeeds.
CheckStable(w, looked) ==
    LET seen == IF outputChunks = looked.lastOutput THEN looked
                ELSE [looked EXCEPT !.lastOutput = outputChunks, !.lastChangeTime = now]
    IN IF now - seen.lastChangeTime >= StableMs THEN Ends(seen, "stable")
       ELSE IF now - seen.start > Timeout THEN Ends(seen, "timeout")
       ELSE IF closed THEN Ends(seen, "stable")
       ELSE Later(w, seen)

\* The clock first: what comes after the last look is not seen.
CheckPoll(w, looked) ==
    IF now - looked.start >= Timeout THEN Ends(looked, "timeout")
    ELSE IF includes(outputChunks) THEN Ends(looked, "found")
    ELSE Later(w, looked)

Check(w, looked) ==
    IF w \in TextWaits THEN CheckText(w, looked)
    ELSE IF w \in StableWaits THEN CheckStable(w, looked) ELSE CheckPoll(w, looked)

\* A call looks at once.
CallWait(w) ==
    LET fresh == [state |-> "waiting", start |-> now, due |-> now,
                  lastOutput |-> IF w \in StableWaits THEN outputChunks ELSE <<>>,
                  lastChangeTime |-> now]
    IN
    /\ wait[w].state = "idle" /\ now <= Timeout
    /\ Cardinality({v \in Waits : wait[v].state # "idle"}) < MaxCalls
    /\ wait' = [wait EXCEPT ![w] = Check(w, fresh)]
    /\ arrived' = IF w \in TextWaits /\ includes(outputChunks) THEN arrived \cup {w} ELSE arrived
    /\ UNCHANGED <<now, process, handle>>

\* Mutant: the timer is set once.
FireOnce(w) ==
    /\ wait[w].state = "waiting" /\ wait[w].due <= now
    /\ wait[w].start = wait[w].due - Interval(w)
    /\ wait' = [wait EXCEPT ![w] = Check(w, wait[w])]
    /\ UNCHANGED <<now, process, handle, arrived>>

\* setTimeout
Fire(w) ==
    /\ wait[w].state = "waiting" /\ wait[w].due <= now
    /\ wait' = [wait EXCEPT ![w] = Check(w, wait[w])]
    /\ UNCHANGED <<now, process, handle, arrived>>

SpawnNext ==
    \/ ProcessPrints \/ ProcessExits \/ Tick \/ Data \/ Exit \/ Close \/ ClearOutput
    \/ \E w \in Waits : CallWait(w) \/ Fire(w)

SpawnSpec == SpawnInit /\ [][SpawnNext]_spawnVars

\* Time passes and timers run; nothing is assumed of the process or its terminal.
Fairness == WF_spawnVars(Tick) /\ \A w \in Waits : WF_spawnVars(Fire(w))

FairSpec == SpawnSpec /\ Fairness

-----------------------------------------------------------------------------
(* Properties. *)

\* Spawn.ts 294-320: a text that was in the output while waitForText was under way,
\* and was not cleared, is found, however late the timers are and even if the
\* process is gone by then.
ArrivedIsFound ==
    \A w \in TextWaits : w \in arrived => wait[w].state \notin Failures

\* Spawn.ts 331-363: when waitForStable succeeds, no data has come for stableMs,
\* though it looks at the output only now and then, or the terminal is closed, which
\* the code takes for stable even if data has just come (357); unless the output was
\* cleared.
StableIsQuiet ==
    [][\A w \in StableWaits :
          (wait[w].state # "stable" /\ wait'[w].state = "stable" /\ ~ cleared) =>
              closed \/ now - lastData >= StableMs]_spawnVars

\* A wait ends, whatever the process does.
WaitsEnd ==
    \A w \in Waits : wait[w].state = "waiting" ~> wait[w].state # "waiting"
=============================================================================
