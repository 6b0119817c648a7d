------------------------------- MODULE StepsCli -------------------------------
(***************************************************************************)
(* The command `steps` (packages/debug/src/cli/steps.ts): it steps a       *)
(* program through the debugger protocol and prints the line the program   *)
(* stands on at each stop.                                                 *)
(*                                                                         *)
(* Three kinds of fibers share one session: the command's own fiber, which *)
(* enables the debugger and then never ends; the fiber that takes the      *)
(* protocol's events one at a time and waits for the answers to the        *)
(* commands an event makes it send; and the fibers forked to send a        *)
(* StepOver nobody waits for.  The debuggee is the peer: it takes commands *)
(* in the order they were written and runs, between them, as it likes.     *)
(* The session under all of them is CdpSession's subject; here an answer   *)
(* reaches the fiber that asked, and the connection may be lost.           *)
(***************************************************************************)
EXTENDS Integers, Sequences

CONSTANTS
    Scripts,    \* script ids the debuggee may announce
    Internal,   \* those under node: or a node_modules directory
    Sourceless, \* those whose source is the empty string (WebAssembly)
    Evicted,    \* those whose source the debuggee may refuse to give
    NoFrame,    \* the place of a stop whose event has no call frames
    NoScript,   \* no script concerned
    MaxSteps,   \* the option --max-steps
    MaxStops    \* bound: stops the debuggee makes

ASSUME ScriptsAreThemselves == NoFrame \notin Scripts /\ NoScript \notin Scripts
ASSUME MaxStepsIsAnInteger == MaxSteps \in Int
ASSUME MaxStopsIsNat == MaxStops \in Nat

VARIABLES
    main,       \* where the command's own fiber stands
    handler,    \* what the fiber that handles events is waiting for
    scripts,    \* Ref scriptSources: what is known of each script
    stepCount,  \* Ref stepCountRef
    forks,      \* forked fibers that have yet to send their StepOver
    dropped,    \* history: the stops whose event ended in a printed error
    events,     \* the queue behind subscribe's stream
    wire,       \* commands written and not yet taken by the debuggee
    reply,      \* reply[f]: what has come back for fiber f
    link,       \* the connection
    dbg,        \* external: what the debuggee is doing
    place,      \* external: where it last stopped
    announced,  \* external: scripts it has announced
    enabled,    \* external: it has taken Debugger.enable
    stops       \* external: how often it has stopped

cliVars == <<main, handler, scripts, stepCount, forks, dropped>>
debuggeeVars == <<dbg, place, announced, enabled, stops>>
vars == <<cliVars, events, wire, reply, link, debuggeeVars>>

Fibers == {"main", "handler", "fork"}
Runs == {"StepOver", "Resume"}          \* the commands that let a stop end
Command == [from : Fibers, name : Runs \cup {"Enable", "RunIfWaiting", "Pause", "GetSource"},
            script : Scripts \cup {NoScript}]
Event == [kind : {"scriptParsed", "paused", "resumed"},
          script : Scripts \cup {NoFrame, NoScript}]
Handler == [at : {"idle", "listing", "reading", "answering", "leaving", "over"},
            script : Scripts \cup {NoScript}]

At(name) == [at |-> name, waits |-> FALSE]
Waiting(name) == [at |-> name, waits |-> TRUE]
Idle == [at |-> "idle", script |-> NoScript]
Over == [at |-> "over", script |-> NoScript]

Max1(n) == IF n < 1 THEN 1 ELSE n

(* The debuggee is held at its first line until told to run, or running    *)
(* since before the command connected.                                     *)
Init ==
    /\ main = At("discover") /\ handler = Idle
    /\ scripts = [s \in Scripts |-> "unlisted"]
    /\ stepCount = 0 /\ forks = 0 /\ dropped = {}
    /\ events = <<>> /\ wire = <<>> /\ reply = [f \in Fibers |-> "none"]
    /\ link = "up"
    /\ dbg \in {"held", "running"} /\ place = NoFrame
    /\ announced = {} /\ enabled = FALSE /\ stops = 0

-------------------------------------------------------------------------------
(* The command's own fiber. *)

(* Every command is written at once: the writer of the session fails when  *)
(* the connection is gone.                                                 *)
Write(fiber, name, script) ==
    wire' = Append(wire, [from |-> fiber, name |-> name, script |-> script])

(* The endpoint is a WebSocket URL, or an HTTP endpoint whose first target *)
(* has one; else, and when connecting fails, the command fails.            *)
Discover ==
    /\ main = At("discover")
    /\ main' \in {At("Enable"), At("failed")}
    /\ UNCHANGED <<handler, scripts, stepCount, forks, dropped, events, wire, reply,
                   link, debuggeeVars>>

Setup == {"Enable", "RunIfWaiting", "Pause"}
After(name) ==
    CASE name = "Enable" -> "RunIfWaiting" [] name = "RunIfWaiting" -> "Pause"
      [] name = "Pause" -> "never"

MainSends(name) ==
    /\ main = At(name)
    /\ \/ link = "up" /\ Write("main", name, NoScript) /\ main' = Waiting(name)
       \/ link = "lost" /\ wire' = wire /\ main' = At("failed")
    /\ UNCHANGED <<handler, scripts, stepCount, forks, dropped, events, reply, link,
                   debuggeeVars>>

MainGoesOn(name) ==
    /\ main = Waiting(name) /\ reply["main"] # "none"
    /\ main' = IF reply["main"] = "ok" THEN At(After(name)) ELSE At("failed")
    /\ reply' = [reply EXCEPT !["main"] = "none"]
    /\ UNCHANGED <<handler, scripts, stepCount, forks, dropped, events, wire, link,
                   debuggeeVars>>

-------------------------------------------------------------------------------
(* The fiber that handles events.  Its stream ends with the connection. *)

Rests == handler' = IF link = "up" THEN Idle ELSE Over
Running == main.at \notin {"discover", "failed", "exited"}
Takes(kind) ==
    /\ Running /\ handler = Idle /\ events # <<>>
    /\ Head(events).kind = kind
    /\ events' = Tail(events)

Asks(at, name, script) ==
    \/ /\ link = "up" /\ dropped' = dropped
       /\ handler' = [at |-> at, script |-> script]
       /\ Write("handler", name, script)
    \/ link = "lost" /\ dropped' = dropped \cup {stops} /\ Rests /\ wire' = wire

(* debug.sendCommand(session, yield* Resume) and its like: the event is    *)
(* done once the debuggee has answered.                                    *)
Answers(name) == Asks("answering", name, NoScript) /\ UNCHANGED <<stepCount, forks>>

Ignore == Takes("resumed") /\ UNCHANGED <<cliVars, wire, reply, link, debuggeeVars>>

HandleScript ==
    /\ Takes("scriptParsed")
    /\ LET s == Head(events).script
       IN  /\ scripts' = [scripts EXCEPT ![s] = IF @ = "read" THEN @ ELSE "listed"]
           /\ Asks("listing", "GetSource", s)
    /\ UNCHANGED <<main, stepCount, forks, reply, link, debuggeeVars>>

(* Mutants: the return after the last line is missing; the fork is         *)
(* forgotten.                                                              *)
ShowAndGoOn ==
    /\ stepCount' = stepCount + 1 /\ forks' = forks + 1
    /\ \/ stepCount + 1 >= MaxSteps /\ Asks("leaving", "Resume", NoScript)
       \/ stepCount + 1 < MaxSteps /\ Rests /\ UNCHANGED <<wire, dropped>>
ShowAndStay ==
    /\ stepCount' = stepCount + 1 /\ forks' = forks
    /\ \/ stepCount + 1 >= MaxSteps /\ Asks("leaving", "Resume", NoScript)
       \/ stepCount + 1 < MaxSteps /\ Rests /\ UNCHANGED <<wire, dropped>>

(* The line is printed and counted; the last one asked for ends the        *)
(* session, any other is followed by a StepOver of a fiber of its own.     *)
Show ==
    /\ stepCount' = stepCount + 1
    /\ \/ stepCount + 1 >= MaxSteps /\ Asks("leaving", "Resume", NoScript) /\ forks' = forks
       \/ /\ stepCount + 1 < MaxSteps /\ Rests
          /\ forks' = forks + 1 /\ UNCHANGED <<wire, dropped>>

(* Mutant: an empty source is shown like any other. *)
WithAnySource(s) == s \in Scripts /\ Show

WithSource(s) ==
    \/ s \in Sourceless /\ Answers("Resume")
    \/ s \notin Sourceless /\ Show

Known(s) == s \in Scripts /\ scripts[s] # "unlisted"

(* Mutant: a stop whose place is unknown is left alone. *)
HandlePlacedPause ==
    /\ Takes("paused")
    /\ LET s == Head(events).script
       IN  \/ ~Known(s) /\ UNCHANGED <<handler, wire, dropped, stepCount, forks>>
           \/ Known(s) /\ s \in Internal /\ Answers("StepOver")
           \/ Known(s) /\ s \notin Internal /\ scripts[s] = "read" /\ WithSource(s)
    /\ UNCHANGED <<main, scripts, reply, link, debuggeeVars>>

HandlePause ==
    /\ Takes("paused")
    /\ LET s == Head(events).script
       IN  \/ ~Known(s) /\ Answers("Resume")
           \/ Known(s) /\ s \in Internal /\ Answers("StepOver")
           \/ /\ Known(s) /\ s \notin Internal /\ scripts[s] = "listed"
              /\ Asks("reading", "GetSource", s) /\ UNCHANGED <<stepCount, forks>>
           \/ Known(s) /\ s \notin Internal /\ scripts[s] = "read" /\ WithSource(s)
    /\ UNCHANGED <<main, scripts, reply, link, debuggeeVars>>

Hears(at, what) ==
    /\ Running /\ handler.at = at /\ reply["handler"] = what
    /\ reply' = [reply EXCEPT !["handler"] = "none"]

KeepSource == scripts' = [scripts EXCEPT ![handler.script] = "read"]

Listed ==
    /\ Hears("listing", "ok") /\ KeepSource /\ Rests
    /\ UNCHANGED <<main, stepCount, forks, dropped, events, wire, link, debuggeeVars>>

SourceRead ==
    /\ Hears("reading", "ok") /\ KeepSource /\ WithSource(handler.script)
    /\ UNCHANGED <<main, events, link, debuggeeVars>>

Answered ==
    /\ Hears("answering", "ok") /\ Rests
    /\ UNCHANGED <<main, scripts, stepCount, forks, dropped, events, wire, link, debuggeeVars>>

(* The session is disconnected and the process ends. *)
Leave ==
    /\ Hears("leaving", "ok") /\ handler' = Over /\ main' = At("exited")
    /\ UNCHANGED <<scripts, stepCount, forks, dropped, events, wire, link, debuggeeVars>>

(* A command the handler waited for has failed: the error is printed, and  *)
(* the event it was for is over, whatever was left to do for it.           *)
PrintError ==
    /\ \E at \in {"listing", "reading", "answering", "leaving"} : Hears(at, "failed")
    /\ dropped' = IF handler.at = "listing" THEN dropped ELSE dropped \cup {stops}
    /\ Rests
    /\ UNCHANGED <<main, scripts, stepCount, forks, events, wire, link, debuggeeVars>>

ForkSends ==
    /\ Running /\ forks > 0
    /\ forks' = forks - 1
    /\ IF link = "up" THEN Write("fork", "StepOver", NoScript) ELSE wire' = wire
    /\ UNCHANGED <<main, handler, scripts, stepCount, dropped, events, reply, link,
                   debuggeeVars>>

-------------------------------------------------------------------------------
(* The debuggee and the connection. *)

Emits(kind, script) == events' = Append(events, [kind |-> kind, script |-> script])
Replies(fiber, what) ==
    reply' = IF fiber = "fork" THEN reply ELSE [reply EXCEPT ![fiber] = what]

Serves(name) == link = "up" /\ wire # <<>> /\ Head(wire).name = name /\ wire' = Tail(wire)

ServeEnable ==
    /\ Serves("Enable") /\ enabled' = TRUE /\ Replies(Head(wire).from, "ok")
    /\ UNCHANGED <<cliVars, events, link, dbg, place, announced, stops>>

ServeRunIfWaiting ==
    /\ Serves("RunIfWaiting") /\ Replies(Head(wire).from, "ok")
    /\ dbg' = IF dbg = "held" THEN "running" ELSE dbg
    /\ UNCHANGED <<cliVars, events, link, place, announced, enabled, stops>>

(* A pause asked for is a stop like any other: see Stop. *)
ServePause ==
    /\ Serves("Pause") /\ Replies(Head(wire).from, "ok")
    /\ UNCHANGED <<cliVars, events, link, debuggeeVars>>

ServeGetSource ==
    /\ Serves("GetSource")
    /\ \/ Replies(Head(wire).from, "ok")
       \/ Head(wire).script \in Evicted /\ Replies(Head(wire).from, "failed")
    /\ UNCHANGED <<cliVars, events, link, debuggeeVars>>

(* StepOver and Resume can only be performed while paused. *)
ServeRun ==
    /\ \E name \in Runs : Serves(name)
    /\ \/ /\ dbg = "paused" /\ dbg' = "running" /\ Emits("resumed", NoScript)
          /\ Replies(Head(wire).from, "ok")
       \/ dbg # "paused" /\ UNCHANGED <<dbg, events>> /\ Replies(Head(wire).from, "failed")
    /\ UNCHANGED <<cliVars, link, place, announced, enabled, stops>>

(* Scripts are announced once the debugger is enabled, those parsed before *)
(* included, and before the program can stop in them.                      *)
Announce(s) ==
    /\ link = "up" /\ enabled /\ dbg \in {"held", "running"} /\ s \notin announced
    /\ announced' = announced \cup {s} /\ Emits("scriptParsed", s)
    /\ UNCHANGED <<cliVars, wire, reply, link, dbg, place, enabled, stops>>

(* After a step, on a pause asked for, at a debugger statement. *)
Stop(s) ==
    /\ link = "up" /\ enabled /\ dbg = "running" /\ stops < MaxStops
    /\ s \in announced \cup {NoFrame}
    /\ dbg' = "paused" /\ place' = s /\ stops' = stops + 1 /\ Emits("paused", s)
    /\ UNCHANGED <<cliVars, wire, reply, link, announced, enabled>>

Finish ==
    /\ dbg = "running" /\ dbg' = "ended"
    /\ UNCHANGED <<cliVars, events, wire, reply, link, place, announced, enabled, stops>>

Asking(f) ==
    \/ f = "main" /\ main.waits
    \/ f = "handler" /\ handler.at \notin {"idle", "over"}

(* Whoever waits for an answer gets an error, and the stream of events     *)
(* ends: the queue is shut down and what it still held is gone.            *)
LoseConnection ==
    /\ Running /\ link = "up" /\ link' = "lost"
    /\ wire' = <<>> /\ events' = <<>>
    /\ reply' = [f \in Fibers |-> IF Asking(f) /\ reply[f] = "none" THEN "failed" ELSE reply[f]]
    /\ handler' = IF handler = Idle THEN Over ELSE handler
    /\ UNCHANGED <<main, scripts, stepCount, forks, dropped, debuggeeVars>>

Main == Discover \/ (\E n \in Setup : MainSends(n) \/ MainGoesOn(n))
Handles ==
    \/ Ignore \/ HandleScript \/ HandlePause
    \/ Listed \/ SourceRead \/ Answered \/ Leave \/ PrintError
Debuggee ==
    ServeEnable \/ ServeRunIfWaiting \/ ServePause \/ ServeGetSource \/ ServeRun
Program == (\E s \in Scripts : Announce(s)) \/ (\E s \in Scripts \cup {NoFrame} : Stop(s)) \/ Finish

Next == Main \/ Handles \/ ForkSends \/ Debuggee \/ Program \/ LoseConnection

(* Every fiber that can go on does, and the debuggee answers; the program  *)
(* itself and the connection may do as they like.                          *)
Fairness == WF_vars(Main) /\ WF_vars(Handles) /\ WF_vars(ForkSends) /\ WF_vars(Debuggee)
Spec == Init /\ [][Next]_vars /\ Fairness

-------------------------------------------------------------------------------
(* Properties. *)

Names == {"discover", "failed", "exited", "never"} \cup Setup

TypeOK ==
    /\ main \in [at : Names, waits : BOOLEAN]
    /\ handler \in Handler
    /\ scripts \in [Scripts -> {"unlisted", "listed", "read"}]
    /\ stepCount \in Nat /\ forks \in Nat /\ dropped \subseteq Nat
    /\ events \in Seq(Event) /\ wire \in Seq(Command)
    /\ reply \in [Fibers -> {"none", "ok", "failed"}]
    /\ link \in {"up", "lost"}
    /\ dbg \in {"held", "running", "paused", "ended"}
    /\ place \in Scripts \cup {NoFrame} /\ announced \subseteq Scripts
    /\ enabled \in BOOLEAN /\ stops \in Nat

(* No StepOver and no Resume ever finds the debuggee running: each stop    *)
(* is answered by one command, although the StepOvers are sent by fibers   *)
(* nobody waits for and the handler goes on to the next event meanwhile.   *)
RunsFindAPause ==
    \A i \in 1..Len(wire) : wire[i].name \in Runs => dbg = "paused"

(* What is printed at a stop is where the program stands: when a line is   *)
(* counted, the debuggee is paused, in a script of the user's own that has *)
(* a source, and waits for the answer; or the connection is gone.          *)
ShownWhereItStands ==
    [][stepCount' # stepCount =>
          \/ link = "lost"
          \/ dbg = "paused" /\ place \in announced \ (Internal \cup Sourceless)]_vars

(* A program is not left paused and forgotten: while it is paused and the  *)
(* connection stands, the event, the handler, a fiber or a command on the  *)
(* way will answer for it, unless its event ended in a printed error.      *)
StopIsRemembered ==
    dbg = "paused" /\ link = "up" /\ Running /\ stops \notin dropped =>
        \/ \E i \in 1..Len(events) : events[i].kind = "paused"
        \/ handler.at \in {"reading", "answering", "leaving"}
        \/ forks > 0
        \/ \E i \in 1..Len(wire) : wire[i].name \in Runs

(* A stop is in a script the handler knows by the time it takes the event: *)
(* the announcement is queued before it and lists the script before the    *)
(* source is asked for, so that even a refused source leaves it listed.    *)
StopsAreInListedScripts ==
    \A i \in 1..Len(events) :
        events[i].kind = "paused" /\ events[i].script \in Scripts =>
            \/ Known(events[i].script)
            \/ \E j \in 1..(i - 1) :
                   events[j].kind = "scriptParsed" /\ events[j].script = events[i].script

(* The option bounds the steps: never a line more, but one is printed even *)
(* when the option is zero or negative.                                    *)
StepsAreBounded == stepCount <= Max1(MaxSteps)

(* A stopped program goes on, unless its event ended in an error, the link *)
(* was lost or the command has ended.                                      *)
StopsEnd == dbg = "paused" ~> (dbg # "paused" \/ stops \in dropped \/ link = "lost" \/ ~Running)

===============================================================================
