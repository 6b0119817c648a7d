------------------------------- MODULE SshKeep -------------------------------
(***************************************************************************)
(* ssh-keep (packages/ssh-keep/src/cli.ts): each client runs one remote    *)
(* command, which puts a helper on the server if it is not there and then  *)
(* runs it; the helper puts the user into a session of tmux. The commands  *)
(* of several clients run side by side, any connection may drop at any     *)
(* step, and a session ends when its last shell does.                      *)
(***************************************************************************)
EXTENDS Naturals, Sequences, SequencesExt

CONSTANTS
    Clients,     \* terminals that may connect
    Asked,       \* what may be given with -s, a sequence of letters; <<>> for no -s
    MaxConnects  \* bound: connections of one client

ASSUME BoundIsPositive == MaxConnects \in Nat \ {0}

MainSession == <<"m">>   \* the session of one who asked for none
Nowhere == <<>>

(* `-s ${sessionName}` is not quoted: the helper's $2 is the first word. *)
SessionArg(name) ==
    LET space == SelectInSeq(name, LAMBDA c : c = " ")
    IN  IF space = 0 THEN name ELSE SubSeq(name, 1, space - 1)

VARIABLES
    helper,    \* ~/.local/bin/ssh-keep: what is written of it, and may it be executed
    sessions,  \* tmux list-sessions
    pc,        \* pc[c]: where the command of client c stands
    name,      \* name[c]: what it asked for
    shows,     \* shows[c]: the session its terminal shows
    connects,  \* connects[c]: how often it has connected
    seen,      \* history: the sessions there were when the helper of c looked
    overlap    \* history: two clients have been writing the helper at once

server == <<helper, overlap>>
sshVars == <<helper, sessions, pc, name, shows, connects, seen, overlap>>

Installing(c) == pc[c] \in {"open", "fill", "chmod"}
CommandGoes(c, from, to) == pc[c] = from /\ pc' = [pc EXCEPT ![c] = to]

(* What tmux takes `-t target` for: that session, or the only one whose    *)
(* name starts with it.                                                    *)
Targets(target) ==
    IF target \in sessions THEN {target}
    ELSE LET longer == {s \in sessions : IsPrefix(target, s)}
         IN  {s \in longer : longer = {s}}

SshInit ==
    /\ helper = [text |-> "none", executable |-> FALSE] /\ sessions = {} /\ overlap = FALSE
    /\ pc = [c \in Clients |-> "away"] /\ name = [c \in Clients |-> Nowhere]
    /\ shows = [c \in Clients |-> Nowhere] /\ connects = [c \in Clients |-> 0]
    /\ seen = [c \in Clients |-> {}]

Connect(c) ==
    /\ connects[c] < MaxConnects /\ connects' = [connects EXCEPT ![c] = @ + 1]
    /\ CommandGoes(c, "away", "test")
    /\ \E asked \in Asked : name' = [name EXCEPT ![c] = SessionArg(asked)]
    /\ UNCHANGED <<server, sessions, shows, seen>>

(* if [ ! -x ~/.local/bin/ssh-keep ] *)
TestHelper(c) ==
    /\ CommandGoes(c, "test", IF helper.executable THEN "run" ELSE "open")
    /\ overlap' = (overlap \/ (~helper.executable /\ \E d \in Clients : Installing(d)))
    /\ UNCHANGED <<helper, sessions, name, shows, connects, seen>>

(* Mutant: the helper may be executed as soon as it is there. *)
OpenHelperReady(c) ==
    /\ CommandGoes(c, "open", "fill") /\ helper' = [text |-> "empty", executable |-> TRUE]
    /\ UNCHANGED <<sessions, name, shows, connects, seen, overlap>>

(* cat > opens the file, and so empties it, and then writes; chmod +x *)
OpenHelper(c) ==
    /\ CommandGoes(c, "open", "fill") /\ helper' = [helper EXCEPT !.text = "empty"]
    /\ UNCHANGED <<sessions, name, shows, connects, seen, overlap>>

FillHelper(c) ==
    /\ CommandGoes(c, "fill", "chmod") /\ helper' = [helper EXCEPT !.text = "whole"]
    /\ UNCHANGED <<sessions, name, shows, connects, seen, overlap>>

ChmodHelper(c) ==
    /\ CommandGoes(c, "chmod", "run") /\ helper' = [helper EXCEPT !.executable = TRUE]
    /\ UNCHANGED <<sessions, name, shows, connects, seen, overlap>>

(* An empty script is done at once. *)
RunHelper(c) ==
    /\ CommandGoes(c, "run", IF helper.text = "whole" THEN "look" ELSE "left")
    /\ UNCHANGED <<server, sessions, name, shows, connects, seen>>

(* Mutant: the helper creates the session it was asked for without a look. *)
LookNot(c) ==
    /\ CommandGoes(c, "look", "create") /\ seen' = [seen EXCEPT ![c] = sessions]
    /\ UNCHANGED <<server, sessions, name, shows, connects>>

(* tmux has-session -t, or tmux list-sessions *)
Finds(c) == IF name[c] = Nowhere THEN sessions # {} ELSE Targets(name[c]) # {}
Look(c) ==
    /\ CommandGoes(c, "look", IF Finds(c) THEN "attach" ELSE "create")
    /\ seen' = [seen EXCEPT ![c] = sessions]
    /\ UNCHANGED <<server, sessions, name, shows, connects>>

(* Mutant: a session whose name is longer is as good as the one asked for. *)
AttachToLonger(c) ==
    /\ \E s \in {t \in sessions : IsPrefix(name[c], t)} :
          CommandGoes(c, "attach", "landed") /\ shows' = [shows EXCEPT ![c] = s]
    /\ UNCHANGED <<server, sessions, name, connects, seen>>

(* tmux attach-session, of the session last used if there is no name; it   *)
(* fails if there is none any more.                                        *)
Attach(c) ==
    /\ LET targets == IF name[c] = Nowhere THEN sessions ELSE Targets(name[c])
       IN  \/ \E s \in targets : CommandGoes(c, "attach", "landed") /\ shows' = [shows EXCEPT ![c] = s]
           \/ targets = {} /\ CommandGoes(c, "attach", "left") /\ UNCHANGED shows
    /\ UNCHANGED <<server, sessions, name, connects, seen>>

(* tmux new-session -s, which refuses a name that is there *)
Create(c) ==
    /\ LET new == IF name[c] = Nowhere THEN MainSession ELSE name[c]
       IN  \/ /\ new \notin sessions /\ CommandGoes(c, "create", "landed")
              /\ sessions' = sessions \cup {new} /\ shows' = [shows EXCEPT ![c] = new]
           \/ /\ new \in sessions /\ CommandGoes(c, "create", "left")
              /\ UNCHANGED <<sessions, shows>>
    /\ UNCHANGED <<server, name, connects, seen>>

(* choose-tree, which a user who gave no name is shown *)
Choose(c) ==
    /\ pc[c] = "landed" /\ name[c] = Nowhere
    /\ \E s \in sessions : shows' = [shows EXCEPT ![c] = s]
    /\ UNCHANGED <<server, sessions, pc, name, connects, seen>>

(* Its last shell ends, and with it the session, and every command that showed it. *)
EndSession(s) ==
    /\ s \in sessions /\ sessions' = sessions \ {s}
    /\ pc' = [c \in Clients |-> IF shows[c] = s THEN "away" ELSE pc[c]]
    /\ shows' = [c \in Clients |-> IF shows[c] = s THEN Nowhere ELSE shows[c]]
    /\ UNCHANGED <<server, name, connects, seen>>

(* The connection drops, or the command has ended: the client is away, and *)
(* the sessions stay.                                                      *)
Disconnect(c) ==
    /\ pc[c] # "away" /\ pc' = [pc EXCEPT ![c] = "away"] /\ shows' = [shows EXCEPT ![c] = Nowhere]
    /\ UNCHANGED <<server, sessions, name, connects, seen>>

SshNext ==
    \/ \E c \in Clients :
          \/ Connect(c) \/ TestHelper(c) \/ OpenHelper(c) \/ FillHelper(c) \/ ChmodHelper(c)
          \/ RunHelper(c) \/ Look(c) \/ Attach(c) \/ Create(c) \/ Choose(c) \/ Disconnect(c)
    \/ \E s \in sessions : EndSession(s)

SshSpec == SshInit /\ [][SshNext]_sshVars

-----------------------------------------------------------------------------
SshSteps == {"away", "test", "open", "fill", "chmod", "run", "look", "attach", "create", "landed", "left"}
Named == {SessionArg(a) : a \in Asked} \cup {Nowhere}

SshTypeOK ==
    /\ helper \in [text : {"none", "empty", "whole"}, executable : BOOLEAN]
    /\ sessions \subseteq Named \cup {MainSession} /\ Nowhere \notin sessions
    /\ pc \in [Clients -> SshSteps] /\ name \in [Clients -> Named]
    /\ shows \in [Clients -> sessions \cup {Nowhere}]
    /\ connects \in [Clients -> 0..MaxConnects]
    /\ seen \in [Clients -> SUBSET (Named \cup {MainSession})] /\ overlap \in BOOLEAN

(* cli.ts 102-109: a helper that may be executed is whole, however often   *)
(* connections dropped while it was written, as long as no two clients     *)
(* were writing it at once.                                                *)
ExecutableIsWhole == helper.executable /\ ~overlap => helper.text = "whole"

LeavesForAReason(c) ==
    pc[c] # "left" /\ pc'[c] = "left" =>
        overlap \/ (pc[c] # "run" /\ sessions # seen[c])
LandsByName(c) ==
    shows'[c] \notin {shows[c], Nowhere} /\ name[c] \in sessions => shows'[c] = name[c]

(* cli.ts 79-96: who is connected ends inside a session, unless the helper *)
(* was being written twice or the sessions changed since the helper looked;*)
(* and who asks for a session is never put into another one while there is *)
(* one of that name.                                                       *)
LandsInTmux == [][\A c \in Clients : LeavesForAReason(c) /\ LandsByName(c)]_sshVars

(* SPEC.md 116-120, B6: repeated invocations converge to the same helper.  *)
HelperConverges ==
    helper.executable /\ (\A c \in Clients : ~Installing(c)) => helper.text = "whole"

=============================================================================
