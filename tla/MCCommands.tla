----------------------------- MODULE MCCommands -----------------------------
(***************************************************************************)
(* The three programs one starts from a shell, on small instances: steps   *)
(* against a program with a script of each kind, runs of note in one       *)
(* directory around midnight, and terminals that call ssh-keep. They share *)
(* nothing, so that a behaviour is of one of them.                         *)
(***************************************************************************)
EXTENDS StepsCli, NoteCli, SshKeep

CONSTANT Programs  \* the programs that may be started

VARIABLE program   \* the one that was

\* One title twice, by words that are written otherwise; a file's name, the
\* empty word, a flag, a filename, no words, and a title without a letter.
A == <<"A">>
B == <<"b">>
TitleRequests ==
    {<<A, <<"b", "!">>>>, <<<<"a", " ", "B">>>>, <<A, B>>, <<<<>>>>, <<<<"-", "a">>>>, <<<<"a", ".", "1">>>>,
     <<>>, <<<<"!">>, <<"-">>>>, <<<<"b", ".", " ">>>>}
FileWords == {B}

\* Names that start with each other.
SessionNames == {<<>>, <<"w">>, <<"w", "x">>, <<"w", " ", "y">>}
NoName == {<<>>}

CommandsInit ==
    /\ program \in Programs
    /\ Init /\ NoteInit /\ SshInit
    /\ program # "steps" => dbg = "held"

StepsRuns == program = "steps" /\ Next /\ UNCHANGED <<program, noteVars, sshVars>>
NoteIsCalled == program = "note" /\ NoteNext /\ UNCHANGED <<program, vars, sshVars>>
SshKeepIsCalled == program = "ssh-keep" /\ SshNext /\ UNCHANGED <<program, vars, noteVars>>

CommandsNext == StepsRuns \/ NoteIsCalled \/ SshKeepIsCalled

\* StepsCli's Fairness, in the behaviours that are of steps.
StepsFairness ==
    /\ WF_vars(program = "steps" /\ Main) /\ WF_vars(program = "steps" /\ Handles)
    /\ WF_vars(program = "steps" /\ ForkSends) /\ WF_vars(program = "steps" /\ Debuggee)

CommandsSpec ==
    CommandsInit /\ [][CommandsNext]_<<program, vars, noteVars, sshVars>> /\ StepsFairness
=============================================================================
