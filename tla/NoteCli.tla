------------------------------- MODULE NoteCli -------------------------------
(***************************************************************************)
(* The command `note` (packages/note/src): a title given as words becomes  *)
(* the file note-<date>-<slug>.md of the current directory.                *)
(*                                                                         *)
(* Every run of the command is a process of its own; each look at the      *)
(* directory and each part of the write is a step, between which other     *)
(* runs go on, the clock may pass midnight and the process may be killed.  *)
(* Strings are sequences of one-letter strings; a file is named by its day *)
(* and slug, or by the word it was found under.                            *)
(***************************************************************************)
EXTENDS Slug

CONSTANTS
    NoteRuns,    \* runs of the command
    Requests,    \* what a run may be given: sequences of words
    Words,       \* names of files that were there before
    LastHalfDay  \* bound: the clock's last half day

ASSUME ClockIsBounded == LastHalfDay \in Nat
ASSUME NobodyIsNoRun == "nobody" \notin NoteRuns

looksLikeFlag(word) == (word # <<>> /\ Head(word) = "-") \/ Contains(word, "=")
looksLikeFilename(word) == Contains(word, ".") /\ ~Contains(word, " ")

(* Schema.NonEmptyArray and the two filters of every word. *)
Accepted(words) ==
    words # <<>> /\ \A w \in Range(words) : ~looksLikeFlag(w) /\ ~looksLikeFilename(w)
Title(words) ==
    FoldLeftDomain(LAMBDA r, i : IF i = 1 THEN words[i] ELSE r \o <<" ">> \o words[i], <<>>, words)

(* A note's day and slug; a file named by a word has no day. *)
Day(halfDays) == halfDays \div 2
Plain(word) == [day |-> -9, slug |-> word]

(* toISOString is UTC, whatever the time zone. *)
makeFilename(title, date) == [day |-> Day(date), slug |-> slugify(title)]

VARIABLES
    now,      \* the clock, in half days of UTC
    run,      \* run[r]: where run r stands, or how it ended
    words,    \* words[r]: its arguments
    checked,  \* checked[r]: how many of them are no files
    file,     \* file[r]: the name it has generated, and when
    files,    \* the directory: what is in each file that is there
    collided  \* history: runs that wrote the same file at the same time

noteVars == <<now, run, words, checked, file, files, collided>>

NoFile == [name |-> Plain(<<>>), date |-> 0]
Empty == [by |-> "nobody", title |-> <<>>, date |-> 0]
makeContent(r) == [by |-> r, title |-> Title(words[r]), date |-> file[r].date]
Put(name, content) == [n \in DOMAIN files \cup {name} |-> IF n = name THEN content ELSE files[n]]
Exists(word) == word = <<>> \/ Plain(word) \in DOMAIN files   \* join(cwd, "") is cwd
Ended == {"rejected", "ExistingArgFile", "FileAlreadyExists", "WriteError", "created", "killed"}

RunGoes(r, from, to) == run[r] = from /\ run' = [run EXCEPT ![r] = to]

NoteInit ==
    /\ now = 0 /\ collided = {}
    /\ run = [r \in NoteRuns |-> "start"] /\ words = [r \in NoteRuns |-> <<>>]
    /\ checked = [r \in NoteRuns |-> 0] /\ file = [r \in NoteRuns |-> NoFile]
    /\ files = [n \in {Plain(w) : w \in Words} |-> Empty]

(* Command.runWith: what the schema refuses never gets to the handler. *)
Start(r) ==
    /\ \E given \in Requests :
          /\ words' = [words EXCEPT ![r] = given]
          /\ RunGoes(r, "start", IF Accepted(given) THEN "words" ELSE "rejected")
    /\ UNCHANGED <<now, checked, file, files, collided>>

(* fs.exists of the next word *)
CheckWord(r) ==
    /\ checked[r] < Len(words[r])
    /\ LET found == Exists(words[r][checked[r] + 1])
       IN  /\ RunGoes(r, "words", IF found THEN "ExistingArgFile" ELSE "words")
           /\ checked' = [checked EXCEPT ![r] = IF found THEN @ ELSE @ + 1]
    /\ UNCHANGED <<now, words, file, files, collided>>

(* Mutant: a file that is there is written over. *)
CheckTargetBlind(r) ==
    /\ checked[r] = Len(words[r]) /\ RunGoes(r, "words", "write")
    /\ file' = [file EXCEPT ![r] = [name |-> makeFilename(Title(words[r]), now), date |-> now]]
    /\ UNCHANGED <<now, words, checked, files, collided>>

(* The clock is read once, for the name and for the content. *)
Writing(name) == {r \in NoteRuns : run[r] \in {"write", "opened"} /\ file[r].name = name}
CheckTarget(r) ==
    /\ checked[r] = Len(words[r])
    /\ LET name == makeFilename(Title(words[r]), now)
           found == name \in DOMAIN files
       IN  /\ file' = [file EXCEPT ![r] = [name |-> name, date |-> now]]
           /\ RunGoes(r, "words", IF found THEN "FileAlreadyExists" ELSE "write")
           /\ collided' = IF found THEN collided ELSE collided \cup {{r, q} : q \in Writing(name)}
    /\ UNCHANGED <<now, words, checked, files>>

(* writeFileString opens the file, and so empties one that is there, and   *)
(* then writes it; either may fail.                                        *)
Open(r) ==
    /\ \/ RunGoes(r, "write", "opened") /\ files' = Put(file[r].name, Empty)
       \/ RunGoes(r, "write", "WriteError") /\ UNCHANGED files
    /\ UNCHANGED <<now, words, checked, file, collided>>

(* Mutant: a write that failed is told as a note that was created. *)
WriteNoteOrNot(r) ==
    /\ RunGoes(r, "opened", "created")
    /\ files' \in {files, Put(file[r].name, makeContent(r))}
    /\ UNCHANGED <<now, words, checked, file, collided>>

WriteNote(r) ==
    /\ \/ RunGoes(r, "opened", "created") /\ files' = Put(file[r].name, makeContent(r))
       \/ RunGoes(r, "opened", "WriteError") /\ UNCHANGED files
    /\ UNCHANGED <<now, words, checked, file, collided>>

Kill(r) ==
    /\ run[r] \notin Ended \cup {"start"} /\ run' = [run EXCEPT ![r] = "killed"]
    /\ UNCHANGED <<now, words, checked, file, files, collided>>

Tick ==
    /\ now < LastHalfDay /\ now' = now + 1
    /\ UNCHANGED <<run, words, checked, file, files, collided>>

NoteNext ==
    \/ \E r \in NoteRuns :
          Start(r) \/ CheckWord(r) \/ CheckTarget(r) \/ Open(r) \/ WriteNote(r) \/ Kill(r)
    \/ Tick

NoteSpec == NoteInit /\ [][NoteNext]_noteVars

-----------------------------------------------------------------------------
NoteSteps == Ended \cup {"start", "words", "write", "opened"}
NoteNames == {file[r].name : r \in NoteRuns} \cup {Plain(w) : w \in Words}

NoteTypeOK ==
    /\ now \in 0..LastHalfDay
    /\ run \in [NoteRuns -> NoteSteps]
    /\ words \in [NoteRuns -> Requests \cup {<<>>}]
    /\ \A r \in NoteRuns : checked[r] \in 0..Len(words[r])
    /\ DOMAIN files \subseteq NoteNames
    /\ collided \subseteq SUBSET NoteRuns

(* bin.ts 125-146: a note that was reported as created is in its file, as  *)
(* it was written, unless another run was writing that file meanwhile: the *)
(* look and the write are not one step, but nothing else is lost. And a    *)
(* note's file is empty only while a run is writing it or after one that   *)
(* was killed or told of the error, which from then on keeps every other   *)
(* run of the same title on that day from its note.                        *)
NotesAreKept ==
    /\ \A r \in NoteRuns : run[r] = "created" =>
          \/ file[r].name \in DOMAIN files /\ files[file[r].name] = makeContent(r)
          \/ \E q \in NoteRuns \ {r} : {q, r} \in collided
    /\ \A name \in DOMAIN files : files[name] = Empty =>
          \/ \E w \in Words : name = Plain(w)
          \/ \E r \in NoteRuns : file[r].name = name /\ run[r] \in {"opened", "WriteError", "killed"}
=============================================================================
