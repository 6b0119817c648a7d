--------------------------- MODULE CommandProofs ---------------------------
(***************************************************************************)
(* Proofs about the command lines, whoever runs them and however often:    *)
(* ssh-keep, note and the command that steps a program; and about the      *)
(* suites of bun-test that share layers.                                   *)
(***************************************************************************)
EXTENDS NoteCli, SshKeep, SharedLayers, StepsCli, TLAPS


-----------------------------------------------------------------------------
(* ssh-keep *)

(* What Targets gives when tmux has the sessions S. *)
TargetsIn(S, target) ==
    IF target \in S THEN {target}
    ELSE LET longer == {s \in S : IsPrefix(target, s)} IN {s \in longer : longer = {s}}

FindsIn(S, asked) == IF asked = Nowhere THEN S # {} ELSE TargetsIn(S, asked) # {}

(* One client at a time installs a helper that may not be executed yet.    *)
OneInstaller ==
    /\ \A c, d \in Clients : Installing(c) /\ Installing(d) => c = d
    /\ \A c \in Clients : Installing(c) => ~helper.executable
    /\ \A c \in Clients : pc[c] = "chmod" => helper.text = "whole"
    /\ helper.executable => helper.text = "whole"

SshIInv ==
    /\ helper \in [text : {"none", "empty", "whole"}, executable : BOOLEAN]
    /\ pc \in [Clients -> SshSteps] /\ DOMAIN shows = Clients
    /\ DOMAIN name = Clients /\ DOMAIN seen = Clients
    /\ Nowhere \notin sessions
    /\ overlap \in BOOLEAN
    /\ ~overlap => OneInstaller
    /\ \A c \in Clients :
          /\ pc[c] = "run" => helper.executable
          /\ pc[c] = "attach" => FindsIn(seen[c], name[c])
          /\ pc[c] = "create" => ~FindsIn(seen[c], name[c])

LEMMA FindsNow ==
    ASSUME NEW c \in Clients
    PROVE  /\ Finds(c) <=> FindsIn(sessions, name[c])
           /\ Targets(name[c]) = TargetsIn(sessions, name[c])
           /\ name[c] \in sessions => TargetsIn(sessions, name[c]) = {name[c]}
BY DEF Finds, FindsIn, Targets, TargetsIn

LEMMA SshInitIInv == SshInit => SshIInv
<1> SUFFICES ASSUME SshInit
             PROVE  SshIInv
    OBVIOUS
<1>1. /\ helper \in [text : {"none", "empty", "whole"}, executable : BOOLEAN]
      /\ ~helper.executable /\ overlap = FALSE /\ sessions = {}
    BY DEF SshInit
<1>2. pc \in [Clients -> SshSteps] /\ \A c \in Clients : pc[c] = "away"
    BY DEF SshInit, SshSteps
<1>3. DOMAIN shows = Clients /\ DOMAIN name = Clients /\ DOMAIN seen = Clients
    BY DEF SshInit
<1> QED
    BY <1>1, <1>2, <1>3 DEF SshIInv, OneInstaller, Installing

LEMMA SshNextIInv == SshIInv /\ [SshNext]_sshVars => SshIInv'
<1> SUFFICES ASSUME SshIInv, [SshNext]_sshVars
             PROVE  SshIInv'
    OBVIOUS
<1> USE DEF SshIInv, OneInstaller, Installing, SshSteps, CommandGoes, server
<1>1. ASSUME NEW c \in Clients, Connect(c)
      PROVE  SshIInv'
    BY <1>1 DEF Connect
<1>2. ASSUME NEW c \in Clients, TestHelper(c)
      PROVE  SshIInv'
    BY <1>2 DEF TestHelper
<1>3. ASSUME NEW c \in Clients, OpenHelper(c)
      PROVE  SshIInv'
    BY <1>3 DEF OpenHelper
<1>4. ASSUME NEW c \in Clients, FillHelper(c)
      PROVE  SshIInv'
    BY <1>4 DEF FillHelper
<1>5. ASSUME NEW c \in Clients, ChmodHelper(c)
      PROVE  SshIInv'
    BY <1>5 DEF ChmodHelper
<1>6. ASSUME NEW c \in Clients, RunHelper(c)
      PROVE  SshIInv'
    BY <1>6 DEF RunHelper
<1>7. ASSUME NEW c \in Clients, Look(c)
      PROVE  SshIInv'
    BY <1>7, FindsNow DEF Look
<1>8. ASSUME NEW c \in Clients, Attach(c)
      PROVE  SshIInv'
    BY <1>8 DEF Attach
<1>9. ASSUME NEW c \in Clients, Create(c)
      PROVE  SshIInv'
    BY <1>9 DEF Create, MainSession, Nowhere
<1>10. ASSUME NEW c \in Clients, Choose(c)
       PROVE  SshIInv'
    BY <1>10 DEF Choose
<1>11. ASSUME NEW c \in Clients, Disconnect(c)
       PROVE  SshIInv'
    BY <1>11 DEF Disconnect
<1>12. ASSUME NEW s \in sessions, EndSession(s)
       PROVE  SshIInv'
    BY <1>12 DEF EndSession
<1>13. CASE UNCHANGED sshVars
    BY <1>13 DEF sshVars, FindsIn, TargetsIn
<1> QED
    BY <1>1, <1>2, <1>3, <1>4, <1>5, <1>6, <1>7, <1>8, <1>9, <1>10, <1>11, <1>12, <1>13
    DEF SshNext

LEMMA SshIInvHolds == SshSpec => []SshIInv
BY SshInitIInv, SshNextIInv, PTL DEF SshSpec

(* A helper that may be executed is whole, however many clients there are  *)
(* and wherever their connections dropped, unless two installed it at once.*)
THEOREM HelperIsWhole == SshSpec => []ExecutableIsWhole
<1>1. SshIInv => ExecutableIsWhole
    BY DEF SshIInv, OneInstaller, ExecutableIsWhole
<1> QED
    BY <1>1, SshIInvHolds, PTL

(* Whoever leaves without a session met a helper that was written twice or *)
(* sessions that changed; and nobody is put into another session than the  *)
(* one that has the name.                                                  *)
THEOREM ClientsLandInTmux == SshSpec => LandsInTmux
<1>1. ASSUME SshIInv, SshNext, NEW c \in Clients
      PROVE  LeavesForAReason(c)
    <2> SUFFICES ASSUME pc[c] # "left", pc'[c] = "left"
                 PROVE  overlap \/ (pc[c] # "run" /\ sessions # seen[c])
        BY DEF LeavesForAReason
    <2>1. RunHelper(c) \/ Attach(c) \/ Create(c)
        BY <1>1 DEF SshNext, SshIInv, SshSteps, CommandGoes, Connect, TestHelper, OpenHelper,
           FillHelper, ChmodHelper, RunHelper, Look, Attach, Create, Choose, Disconnect, EndSession
    <2>2. CASE RunHelper(c)
        BY <1>1, <2>2 DEF RunHelper, CommandGoes, SshIInv, OneInstaller
    <2>3. CASE Attach(c)
        BY <1>1, <2>3, FindsNow DEF Attach, CommandGoes, SshIInv, FindsIn
    <2>4. CASE Create(c)
        BY <1>1, <2>4, FindsNow DEF Create, CommandGoes, SshIInv, FindsIn
    <2> QED
        BY <2>1, <2>2, <2>3, <2>4
<1>2. ASSUME SshIInv, SshNext, NEW c \in Clients
      PROVE  LandsByName(c)
    <2> SUFFICES ASSUME shows'[c] \notin {shows[c], Nowhere}, name[c] \in sessions
                 PROVE  shows'[c] = name[c]
        BY DEF LandsByName
    <2>1. Attach(c) \/ Create(c)
        BY <1>2 DEF SshNext, SshIInv, server, Connect, TestHelper, OpenHelper,
           FillHelper, ChmodHelper, RunHelper, Look, Attach, Create, Choose, Disconnect, EndSession
    <2>2. CASE Attach(c)
        BY <1>2, <2>2, FindsNow DEF Attach, CommandGoes, SshIInv
    <2>3. CASE Create(c)
        BY <1>2, <2>3 DEF Create, CommandGoes, SshIInv
    <2> QED
        BY <2>1, <2>2, <2>3
<1>3. SshIInv /\ [SshNext]_sshVars => [\A c \in Clients : LeavesForAReason(c) /\ LandsByName(c)]_sshVars
    BY <1>1, <1>2
<1> QED
    BY <1>3, SshIInvHolds, PTL DEF SshSpec, LandsInTmux

-----------------------------------------------------------------------------
(* note *)

Begun == {"write", "opened", "created"}

(* Two runs that have passed the look for the same name, of which one has  *)
(* still to write, know of each other.                                     *)
TwoWritersCollide ==
    \A q, r \in NoteRuns :
        /\ q # r /\ file[q].name = file[r].name
        /\ run[q] \in Begun /\ run[r] \in Begun
        /\ run[q] # "created" \/ run[r] # "created"
        => {q, r} \in collided

KeptOrCollided(r) ==
    run[r] = "created" =>
        \/ file[r].name \in DOMAIN files /\ files[file[r].name] = makeContent(r)
        \/ \E q \in NoteRuns \ {r} : {q, r} \in collided

Blamed(note) ==
    \/ \E w \in Words : note = Plain(w)
    \/ \E r \in NoteRuns : file[r].name = note /\ run[r] \in {"opened", "WriteError", "killed"}

NoteIInv ==
    /\ run \in [NoteRuns -> NoteSteps] /\ DOMAIN file = NoteRuns /\ DOMAIN words = NoteRuns
    /\ files = [n \in DOMAIN files |-> files[n]]
    /\ \A r \in NoteRuns : run[r] \in {"opened", "created"} => file[r].name \in DOMAIN files
    /\ TwoWritersCollide
    /\ \A r \in NoteRuns : KeptOrCollided(r)
    /\ \A n \in DOMAIN files : files[n] = Empty => Blamed(n)

LEMMA NotesAreNotEmpty ==
    ASSUME NEW r \in NoteRuns
    PROVE  makeContent(r) # Empty
BY NobodyIsNoRun DEF makeContent, Empty

LEMMA NoteInitIInv == NoteInit => NoteIInv
<1> SUFFICES ASSUME NoteInit
             PROVE  NoteIInv
    OBVIOUS
<1>1. \A r \in NoteRuns : run[r] = "start"
    BY DEF NoteInit
<1>2. run \in [NoteRuns -> NoteSteps] /\ DOMAIN file = NoteRuns /\ DOMAIN words = NoteRuns
    BY DEF NoteInit, NoteSteps
<1>3. \A n \in DOMAIN files : Blamed(n)
    BY DEF NoteInit, Blamed
<1>4. files = [n \in DOMAIN files |-> files[n]]
    BY DEF NoteInit
<1> QED
    BY <1>1, <1>2, <1>3, <1>4 DEF NoteIInv, TwoWritersCollide, KeptOrCollided, Begun

(* A run that only moves on, or ends without a note, changes nothing that  *)
(* the others rely on.                                                     *)
LEMMA MovingOnIsSafe ==
    ASSUME NoteIInv, NEW r \in NoteRuns, NEW to \in NoteSteps \ Begun,
           run' = [run EXCEPT ![r] = to], files' = files, collided' = collided,
           file' = file \/ run[r] = "words",
           DOMAIN file' = NoteRuns, DOMAIN words' = NoteRuns,
           \A q \in NoteRuns \ {r} : file'[q] = file[q] /\ words'[q] = words[q],
           run[r] \in {"opened", "WriteError", "killed"} => to \in {"opened", "WriteError", "killed"}
    PROVE  NoteIInv'
<1>1. run' \in [NoteRuns -> NoteSteps] /\ (\A q \in NoteRuns \ {r} : run'[q] = run[q]) /\ run'[r] = to
    BY DEF NoteIInv
<1>2. TwoWritersCollide'
    BY <1>1 DEF NoteIInv, TwoWritersCollide, Begun
<1>3. \A q \in NoteRuns : KeptOrCollided(q)'
    BY <1>1 DEF NoteIInv, KeptOrCollided, Begun, makeContent
<1>4. \A n \in DOMAIN files' : files'[n] = Empty' => Blamed(n)'
    <2> SUFFICES ASSUME NEW n \in DOMAIN files, files[n] = Empty
                 PROVE  Blamed(n)'
        BY DEF Empty
    <2>1. Blamed(n)
        BY DEF NoteIInv
    <2> QED
        BY <2>1, <1>1 DEF Blamed
<1> QED
    BY <1>1, <1>2, <1>3, <1>4 DEF NoteIInv, Begun

LEMMA NoteNextIInv == NoteIInv /\ [NoteNext]_noteVars => NoteIInv'
<1> SUFFICES ASSUME NoteIInv, [NoteNext]_noteVars
             PROVE  NoteIInv'
    OBVIOUS
<1>1. ASSUME NEW r \in NoteRuns, Start(r)
      PROVE  NoteIInv'
    <2>1. PICK given \in Requests : /\ words' = [words EXCEPT ![r] = given]
                                   /\ RunGoes(r, "start", IF Accepted(given) THEN "words" ELSE "rejected")
        BY <1>1 DEF Start
    <2>2. /\ run[r] = "start" /\ DOMAIN words' = NoteRuns
          /\ \A q \in NoteRuns \ {r} : words'[q] = words[q]
        BY <2>1 DEF RunGoes, NoteIInv
    <2>3. file' = file /\ files' = files /\ collided' = collided
        BY <1>1 DEF Start
    <2>4. PICK to \in {"words", "rejected"} : run' = [run EXCEPT ![r] = to]
        BY <2>1 DEF RunGoes
    <2>5. to \in NoteSteps \ Begun
        BY DEF NoteSteps, Ended, Begun
    <2> QED
        BY <2>2, <2>3, <2>4, <2>5, MovingOnIsSafe DEF NoteIInv
<1>2. ASSUME NEW r \in NoteRuns, CheckWord(r)
      PROVE  NoteIInv'
    BY <1>2, MovingOnIsSafe DEF CheckWord, RunGoes, NoteIInv, NoteSteps, Ended, Begun
<1>3. ASSUME NEW r \in NoteRuns, CheckTarget(r)
      PROVE  NoteIInv'
    <2> DEFINE title == makeFilename(Title(words[r]), now)
    <2>1. CASE title \in DOMAIN files
        <3>1. /\ run' = [run EXCEPT ![r] = "FileAlreadyExists"] /\ run[r] = "words"
              /\ files' = files /\ collided' = collided /\ words' = words
              /\ DOMAIN file' = NoteRuns /\ \A q \in NoteRuns \ {r} : file'[q] = file[q]
            BY <1>3, <2>1 DEF CheckTarget, RunGoes, NoteIInv
        <3> QED
            BY <3>1, MovingOnIsSafe DEF NoteIInv, NoteSteps, Ended, Begun
    <2>2. CASE title \notin DOMAIN files
        <3>1. /\ run' = [run EXCEPT ![r] = "write"] /\ run[r] = "words" /\ files' = files /\ words' = words
              /\ collided' = collided \cup {{r, q} : q \in Writing(title)}
              /\ DOMAIN file' = NoteRuns /\ file'[r].name = title
              /\ \A q \in NoteRuns \ {r} : file'[q] = file[q]
            BY <1>3, <2>2 DEF CheckTarget, RunGoes, NoteIInv
        <3> HIDE DEF title
        <3>2. /\ run' \in [NoteRuns -> NoteSteps] /\ run'[r] = "write"
              /\ \A q \in NoteRuns \ {r} : run'[q] = run[q]
            BY <3>1 DEF NoteIInv, NoteSteps
        <3>3. TwoWritersCollide'
            <4> SUFFICES ASSUME NEW p \in NoteRuns, NEW q \in NoteRuns, p # q, file'[p].name = file'[q].name,
                                run'[p] \in Begun, run'[q] \in Begun, run'[p] # "created" \/ run'[q] # "created"
                         PROVE  {p, q} \in collided'
                BY DEF TwoWritersCollide
            <4>1. ASSUME NEW o \in NoteRuns \ {r}, file'[o].name = title, run'[o] \in Begun
                  PROVE  {r, o} \in collided'
                <5>1. o \in Writing(title)
                    BY <4>1, <2>2, <3>1, <3>2 DEF Writing, NoteIInv, Begun
                <5> QED
                    BY <5>1, <3>1
            <4>2. CASE p # r /\ q # r
                BY <4>2, <3>1, <3>2 DEF NoteIInv, TwoWritersCollide
            <4>3. CASE p = r
                BY <4>3, <4>1, <3>1
            <4>4. CASE q = r
                <5>1. {q, p} \in collided'
                    BY <4>4, <4>1, <3>1
                <5>2. {q, p} = {p, q}
                    OBVIOUS
                <5> QED
                    BY <5>1, <5>2
            <4> QED
                BY <4>2, <4>3, <4>4
        <3>4. \A q \in NoteRuns : KeptOrCollided(q)'
            BY <3>1, <3>2 DEF NoteIInv, KeptOrCollided, makeContent
        <3>5. \A n \in DOMAIN files' : files'[n] = Empty' => Blamed(n)'
            <4> SUFFICES ASSUME NEW n \in DOMAIN files, files[n] = Empty
                         PROVE  Blamed(n)'
                BY <3>1 DEF Empty
            <4>1. Blamed(n)
                BY DEF NoteIInv
            <4> QED
                BY <4>1, <3>1, <3>2 DEF Blamed
        <3> QED
            BY <3>1, <3>2, <3>3, <3>4, <3>5 DEF NoteIInv
    <2> QED
        BY <2>1, <2>2
<1>4. ASSUME NEW r \in NoteRuns, Open(r)
      PROVE  NoteIInv'
    <2>1. CASE RunGoes(r, "write", "WriteError") /\ files' = files
        BY <1>4, <2>1, MovingOnIsSafe DEF Open, RunGoes, NoteIInv, NoteSteps, Ended, Begun
    <2>2. CASE RunGoes(r, "write", "opened") /\ files' = Put(file[r].name, Empty)
        <3>1. /\ run[r] = "write" /\ run' \in [NoteRuns -> NoteSteps] /\ run'[r] = "opened"
              /\ (\A q \in NoteRuns \ {r} : run'[q] = run[q])
              /\ words' = words /\ file' = file /\ collided' = collided
            BY <1>4, <2>2 DEF Open, RunGoes, NoteIInv, NoteSteps
        <3>2. /\ DOMAIN files' = DOMAIN files \cup {file[r].name} /\ files' = [n \in DOMAIN files' |-> files'[n]]
              /\ \A n \in DOMAIN files' : files'[n] = IF n = file[r].name THEN Empty ELSE files[n]
            BY <2>2 DEF Put
        <3>3. TwoWritersCollide'
            BY <3>1 DEF NoteIInv, TwoWritersCollide, Begun
        <3>4. ASSUME NEW q \in NoteRuns
              PROVE  KeptOrCollided(q)'
            <4>1. CASE run[q] = "created" /\ file[q].name = file[r].name
                <5>1. {r, q} \in collided /\ r # q
                    BY <4>1, <3>1 DEF NoteIInv, TwoWritersCollide, Begun
                <5> QED
                    BY <5>1, <3>1 DEF KeptOrCollided
            <4>2. CASE run[q] # "created" \/ file[q].name # file[r].name
                BY <4>2, <3>1, <3>2 DEF NoteIInv, KeptOrCollided, makeContent
            <4> QED
                BY <4>1, <4>2
        <3>5. \A n \in DOMAIN files' : files'[n] = Empty' => Blamed(n)'
            <4> SUFFICES ASSUME NEW n \in DOMAIN files', files'[n] = Empty
                         PROVE  Blamed(n)'
                BY DEF Empty
            <4>1. CASE n = file[r].name
                BY <4>1, <3>1 DEF Blamed
            <4>2. CASE n # file[r].name
                <5>1. n \in DOMAIN files /\ Blamed(n)
                    BY <4>2, <3>2 DEF NoteIInv
                <5> QED
                    BY <5>1, <3>1 DEF Blamed
            <4> QED
                BY <4>1, <4>2
        <3>6. \A q \in NoteRuns : run'[q] \in {"opened", "created"} => file'[q].name \in DOMAIN files'
            BY <3>1, <3>2 DEF NoteIInv
        <3> QED
            BY <3>1, <3>2, <3>3, <3>4, <3>5, <3>6 DEF NoteIInv
    <2> QED
        BY <1>4, <2>1, <2>2 DEF Open
<1>5. ASSUME NEW r \in NoteRuns, WriteNote(r)
      PROVE  NoteIInv'
    <2>1. CASE RunGoes(r, "opened", "WriteError") /\ files' = files
        BY <1>5, <2>1, MovingOnIsSafe DEF WriteNote, RunGoes, NoteIInv, NoteSteps, Ended, Begun
    <2>2. CASE RunGoes(r, "opened", "created") /\ files' = Put(file[r].name, makeContent(r))
        <3>1. /\ run[r] = "opened" /\ run' \in [NoteRuns -> NoteSteps] /\ run'[r] = "created"
              /\ (\A q \in NoteRuns \ {r} : run'[q] = run[q])
              /\ words' = words /\ file' = file /\ collided' = collided
            BY <1>5, <2>2 DEF WriteNote, RunGoes, NoteIInv, NoteSteps, Ended
        <3>2. /\ DOMAIN files' = DOMAIN files /\ files' = [n \in DOMAIN files' |-> files'[n]]
              /\ file[r].name \in DOMAIN files
              /\ \A n \in DOMAIN files' : files'[n] = IF n = file[r].name THEN makeContent(r) ELSE files[n]
            BY <2>2, <3>1 DEF Put, NoteIInv
        <3>3. TwoWritersCollide'
            BY <3>1 DEF NoteIInv, TwoWritersCollide, Begun
        <3>4. ASSUME NEW q \in NoteRuns
              PROVE  KeptOrCollided(q)'
            <4>1. CASE q # r /\ run[q] = "created" /\ file[q].name = file[r].name
                <5>1. {r, q} \in collided
                    BY <4>1, <3>1 DEF NoteIInv, TwoWritersCollide, Begun
                <5> QED
                    BY <4>1, <5>1, <3>1 DEF KeptOrCollided
            <4>2. CASE q = r
                BY <4>2, <3>1, <3>2 DEF KeptOrCollided, makeContent
            <4>3. CASE q # r /\ (run[q] # "created" \/ file[q].name # file[r].name)
                BY <4>3, <3>1, <3>2 DEF NoteIInv, KeptOrCollided, makeContent
            <4> QED
                BY <4>1, <4>2, <4>3
        <3>5. \A n \in DOMAIN files' : files'[n] = Empty' => Blamed(n)'
            <4> SUFFICES ASSUME NEW n \in DOMAIN files, files'[n] = Empty
                         PROVE  Blamed(n)'
                BY <3>2 DEF Empty
            <4>1. n # file[r].name /\ Blamed(n)
                BY <3>2, NotesAreNotEmpty DEF NoteIInv
            <4> QED
                BY <4>1, <3>1 DEF Blamed
        <3> QED
            BY <3>1, <3>2, <3>3, <3>4, <3>5 DEF NoteIInv
    <2> QED
        BY <1>5, <2>1, <2>2 DEF WriteNote
<1>6. ASSUME NEW r \in NoteRuns, Kill(r)
      PROVE  NoteIInv'
    BY <1>6, MovingOnIsSafe DEF Kill, NoteIInv, NoteSteps, Ended, Begun
<1>7. CASE Tick \/ UNCHANGED noteVars
    <2>1. run' = run /\ words' = words /\ file' = file /\ files' = files /\ collided' = collided
        BY <1>7 DEF Tick, noteVars
    <2>2. TwoWritersCollide'
        BY <2>1 DEF NoteIInv, TwoWritersCollide
    <2>3. \A r \in NoteRuns : KeptOrCollided(r)'
        BY <2>1 DEF NoteIInv, KeptOrCollided, makeContent
    <2>4. \A n \in DOMAIN files' : files'[n] = Empty' => Blamed(n)'
        BY <2>1 DEF NoteIInv, Blamed, Empty
    <2> QED
        BY <2>1, <2>2, <2>3, <2>4 DEF NoteIInv
<1> QED
    BY <1>1, <1>2, <1>3, <1>4, <1>5, <1>6, <1>7 DEF NoteNext

(* Whatever runs are given, fail or are killed, a created note is as it    *)
(* was written unless two runs knew nothing of each other, and an empty    *)
(* file is the work of a run that has not finished it.                     *)
THEOREM CreatedNotesAreKept == NoteSpec => []NotesAreKept
<1>1. NoteIInv => NotesAreKept
    BY DEF NoteIInv, KeptOrCollided, Blamed, NotesAreKept
<1> QED
    BY <1>1, NoteInitIInv, NoteNextIInv, PTL DEF NoteSpec

-----------------------------------------------------------------------------
(* Suites that share layers *)

EndOf(s) == [suite |-> s, kind |-> "end"]
HasEnded(s) == \E i \in DOMAIN plan : i < at /\ plan[i] = EndOf(s)

(* A scope holds a layer in one memo map only, the one its suite shares    *)
(* with the suites around it, from the build of its context to its end.    *)
HoldersAreOpen ==
    \A m, l \in Suites : \A s \in observers[m][l] :
        ctx[s] # "none" /\ m = memoMap(s) /\ l \in Uses[s] /\ ~HasEnded(s)

Provided(s) ==
    ctx[s] = "ready" /\ ~HasEnded(s) =>
        \A l \in Uses[s] : s \in observers[memoMap(s)][l] /\ l \notin broken

(* Bun waits for one test at a time, which has got its layers. *)
OneIsWaitedFor ==
    \A t \in running \ late : t = at /\ Item("test") /\ ctx[Current] = "ready"

LayersIInv ==
    /\ plan \in Plans /\ at \in Nat /\ DOMAIN ctx = Suites
    /\ observers \in [Suites -> [Suites -> SUBSET Suites]]
    /\ \A s \in Suites : ctx[s] # "none" => \E i \in DOMAIN plan : plan[i].suite = s
    /\ HoldersAreOpen
    /\ \A s \in Suites : Provided(s)
    /\ OneIsWaitedFor

LEMMA NestedSuitesShareAMap ==
    ASSUME NEW s \in Suites, NEW l \in Uses[s]
    PROVE  l \in Suites /\ memoMap(s) \in Suites /\ memoMap(l) = memoMap(s)
<1>1. l \in Suites /\ Uses[l] \subseteq Uses[s]
    BY UsesAreNested
<1>2. memoMap(s) \in Uses[s] /\ Uses[memoMap(s)] = {memoMap(s)}
    BY UsesAreNested DEF memoMap
<1>3. memoMap(l) \in Uses[l] /\ Uses[memoMap(l)] = {memoMap(l)}
    BY <1>1, UsesAreNested DEF memoMap
<1>4. memoMap(l) \in Uses[memoMap(s)] \/ memoMap(s) \in Uses[memoMap(l)]
    BY <1>1, <1>2, <1>3, UsesAreNested
<1> QED
    BY <1>1, <1>2, <1>3, <1>4, UsesAreNested

LEMMA ItemsOfPlans ==
    ASSUME NEW S, NEW q \in Seq(S), NEW i \in DOMAIN q
    PROVE  q[i] \in S
OBVIOUS

LEMMA TheCurrentSuiteIsOpen ==
    ASSUME LayersIInv, NEW kind, Item(kind)
    PROVE  Current \in Suites /\ ~HasEnded(Current) /\ plan[at].kind = kind
<1>1. plan \in Seq([suite : Suites, kind : {"test", "end"}]) /\ at \in DOMAIN plan
    BY PlansAreDeclared DEF LayersIInv, Item
<1>2. Current \in Suites
    <2>1. plan[at] \in [suite : Suites, kind : {"test", "end"}]
        BY <1>1, ItemsOfPlans
    <2> QED
        BY <2>1 DEF Current
<1>3. ASSUME NEW i \in DOMAIN plan, i < at, plan[i] = EndOf(Current)
      PROVE  FALSE
    <2>1. plan[i].kind = "end" /\ plan[at].suite = plan[i].suite
        BY <1>3 DEF EndOf, Current
    <2>2. at <= i
        BY <1>1, <2>1, PlansAreDeclared DEF LayersIInv
    <2> QED
        BY <2>2, <1>1, <1>3 DEF LayersIInv
<1> QED
    BY <1>2, <1>3 DEF HasEnded, Item

(* The steps over an item: what is over then. *)
LEMMA OnlyAnEndEnds ==
    ASSUME LayersIInv, NEW kind, Item(kind), plan' = plan, at' = at + 1, NEW s
    PROVE  HasEnded(s)' <=> HasEnded(s) \/ (kind = "end" /\ s = Current)
<1>1. plan \in Seq([suite : Suites, kind : {"test", "end"}]) /\ at \in DOMAIN plan /\ plan[at].kind = kind
    BY PlansAreDeclared DEF LayersIInv, Item
<1>2. \A i \in DOMAIN plan : i < at' <=> i < at \/ i = at
    BY <1>1 DEF LayersIInv
<1>3. plan[at] = EndOf(s) <=> kind = "end" /\ s = Current
    <2>1. plan[at] \in [suite : Suites, kind : {"test", "end"}]
        BY <1>1, ItemsOfPlans
    <2> QED
        BY <1>1, <2>1 DEF EndOf, Current
<1> QED
    BY <1>1, <1>2, <1>3 DEF HasEnded

(* A step that leaves the memo maps alone and ends no suite. *)
LEMMA WaitingOnIsSafe ==
    ASSUME LayersIInv, plan' = plan, ctx' = ctx, observers' = observers, broken' = broken,
           at' \in Nat, \A s \in Suites : HasEnded(s)' <=> HasEnded(s), OneIsWaitedFor'
    PROVE  LayersIInv'
<1>1. HoldersAreOpen'
    BY DEF LayersIInv, HoldersAreOpen, memoMap
<1>2. \A s \in Suites : Provided(s)'
    BY DEF LayersIInv, Provided, memoMap
<1> QED
    BY <1>1, <1>2 DEF LayersIInv

LEMMA LayersInitIInv == LayersInit => LayersIInv
<1> SUFFICES ASSUME LayersInit
             PROVE  LayersIInv
    OBVIOUS
<1> USE DEF LayersInit, LayersStart
<1>1. plan \in Plans /\ at \in Nat /\ DOMAIN ctx = Suites
    OBVIOUS
<1>2. observers \in [Suites -> [Suites -> SUBSET Suites]]
    OBVIOUS
<1>3. \A s \in Suites : ctx[s] = "none"
    OBVIOUS
<1>4. HoldersAreOpen /\ OneIsWaitedFor
    BY DEF HoldersAreOpen, OneIsWaitedFor
<1> QED
    BY <1>1, <1>2, <1>3, <1>4 DEF LayersIInv, Provided

LEMMA BuildKeepsIInv == LayersIInv /\ BuildContext => LayersIInv'
<1> SUFFICES ASSUME LayersIInv, BuildContext
             PROVE  LayersIInv'
    OBVIOUS
<1> DEFINE s == Current
           m == memoMap(s)
           new == {l \in Uses[s] : ~Held(m, l)}
           reached(bad) == {l \in Uses[s] : (Uses[l] \ {l}) \cap bad = {}}
<1>1. s \in Suites /\ ~HasEnded(s)
    BY TheCurrentSuiteIsOpen DEF BuildContext
<1>2. /\ plan' = plan /\ at' = at /\ running' = running /\ late' = late
      /\ Item("test") /\ ctx[s] = "none"
    BY DEF BuildContext
<1>3. PICK failing \in SUBSET new :
        /\ broken' = broken \cup failing
        /\ observers' = [observers EXCEPT ![m] =
              [l \in Suites |-> IF l \in reached(broken \cup failing) THEN @[l] \cup {s} ELSE @[l]]]
        /\ ctx' = [ctx EXCEPT ![s] = IF Uses[s] \cap (broken \cup failing) = {} THEN "ready" ELSE "failed"]
    BY DEF BuildContext, Build
<1> DEFINE bad == broken \cup failing
<1>4. m \in Suites /\ Uses[s] \subseteq Suites
    BY <1>1, NestedSuitesShareAMap, UsesAreNested
<1>5. /\ DOMAIN ctx' = Suites /\ ctx'[s] \in {"ready", "failed"}
      /\ (ctx'[s] = "ready" => Uses[s] \cap bad = {})
      /\ \A q \in Suites \ {s} : ctx'[q] = ctx[q]
    BY <1>1, <1>3 DEF LayersIInv
<1>6. /\ observers' \in [Suites -> [Suites -> SUBSET Suites]]
      /\ \A l \in Suites : observers'[m][l] =
            IF l \in reached(bad) THEN observers[m][l] \cup {s} ELSE observers[m][l]
      /\ \A n, l \in Suites : n # m => observers'[n][l] = observers[n][l]
    BY <1>1, <1>3, <1>4 DEF LayersIInv
<1>7. \A q : HasEnded(q)' <=> HasEnded(q)
    BY <1>2 DEF HasEnded
<1>8. s = Current' /\ \E i \in DOMAIN plan : plan[i].suite = s
    BY <1>2 DEF Current, Item
<1>9. \A l \in new : l \in Uses[s] /\ observers[m][l] = {}
    BY DEF Held
<1> HIDE DEF s, m, new
<1>10. HoldersAreOpen'
    <2> SUFFICES ASSUME NEW n \in Suites, NEW l \in Suites, NEW q \in observers'[n][l]
                 PROVE  ctx'[q] # "none" /\ n = memoMap(q) /\ l \in Uses[q] /\ ~HasEnded(q)
        BY <1>7 DEF HoldersAreOpen, memoMap
    <2>1. CASE q \in observers[n][l]
        <3>1. q \in Suites /\ ctx[q] # "none" /\ n = memoMap(q) /\ l \in Uses[q] /\ ~HasEnded(q)
            BY <2>1 DEF LayersIInv, HoldersAreOpen
        <3> QED
            BY <3>1, <1>2, <1>5
    <2>2. CASE q \notin observers[n][l]
        <3>1. n = m /\ q = s /\ l \in Uses[s]
            BY <2>2, <1>6
        <3> QED
            BY <3>1, <1>1, <1>5 DEF m
    <2> QED
        BY <2>1, <2>2
<1>11. \A q \in Suites : Provided(q)'
    <2> SUFFICES ASSUME NEW q \in Suites, ctx'[q] = "ready", ~HasEnded(q), NEW l \in Uses[q]
                 PROVE  q \in observers'[memoMap(q)][l] /\ l \notin broken'
        BY <1>7 DEF Provided, memoMap
    <2>1. l \in Suites /\ memoMap(q) \in Suites /\ memoMap(l) = memoMap(q)
        BY NestedSuitesShareAMap
    <2>2. CASE q = s
        <3>1. Uses[l] \subseteq Uses[s]
            BY <2>2, UsesAreNested
        <3>2. l \in reached(bad) /\ l \notin bad
            BY <2>2, <3>1, <1>5
        <3> QED
            BY <2>1, <2>2, <3>2, <1>3, <1>6 DEF m
    <2>3. CASE q # s
        <3>1. q \in observers[memoMap(q)][l] /\ l \notin broken
            BY <2>3, <1>5 DEF LayersIInv, Provided
        <3>2. q \in observers'[memoMap(q)][l]
            BY <3>1, <2>1, <1>6
        <3>3. ASSUME l \in failing
              PROVE  FALSE
            <4>1. l \in Uses[s] /\ observers[m][l] = {}
                BY <3>3, <1>3, <1>9
            <4>2. memoMap(l) = m
                BY <4>1, <1>1, NestedSuitesShareAMap DEF m
            <4> QED
                BY <4>1, <4>2, <2>1, <3>1
        <3> QED
            BY <3>1, <3>2, <3>3, <1>3
    <2> QED
        BY <2>2, <2>3
<1>12. OneIsWaitedFor'
    BY <1>2, <1>5, <1>8 DEF LayersIInv, OneIsWaitedFor, Item, s
<1>13. \A q \in Suites : ctx'[q] # "none" => \E i \in DOMAIN plan' : plan'[i].suite = q
    BY <1>2, <1>5, <1>8 DEF LayersIInv
<1> QED
    BY <1>2, <1>5, <1>6, <1>10, <1>11, <1>12, <1>13 DEF LayersIInv

LEMMA TeardownKeepsIInv == LayersIInv /\ Teardown => LayersIInv'
<1> SUFFICES ASSUME LayersIInv, Teardown
             PROVE  LayersIInv'
    OBVIOUS
<1> DEFINE s == Current
           m == memoMap(s)
<1>1. s \in Suites /\ ~HasEnded(s) /\ plan[at].kind = "end"
    BY TheCurrentSuiteIsOpen DEF Teardown
<1>2. /\ plan' = plan /\ at' = at + 1 /\ running' = running /\ late' = late /\ ctx' = ctx
      /\ Item("end")
      /\ observers' = [observers EXCEPT ![m] = [l \in Suites |-> @[l] \ {s}]]
      /\ broken' \subseteq broken
    BY DEF Teardown
<1>3. m \in Suites
    BY <1>1, NestedSuitesShareAMap, UsesAreNested
<1>4. /\ observers' \in [Suites -> [Suites -> SUBSET Suites]]
      /\ \A l \in Suites : observers'[m][l] = observers[m][l] \ {s}
      /\ \A n, l \in Suites : n # m => observers'[n][l] = observers[n][l]
    BY <1>1, <1>2, <1>3 DEF LayersIInv
<1>5. \A q : HasEnded(q)' <=> HasEnded(q) \/ q = s
    BY <1>2, OnlyAnEndEnds
<1>6. running \ late = {}
    BY <1>1 DEF LayersIInv, OneIsWaitedFor, Item
<1> HIDE DEF s, m
<1>7. HoldersAreOpen'
    <2> SUFFICES ASSUME NEW n \in Suites, NEW l \in Suites, NEW q \in observers'[n][l]
                 PROVE  ctx[q] # "none" /\ n = memoMap(q) /\ l \in Uses[q] /\ ~HasEnded(q) /\ q # s
        BY <1>2, <1>5 DEF HoldersAreOpen, memoMap
    <2>1. q \in observers[n][l] /\ (n = m => q # s)
        BY <1>4
    <2>2. q \in Suites /\ ctx[q] # "none" /\ n = memoMap(q) /\ l \in Uses[q] /\ ~HasEnded(q)
        BY <2>1 DEF LayersIInv, HoldersAreOpen
    <2> QED
        BY <2>1, <2>2 DEF m
<1>8. \A q \in Suites : Provided(q)'
    <2> SUFFICES ASSUME NEW q \in Suites, ctx[q] = "ready", ~HasEnded(q), q # s, NEW l \in Uses[q]
                 PROVE  q \in observers'[memoMap(q)][l] /\ l \notin broken'
        BY <1>2, <1>5 DEF Provided, memoMap
    <2>1. l \in Suites /\ memoMap(q) \in Suites
        BY NestedSuitesShareAMap
    <2>2. q \in observers[memoMap(q)][l] /\ l \notin broken
        BY DEF LayersIInv, Provided
    <2> QED
        BY <2>1, <2>2, <1>2, <1>4
<1> QED
    BY <1>2, <1>4, <1>6, <1>7, <1>8 DEF LayersIInv, OneIsWaitedFor

LEMMA LayersNextIInv == LayersIInv /\ [LayersNext]_layersVars => LayersIInv'
<1> SUFFICES ASSUME LayersIInv, [LayersNext]_layersVars
             PROVE  LayersIInv'
    OBVIOUS
<1>1. ASSUME FailWithoutContext \/ EndTest \/ TimeOut
      PROVE  LayersIInv'
    <2>1. /\ Item("test") /\ at' = at + 1 /\ plan' = plan
          /\ ctx' = ctx /\ observers' = observers /\ broken' = broken
        BY <1>1 DEF FailWithoutContext, EndTest, TimeOut
    <2>2. \A s \in Suites : HasEnded(s)' <=> HasEnded(s)
        BY <2>1, OnlyAnEndEnds
    <2>3. running' \ late' = {}
        BY <1>1 DEF FailWithoutContext, EndTest, TimeOut, LayersIInv, OneIsWaitedFor
    <2> QED
        BY <2>1, <2>2, <2>3, WaitingOnIsSafe DEF OneIsWaitedFor, LayersIInv
<1>2. ASSUME BeginTest \/ EndLate \/ UNCHANGED layersVars
      PROVE  LayersIInv'
    <2>1. /\ at' = at /\ plan' = plan /\ ctx' = ctx /\ observers' = observers /\ broken' = broken
        BY <1>2 DEF BeginTest, EndLate, layersVars
    <2>2. \A s \in Suites : HasEnded(s)' <=> HasEnded(s)
        BY <2>1 DEF HasEnded
    <2>3. \A t \in running' \ late' : t \in running \ late \/ (t = at /\ BeginTest)
        BY <1>2 DEF BeginTest, EndLate, layersVars
    <2>4. OneIsWaitedFor'
        BY <2>1, <2>3 DEF OneIsWaitedFor, LayersIInv, BeginTest, Item, Current
    <2> QED
        BY <2>1, <2>2, <2>4, WaitingOnIsSafe DEF LayersIInv
<1> QED
    BY <1>1, <1>2, BuildKeepsIInv, TeardownKeepsIInv DEF LayersNext

LEMMA AlwaysLayersIInv == LayersSpec => []LayersIInv
BY LayersInitIInv, LayersNextIInv, PTL DEF LayersSpec

(* However suites are nested and whatever fails or takes too long, a test  *)
(* that Bun waits for has every layer it was given until it ends: the ends *)
(* of suites nested in its own release none of them.                       *)
THEOREM TestsKeepTheirLayers == LayersSpec => []LayersOutliveTests
<1>1. LayersIInv => LayersOutliveTests
    <2> SUFFICES ASSUME LayersIInv, NEW t \in running \ late, NEW l \in Uses[plan[t].suite]
                 PROVE  Alive(plan[t].suite, l)
        BY DEF LayersOutliveTests
    <2>1. t = at /\ Item("test") /\ ctx[Current] = "ready"
        BY DEF LayersIInv, OneIsWaitedFor
    <2>2. Current \in Suites /\ ~HasEnded(Current) /\ Current = plan[t].suite
        BY <2>1, TheCurrentSuiteIsOpen DEF Current
    <2> QED
        BY <2>1, <2>2 DEF LayersIInv, Provided, Alive, Held
<1> QED
    BY <1>1, AlwaysLayersIInv, PTL

(* No layer is held in two memo maps, and once every suite that was        *)
(* declared has ended no layer is held, failed ones included.              *)
THEOREM LayersAreReleased == LayersSpec => []EverythingIsReleased
<1>1. LayersIInv => EverythingIsReleased
    <2> SUFFICES ASSUME LayersIInv
                 PROVE  EverythingIsReleased
        OBVIOUS
    <2>1. ASSUME NEW l \in Suites, NEW n \in Suites, Held(n, l)
          PROVE  n = memoMap(l) /\ at <= Len(plan)
        <3>1. PICK s \in observers[n][l] : TRUE
            BY <2>1 DEF Held
        <3>2. s \in Suites /\ ctx[s] # "none" /\ n = memoMap(s) /\ l \in Uses[s] /\ ~HasEnded(s)
            BY <3>1 DEF LayersIInv, HoldersAreOpen
        <3>3. n = memoMap(l)
            BY <3>2, NestedSuitesShareAMap
        <3>4. PICK i \in DOMAIN plan : plan[i].suite = s
            BY <3>2 DEF LayersIInv
        <3>5. PICK j \in DOMAIN plan : plan[j] = EndOf(s)
            BY <3>4, PlansAreDeclared DEF LayersIInv, EndOf
        <3>6. ~(j < at)
            BY <3>2, <3>5 DEF HasEnded
        <3>7. DOMAIN plan = 1..Len(plan) /\ Len(plan) \in Nat
            BY PlansAreDeclared DEF LayersIInv
        <3> QED
            BY <3>3, <3>6, <3>7 DEF LayersIInv
    <2>2. DOMAIN plan = 1..Len(plan) /\ Len(plan) \in Nat /\ at \in Nat
        BY PlansAreDeclared DEF LayersIInv
    <2> QED
        BY <2>1, <2>2 DEF EverythingIsReleased
<1> QED
    BY <1>1, AlwaysLayersIInv, PTL

-----------------------------------------------------------------------------
(* The command that steps a program, for any scripts, any option and any   *)
(* number of stops. The heart is that a stop is one token: its event in    *)
(* the queue, then the handler reading the script, then a fork or a        *)
(* command on the wire; never two of them. A stop whose token is gone is   *)
(* over, or its event ended in an error.                                   *)


IsPause(i) == events[i].kind = "paused"
Parses(i, s) == events[i].kind = "scriptParsed" /\ events[i].script = s
IsRun(i) == wire[i].name \in Runs
OfHandler(i) == wire[i].from = "handler"

PauseQueued == \E i \in 1..Len(events) : IsPause(i)
Parsed(s) == \E i \in 1..Len(events) : Parses(i, s)
RunSent == \E i \in 1..Len(wire) : IsRun(i)
HandlerSent == \E i \in 1..Len(wire) : OfHandler(i)

Ending == handler.at \in {"answering", "leaving"}
HasAsked == handler.at \in {"listing", "reading", "answering", "leaving"}

PauseIsLast ==
    \A i \in 1..Len(events) : IsPause(i) => i = Len(events) /\ events[i].script = place

(* The event of a stop is the stop's only token. *)
EventIsToken ==
    PauseQueued =>
        /\ dbg = "paused" /\ handler.at # "reading" /\ forks = 0 /\ ~RunSent
        /\ Ending => reply["handler"] # "none"

ReadingIsToken ==
    handler.at = "reading" =>
        /\ dbg = "paused" /\ handler.script = place /\ place \notin Internal
        /\ forks = 0 /\ ~RunSent

ForkIsToken ==
    forks > 0 =>
        forks = 1 /\ dbg = "paused" /\ ~RunSent /\ handler.at # "reading" /\ ~Ending

RunIsToken == RunSent => dbg = "paused"

OneRun == \A i, j \in 1..Len(wire) : IsRun(i) /\ IsRun(j) => i = j
OneOfHandler == \A i, j \in 1..Len(wire) : OfHandler(i) /\ OfHandler(j) => i = j

(* A handler that has asked for the end of a stop has its StepOver or      *)
(* Resume on the wire, and no other is there.                              *)
CommandsMatch ==
    \A i \in 1..Len(wire) :
        /\ IsRun(i) => (OfHandler(i) <=> Ending)
        /\ OfHandler(i) => (IsRun(i) <=> Ending)

(* What the handler waits for is on the wire or has come back. *)
HandlerWaits ==
    /\ HandlerSent => HasAsked /\ reply["handler"] = "none"
    /\ reply["handler"] # "none" => HasAsked
    /\ Ending => \/ reply["handler"] = "none" /\ RunSent
                 \/ reply["handler"] # "none" /\ forks = 0 /\ ~RunSent
    /\ reply["handler"] = "failed" /\ link = "up" => ~Ending

LostIsEmpty == link = "lost" => events = <<>> /\ wire = <<>>

ListedAreAnnounced ==
    /\ \A s \in Scripts : Parsed(s) => s \in announced
    /\ \A s \in Scripts : scripts[s] # "unlisted" => s \in announced
    /\ handler.at \in {"listing", "reading"} =>
          handler.script \in Scripts /\ Known(handler.script)
    /\ dbg = "paused" => place \in announced \cup {NoFrame}

EventsHaveScripts ==
    \A i \in 1..Len(events) :
        events[i].kind = "scriptParsed" => events[i].script \in Scripts

AnnouncedAreListed ==
    link = "up" => \A s \in announced : Known(s) \/ Parsed(s)

LastIsLast ==
    /\ stepCount <= Max1(MaxSteps)
    /\ stepCount >= 1 /\ stepCount >= MaxSteps => handler.at \in {"leaving", "over"}

HasToken ==
    dbg = "paused" /\ link = "up" /\ Running /\ stops \notin dropped =>
        PauseQueued \/ handler.at = "reading" \/ forks > 0 \/ RunSent

(* Nothing is asked and nothing stops before the session stands. *)
NotYet == main.at = "discover" => wire = <<>> /\ ~enabled /\ dbg # "paused"

Inv ==
    /\ TypeOK /\ NotYet
    /\ PauseIsLast /\ EventIsToken /\ ReadingIsToken /\ ForkIsToken /\ RunIsToken
    /\ OneRun /\ OneOfHandler /\ CommandsMatch /\ HandlerWaits /\ LostIsEmpty
    /\ EventsHaveScripts /\ ListedAreAnnounced /\ AnnouncedAreListed
    /\ LastIsLast /\ HasToken

-----------------------------------------------------------------------------
(* What the operations on the queue and on the wire leave. *)

(* A command named n was written by fiber f. *)
Written(f, n) ==
    /\ wire' \in Seq(Command)
    /\ RunSent' <=> RunSent \/ n \in Runs
    /\ HandlerSent' <=> HandlerSent \/ f = "handler"
    /\ OneRun /\ (~RunSent \/ n \notin Runs) => OneRun'
    /\ OneOfHandler /\ (~HandlerSent \/ f # "handler") => OneOfHandler'
    /\ \A i \in 1..Len(wire') :
          \/ i \in 1..Len(wire) /\ wire'[i] = wire[i]
          \/ wire'[i].from = f /\ wire'[i].name = n

LEMMA WriteAppends ==
    ASSUME TypeOK, NEW f \in Fibers, NEW n, NEW s, Write(f, n, s),
           [from |-> f, name |-> n, script |-> s] \in Command
    PROVE  Written(f, n)
<1> DEFINE N == Len(wire) + 1
<1>1. /\ wire' \in Seq(Command) /\ Len(wire) \in Nat /\ Len(wire') = N
      /\ \A i \in 1..Len(wire) : wire'[i] = wire[i]
      /\ wire'[N].from = f /\ wire'[N].name = n
  BY DEF TypeOK, Write
<1>2. \A i \in 1..Len(wire') : i \in 1..Len(wire) \/ i = N
  BY <1>1
<1>3. N \in 1..Len(wire') /\ \A i \in 1..Len(wire) : i \in 1..Len(wire') /\ i # N
  BY <1>1
<1> HIDE DEF N
<1>4. RunSent' <=> RunSent \/ n \in Runs
  BY <1>1, <1>2, <1>3 DEF RunSent, IsRun
<1>5. HandlerSent' <=> HandlerSent \/ f = "handler"
  BY <1>1, <1>2, <1>3 DEF HandlerSent, OfHandler
<1>6. OneRun /\ (~RunSent \/ n \notin Runs) => OneRun'
  BY <1>1, <1>2, <1>3 DEF OneRun, RunSent, IsRun
<1>7. OneOfHandler /\ (~HandlerSent \/ f # "handler") => OneOfHandler'
  BY <1>1, <1>2, <1>3 DEF OneOfHandler, HandlerSent, OfHandler
<1> QED BY <1>1, <1>2, <1>4, <1>5, <1>6, <1>7 DEF Written

(* The first command was taken off the wire. *)
Served ==
    /\ wire' \in Seq(Command) /\ Head(wire) \in Command /\ Head(wire) = wire[1]
    /\ 1 \in 1..Len(wire)
    /\ RunSent' => RunSent
    /\ RunSent /\ ~IsRun(1) => RunSent'
    /\ OneRun /\ IsRun(1) => ~RunSent'
    /\ HandlerSent' => HandlerSent
    /\ OneOfHandler /\ OfHandler(1) => ~HandlerSent'
    /\ OneRun => OneRun'
    /\ OneOfHandler => OneOfHandler'
    /\ \A i \in 1..Len(wire') : \E k \in 1..Len(wire) : wire'[i] = wire[k]

LEMMA ServesTakes ==
    ASSUME TypeOK, NEW n, Serves(n)
    PROVE  Served
<1>1. /\ wire' \in Seq(Command) /\ Head(wire) \in Command /\ Head(wire) = wire[1]
      /\ Len(wire) \in Nat \ {0} /\ Len(wire') = Len(wire) - 1
      /\ \A i \in 1..(Len(wire) - 1) : wire'[i] = wire[i + 1]
  BY DEF TypeOK, Serves
<1> DEFINE Up(i) == i + 1
           Down(i) == i - 1
<1>2. \A i \in 1..Len(wire') : Up(i) \in 1..Len(wire) /\ wire'[i] = wire[Up(i)] /\ Up(i) # 1
  BY <1>1
<1>3. \A i \in 1..Len(wire) :
        i # 1 => Down(i) \in 1..Len(wire') /\ wire'[Down(i)] = wire[i]
  BY <1>1
<1>4. 1 \in 1..Len(wire) /\ \A i, j \in 1..Len(wire') : Up(i) = Up(j) => i = j
  BY <1>1
<1> HIDE DEF Up, Down
<1>5. (RunSent' => RunSent) /\ (HandlerSent' => HandlerSent)
  BY <1>2 DEF RunSent, IsRun, HandlerSent, OfHandler
<1>6. RunSent /\ ~IsRun(1) => RunSent'
  BY <1>3 DEF RunSent, IsRun
<1>7. (OneRun /\ IsRun(1) => ~RunSent') /\ (OneOfHandler /\ OfHandler(1) => ~HandlerSent')
  BY <1>2, <1>4 DEF OneRun, RunSent, IsRun, OneOfHandler, HandlerSent, OfHandler
<1>8. (OneRun => OneRun') /\ (OneOfHandler => OneOfHandler')
  BY <1>2, <1>4 DEF OneRun, IsRun, OneOfHandler, OfHandler
<1> QED BY <1>1, <1>2, <1>4, <1>5, <1>6, <1>7, <1>8 DEF Served

(* The first event was taken from the queue. *)
Taken ==
    /\ events' \in Seq(Event) /\ Head(events) \in Event /\ Head(events) = events[1]
    /\ 1 \in 1..Len(events)
    /\ PauseQueued' => PauseQueued
    /\ PauseQueued /\ ~IsPause(1) => PauseQueued'
    /\ PauseIsLast /\ IsPause(1) => ~PauseQueued' /\ events[1].script = place
    /\ PauseIsLast /\ place' = place => PauseIsLast'
    /\ EventsHaveScripts => EventsHaveScripts'
    /\ \A s : Parsed(s)' => Parsed(s)
    /\ \A s : Parsed(s) => Parsed(s)' \/ Parses(1, s)
    /\ link = "up" /\ handler = Idle /\ Running

LEMMA TakesTakes ==
    ASSUME TypeOK, LostIsEmpty, NEW k, Takes(k)
    PROVE  Taken /\ events[1].kind = k
<1>1. /\ events' \in Seq(Event) /\ Head(events) \in Event /\ Head(events) = events[1]
      /\ Len(events) \in Nat \ {0} /\ Len(events') = Len(events) - 1
      /\ \A i \in 1..(Len(events) - 1) : events'[i] = events[i + 1]
      /\ link = "up" /\ handler = Idle /\ Running /\ events[1].kind = k
  BY DEF TypeOK, Takes, LostIsEmpty
<1> DEFINE Up(i) == i + 1
           Down(i) == i - 1
<1>2. \A i \in 1..Len(events') :
        /\ Up(i) \in 1..Len(events) /\ events'[i] = events[Up(i)] /\ Up(i) # 1
        /\ Up(i) = Len(events) => i = Len(events')
  BY <1>1
<1>3. \A i \in 1..Len(events) :
        i # 1 => Down(i) \in 1..Len(events') /\ events'[Down(i)] = events[i]
  BY <1>1
<1>4. 1 \in 1..Len(events) /\ (1 = Len(events) => 1..Len(events') = {})
  BY <1>1
<1> HIDE DEF Up, Down
<1>5. (PauseQueued' => PauseQueued) /\ (PauseQueued /\ ~IsPause(1) => PauseQueued')
  BY <1>2, <1>3 DEF PauseQueued, IsPause
<1>6. PauseIsLast /\ IsPause(1) => ~PauseQueued' /\ events[1].script = place
  BY <1>4 DEF PauseIsLast, PauseQueued
<1>7. PauseIsLast /\ place' = place => PauseIsLast'
  BY <1>2 DEF PauseIsLast, IsPause
<1>8. EventsHaveScripts => EventsHaveScripts'
  BY <1>2 DEF EventsHaveScripts
<1>9. \A s : (Parsed(s)' => Parsed(s)) /\ (Parsed(s) => Parsed(s)' \/ Parses(1, s))
  BY <1>2, <1>3 DEF Parsed, Parses
<1> QED BY <1>1, <1>4, <1>5, <1>6, <1>7, <1>8, <1>9 DEF Taken

(* An event was put on the queue. *)
Emitted(k, s) ==
    /\ events' \in Seq(Event)
    /\ PauseQueued' <=> PauseQueued \/ k = "paused"
    /\ PauseIsLast /\ ~PauseQueued /\ place' \in {place, s} /\ (k = "paused" => place' = s)
          => PauseIsLast'
    /\ EventsHaveScripts /\ (k = "scriptParsed" => s \in Scripts) => EventsHaveScripts'
    /\ \A x : Parsed(x)' <=> Parsed(x) \/ (k = "scriptParsed" /\ x = s)

LEMMA EmitsAppends ==
    ASSUME TypeOK, NEW k, NEW s, Emits(k, s), [kind |-> k, script |-> s] \in Event
    PROVE  Emitted(k, s)
<1> DEFINE N == Len(events) + 1
<1>1. /\ events' \in Seq(Event) /\ Len(events) \in Nat /\ Len(events') = N
      /\ \A i \in 1..Len(events) : events'[i] = events[i]
      /\ events'[N].kind = k /\ events'[N].script = s
  BY DEF TypeOK, Emits
<1>2. \A i \in 1..Len(events') : i \in 1..Len(events) \/ i = N
  BY <1>1
<1>3. N \in 1..Len(events') /\ \A i \in 1..Len(events) : i \in 1..Len(events') /\ i # N
  BY <1>1
<1> HIDE DEF N
<1>4. PauseQueued' <=> PauseQueued \/ k = "paused"
  BY <1>1, <1>2, <1>3 DEF PauseQueued, IsPause
<1>5. PauseIsLast /\ ~PauseQueued /\ (k = "paused" => place' = s) => PauseIsLast'
  BY <1>1, <1>2, <1>3 DEF PauseIsLast, PauseQueued, IsPause
<1>6. EventsHaveScripts /\ (k = "scriptParsed" => s \in Scripts) => EventsHaveScripts'
  BY <1>1, <1>2 DEF EventsHaveScripts
<1>7. \A x : Parsed(x)' <=> Parsed(x) \/ (k = "scriptParsed" /\ x = s)
  BY <1>1, <1>2, <1>3 DEF Parsed, Parses
<1> QED BY <1>1, <1>4, <1>5, <1>6, <1>7 DEF Emitted

LEMMA SameWire ==
    ASSUME wire' = wire
    PROVE  /\ RunSent' <=> RunSent
           /\ HandlerSent' <=> HandlerSent
           /\ OneRun' <=> OneRun
           /\ OneOfHandler' <=> OneOfHandler
BY DEF RunSent, IsRun, HandlerSent, OfHandler, OneRun, OneOfHandler

LEMMA SameEvents ==
    ASSUME events' = events
    PROVE  /\ PauseQueued' <=> PauseQueued
           /\ \A s : Parsed(s)' <=> Parsed(s)
           /\ EventsHaveScripts' <=> EventsHaveScripts
           /\ place' = place => (PauseIsLast' <=> PauseIsLast)
BY DEF PauseQueued, IsPause, Parsed, Parses, EventsHaveScripts, PauseIsLast

(* What the handling of a stop may come to: a command that lets it end is  *)
(* on the wire, the script's source has been asked for, a fork will send   *)
(* the command; or the connection is gone.                                 *)
Ran ==
    /\ \E n \in Runs : Written("handler", n)
    /\ handler'.script = NoScript /\ forks' = forks /\ dropped' = dropped
    /\ \/ handler'.at = "answering" /\ stepCount' = stepCount
       \/ handler'.at = "leaving" /\ stepCount' = stepCount + 1 /\ stepCount' >= MaxSteps
    /\ handler' = [at |-> handler'.at, script |-> NoScript]

Reads ==
    /\ Written("handler", "GetSource")
    /\ Known(place) /\ place \notin Internal
    /\ handler' = [at |-> "reading", script |-> place]
    /\ forks' = forks /\ dropped' = dropped /\ stepCount' = stepCount

Forked ==
    /\ handler' = Idle /\ wire' = wire /\ forks' = forks + 1 /\ dropped' = dropped
    /\ stepCount' = stepCount + 1 /\ stepCount' < MaxSteps

Failed ==
    /\ handler' = Over /\ wire' = wire /\ forks' \in {forks, forks + 1}
    /\ dropped' \in {dropped, dropped \cup {stops}}
    /\ stepCount' \in {stepCount, stepCount + 1}

LEMMA MainTyped ==
    ASSUME NEW n \in Names
    PROVE  /\ At(n) \in [at : Names, waits : BOOLEAN]
           /\ Waiting(n) \in [at : Names, waits : BOOLEAN]
BY DEF At, Waiting

LEMMA DiscoverKeepsInv ==
    ASSUME Inv, Discover
    PROVE  Inv'
<1> USE ScriptsAreThemselves, MaxStepsIsAnInteger DEF Inv, Fibers, Runs
<1>01. main' \in [at : Names, waits : BOOLEAN]
  BY MainTyped DEF Discover, Names, Setup
<1>02. /\ wire' = wire
       /\ RunSent' <=> RunSent
       /\ HandlerSent' <=> HandlerSent
       /\ OneRun' <=> OneRun
       /\ OneOfHandler' <=> OneOfHandler
  BY SameWire DEF Discover, At, debuggeeVars
<1>03. /\ events' = events /\ (PauseQueued' <=> PauseQueued)
       /\ \A s : Parsed(s)' <=> Parsed(s)
       /\ EventsHaveScripts' /\ PauseIsLast'
  BY SameEvents DEF Discover, At, debuggeeVars
<1>1. TypeOK'
  BY <1>01, <1>02, <1>03 DEF Discover, At, debuggeeVars, TypeOK, Command, Event, Handler, Names, Setup
<1>2. NotYet'
  BY <1>01, <1>02, <1>03 DEF Discover, At, debuggeeVars, NotYet, Running, Waiting, After, TypeOK, Command, Event, Handler, Names, Setup
<1>3. PauseIsLast'
  BY <1>01, <1>02, <1>03 DEF Discover, At, debuggeeVars, RunIsToken, EventIsToken, TypeOK, Command, Event, Handler, Names, Setup
<1>4. EventIsToken'
  BY <1>01, <1>02, <1>03 DEF Discover, At, debuggeeVars, EventIsToken, Ending, HandlerWaits, HasAsked, RunIsToken, TypeOK, Command, Event, Handler, Names, Setup
<1>5. ReadingIsToken'
  BY <1>01, <1>02, <1>03 DEF Discover, At, debuggeeVars, ReadingIsToken, EventIsToken, Ending, TypeOK, Command, Event, Handler, Names, Setup
<1>6. ForkIsToken'
  BY <1>01, <1>02, <1>03 DEF Discover, At, debuggeeVars, ForkIsToken, EventIsToken, ReadingIsToken, Ending, TypeOK, Command, Event, Handler, Names, Setup
<1>7. RunIsToken'
  BY <1>01, <1>02, <1>03 DEF Discover, At, debuggeeVars, RunIsToken, EventIsToken, ForkIsToken, ReadingIsToken, TypeOK, Command, Event, Handler, Names, Setup
<1>8. OneRun'
  BY <1>01, <1>02, <1>03 DEF Discover, At, debuggeeVars, EventIsToken, ForkIsToken, ReadingIsToken, TypeOK, Command, Event, Handler, Names, Setup
<1>9. OneOfHandler'
  BY <1>01, <1>02, <1>03 DEF Discover, At, debuggeeVars, HandlerWaits, HasAsked, TypeOK, Command, Event, Handler, Names, Setup
<1>10. CommandsMatch'
  BY <1>01, <1>02, <1>03 DEF Discover, At, debuggeeVars, CommandsMatch, IsRun, OfHandler, Ending, RunSent, HandlerSent, HandlerWaits, HasAsked, EventIsToken, ReadingIsToken, ForkIsToken, TypeOK, Command, Event, Handler, Names, Setup
<1>11. HandlerWaits'
  BY <1>01, <1>02, <1>03 DEF Discover, At, debuggeeVars, HandlerWaits, CommandsMatch, IsRun, OfHandler, Ending, HasAsked, EventIsToken, ReadingIsToken, ForkIsToken, RunIsToken, LostIsEmpty, TypeOK, Command, Event, Handler, Names, Setup
<1>12. LostIsEmpty'
  BY <1>01, <1>02, <1>03 DEF Discover, At, debuggeeVars, LostIsEmpty, TypeOK, Command, Event, Handler, Names, Setup
<1>13. EventsHaveScripts'
  BY <1>01, <1>02, <1>03 DEF Discover, At, debuggeeVars, TypeOK, Command, Event, Handler, Names, Setup
<1>14. ListedAreAnnounced'
  BY <1>01, <1>02, <1>03 DEF Discover, At, debuggeeVars, ListedAreAnnounced, Known, EventsHaveScripts, Parses, TypeOK, Command, Event, Handler, Names, Setup
<1>15. AnnouncedAreListed'
  BY <1>01, <1>02, <1>03 DEF Discover, At, debuggeeVars, AnnouncedAreListed, Known, Parses, TypeOK, Command, Event, Handler, Names, Setup
<1>16. LastIsLast'
  BY <1>01, <1>02, <1>03 DEF Discover, At, debuggeeVars, LastIsLast, HandlerWaits, Ending, Max1, TypeOK, Command, Event, Handler, Names, Setup
<1>17. HasToken'
  BY <1>01, <1>02, <1>03 DEF Discover, At, debuggeeVars, HasToken, NotYet, Running, EventIsToken, ReadingIsToken, Ending, HandlerWaits, TypeOK, Command, Event, Handler, Names, Setup
<1> QED BY <1>1, <1>2, <1>3, <1>4, <1>5, <1>6, <1>7, <1>8, <1>9, <1>10, <1>11, <1>12, <1>13, <1>14, <1>15, <1>16, <1>17

LEMMA MainSendsKeepsInv ==
    ASSUME Inv, NEW n \in Setup, MainSends(n)
    PROVE  Inv'
<1> USE ScriptsAreThemselves, MaxStepsIsAnInteger DEF Inv, Fibers, Runs
<1>01. (link = "up" /\ Written("main", n)) \/ (link = "lost" /\ wire' = wire)
  BY WriteAppends DEF MainSends, Setup, Command
<1>02. n \notin Runs
  BY DEF Setup
<1>03. main' \in [at : Names, waits : BOOLEAN]
  BY MainTyped DEF MainSends, Names
<1>04. wire' = wire =>
       /\ RunSent' <=> RunSent
       /\ HandlerSent' <=> HandlerSent
       /\ OneRun' <=> OneRun
       /\ OneOfHandler' <=> OneOfHandler
  BY SameWire
<1>05. /\ events' = events /\ (PauseQueued' <=> PauseQueued)
       /\ \A s : Parsed(s)' <=> Parsed(s)
       /\ EventsHaveScripts' /\ PauseIsLast'
  BY SameEvents DEF MainSends, At, Waiting, debuggeeVars
<1>1. TypeOK'
  BY <1>01, <1>02, <1>03, <1>04, <1>05 DEF MainSends, At, Waiting, debuggeeVars, TypeOK, Command, Event, Handler, Names, Setup, Written
<1>2. NotYet'
  BY <1>01, <1>02, <1>03, <1>04, <1>05 DEF MainSends, At, Waiting, debuggeeVars, NotYet, Running, After, TypeOK, Command, Event, Handler, Names, Setup, Written
<1>3. PauseIsLast'
  BY <1>01, <1>02, <1>03, <1>04, <1>05 DEF MainSends, At, Waiting, debuggeeVars, RunIsToken, EventIsToken, TypeOK, Command, Event, Handler, Names, Setup, Written
<1>4. EventIsToken'
  BY <1>01, <1>02, <1>03, <1>04, <1>05 DEF MainSends, At, Waiting, debuggeeVars, EventIsToken, Ending, HandlerWaits, HasAsked, RunIsToken, TypeOK, Command, Event, Handler, Names, Setup, Written
<1>5. ReadingIsToken'
  BY <1>01, <1>02, <1>03, <1>04, <1>05 DEF MainSends, At, Waiting, debuggeeVars, ReadingIsToken, EventIsToken, Ending, TypeOK, Command, Event, Handler, Names, Setup, Written
<1>6. ForkIsToken'
  BY <1>01, <1>02, <1>03, <1>04, <1>05 DEF MainSends, At, Waiting, debuggeeVars, ForkIsToken, EventIsToken, ReadingIsToken, Ending, TypeOK, Command, Event, Handler, Names, Setup, Written
<1>7. RunIsToken'
  BY <1>01, <1>02, <1>03, <1>04, <1>05 DEF MainSends, At, Waiting, debuggeeVars, RunIsToken, EventIsToken, ForkIsToken, ReadingIsToken, TypeOK, Command, Event, Handler, Names, Setup, Written
<1>8. OneRun'
  BY <1>01, <1>02, <1>03, <1>04, <1>05 DEF MainSends, At, Waiting, debuggeeVars, EventIsToken, ForkIsToken, ReadingIsToken, TypeOK, Command, Event, Handler, Names, Setup, Written
<1>9. OneOfHandler'
  BY <1>01, <1>02, <1>03, <1>04, <1>05 DEF MainSends, At, Waiting, debuggeeVars, HandlerWaits, HasAsked, TypeOK, Command, Event, Handler, Names, Setup, Written
<1>10. CommandsMatch'
  BY <1>01, <1>02, <1>03, <1>04, <1>05 DEF MainSends, At, Waiting, debuggeeVars, CommandsMatch, IsRun, OfHandler, Ending, RunSent, HandlerSent, HandlerWaits, HasAsked, EventIsToken, ReadingIsToken, ForkIsToken, TypeOK, Command, Event, Handler, Names, Setup, Written
<1>11. HandlerWaits'
  BY <1>01, <1>02, <1>03, <1>04, <1>05 DEF MainSends, At, Waiting, debuggeeVars, HandlerWaits, CommandsMatch, IsRun, OfHandler, Ending, HasAsked, EventIsToken, ReadingIsToken, ForkIsToken, RunIsToken, LostIsEmpty, TypeOK, Command, Event, Handler, Names, Setup, Written
<1>12. LostIsEmpty'
  BY <1>01, <1>02, <1>03, <1>04, <1>05 DEF MainSends, At, Waiting, debuggeeVars, LostIsEmpty, TypeOK, Command, Event, Handler, Names, Setup, Written
<1>13. EventsHaveScripts'
  BY <1>01, <1>02, <1>03, <1>04, <1>05 DEF MainSends, At, Waiting, debuggeeVars, TypeOK, Command, Event, Handler, Names, Setup, Written
<1>14. ListedAreAnnounced'
  BY <1>01, <1>02, <1>03, <1>04, <1>05 DEF MainSends, At, Waiting, debuggeeVars, ListedAreAnnounced, Known, EventsHaveScripts, Parses, TypeOK, Command, Event, Handler, Names, Setup, Written
<1>15. AnnouncedAreListed'
  BY <1>01, <1>02, <1>03, <1>04, <1>05 DEF MainSends, At, Waiting, debuggeeVars, AnnouncedAreListed, Known, Parses, TypeOK, Command, Event, Handler, Names, Setup, Written
<1>16. LastIsLast'
  BY <1>01, <1>02, <1>03, <1>04, <1>05 DEF MainSends, At, Waiting, debuggeeVars, LastIsLast, HandlerWaits, Ending, Max1, TypeOK, Command, Event, Handler, Names, Setup, Written
<1>17. HasToken'
  BY <1>01, <1>02, <1>03, <1>04, <1>05 DEF MainSends, At, Waiting, debuggeeVars, HasToken, NotYet, Running, EventIsToken, ReadingIsToken, Ending, HandlerWaits, TypeOK, Command, Event, Handler, Names, Setup, Written
<1> QED BY <1>1, <1>2, <1>3, <1>4, <1>5, <1>6, <1>7, <1>8, <1>9, <1>10, <1>11, <1>12, <1>13, <1>14, <1>15, <1>16, <1>17

LEMMA MainGoesOnKeepsInv ==
    ASSUME Inv, NEW n \in Setup, MainGoesOn(n)
    PROVE  Inv'
<1> USE ScriptsAreThemselves, MaxStepsIsAnInteger DEF Inv, Fibers, Runs
<1>01. /\ wire' = wire
       /\ RunSent' <=> RunSent
       /\ HandlerSent' <=> HandlerSent
       /\ OneRun' <=> OneRun
       /\ OneOfHandler' <=> OneOfHandler
  BY SameWire DEF MainGoesOn, At, Waiting, After, debuggeeVars
<1>02. /\ events' = events /\ (PauseQueued' <=> PauseQueued)
       /\ \A s : Parsed(s)' <=> Parsed(s)
       /\ EventsHaveScripts' /\ PauseIsLast'
  BY SameEvents DEF MainGoesOn, At, Waiting, After, debuggeeVars
<1>1. TypeOK'
  BY <1>01, <1>02 DEF MainGoesOn, At, Waiting, After, debuggeeVars, TypeOK, Command, Event, Handler, Names, Setup
<1>2. NotYet'
  BY <1>01, <1>02 DEF MainGoesOn, At, Waiting, After, debuggeeVars, NotYet, Running, TypeOK, Command, Event, Handler, Names, Setup
<1>3. PauseIsLast'
  BY <1>01, <1>02 DEF MainGoesOn, At, Waiting, After, debuggeeVars, RunIsToken, EventIsToken, TypeOK, Command, Event, Handler, Names, Setup
<1>4. EventIsToken'
  BY <1>01, <1>02 DEF MainGoesOn, At, Waiting, After, debuggeeVars, EventIsToken, Ending, HandlerWaits, HasAsked, RunIsToken, TypeOK, Command, Event, Handler, Names, Setup
<1>5. ReadingIsToken'
  BY <1>01, <1>02 DEF MainGoesOn, At, Waiting, After, debuggeeVars, ReadingIsToken, EventIsToken, Ending, TypeOK, Command, Event, Handler, Names, Setup
<1>6. ForkIsToken'
  BY <1>01, <1>02 DEF MainGoesOn, At, Waiting, After, debuggeeVars, ForkIsToken, EventIsToken, ReadingIsToken, Ending, TypeOK, Command, Event, Handler, Names, Setup
<1>7. RunIsToken'
  BY <1>01, <1>02 DEF MainGoesOn, At, Waiting, After, debuggeeVars, RunIsToken, EventIsToken, ForkIsToken, ReadingIsToken, TypeOK, Command, Event, Handler, Names, Setup
<1>8. OneRun'
  BY <1>01, <1>02 DEF MainGoesOn, At, Waiting, After, debuggeeVars, EventIsToken, ForkIsToken, ReadingIsToken, TypeOK, Command, Event, Handler, Names, Setup
<1>9. OneOfHandler'
  BY <1>01, <1>02 DEF MainGoesOn, At, Waiting, After, debuggeeVars, HandlerWaits, HasAsked, TypeOK, Command, Event, Handler, Names, Setup
<1>10. CommandsMatch'
  BY <1>01, <1>02 DEF MainGoesOn, At, Waiting, After, debuggeeVars, CommandsMatch, IsRun, OfHandler, Ending, RunSent, HandlerSent, HandlerWaits, HasAsked, EventIsToken, ReadingIsToken, ForkIsToken, TypeOK, Command, Event, Handler, Names, Setup
<1>11. HandlerWaits'
  BY <1>01, <1>02 DEF MainGoesOn, At, Waiting, After, debuggeeVars, HandlerWaits, CommandsMatch, IsRun, OfHandler, Ending, HasAsked, EventIsToken, ReadingIsToken, ForkIsToken, RunIsToken, LostIsEmpty, TypeOK, Command, Event, Handler, Names, Setup
<1>12. LostIsEmpty'
  BY <1>01, <1>02 DEF MainGoesOn, At, Waiting, After, debuggeeVars, LostIsEmpty, TypeOK, Command, Event, Handler, Names, Setup
<1>13. EventsHaveScripts'
  BY <1>01, <1>02 DEF MainGoesOn, At, Waiting, After, debuggeeVars, TypeOK, Command, Event, Handler, Names, Setup
<1>14. ListedAreAnnounced'
  BY <1>01, <1>02 DEF MainGoesOn, At, Waiting, After, debuggeeVars, ListedAreAnnounced, Known, EventsHaveScripts, Parses, TypeOK, Command, Event, Handler, Names, Setup
<1>15. AnnouncedAreListed'
  BY <1>01, <1>02 DEF MainGoesOn, At, Waiting, After, debuggeeVars, AnnouncedAreListed, Known, Parses, TypeOK, Command, Event, Handler, Names, Setup
<1>16. LastIsLast'
  BY <1>01, <1>02 DEF MainGoesOn, At, Waiting, After, debuggeeVars, LastIsLast, HandlerWaits, Ending, Max1, TypeOK, Command, Event, Handler, Names, Setup
<1>17. HasToken'
  BY <1>01, <1>02 DEF MainGoesOn, At, Waiting, After, debuggeeVars, HasToken, NotYet, Running, EventIsToken, ReadingIsToken, Ending, HandlerWaits, TypeOK, Command, Event, Handler, Names, Setup
<1> QED BY <1>1, <1>2, <1>3, <1>4, <1>5, <1>6, <1>7, <1>8, <1>9, <1>10, <1>11, <1>12, <1>13, <1>14, <1>15, <1>16, <1>17

LEMMA IgnoreKeepsInv ==
    ASSUME Inv, Ignore
    PROVE  Inv'
<1> USE ScriptsAreThemselves, MaxStepsIsAnInteger DEF Inv, Fibers, Runs
<1>01. Taken /\ events[1].kind = "resumed"
  BY TakesTakes DEF Ignore
<1>02. /\ wire' = wire
       /\ RunSent' <=> RunSent
       /\ HandlerSent' <=> HandlerSent
       /\ OneRun' <=> OneRun
       /\ OneOfHandler' <=> OneOfHandler
  BY SameWire DEF Ignore, cliVars, debuggeeVars
<1>1. TypeOK'
  BY <1>01, <1>02 DEF Ignore, cliVars, debuggeeVars, TypeOK, Command, Event, Handler, Names, Setup, Taken, IsPause, Parses
<1>2. NotYet'
  BY <1>01, <1>02 DEF Ignore, cliVars, debuggeeVars, NotYet, Running, At, Waiting, After, TypeOK, Command, Event, Handler, Names, Setup, Taken, IsPause, Parses
<1>3. PauseIsLast'
  BY <1>01, <1>02 DEF Ignore, cliVars, debuggeeVars, RunIsToken, EventIsToken, TypeOK, Command, Event, Handler, Names, Setup, Taken, IsPause, Parses
<1>4. EventIsToken'
  BY <1>01, <1>02 DEF Ignore, cliVars, debuggeeVars, EventIsToken, Ending, HandlerWaits, HasAsked, RunIsToken, TypeOK, Command, Event, Handler, Names, Setup, Taken, IsPause, Parses
<1>5. ReadingIsToken'
  BY <1>01, <1>02 DEF Ignore, cliVars, debuggeeVars, ReadingIsToken, EventIsToken, Ending, TypeOK, Command, Event, Handler, Names, Setup, Taken, IsPause, Parses
<1>6. ForkIsToken'
  BY <1>01, <1>02 DEF Ignore, cliVars, debuggeeVars, ForkIsToken, EventIsToken, ReadingIsToken, Ending, TypeOK, Command, Event, Handler, Names, Setup, Taken, IsPause, Parses
<1>7. RunIsToken'
  BY <1>01, <1>02 DEF Ignore, cliVars, debuggeeVars, RunIsToken, EventIsToken, ForkIsToken, ReadingIsToken, TypeOK, Command, Event, Handler, Names, Setup, Taken, IsPause, Parses
<1>8. OneRun'
  BY <1>01, <1>02 DEF Ignore, cliVars, debuggeeVars, EventIsToken, ForkIsToken, ReadingIsToken, TypeOK, Command, Event, Handler, Names, Setup, Taken, IsPause, Parses
<1>9. OneOfHandler'
  BY <1>01, <1>02 DEF Ignore, cliVars, debuggeeVars, HandlerWaits, HasAsked, TypeOK, Command, Event, Handler, Names, Setup, Taken, IsPause, Parses
<1>10. CommandsMatch'
  BY <1>01, <1>02 DEF Ignore, cliVars, debuggeeVars, CommandsMatch, IsRun, OfHandler, Ending, RunSent, HandlerSent, HandlerWaits, HasAsked, EventIsToken, ReadingIsToken, ForkIsToken, TypeOK, Command, Event, Handler, Names, Setup, Taken, IsPause, Parses
<1>11. HandlerWaits'
  BY <1>01, <1>02 DEF Ignore, cliVars, debuggeeVars, HandlerWaits, CommandsMatch, IsRun, OfHandler, Ending, HasAsked, EventIsToken, ReadingIsToken, ForkIsToken, RunIsToken, LostIsEmpty, TypeOK, Command, Event, Handler, Names, Setup, Taken, IsPause, Parses
<1>12. LostIsEmpty'
  BY <1>01, <1>02 DEF Ignore, cliVars, debuggeeVars, LostIsEmpty, TypeOK, Command, Event, Handler, Names, Setup, Taken, IsPause, Parses
<1>13. EventsHaveScripts'
  BY <1>01, <1>02 DEF Ignore, cliVars, debuggeeVars, TypeOK, Command, Event, Handler, Names, Setup, Taken, IsPause, Parses
<1>14. ListedAreAnnounced'
  BY <1>01, <1>02 DEF Ignore, cliVars, debuggeeVars, ListedAreAnnounced, Known, EventsHaveScripts, Parses, TypeOK, Command, Event, Handler, Names, Setup, Taken, IsPause
<1>15. AnnouncedAreListed'
  BY <1>01, <1>02 DEF Ignore, cliVars, debuggeeVars, AnnouncedAreListed, Known, Parses, TypeOK, Command, Event, Handler, Names, Setup, Taken, IsPause
<1>16. LastIsLast'
  BY <1>01, <1>02 DEF Ignore, cliVars, debuggeeVars, LastIsLast, HandlerWaits, Ending, Max1, TypeOK, Command, Event, Handler, Names, Setup, Taken, IsPause, Parses
<1>17. HasToken'
  BY <1>01, <1>02 DEF Ignore, cliVars, debuggeeVars, HasToken, NotYet, Running, EventIsToken, ReadingIsToken, Ending, HandlerWaits, TypeOK, Command, Event, Handler, Names, Setup, Taken, IsPause, Parses
<1> QED BY <1>1, <1>2, <1>3, <1>4, <1>5, <1>6, <1>7, <1>8, <1>9, <1>10, <1>11, <1>12, <1>13, <1>14, <1>15, <1>16, <1>17

LEMMA HandleScriptKeepsInv ==
    ASSUME Inv, HandleScript
    PROVE  Inv'
<1> USE ScriptsAreThemselves, MaxStepsIsAnInteger DEF Inv, Fibers, Runs
<1>01. Taken /\ events[1].kind = "scriptParsed" /\ events[1].script \in Scripts /\ Parsed(events[1].script)
  BY TakesTakes DEF HandleScript, Taken, EventsHaveScripts, Parsed, Parses
<1>02. /\ handler' = [at |-> "listing", script |-> events[1].script] /\ dropped' = dropped
     /\ scripts' = [scripts EXCEPT ![events[1].script] = IF @ = "read" THEN @ ELSE "listed"]
     /\ Written("handler", "GetSource")
  BY <1>01, WriteAppends DEF HandleScript, Asks, Taken, Command
<1>03. ~HandlerSent /\ ~Ending
  BY <1>01 DEF Taken, HandlerWaits, HasAsked, Idle, Ending
<1>1. TypeOK'
  BY <1>01, <1>02, <1>03 DEF HandleScript, debuggeeVars, Idle, TypeOK, Command, Event, Handler, Names, Setup, Taken, Written, IsPause, Parses
<1>2. NotYet'
  BY <1>01, <1>02, <1>03 DEF HandleScript, debuggeeVars, Idle, NotYet, Running, At, Waiting, After, TypeOK, Command, Event, Handler, Names, Setup, Taken, Written, IsPause, Parses
<1>3. PauseIsLast'
  BY <1>01, <1>02, <1>03 DEF HandleScript, debuggeeVars, Idle, RunIsToken, EventIsToken, TypeOK, Command, Event, Handler, Names, Setup, Taken, Written, IsPause, Parses
<1>4. EventIsToken'
  BY <1>01, <1>02, <1>03 DEF HandleScript, debuggeeVars, Idle, EventIsToken, Ending, HandlerWaits, HasAsked, RunIsToken, TypeOK, Command, Event, Handler, Names, Setup, Taken, Written, IsPause, Parses
<1>5. ReadingIsToken'
  BY <1>01, <1>02, <1>03 DEF HandleScript, debuggeeVars, Idle, ReadingIsToken, EventIsToken, Ending, TypeOK, Command, Event, Handler, Names, Setup, Taken, Written, IsPause, Parses
<1>6. ForkIsToken'
  BY <1>01, <1>02, <1>03 DEF HandleScript, debuggeeVars, Idle, ForkIsToken, EventIsToken, ReadingIsToken, Ending, TypeOK, Command, Event, Handler, Names, Setup, Taken, Written, IsPause, Parses
<1>7. RunIsToken'
  BY <1>01, <1>02, <1>03 DEF HandleScript, debuggeeVars, Idle, RunIsToken, EventIsToken, ForkIsToken, ReadingIsToken, TypeOK, Command, Event, Handler, Names, Setup, Taken, Written, IsPause, Parses
<1>8. OneRun'
  BY <1>01, <1>02, <1>03 DEF HandleScript, debuggeeVars, Idle, EventIsToken, ForkIsToken, ReadingIsToken, TypeOK, Command, Event, Handler, Names, Setup, Taken, Written, IsPause, Parses
<1>9. OneOfHandler'
  BY <1>01, <1>02, <1>03 DEF HandleScript, debuggeeVars, Idle, HandlerWaits, HasAsked, TypeOK, Command, Event, Handler, Names, Setup, Taken, Written, IsPause, Parses
<1>10. CommandsMatch'
  BY <1>01, <1>02, <1>03 DEF HandleScript, debuggeeVars, Idle, CommandsMatch, IsRun, OfHandler, Ending, RunSent, HandlerSent, HandlerWaits, HasAsked, EventIsToken, ReadingIsToken, ForkIsToken, TypeOK, Command, Event, Handler, Names, Setup, Taken, Written, IsPause, Parses
<1>11. HandlerWaits'
  BY <1>01, <1>02, <1>03 DEF HandleScript, debuggeeVars, Idle, HandlerWaits, CommandsMatch, IsRun, OfHandler, Ending, HasAsked, EventIsToken, ReadingIsToken, ForkIsToken, RunIsToken, LostIsEmpty, TypeOK, Command, Event, Handler, Names, Setup, Taken, Written, IsPause, Parses
<1>12. LostIsEmpty'
  BY <1>01, <1>02, <1>03 DEF HandleScript, debuggeeVars, Idle, LostIsEmpty, TypeOK, Command, Event, Handler, Names, Setup, Taken, Written, IsPause, Parses
<1>13. EventsHaveScripts'
  BY <1>01, <1>02, <1>03 DEF HandleScript, debuggeeVars, Idle, TypeOK, Command, Event, Handler, Names, Setup, Taken, Written, IsPause, Parses
<1>14. ListedAreAnnounced'
  BY <1>01, <1>02, <1>03 DEF HandleScript, debuggeeVars, Idle, ListedAreAnnounced, Known, EventsHaveScripts, Parses, TypeOK, Command, Event, Handler, Names, Setup, Taken, Written, IsPause
<1>15. AnnouncedAreListed'
  BY <1>01, <1>02, <1>03 DEF HandleScript, debuggeeVars, Idle, AnnouncedAreListed, Known, Parses, TypeOK, Command, Event, Handler, Names, Setup, Taken, Written, IsPause
<1>16. LastIsLast'
  BY <1>01, <1>02, <1>03 DEF HandleScript, debuggeeVars, Idle, LastIsLast, HandlerWaits, Ending, Max1, TypeOK, Command, Event, Handler, Names, Setup, Taken, Written, IsPause, Parses
<1>17. HasToken'
  BY <1>01, <1>02, <1>03 DEF HandleScript, debuggeeVars, Idle, HasToken, NotYet, Running, EventIsToken, ReadingIsToken, Ending, HandlerWaits, TypeOK, Command, Event, Handler, Names, Setup, Taken, Written, IsPause, Parses
<1> QED BY <1>1, <1>2, <1>3, <1>4, <1>5, <1>6, <1>7, <1>8, <1>9, <1>10, <1>11, <1>12, <1>13, <1>14, <1>15, <1>16, <1>17

LEMMA ListedKeepsInv ==
    ASSUME Inv, Listed
    PROVE  Inv'
<1> USE ScriptsAreThemselves, MaxStepsIsAnInteger DEF Inv, Fibers, Runs
<1>01. /\ wire' = wire
       /\ RunSent' <=> RunSent
       /\ HandlerSent' <=> HandlerSent
       /\ OneRun' <=> OneRun
       /\ OneOfHandler' <=> OneOfHandler
  BY SameWire DEF Listed, Hears, KeepSource, Rests, Idle, Over, debuggeeVars
<1>02. /\ events' = events /\ (PauseQueued' <=> PauseQueued)
       /\ \A s : Parsed(s)' <=> Parsed(s)
       /\ EventsHaveScripts' /\ PauseIsLast'
  BY SameEvents DEF Listed, Hears, KeepSource, Rests, Idle, Over, debuggeeVars
<1>1. TypeOK'
  BY <1>01, <1>02 DEF Listed, Hears, KeepSource, Rests, Idle, Over, debuggeeVars, TypeOK, Command, Event, Handler, Names, Setup
<1>2. NotYet'
  BY <1>01, <1>02 DEF Listed, Hears, KeepSource, Rests, Idle, Over, debuggeeVars, NotYet, Running, At, Waiting, After, TypeOK, Command, Event, Handler, Names, Setup
<1>3. PauseIsLast'
  BY <1>01, <1>02 DEF Listed, Hears, KeepSource, Rests, Idle, Over, debuggeeVars, RunIsToken, EventIsToken, TypeOK, Command, Event, Handler, Names, Setup
<1>4. EventIsToken'
  BY <1>01, <1>02 DEF Listed, Hears, KeepSource, Rests, Idle, Over, debuggeeVars, EventIsToken, Ending, HandlerWaits, HasAsked, RunIsToken, TypeOK, Command, Event, Handler, Names, Setup
<1>5. ReadingIsToken'
  BY <1>01, <1>02 DEF Listed, Hears, KeepSource, Rests, Idle, Over, debuggeeVars, ReadingIsToken, EventIsToken, Ending, TypeOK, Command, Event, Handler, Names, Setup
<1>6. ForkIsToken'
  BY <1>01, <1>02 DEF Listed, Hears, KeepSource, Rests, Idle, Over, debuggeeVars, ForkIsToken, EventIsToken, ReadingIsToken, Ending, TypeOK, Command, Event, Handler, Names, Setup
<1>7. RunIsToken'
  BY <1>01, <1>02 DEF Listed, Hears, KeepSource, Rests, Idle, Over, debuggeeVars, RunIsToken, EventIsToken, ForkIsToken, ReadingIsToken, TypeOK, Command, Event, Handler, Names, Setup
<1>8. OneRun'
  BY <1>01, <1>02 DEF Listed, Hears, KeepSource, Rests, Idle, Over, debuggeeVars, EventIsToken, ForkIsToken, ReadingIsToken, TypeOK, Command, Event, Handler, Names, Setup
<1>9. OneOfHandler'
  BY <1>01, <1>02 DEF Listed, Hears, KeepSource, Rests, Idle, Over, debuggeeVars, HandlerWaits, HasAsked, TypeOK, Command, Event, Handler, Names, Setup
<1>10. CommandsMatch'
  BY <1>01, <1>02 DEF Listed, Hears, KeepSource, Rests, Idle, Over, debuggeeVars, CommandsMatch, IsRun, OfHandler, Ending, RunSent, HandlerSent, HandlerWaits, HasAsked, EventIsToken, ReadingIsToken, ForkIsToken, TypeOK, Command, Event, Handler, Names, Setup
<1>11. HandlerWaits'
  BY <1>01, <1>02 DEF Listed, Hears, KeepSource, Rests, Idle, Over, debuggeeVars, HandlerWaits, CommandsMatch, IsRun, OfHandler, Ending, HasAsked, EventIsToken, ReadingIsToken, ForkIsToken, RunIsToken, LostIsEmpty, TypeOK, Command, Event, Handler, Names, Setup
<1>12. LostIsEmpty'
  BY <1>01, <1>02 DEF Listed, Hears, KeepSource, Rests, Idle, Over, debuggeeVars, LostIsEmpty, TypeOK, Command, Event, Handler, Names, Setup
<1>13. EventsHaveScripts'
  BY <1>01, <1>02 DEF Listed, Hears, KeepSource, Rests, Idle, Over, debuggeeVars, TypeOK, Command, Event, Handler, Names, Setup
<1>14. ListedAreAnnounced'
  BY <1>01, <1>02 DEF Listed, Hears, KeepSource, Rests, Idle, Over, debuggeeVars, ListedAreAnnounced, Known, EventsHaveScripts, Parses, TypeOK, Command, Event, Handler, Names, Setup
<1>15. AnnouncedAreListed'
  BY <1>01, <1>02 DEF Listed, Hears, KeepSource, Rests, Idle, Over, debuggeeVars, AnnouncedAreListed, Known, Parses, TypeOK, Command, Event, Handler, Names, Setup
<1>16. LastIsLast'
  BY <1>01, <1>02 DEF Listed, Hears, KeepSource, Rests, Idle, Over, debuggeeVars, LastIsLast, HandlerWaits, Ending, Max1, TypeOK, Command, Event, Handler, Names, Setup
<1>17. HasToken'
  BY <1>01, <1>02 DEF Listed, Hears, KeepSource, Rests, Idle, Over, debuggeeVars, HasToken, NotYet, Running, EventIsToken, ReadingIsToken, Ending, HandlerWaits, TypeOK, Command, Event, Handler, Names, Setup
<1> QED BY <1>1, <1>2, <1>3, <1>4, <1>5, <1>6, <1>7, <1>8, <1>9, <1>10, <1>11, <1>12, <1>13, <1>14, <1>15, <1>16, <1>17

LEMMA AnsweredKeepsInv ==
    ASSUME Inv, Answered
    PROVE  Inv'
<1> USE ScriptsAreThemselves, MaxStepsIsAnInteger DEF Inv, Fibers, Runs
<1>01. /\ wire' = wire
       /\ RunSent' <=> RunSent
       /\ HandlerSent' <=> HandlerSent
       /\ OneRun' <=> OneRun
       /\ OneOfHandler' <=> OneOfHandler
  BY SameWire DEF Answered, Hears, Rests, Idle, Over, debuggeeVars
<1>02. /\ events' = events /\ (PauseQueued' <=> PauseQueued)
       /\ \A s : Parsed(s)' <=> Parsed(s)
       /\ EventsHaveScripts' /\ PauseIsLast'
  BY SameEvents DEF Answered, Hears, Rests, Idle, Over, debuggeeVars
<1>1. TypeOK'
  BY <1>01, <1>02 DEF Answered, Hears, Rests, Idle, Over, debuggeeVars, TypeOK, Command, Event, Handler, Names, Setup
<1>2. NotYet'
  BY <1>01, <1>02 DEF Answered, Hears, Rests, Idle, Over, debuggeeVars, NotYet, Running, At, Waiting, After, TypeOK, Command, Event, Handler, Names, Setup
<1>3. PauseIsLast'
  BY <1>01, <1>02 DEF Answered, Hears, Rests, Idle, Over, debuggeeVars, RunIsToken, EventIsToken, TypeOK, Command, Event, Handler, Names, Setup
<1>4. EventIsToken'
  BY <1>01, <1>02 DEF Answered, Hears, Rests, Idle, Over, debuggeeVars, EventIsToken, Ending, HandlerWaits, HasAsked, RunIsToken, TypeOK, Command, Event, Handler, Names, Setup
<1>5. ReadingIsToken'
  BY <1>01, <1>02 DEF Answered, Hears, Rests, Idle, Over, debuggeeVars, ReadingIsToken, EventIsToken, Ending, TypeOK, Command, Event, Handler, Names, Setup
<1>6. ForkIsToken'
  BY <1>01, <1>02 DEF Answered, Hears, Rests, Idle, Over, debuggeeVars, ForkIsToken, EventIsToken, ReadingIsToken, Ending, TypeOK, Command, Event, Handler, Names, Setup
<1>7. RunIsToken'
  BY <1>01, <1>02 DEF Answered, Hears, Rests, Idle, Over, debuggeeVars, RunIsToken, EventIsToken, ForkIsToken, ReadingIsToken, TypeOK, Command, Event, Handler, Names, Setup
<1>8. OneRun'
  BY <1>01, <1>02 DEF Answered, Hears, Rests, Idle, Over, debuggeeVars, EventIsToken, ForkIsToken, ReadingIsToken, TypeOK, Command, Event, Handler, Names, Setup
<1>9. OneOfHandler'
  BY <1>01, <1>02 DEF Answered, Hears, Rests, Idle, Over, debuggeeVars, HandlerWaits, HasAsked, TypeOK, Command, Event, Handler, Names, Setup
<1>10. CommandsMatch'
  BY <1>01, <1>02 DEF Answered, Hears, Rests, Idle, Over, debuggeeVars, CommandsMatch, IsRun, OfHandler, Ending, RunSent, HandlerSent, HandlerWaits, HasAsked, EventIsToken, ReadingIsToken, ForkIsToken, TypeOK, Command, Event, Handler, Names, Setup
<1>11. HandlerWaits'
  BY <1>01, <1>02 DEF Answered, Hears, Rests, Idle, Over, debuggeeVars, HandlerWaits, CommandsMatch, IsRun, OfHandler, Ending, HasAsked, EventIsToken, ReadingIsToken, ForkIsToken, RunIsToken, LostIsEmpty, TypeOK, Command, Event, Handler, Names, Setup
<1>12. LostIsEmpty'
  BY <1>01, <1>02 DEF Answered, Hears, Rests, Idle, Over, debuggeeVars, LostIsEmpty, TypeOK, Command, Event, Handler, Names, Setup
<1>13. EventsHaveScripts'
  BY <1>01, <1>02 DEF Answered, Hears, Rests, Idle, Over, debuggeeVars, TypeOK, Command, Event, Handler, Names, Setup
<1>14. ListedAreAnnounced'
  BY <1>01, <1>02 DEF Answered, Hears, Rests, Idle, Over, debuggeeVars, ListedAreAnnounced, Known, EventsHaveScripts, Parses, TypeOK, Command, Event, Handler, Names, Setup
<1>15. AnnouncedAreListed'
  BY <1>01, <1>02 DEF Answered, Hears, Rests, Idle, Over, debuggeeVars, AnnouncedAreListed, Known, Parses, TypeOK, Command, Event, Handler, Names, Setup
<1>16. LastIsLast'
  BY <1>01, <1>02 DEF Answered, Hears, Rests, Idle, Over, debuggeeVars, LastIsLast, HandlerWaits, Ending, Max1, TypeOK, Command, Event, Handler, Names, Setup
<1>17. HasToken'
  BY <1>01, <1>02 DEF Answered, Hears, Rests, Idle, Over, debuggeeVars, HasToken, NotYet, Running, EventIsToken, ReadingIsToken, Ending, HandlerWaits, TypeOK, Command, Event, Handler, Names, Setup
<1> QED BY <1>1, <1>2, <1>3, <1>4, <1>5, <1>6, <1>7, <1>8, <1>9, <1>10, <1>11, <1>12, <1>13, <1>14, <1>15, <1>16, <1>17

LEMMA LeaveKeepsInv ==
    ASSUME Inv, Leave
    PROVE  Inv'
<1> USE ScriptsAreThemselves, MaxStepsIsAnInteger DEF Inv, Fibers, Runs
<1>01. /\ wire' = wire
       /\ RunSent' <=> RunSent
       /\ HandlerSent' <=> HandlerSent
       /\ OneRun' <=> OneRun
       /\ OneOfHandler' <=> OneOfHandler
  BY SameWire DEF Leave, Hears, At, Over, debuggeeVars
<1>02. /\ events' = events /\ (PauseQueued' <=> PauseQueued)
       /\ \A s : Parsed(s)' <=> Parsed(s)
       /\ EventsHaveScripts' /\ PauseIsLast'
  BY SameEvents DEF Leave, Hears, At, Over, debuggeeVars
<1>1. TypeOK'
  BY <1>01, <1>02 DEF Leave, Hears, At, Over, debuggeeVars, TypeOK, Command, Event, Handler, Names, Setup
<1>2. NotYet'
  BY <1>01, <1>02 DEF Leave, Hears, At, Over, debuggeeVars, NotYet, Running, Waiting, After, TypeOK, Command, Event, Handler, Names, Setup
<1>3. PauseIsLast'
  BY <1>01, <1>02 DEF Leave, Hears, At, Over, debuggeeVars, RunIsToken, EventIsToken, TypeOK, Command, Event, Handler, Names, Setup
<1>4. EventIsToken'
  BY <1>01, <1>02 DEF Leave, Hears, At, Over, debuggeeVars, EventIsToken, Ending, HandlerWaits, HasAsked, RunIsToken, TypeOK, Command, Event, Handler, Names, Setup
<1>5. ReadingIsToken'
  BY <1>01, <1>02 DEF Leave, Hears, At, Over, debuggeeVars, ReadingIsToken, EventIsToken, Ending, TypeOK, Command, Event, Handler, Names, Setup
<1>6. ForkIsToken'
  BY <1>01, <1>02 DEF Leave, Hears, At, Over, debuggeeVars, ForkIsToken, EventIsToken, ReadingIsToken, Ending, TypeOK, Command, Event, Handler, Names, Setup
<1>7. RunIsToken'
  BY <1>01, <1>02 DEF Leave, Hears, At, Over, debuggeeVars, RunIsToken, EventIsToken, ForkIsToken, ReadingIsToken, TypeOK, Command, Event, Handler, Names, Setup
<1>8. OneRun'
  BY <1>01, <1>02 DEF Leave, Hears, At, Over, debuggeeVars, EventIsToken, ForkIsToken, ReadingIsToken, TypeOK, Command, Event, Handler, Names, Setup
<1>9. OneOfHandler'
  BY <1>01, <1>02 DEF Leave, Hears, At, Over, debuggeeVars, HandlerWaits, HasAsked, TypeOK, Command, Event, Handler, Names, Setup
<1>10. CommandsMatch'
  BY <1>01, <1>02 DEF Leave, Hears, At, Over, debuggeeVars, CommandsMatch, IsRun, OfHandler, Ending, RunSent, HandlerSent, HandlerWaits, HasAsked, EventIsToken, ReadingIsToken, ForkIsToken, TypeOK, Command, Event, Handler, Names, Setup
<1>11. HandlerWaits'
  BY <1>01, <1>02 DEF Leave, Hears, At, Over, debuggeeVars, HandlerWaits, CommandsMatch, IsRun, OfHandler, Ending, HasAsked, EventIsToken, ReadingIsToken, ForkIsToken, RunIsToken, LostIsEmpty, TypeOK, Command, Event, Handler, Names, Setup
<1>12. LostIsEmpty'
  BY <1>01, <1>02 DEF Leave, Hears, At, Over, debuggeeVars, LostIsEmpty, TypeOK, Command, Event, Handler, Names, Setup
<1>13. EventsHaveScripts'
  BY <1>01, <1>02 DEF Leave, Hears, At, Over, debuggeeVars, TypeOK, Command, Event, Handler, Names, Setup
<1>14. ListedAreAnnounced'
  BY <1>01, <1>02 DEF Leave, Hears, At, Over, debuggeeVars, ListedAreAnnounced, Known, EventsHaveScripts, Parses, TypeOK, Command, Event, Handler, Names, Setup
<1>15. AnnouncedAreListed'
  BY <1>01, <1>02 DEF Leave, Hears, At, Over, debuggeeVars, AnnouncedAreListed, Known, Parses, TypeOK, Command, Event, Handler, Names, Setup
<1>16. LastIsLast'
  BY <1>01, <1>02 DEF Leave, Hears, At, Over, debuggeeVars, LastIsLast, HandlerWaits, Ending, Max1, TypeOK, Command, Event, Handler, Names, Setup
<1>17. HasToken'
  BY <1>01, <1>02 DEF Leave, Hears, At, Over, debuggeeVars, HasToken, NotYet, Running, EventIsToken, ReadingIsToken, Ending, HandlerWaits, TypeOK, Command, Event, Handler, Names, Setup
<1> QED BY <1>1, <1>2, <1>3, <1>4, <1>5, <1>6, <1>7, <1>8, <1>9, <1>10, <1>11, <1>12, <1>13, <1>14, <1>15, <1>16, <1>17

LEMMA PrintErrorKeepsInv ==
    ASSUME Inv, PrintError
    PROVE  Inv'
<1> USE ScriptsAreThemselves, MaxStepsIsAnInteger DEF Inv, Fibers, Runs
<1>01. /\ wire' = wire
       /\ RunSent' <=> RunSent
       /\ HandlerSent' <=> HandlerSent
       /\ OneRun' <=> OneRun
       /\ OneOfHandler' <=> OneOfHandler
  BY SameWire DEF PrintError, Hears, Rests, Idle, Over, debuggeeVars
<1>02. /\ events' = events /\ (PauseQueued' <=> PauseQueued)
       /\ \A s : Parsed(s)' <=> Parsed(s)
       /\ EventsHaveScripts' /\ PauseIsLast'
  BY SameEvents DEF PrintError, Hears, Rests, Idle, Over, debuggeeVars
<1>1. TypeOK'
  BY <1>01, <1>02 DEF PrintError, Hears, Rests, Idle, Over, debuggeeVars, TypeOK, Command, Event, Handler, Names, Setup
<1>2. NotYet'
  BY <1>01, <1>02 DEF PrintError, Hears, Rests, Idle, Over, debuggeeVars, NotYet, Running, At, Waiting, After, TypeOK, Command, Event, Handler, Names, Setup
<1>3. PauseIsLast'
  BY <1>01, <1>02 DEF PrintError, Hears, Rests, Idle, Over, debuggeeVars, RunIsToken, EventIsToken, TypeOK, Command, Event, Handler, Names, Setup
<1>4. EventIsToken'
  BY <1>01, <1>02 DEF PrintError, Hears, Rests, Idle, Over, debuggeeVars, EventIsToken, Ending, HandlerWaits, HasAsked, RunIsToken, TypeOK, Command, Event, Handler, Names, Setup
<1>5. ReadingIsToken'
  BY <1>01, <1>02 DEF PrintError, Hears, Rests, Idle, Over, debuggeeVars, ReadingIsToken, EventIsToken, Ending, TypeOK, Command, Event, Handler, Names, Setup
<1>6. ForkIsToken'
  BY <1>01, <1>02 DEF PrintError, Hears, Rests, Idle, Over, debuggeeVars, ForkIsToken, EventIsToken, ReadingIsToken, Ending, TypeOK, Command, Event, Handler, Names, Setup
<1>7. RunIsToken'
  BY <1>01, <1>02 DEF PrintError, Hears, Rests, Idle, Over, debuggeeVars, RunIsToken, EventIsToken, ForkIsToken, ReadingIsToken, TypeOK, Command, Event, Handler, Names, Setup
<1>8. OneRun'
  BY <1>01, <1>02 DEF PrintError, Hears, Rests, Idle, Over, debuggeeVars, EventIsToken, ForkIsToken, ReadingIsToken, TypeOK, Command, Event, Handler, Names, Setup
<1>9. OneOfHandler'
  BY <1>01, <1>02 DEF PrintError, Hears, Rests, Idle, Over, debuggeeVars, HandlerWaits, HasAsked, TypeOK, Command, Event, Handler, Names, Setup
<1>10. CommandsMatch'
  BY <1>01, <1>02 DEF PrintError, Hears, Rests, Idle, Over, debuggeeVars, CommandsMatch, IsRun, OfHandler, Ending, RunSent, HandlerSent, HandlerWaits, HasAsked, EventIsToken, ReadingIsToken, ForkIsToken, TypeOK, Command, Event, Handler, Names, Setup
<1>11. HandlerWaits'
  BY <1>01, <1>02 DEF PrintError, Hears, Rests, Idle, Over, debuggeeVars, HandlerWaits, CommandsMatch, IsRun, OfHandler, Ending, HasAsked, EventIsToken, ReadingIsToken, ForkIsToken, RunIsToken, LostIsEmpty, TypeOK, Command, Event, Handler, Names, Setup
<1>12. LostIsEmpty'
  BY <1>01, <1>02 DEF PrintError, Hears, Rests, Idle, Over, debuggeeVars, LostIsEmpty, TypeOK, Command, Event, Handler, Names, Setup
<1>13. EventsHaveScripts'
  BY <1>01, <1>02 DEF PrintError, Hears, Rests, Idle, Over, debuggeeVars, TypeOK, Command, Event, Handler, Names, Setup
<1>14. ListedAreAnnounced'
  BY <1>01, <1>02 DEF PrintError, Hears, Rests, Idle, Over, debuggeeVars, ListedAreAnnounced, Known, EventsHaveScripts, Parses, TypeOK, Command, Event, Handler, Names, Setup
<1>15. AnnouncedAreListed'
  BY <1>01, <1>02 DEF PrintError, Hears, Rests, Idle, Over, debuggeeVars, AnnouncedAreListed, Known, Parses, TypeOK, Command, Event, Handler, Names, Setup
<1>16. LastIsLast'
  BY <1>01, <1>02 DEF PrintError, Hears, Rests, Idle, Over, debuggeeVars, LastIsLast, HandlerWaits, Ending, Max1, TypeOK, Command, Event, Handler, Names, Setup
<1>17. HasToken'
  BY <1>01, <1>02 DEF PrintError, Hears, Rests, Idle, Over, debuggeeVars, HasToken, NotYet, Running, EventIsToken, ReadingIsToken, Ending, HandlerWaits, TypeOK, Command, Event, Handler, Names, Setup
<1> QED BY <1>1, <1>2, <1>3, <1>4, <1>5, <1>6, <1>7, <1>8, <1>9, <1>10, <1>11, <1>12, <1>13, <1>14, <1>15, <1>16, <1>17

LEMMA ForkSendsKeepsInv ==
    ASSUME Inv, ForkSends
    PROVE  Inv'
<1> USE ScriptsAreThemselves, MaxStepsIsAnInteger DEF Inv, Fibers, Runs
<1>01. (link = "up" /\ Written("fork", "StepOver")) \/ (link = "lost" /\ wire' = wire)
  BY WriteAppends DEF ForkSends, Command, TypeOK
<1>02. wire' = wire =>
       /\ RunSent' <=> RunSent
       /\ HandlerSent' <=> HandlerSent
       /\ OneRun' <=> OneRun
       /\ OneOfHandler' <=> OneOfHandler
  BY SameWire
<1>03. /\ events' = events /\ (PauseQueued' <=> PauseQueued)
       /\ \A s : Parsed(s)' <=> Parsed(s)
       /\ EventsHaveScripts' /\ PauseIsLast'
  BY SameEvents DEF ForkSends, debuggeeVars
<1>1. TypeOK'
  BY <1>01, <1>02, <1>03 DEF ForkSends, debuggeeVars, TypeOK, Command, Event, Handler, Names, Setup, Written, ForkIsToken, Ending
<1>2. NotYet'
  BY <1>01, <1>02, <1>03 DEF ForkSends, debuggeeVars, NotYet, Running, At, Waiting, After, TypeOK, Command, Event, Handler, Names, Setup, Written, ForkIsToken, Ending
<1>3. PauseIsLast'
  BY <1>01, <1>02, <1>03 DEF ForkSends, debuggeeVars, RunIsToken, EventIsToken, TypeOK, Command, Event, Handler, Names, Setup, Written, ForkIsToken, Ending
<1>4. EventIsToken'
  BY <1>01, <1>02, <1>03 DEF ForkSends, debuggeeVars, EventIsToken, Ending, HandlerWaits, HasAsked, RunIsToken, TypeOK, Command, Event, Handler, Names, Setup, Written, ForkIsToken
<1>5. ReadingIsToken'
  BY <1>01, <1>02, <1>03 DEF ForkSends, debuggeeVars, ReadingIsToken, EventIsToken, Ending, TypeOK, Command, Event, Handler, Names, Setup, Written, ForkIsToken
<1>6. ForkIsToken'
  BY <1>01, <1>02, <1>03 DEF ForkSends, debuggeeVars, ForkIsToken, EventIsToken, ReadingIsToken, Ending, TypeOK, Command, Event, Handler, Names, Setup, Written
<1>7. RunIsToken'
  BY <1>01, <1>02, <1>03 DEF ForkSends, debuggeeVars, RunIsToken, EventIsToken, ForkIsToken, ReadingIsToken, TypeOK, Command, Event, Handler, Names, Setup, Written, Ending
<1>8. OneRun'
  BY <1>01, <1>02, <1>03 DEF ForkSends, debuggeeVars, EventIsToken, ForkIsToken, ReadingIsToken, TypeOK, Command, Event, Handler, Names, Setup, Written, Ending
<1>9. OneOfHandler'
  BY <1>01, <1>02, <1>03 DEF ForkSends, debuggeeVars, HandlerWaits, HasAsked, TypeOK, Command, Event, Handler, Names, Setup, Written, ForkIsToken, Ending
<1>10. CommandsMatch'
  BY <1>01, <1>02, <1>03 DEF ForkSends, debuggeeVars, CommandsMatch, IsRun, OfHandler, Ending, RunSent, HandlerSent, HandlerWaits, HasAsked, EventIsToken, ReadingIsToken, ForkIsToken, TypeOK, Command, Event, Handler, Names, Setup, Written
<1>11. HandlerWaits'
  BY <1>01, <1>02, <1>03 DEF ForkSends, debuggeeVars, HandlerWaits, CommandsMatch, IsRun, OfHandler, Ending, HasAsked, EventIsToken, ReadingIsToken, ForkIsToken, RunIsToken, LostIsEmpty, TypeOK, Command, Event, Handler, Names, Setup, Written
<1>12. LostIsEmpty'
  BY <1>01, <1>02, <1>03 DEF ForkSends, debuggeeVars, LostIsEmpty, TypeOK, Command, Event, Handler, Names, Setup, Written, ForkIsToken, Ending
<1>13. EventsHaveScripts'
  BY <1>01, <1>02, <1>03 DEF ForkSends, debuggeeVars, TypeOK, Command, Event, Handler, Names, Setup, Written, ForkIsToken, Ending
<1>14. ListedAreAnnounced'
  BY <1>01, <1>02, <1>03 DEF ForkSends, debuggeeVars, ListedAreAnnounced, Known, EventsHaveScripts, Parses, TypeOK, Command, Event, Handler, Names, Setup, Written, ForkIsToken, Ending
<1>15. AnnouncedAreListed'
  BY <1>01, <1>02, <1>03 DEF ForkSends, debuggeeVars, AnnouncedAreListed, Known, Parses, TypeOK, Command, Event, Handler, Names, Setup, Written, ForkIsToken, Ending
<1>16. LastIsLast'
  BY <1>01, <1>02, <1>03 DEF ForkSends, debuggeeVars, LastIsLast, HandlerWaits, Ending, Max1, TypeOK, Command, Event, Handler, Names, Setup, Written, ForkIsToken
<1>17. HasToken'
  BY <1>01, <1>02, <1>03 DEF ForkSends, debuggeeVars, HasToken, NotYet, Running, EventIsToken, ReadingIsToken, Ending, HandlerWaits, TypeOK, Command, Event, Handler, Names, Setup, Written, ForkIsToken
<1> QED BY <1>1, <1>2, <1>3, <1>4, <1>5, <1>6, <1>7, <1>8, <1>9, <1>10, <1>11, <1>12, <1>13, <1>14, <1>15, <1>16, <1>17

LEMMA ServeEnableKeepsInv ==
    ASSUME Inv, ServeEnable
    PROVE  Inv'
<1> USE ScriptsAreThemselves, MaxStepsIsAnInteger DEF Inv, Fibers, Runs
<1>01. Served /\ ~IsRun(1) /\ link = "up"
  BY ServesTakes DEF ServeEnable, Serves, IsRun, Served
<1>02. /\ Head(wire).from = "handler" <=> OfHandler(1)
       /\ OfHandler(1) => ~Ending /\ HasAsked /\ reply["handler"] = "none"
  BY <1>01 DEF CommandsMatch, HandlerWaits, HandlerSent, Served, OfHandler
<1>03. /\ events' = events /\ (PauseQueued' <=> PauseQueued)
       /\ \A s : Parsed(s)' <=> Parsed(s)
       /\ EventsHaveScripts' /\ PauseIsLast'
  BY SameEvents DEF ServeEnable, Replies, cliVars, debuggeeVars
<1>1. TypeOK'
  BY <1>01, <1>02, <1>03 DEF ServeEnable, Replies, cliVars, debuggeeVars, TypeOK, Command, Event, Handler, Names, Setup, Served
<1>2. NotYet'
  BY <1>01, <1>02, <1>03 DEF ServeEnable, Replies, cliVars, debuggeeVars, NotYet, Running, At, Waiting, After, TypeOK, Command, Event, Handler, Names, Setup, Served
<1>3. PauseIsLast'
  BY <1>01, <1>02, <1>03 DEF ServeEnable, Replies, cliVars, debuggeeVars, RunIsToken, EventIsToken, TypeOK, Command, Event, Handler, Names, Setup, Served
<1>4. EventIsToken'
  BY <1>01, <1>02, <1>03 DEF ServeEnable, Replies, cliVars, debuggeeVars, EventIsToken, Ending, HandlerWaits, HasAsked, RunIsToken, TypeOK, Command, Event, Handler, Names, Setup, Served
<1>5. ReadingIsToken'
  BY <1>01, <1>02, <1>03 DEF ServeEnable, Replies, cliVars, debuggeeVars, ReadingIsToken, EventIsToken, Ending, TypeOK, Command, Event, Handler, Names, Setup, Served
<1>6. ForkIsToken'
  BY <1>01, <1>02, <1>03 DEF ServeEnable, Replies, cliVars, debuggeeVars, ForkIsToken, EventIsToken, ReadingIsToken, Ending, TypeOK, Command, Event, Handler, Names, Setup, Served
<1>7. RunIsToken'
  BY <1>01, <1>02, <1>03 DEF ServeEnable, Replies, cliVars, debuggeeVars, RunIsToken, EventIsToken, ForkIsToken, ReadingIsToken, TypeOK, Command, Event, Handler, Names, Setup, Served
<1>8. OneRun'
  BY <1>01, <1>02, <1>03 DEF ServeEnable, Replies, cliVars, debuggeeVars, EventIsToken, ForkIsToken, ReadingIsToken, TypeOK, Command, Event, Handler, Names, Setup, Served
<1>9. OneOfHandler'
  BY <1>01, <1>02, <1>03 DEF ServeEnable, Replies, cliVars, debuggeeVars, HandlerWaits, HasAsked, TypeOK, Command, Event, Handler, Names, Setup, Served
<1>10. CommandsMatch'
  BY <1>01, <1>02, <1>03 DEF ServeEnable, Replies, cliVars, debuggeeVars, CommandsMatch, IsRun, OfHandler, Ending, RunSent, HandlerSent, HandlerWaits, HasAsked, EventIsToken, ReadingIsToken, ForkIsToken, TypeOK, Command, Event, Handler, Names, Setup, Served
<1>11. HandlerWaits'
  BY <1>01, <1>02, <1>03 DEF ServeEnable, Replies, cliVars, debuggeeVars, HandlerWaits, CommandsMatch, IsRun, OfHandler, Ending, HasAsked, EventIsToken, ReadingIsToken, ForkIsToken, RunIsToken, LostIsEmpty, TypeOK, Command, Event, Handler, Names, Setup, Served
<1>12. LostIsEmpty'
  BY <1>01, <1>02, <1>03 DEF ServeEnable, Replies, cliVars, debuggeeVars, LostIsEmpty, TypeOK, Command, Event, Handler, Names, Setup, Served
<1>13. EventsHaveScripts'
  BY <1>01, <1>02, <1>03 DEF ServeEnable, Replies, cliVars, debuggeeVars, TypeOK, Command, Event, Handler, Names, Setup, Served
<1>14. ListedAreAnnounced'
  BY <1>01, <1>02, <1>03 DEF ServeEnable, Replies, cliVars, debuggeeVars, ListedAreAnnounced, Known, EventsHaveScripts, Parses, TypeOK, Command, Event, Handler, Names, Setup, Served
<1>15. AnnouncedAreListed'
  BY <1>01, <1>02, <1>03 DEF ServeEnable, Replies, cliVars, debuggeeVars, AnnouncedAreListed, Known, Parses, TypeOK, Command, Event, Handler, Names, Setup, Served
<1>16. LastIsLast'
  BY <1>01, <1>02, <1>03 DEF ServeEnable, Replies, cliVars, debuggeeVars, LastIsLast, HandlerWaits, Ending, Max1, TypeOK, Command, Event, Handler, Names, Setup, Served
<1>17. HasToken'
  BY <1>01, <1>02, <1>03 DEF ServeEnable, Replies, cliVars, debuggeeVars, HasToken, NotYet, Running, EventIsToken, ReadingIsToken, Ending, HandlerWaits, TypeOK, Command, Event, Handler, Names, Setup, Served
<1> QED BY <1>1, <1>2, <1>3, <1>4, <1>5, <1>6, <1>7, <1>8, <1>9, <1>10, <1>11, <1>12, <1>13, <1>14, <1>15, <1>16, <1>17

LEMMA ServeRunIfWaitingKeepsInv ==
    ASSUME Inv, ServeRunIfWaiting
    PROVE  Inv'
<1> USE ScriptsAreThemselves, MaxStepsIsAnInteger DEF Inv, Fibers, Runs
<1>01. Served /\ ~IsRun(1) /\ link = "up"
  BY ServesTakes DEF ServeRunIfWaiting, Serves, IsRun, Served
<1>02. /\ Head(wire).from = "handler" <=> OfHandler(1)
       /\ OfHandler(1) => ~Ending /\ HasAsked /\ reply["handler"] = "none"
  BY <1>01 DEF CommandsMatch, HandlerWaits, HandlerSent, Served, OfHandler
<1>03. /\ events' = events /\ (PauseQueued' <=> PauseQueued)
       /\ \A s : Parsed(s)' <=> Parsed(s)
       /\ EventsHaveScripts' /\ PauseIsLast'
  BY SameEvents DEF ServeRunIfWaiting, Replies, cliVars, debuggeeVars
<1>1. TypeOK'
  BY <1>01, <1>02, <1>03 DEF ServeRunIfWaiting, Replies, cliVars, debuggeeVars, TypeOK, Command, Event, Handler, Names, Setup, Served
<1>2. NotYet'
  BY <1>01, <1>02, <1>03 DEF ServeRunIfWaiting, Replies, cliVars, debuggeeVars, NotYet, Running, At, Waiting, After, TypeOK, Command, Event, Handler, Names, Setup, Served
<1>3. PauseIsLast'
  BY <1>01, <1>02, <1>03 DEF ServeRunIfWaiting, Replies, cliVars, debuggeeVars, RunIsToken, EventIsToken, TypeOK, Command, Event, Handler, Names, Setup, Served
<1>4. EventIsToken'
  BY <1>01, <1>02, <1>03 DEF ServeRunIfWaiting, Replies, cliVars, debuggeeVars, EventIsToken, Ending, HandlerWaits, HasAsked, RunIsToken, TypeOK, Command, Event, Handler, Names, Setup, Served
<1>5. ReadingIsToken'
  BY <1>01, <1>02, <1>03 DEF ServeRunIfWaiting, Replies, cliVars, debuggeeVars, ReadingIsToken, EventIsToken, Ending, TypeOK, Command, Event, Handler, Names, Setup, Served
<1>6. ForkIsToken'
  BY <1>01, <1>02, <1>03 DEF ServeRunIfWaiting, Replies, cliVars, debuggeeVars, ForkIsToken, EventIsToken, ReadingIsToken, Ending, TypeOK, Command, Event, Handler, Names, Setup, Served
<1>7. RunIsToken'
  BY <1>01, <1>02, <1>03 DEF ServeRunIfWaiting, Replies, cliVars, debuggeeVars, RunIsToken, EventIsToken, ForkIsToken, ReadingIsToken, TypeOK, Command, Event, Handler, Names, Setup, Served
<1>8. OneRun'
  BY <1>01, <1>02, <1>03 DEF ServeRunIfWaiting, Replies, cliVars, debuggeeVars, EventIsToken, ForkIsToken, ReadingIsToken, TypeOK, Command, Event, Handler, Names, Setup, Served
<1>9. OneOfHandler'
  BY <1>01, <1>02, <1>03 DEF ServeRunIfWaiting, Replies, cliVars, debuggeeVars, HandlerWaits, HasAsked, TypeOK, Command, Event, Handler, Names, Setup, Served
<1>10. CommandsMatch'
  BY <1>01, <1>02, <1>03 DEF ServeRunIfWaiting, Replies, cliVars, debuggeeVars, CommandsMatch, IsRun, OfHandler, Ending, RunSent, HandlerSent, HandlerWaits, HasAsked, EventIsToken, ReadingIsToken, ForkIsToken, TypeOK, Command, Event, Handler, Names, Setup, Served
<1>11. HandlerWaits'
  BY <1>01, <1>02, <1>03 DEF ServeRunIfWaiting, Replies, cliVars, debuggeeVars, HandlerWaits, CommandsMatch, IsRun, OfHandler, Ending, HasAsked, EventIsToken, ReadingIsToken, ForkIsToken, RunIsToken, LostIsEmpty, TypeOK, Command, Event, Handler, Names, Setup, Served
<1>12. LostIsEmpty'
  BY <1>01, <1>02, <1>03 DEF ServeRunIfWaiting, Replies, cliVars, debuggeeVars, LostIsEmpty, TypeOK, Command, Event, Handler, Names, Setup, Served
<1>13. EventsHaveScripts'
  BY <1>01, <1>02, <1>03 DEF ServeRunIfWaiting, Replies, cliVars, debuggeeVars, TypeOK, Command, Event, Handler, Names, Setup, Served
<1>14. ListedAreAnnounced'
  BY <1>01, <1>02, <1>03 DEF ServeRunIfWaiting, Replies, cliVars, debuggeeVars, ListedAreAnnounced, Known, EventsHaveScripts, Parses, TypeOK, Command, Event, Handler, Names, Setup, Served
<1>15. AnnouncedAreListed'
  BY <1>01, <1>02, <1>03 DEF ServeRunIfWaiting, Replies, cliVars, debuggeeVars, AnnouncedAreListed, Known, Parses, TypeOK, Command, Event, Handler, Names, Setup, Served
<1>16. LastIsLast'
  BY <1>01, <1>02, <1>03 DEF ServeRunIfWaiting, Replies, cliVars, debuggeeVars, LastIsLast, HandlerWaits, Ending, Max1, TypeOK, Command, Event, Handler, Names, Setup, Served
<1>17. HasToken'
  BY <1>01, <1>02, <1>03 DEF ServeRunIfWaiting, Replies, cliVars, debuggeeVars, HasToken, NotYet, Running, EventIsToken, ReadingIsToken, Ending, HandlerWaits, TypeOK, Command, Event, Handler, Names, Setup, Served
<1> QED BY <1>1, <1>2, <1>3, <1>4, <1>5, <1>6, <1>7, <1>8, <1>9, <1>10, <1>11, <1>12, <1>13, <1>14, <1>15, <1>16, <1>17

LEMMA ServePauseKeepsInv ==
    ASSUME Inv, ServePause
    PROVE  Inv'
<1> USE ScriptsAreThemselves, MaxStepsIsAnInteger DEF Inv, Fibers, Runs
<1>01. Served /\ ~IsRun(1) /\ link = "up"
  BY ServesTakes DEF ServePause, Serves, IsRun, Served
<1>02. /\ Head(wire).from = "handler" <=> OfHandler(1)
       /\ OfHandler(1) => ~Ending /\ HasAsked /\ reply["handler"] = "none"
  BY <1>01 DEF CommandsMatch, HandlerWaits, HandlerSent, Served, OfHandler
<1>03. /\ events' = events /\ (PauseQueued' <=> PauseQueued)
       /\ \A s : Parsed(s)' <=> Parsed(s)
       /\ EventsHaveScripts' /\ PauseIsLast'
  BY SameEvents DEF ServePause, Replies, cliVars, debuggeeVars
<1>1. TypeOK'
  BY <1>01, <1>02, <1>03 DEF ServePause, Replies, cliVars, debuggeeVars, TypeOK, Command, Event, Handler, Names, Setup, Served
<1>2. NotYet'
  BY <1>01, <1>02, <1>03 DEF ServePause, Replies, cliVars, debuggeeVars, NotYet, Running, At, Waiting, After, TypeOK, Command, Event, Handler, Names, Setup, Served
<1>3. PauseIsLast'
  BY <1>01, <1>02, <1>03 DEF ServePause, Replies, cliVars, debuggeeVars, RunIsToken, EventIsToken, TypeOK, Command, Event, Handler, Names, Setup, Served
<1>4. EventIsToken'
  BY <1>01, <1>02, <1>03 DEF ServePause, Replies, cliVars, debuggeeVars, EventIsToken, Ending, HandlerWaits, HasAsked, RunIsToken, TypeOK, Command, Event, Handler, Names, Setup, Served
<1>5. ReadingIsToken'
  BY <1>01, <1>02, <1>03 DEF ServePause, Replies, cliVars, debuggeeVars, ReadingIsToken, EventIsToken, Ending, TypeOK, Command, Event, Handler, Names, Setup, Served
<1>6. ForkIsToken'
  BY <1>01, <1>02, <1>03 DEF ServePause, Replies, cliVars, debuggeeVars, ForkIsToken, EventIsToken, ReadingIsToken, Ending, TypeOK, Command, Event, Handler, Names, Setup, Served
<1>7. RunIsToken'
  BY <1>01, <1>02, <1>03 DEF ServePause, Replies, cliVars, debuggeeVars, RunIsToken, EventIsToken, ForkIsToken, ReadingIsToken, TypeOK, Command, Event, Handler, Names, Setup, Served
<1>8. OneRun'
  BY <1>01, <1>02, <1>03 DEF ServePause, Replies, cliVars, debuggeeVars, EventIsToken, ForkIsToken, ReadingIsToken, TypeOK, Command, Event, Handler, Names, Setup, Served
<1>9. OneOfHandler'
  BY <1>01, <1>02, <1>03 DEF ServePause, Replies, cliVars, debuggeeVars, HandlerWaits, HasAsked, TypeOK, Command, Event, Handler, Names, Setup, Served
<1>10. CommandsMatch'
  BY <1>01, <1>02, <1>03 DEF ServePause, Replies, cliVars, debuggeeVars, CommandsMatch, IsRun, OfHandler, Ending, RunSent, HandlerSent, HandlerWaits, HasAsked, EventIsToken, ReadingIsToken, ForkIsToken, TypeOK, Command, Event, Handler, Names, Setup, Served
<1>11. HandlerWaits'
  BY <1>01, <1>02, <1>03 DEF ServePause, Replies, cliVars, debuggeeVars, HandlerWaits, CommandsMatch, IsRun, OfHandler, Ending, HasAsked, EventIsToken, ReadingIsToken, ForkIsToken, RunIsToken, LostIsEmpty, TypeOK, Command, Event, Handler, Names, Setup, Served
<1>12. LostIsEmpty'
  BY <1>01, <1>02, <1>03 DEF ServePause, Replies, cliVars, debuggeeVars, LostIsEmpty, TypeOK, Command, Event, Handler, Names, Setup, Served
<1>13. EventsHaveScripts'
  BY <1>01, <1>02, <1>03 DEF ServePause, Replies, cliVars, debuggeeVars, TypeOK, Command, Event, Handler, Names, Setup, Served
<1>14. ListedAreAnnounced'
  BY <1>01, <1>02, <1>03 DEF ServePause, Replies, cliVars, debuggeeVars, ListedAreAnnounced, Known, EventsHaveScripts, Parses, TypeOK, Command, Event, Handler, Names, Setup, Served
<1>15. AnnouncedAreListed'
  BY <1>01, <1>02, <1>03 DEF ServePause, Replies, cliVars, debuggeeVars, AnnouncedAreListed, Known, Parses, TypeOK, Command, Event, Handler, Names, Setup, Served
<1>16. LastIsLast'
  BY <1>01, <1>02, <1>03 DEF ServePause, Replies, cliVars, debuggeeVars, LastIsLast, HandlerWaits, Ending, Max1, TypeOK, Command, Event, Handler, Names, Setup, Served
<1>17. HasToken'
  BY <1>01, <1>02, <1>03 DEF ServePause, Replies, cliVars, debuggeeVars, HasToken, NotYet, Running, EventIsToken, ReadingIsToken, Ending, HandlerWaits, TypeOK, Command, Event, Handler, Names, Setup, Served
<1> QED BY <1>1, <1>2, <1>3, <1>4, <1>5, <1>6, <1>7, <1>8, <1>9, <1>10, <1>11, <1>12, <1>13, <1>14, <1>15, <1>16, <1>17

LEMMA ServeGetSourceKeepsInv ==
    ASSUME Inv, ServeGetSource
    PROVE  Inv'
<1> USE ScriptsAreThemselves, MaxStepsIsAnInteger DEF Inv, Fibers, Runs
<1>01. Served /\ ~IsRun(1) /\ link = "up"
  BY ServesTakes DEF ServeGetSource, Serves, IsRun, Served
<1>02. /\ Head(wire).from = "handler" <=> OfHandler(1)
       /\ OfHandler(1) => ~Ending /\ HasAsked /\ reply["handler"] = "none"
  BY <1>01 DEF CommandsMatch, HandlerWaits, HandlerSent, Served, OfHandler
<1>03. /\ events' = events /\ (PauseQueued' <=> PauseQueued)
       /\ \A s : Parsed(s)' <=> Parsed(s)
       /\ EventsHaveScripts' /\ PauseIsLast'
  BY SameEvents DEF ServeGetSource, Replies, cliVars, debuggeeVars
<1>1. TypeOK'
  BY <1>01, <1>02, <1>03 DEF ServeGetSource, Replies, cliVars, debuggeeVars, TypeOK, Command, Event, Handler, Names, Setup, Served
<1>2. NotYet'
  BY <1>01, <1>02, <1>03 DEF ServeGetSource, Replies, cliVars, debuggeeVars, NotYet, Running, At, Waiting, After, TypeOK, Command, Event, Handler, Names, Setup, Served
<1>3. PauseIsLast'
  BY <1>01, <1>02, <1>03 DEF ServeGetSource, Replies, cliVars, debuggeeVars, RunIsToken, EventIsToken, TypeOK, Command, Event, Handler, Names, Setup, Served
<1>4. EventIsToken'
  BY <1>01, <1>02, <1>03 DEF ServeGetSource, Replies, cliVars, debuggeeVars, EventIsToken, Ending, HandlerWaits, HasAsked, RunIsToken, TypeOK, Command, Event, Handler, Names, Setup, Served
<1>5. ReadingIsToken'
  BY <1>01, <1>02, <1>03 DEF ServeGetSource, Replies, cliVars, debuggeeVars, ReadingIsToken, EventIsToken, Ending, TypeOK, Command, Event, Handler, Names, Setup, Served
<1>6. ForkIsToken'
  BY <1>01, <1>02, <1>03 DEF ServeGetSource, Replies, cliVars, debuggeeVars, ForkIsToken, EventIsToken, ReadingIsToken, Ending, TypeOK, Command, Event, Handler, Names, Setup, Served
<1>7. RunIsToken'
  BY <1>01, <1>02, <1>03 DEF ServeGetSource, Replies, cliVars, debuggeeVars, RunIsToken, EventIsToken, ForkIsToken, ReadingIsToken, TypeOK, Command, Event, Handler, Names, Setup, Served
<1>8. OneRun'
  BY <1>01, <1>02, <1>03 DEF ServeGetSource, Replies, cliVars, debuggeeVars, EventIsToken, ForkIsToken, ReadingIsToken, TypeOK, Command, Event, Handler, Names, Setup, Served
<1>9. OneOfHandler'
  BY <1>01, <1>02, <1>03 DEF ServeGetSource, Replies, cliVars, debuggeeVars, HandlerWaits, HasAsked, TypeOK, Command, Event, Handler, Names, Setup, Served
<1>10. CommandsMatch'
  BY <1>01, <1>02, <1>03 DEF ServeGetSource, Replies, cliVars, debuggeeVars, CommandsMatch, IsRun, OfHandler, Ending, RunSent, HandlerSent, HandlerWaits, HasAsked, EventIsToken, ReadingIsToken, ForkIsToken, TypeOK, Command, Event, Handler, Names, Setup, Served
<1>11. HandlerWaits'
  BY <1>01, <1>02, <1>03 DEF ServeGetSource, Replies, cliVars, debuggeeVars, HandlerWaits, CommandsMatch, IsRun, OfHandler, Ending, HasAsked, EventIsToken, ReadingIsToken, ForkIsToken, RunIsToken, LostIsEmpty, TypeOK, Command, Event, Handler, Names, Setup, Served
<1>12. LostIsEmpty'
  BY <1>01, <1>02, <1>03 DEF ServeGetSource, Replies, cliVars, debuggeeVars, LostIsEmpty, TypeOK, Command, Event, Handler, Names, Setup, Served
<1>13. EventsHaveScripts'
  BY <1>01, <1>02, <1>03 DEF ServeGetSource, Replies, cliVars, debuggeeVars, TypeOK, Command, Event, Handler, Names, Setup, Served
<1>14. ListedAreAnnounced'
  BY <1>01, <1>02, <1>03 DEF ServeGetSource, Replies, cliVars, debuggeeVars, ListedAreAnnounced, Known, EventsHaveScripts, Parses, TypeOK, Command, Event, Handler, Names, Setup, Served
<1>15. AnnouncedAreListed'
  BY <1>01, <1>02, <1>03 DEF ServeGetSource, Replies, cliVars, debuggeeVars, AnnouncedAreListed, Known, Parses, TypeOK, Command, Event, Handler, Names, Setup, Served
<1>16. LastIsLast'
  BY <1>01, <1>02, <1>03 DEF ServeGetSource, Replies, cliVars, debuggeeVars, LastIsLast, HandlerWaits, Ending, Max1, TypeOK, Command, Event, Handler, Names, Setup, Served
<1>17. HasToken'
  BY <1>01, <1>02, <1>03 DEF ServeGetSource, Replies, cliVars, debuggeeVars, HasToken, NotYet, Running, EventIsToken, ReadingIsToken, Ending, HandlerWaits, TypeOK, Command, Event, Handler, Names, Setup, Served
<1> QED BY <1>1, <1>2, <1>3, <1>4, <1>5, <1>6, <1>7, <1>8, <1>9, <1>10, <1>11, <1>12, <1>13, <1>14, <1>15, <1>16, <1>17

LEMMA ServeRunKeepsInv ==
    ASSUME Inv, ServeRun
    PROVE  Inv'
<1> USE ScriptsAreThemselves, MaxStepsIsAnInteger DEF Inv, Fibers, Runs
<1>01. Served /\ IsRun(1) /\ RunSent /\ link = "up"
  BY ServesTakes DEF ServeRun, Serves, IsRun, Served, RunSent
<1>02. dbg = "paused" /\ ~RunSent' /\ Emitted("resumed", NoScript) /\ ~PauseQueued /\ forks = 0 /\ handler.at # "reading"
  BY <1>01, EmitsAppends DEF ServeRun, RunIsToken, EventIsToken, ForkIsToken, ReadingIsToken, TypeOK, Served, Event
<1>1. TypeOK'
  BY <1>01, <1>02 DEF ServeRun, Replies, cliVars, TypeOK, Command, Event, Handler, Names, Setup, Served, Emitted
<1>2. NotYet'
  BY <1>01, <1>02 DEF ServeRun, Replies, cliVars, NotYet, Running, At, Waiting, After, TypeOK, Command, Event, Handler, Names, Setup, Served, Emitted
<1>3. PauseIsLast'
  BY <1>01, <1>02 DEF ServeRun, Replies, cliVars, RunIsToken, EventIsToken, TypeOK, Command, Event, Handler, Names, Setup, Served, Emitted
<1>4. EventIsToken'
  BY <1>01, <1>02 DEF ServeRun, Replies, cliVars, EventIsToken, Ending, HandlerWaits, HasAsked, RunIsToken, TypeOK, Command, Event, Handler, Names, Setup, Served, Emitted
<1>5. ReadingIsToken'
  BY <1>01, <1>02 DEF ServeRun, Replies, cliVars, ReadingIsToken, EventIsToken, Ending, TypeOK, Command, Event, Handler, Names, Setup, Served, Emitted
<1>6. ForkIsToken'
  BY <1>01, <1>02 DEF ServeRun, Replies, cliVars, ForkIsToken, EventIsToken, ReadingIsToken, Ending, TypeOK, Command, Event, Handler, Names, Setup, Served, Emitted
<1>7. RunIsToken'
  BY <1>01, <1>02 DEF ServeRun, Replies, cliVars, RunIsToken, EventIsToken, ForkIsToken, ReadingIsToken, TypeOK, Command, Event, Handler, Names, Setup, Served, Emitted
<1>8. OneRun'
  BY <1>01, <1>02 DEF ServeRun, Replies, cliVars, EventIsToken, ForkIsToken, ReadingIsToken, TypeOK, Command, Event, Handler, Names, Setup, Served, Emitted
<1>9. OneOfHandler'
  BY <1>01, <1>02 DEF ServeRun, Replies, cliVars, HandlerWaits, HasAsked, TypeOK, Command, Event, Handler, Names, Setup, Served, Emitted
<1>10. CommandsMatch'
  BY <1>01, <1>02 DEF ServeRun, Replies, cliVars, CommandsMatch, IsRun, OfHandler, Ending, RunSent, HandlerSent, HandlerWaits, HasAsked, EventIsToken, ReadingIsToken, ForkIsToken, TypeOK, Command, Event, Handler, Names, Setup, Served, Emitted
<1>11. HandlerWaits'
  BY <1>01, <1>02 DEF ServeRun, Replies, cliVars, HandlerWaits, CommandsMatch, IsRun, OfHandler, Ending, HasAsked, EventIsToken, ReadingIsToken, ForkIsToken, RunIsToken, LostIsEmpty, TypeOK, Command, Event, Handler, Names, Setup, Served, Emitted
<1>12. LostIsEmpty'
  BY <1>01, <1>02 DEF ServeRun, Replies, cliVars, LostIsEmpty, TypeOK, Command, Event, Handler, Names, Setup, Served, Emitted
<1>13. EventsHaveScripts'
  BY <1>01, <1>02 DEF ServeRun, Replies, cliVars, TypeOK, Command, Event, Handler, Names, Setup, Served, Emitted
<1>14. ListedAreAnnounced'
  BY <1>01, <1>02 DEF ServeRun, Replies, cliVars, ListedAreAnnounced, Known, EventsHaveScripts, Parses, TypeOK, Command, Event, Handler, Names, Setup, Served, Emitted
<1>15. AnnouncedAreListed'
  BY <1>01, <1>02 DEF ServeRun, Replies, cliVars, AnnouncedAreListed, Known, Parses, TypeOK, Command, Event, Handler, Names, Setup, Served, Emitted
<1>16. LastIsLast'
  BY <1>01, <1>02 DEF ServeRun, Replies, cliVars, LastIsLast, HandlerWaits, Ending, Max1, TypeOK, Command, Event, Handler, Names, Setup, Served, Emitted
<1>17. HasToken'
  BY <1>01, <1>02 DEF ServeRun, Replies, cliVars, HasToken, NotYet, Running, EventIsToken, ReadingIsToken, Ending, HandlerWaits, TypeOK, Command, Event, Handler, Names, Setup, Served, Emitted
<1> QED BY <1>1, <1>2, <1>3, <1>4, <1>5, <1>6, <1>7, <1>8, <1>9, <1>10, <1>11, <1>12, <1>13, <1>14, <1>15, <1>16, <1>17

LEMMA AnnounceKeepsInv ==
    ASSUME Inv, NEW s \in Scripts, Announce(s)
    PROVE  Inv'
<1> USE ScriptsAreThemselves, MaxStepsIsAnInteger DEF Inv, Fibers, Runs
<1>01. Emitted("scriptParsed", s) /\ ~PauseQueued
  BY EmitsAppends DEF Announce, Event, EventIsToken
<1>02. /\ wire' = wire
       /\ RunSent' <=> RunSent
       /\ HandlerSent' <=> HandlerSent
       /\ OneRun' <=> OneRun
       /\ OneOfHandler' <=> OneOfHandler
  BY SameWire DEF Announce, cliVars
<1>1. TypeOK'
  BY <1>01, <1>02 DEF Announce, cliVars, TypeOK, Command, Event, Handler, Names, Setup, Emitted
<1>2. NotYet'
  BY <1>01, <1>02 DEF Announce, cliVars, NotYet, Running, At, Waiting, After, TypeOK, Command, Event, Handler, Names, Setup, Emitted
<1>3. PauseIsLast'
  BY <1>01, <1>02 DEF Announce, cliVars, RunIsToken, EventIsToken, TypeOK, Command, Event, Handler, Names, Setup, Emitted
<1>4. EventIsToken'
  BY <1>01, <1>02 DEF Announce, cliVars, EventIsToken, Ending, HandlerWaits, HasAsked, RunIsToken, TypeOK, Command, Event, Handler, Names, Setup, Emitted
<1>5. ReadingIsToken'
  BY <1>01, <1>02 DEF Announce, cliVars, ReadingIsToken, EventIsToken, Ending, TypeOK, Command, Event, Handler, Names, Setup, Emitted
<1>6. ForkIsToken'
  BY <1>01, <1>02 DEF Announce, cliVars, ForkIsToken, EventIsToken, ReadingIsToken, Ending, TypeOK, Command, Event, Handler, Names, Setup, Emitted
<1>7. RunIsToken'
  BY <1>01, <1>02 DEF Announce, cliVars, RunIsToken, EventIsToken, ForkIsToken, ReadingIsToken, TypeOK, Command, Event, Handler, Names, Setup, Emitted
<1>8. OneRun'
  BY <1>01, <1>02 DEF Announce, cliVars, EventIsToken, ForkIsToken, ReadingIsToken, TypeOK, Command, Event, Handler, Names, Setup, Emitted
<1>9. OneOfHandler'
  BY <1>01, <1>02 DEF Announce, cliVars, HandlerWaits, HasAsked, TypeOK, Command, Event, Handler, Names, Setup, Emitted
<1>10. CommandsMatch'
  BY <1>01, <1>02 DEF Announce, cliVars, CommandsMatch, IsRun, OfHandler, Ending, RunSent, HandlerSent, HandlerWaits, HasAsked, EventIsToken, ReadingIsToken, ForkIsToken, TypeOK, Command, Event, Handler, Names, Setup, Emitted
<1>11. HandlerWaits'
  BY <1>01, <1>02 DEF Announce, cliVars, HandlerWaits, CommandsMatch, IsRun, OfHandler, Ending, HasAsked, EventIsToken, ReadingIsToken, ForkIsToken, RunIsToken, LostIsEmpty, TypeOK, Command, Event, Handler, Names, Setup, Emitted
<1>12. LostIsEmpty'
  BY <1>01, <1>02 DEF Announce, cliVars, LostIsEmpty, TypeOK, Command, Event, Handler, Names, Setup, Emitted
<1>13. EventsHaveScripts'
  BY <1>01, <1>02 DEF Announce, cliVars, TypeOK, Command, Event, Handler, Names, Setup, Emitted
<1>14. ListedAreAnnounced'
  BY <1>01, <1>02 DEF Announce, cliVars, ListedAreAnnounced, Known, EventsHaveScripts, Parses, TypeOK, Command, Event, Handler, Names, Setup, Emitted
<1>15. AnnouncedAreListed'
  BY <1>01, <1>02 DEF Announce, cliVars, AnnouncedAreListed, Known, Parses, TypeOK, Command, Event, Handler, Names, Setup, Emitted
<1>16. LastIsLast'
  BY <1>01, <1>02 DEF Announce, cliVars, LastIsLast, HandlerWaits, Ending, Max1, TypeOK, Command, Event, Handler, Names, Setup, Emitted
<1>17. HasToken'
  BY <1>01, <1>02 DEF Announce, cliVars, HasToken, NotYet, Running, EventIsToken, ReadingIsToken, Ending, HandlerWaits, TypeOK, Command, Event, Handler, Names, Setup, Emitted
<1> QED BY <1>1, <1>2, <1>3, <1>4, <1>5, <1>6, <1>7, <1>8, <1>9, <1>10, <1>11, <1>12, <1>13, <1>14, <1>15, <1>16, <1>17

LEMMA StopKeepsInv ==
    ASSUME Inv, NEW s \in Scripts \cup {NoFrame}, Stop(s)
    PROVE  Inv'
<1> USE ScriptsAreThemselves, MaxStepsIsAnInteger DEF Inv, Fibers, Runs
<1>01. Emitted("paused", s) /\ ~PauseQueued /\ ~RunSent /\ forks = 0 /\ handler.at # "reading"
  BY EmitsAppends DEF Stop, Event, EventIsToken, RunIsToken, ForkIsToken, ReadingIsToken, TypeOK
<1>02. /\ wire' = wire
       /\ RunSent' <=> RunSent
       /\ HandlerSent' <=> HandlerSent
       /\ OneRun' <=> OneRun
       /\ OneOfHandler' <=> OneOfHandler
  BY SameWire DEF Stop, cliVars
<1>1. TypeOK'
  BY <1>01, <1>02 DEF Stop, cliVars, TypeOK, Command, Event, Handler, Names, Setup, Emitted
<1>2. NotYet'
  BY <1>01, <1>02 DEF Stop, cliVars, NotYet, Running, At, Waiting, After, TypeOK, Command, Event, Handler, Names, Setup, Emitted
<1>3. PauseIsLast'
  BY <1>01, <1>02 DEF Stop, cliVars, RunIsToken, EventIsToken, TypeOK, Command, Event, Handler, Names, Setup, Emitted
<1>4. EventIsToken'
  BY <1>01, <1>02 DEF Stop, cliVars, EventIsToken, Ending, HandlerWaits, HasAsked, RunIsToken, TypeOK, Command, Event, Handler, Names, Setup, Emitted
<1>5. ReadingIsToken'
  BY <1>01, <1>02 DEF Stop, cliVars, ReadingIsToken, EventIsToken, Ending, TypeOK, Command, Event, Handler, Names, Setup, Emitted
<1>6. ForkIsToken'
  BY <1>01, <1>02 DEF Stop, cliVars, ForkIsToken, EventIsToken, ReadingIsToken, Ending, TypeOK, Command, Event, Handler, Names, Setup, Emitted
<1>7. RunIsToken'
  BY <1>01, <1>02 DEF Stop, cliVars, RunIsToken, EventIsToken, ForkIsToken, ReadingIsToken, TypeOK, Command, Event, Handler, Names, Setup, Emitted
<1>8. OneRun'
  BY <1>01, <1>02 DEF Stop, cliVars, EventIsToken, ForkIsToken, ReadingIsToken, TypeOK, Command, Event, Handler, Names, Setup, Emitted
<1>9. OneOfHandler'
  BY <1>01, <1>02 DEF Stop, cliVars, HandlerWaits, HasAsked, TypeOK, Command, Event, Handler, Names, Setup, Emitted
<1>10. CommandsMatch'
  BY <1>01, <1>02 DEF Stop, cliVars, CommandsMatch, IsRun, OfHandler, Ending, RunSent, HandlerSent, HandlerWaits, HasAsked, EventIsToken, ReadingIsToken, ForkIsToken, TypeOK, Command, Event, Handler, Names, Setup, Emitted
<1>11. HandlerWaits'
  BY <1>01, <1>02 DEF Stop, cliVars, HandlerWaits, CommandsMatch, IsRun, OfHandler, Ending, HasAsked, EventIsToken, ReadingIsToken, ForkIsToken, RunIsToken, LostIsEmpty, TypeOK, Command, Event, Handler, Names, Setup, Emitted
<1>12. LostIsEmpty'
  BY <1>01, <1>02 DEF Stop, cliVars, LostIsEmpty, TypeOK, Command, Event, Handler, Names, Setup, Emitted
<1>13. EventsHaveScripts'
  BY <1>01, <1>02 DEF Stop, cliVars, TypeOK, Command, Event, Handler, Names, Setup, Emitted
<1>14. ListedAreAnnounced'
  BY <1>01, <1>02 DEF Stop, cliVars, ListedAreAnnounced, Known, EventsHaveScripts, Parses, TypeOK, Command, Event, Handler, Names, Setup, Emitted
<1>15. AnnouncedAreListed'
  BY <1>01, <1>02 DEF Stop, cliVars, AnnouncedAreListed, Known, Parses, TypeOK, Command, Event, Handler, Names, Setup, Emitted
<1>16. LastIsLast'
  BY <1>01, <1>02 DEF Stop, cliVars, LastIsLast, HandlerWaits, Ending, Max1, TypeOK, Command, Event, Handler, Names, Setup, Emitted
<1>17. HasToken'
  BY <1>01, <1>02 DEF Stop, cliVars, HasToken, NotYet, Running, EventIsToken, ReadingIsToken, Ending, HandlerWaits, TypeOK, Command, Event, Handler, Names, Setup, Emitted
<1> QED BY <1>1, <1>2, <1>3, <1>4, <1>5, <1>6, <1>7, <1>8, <1>9, <1>10, <1>11, <1>12, <1>13, <1>14, <1>15, <1>16, <1>17

LEMMA FinishKeepsInv ==
    ASSUME Inv, Finish
    PROVE  Inv'
<1> USE ScriptsAreThemselves, MaxStepsIsAnInteger DEF Inv, Fibers, Runs
<1>01. /\ wire' = wire
       /\ RunSent' <=> RunSent
       /\ HandlerSent' <=> HandlerSent
       /\ OneRun' <=> OneRun
       /\ OneOfHandler' <=> OneOfHandler
  BY SameWire DEF Finish, cliVars
<1>02. /\ events' = events /\ (PauseQueued' <=> PauseQueued)
       /\ \A s : Parsed(s)' <=> Parsed(s)
       /\ EventsHaveScripts' /\ PauseIsLast'
  BY SameEvents DEF Finish, cliVars
<1>1. TypeOK'
  BY <1>01, <1>02 DEF Finish, cliVars, TypeOK, Command, Event, Handler, Names, Setup
<1>2. NotYet'
  BY <1>01, <1>02 DEF Finish, cliVars, NotYet, Running, At, Waiting, After, TypeOK, Command, Event, Handler, Names, Setup
<1>3. PauseIsLast'
  BY <1>01, <1>02 DEF Finish, cliVars, RunIsToken, EventIsToken, TypeOK, Command, Event, Handler, Names, Setup
<1>4. EventIsToken'
  BY <1>01, <1>02 DEF Finish, cliVars, EventIsToken, Ending, HandlerWaits, HasAsked, RunIsToken, TypeOK, Command, Event, Handler, Names, Setup
<1>5. ReadingIsToken'
  BY <1>01, <1>02 DEF Finish, cliVars, ReadingIsToken, EventIsToken, Ending, TypeOK, Command, Event, Handler, Names, Setup
<1>6. ForkIsToken'
  BY <1>01, <1>02 DEF Finish, cliVars, ForkIsToken, EventIsToken, ReadingIsToken, Ending, TypeOK, Command, Event, Handler, Names, Setup
<1>7. RunIsToken'
  BY <1>01, <1>02 DEF Finish, cliVars, RunIsToken, EventIsToken, ForkIsToken, ReadingIsToken, TypeOK, Command, Event, Handler, Names, Setup
<1>8. OneRun'
  BY <1>01, <1>02 DEF Finish, cliVars, EventIsToken, ForkIsToken, ReadingIsToken, TypeOK, Command, Event, Handler, Names, Setup
<1>9. OneOfHandler'
  BY <1>01, <1>02 DEF Finish, cliVars, HandlerWaits, HasAsked, TypeOK, Command, Event, Handler, Names, Setup
<1>10. CommandsMatch'
  BY <1>01, <1>02 DEF Finish, cliVars, CommandsMatch, IsRun, OfHandler, Ending, RunSent, HandlerSent, HandlerWaits, HasAsked, EventIsToken, ReadingIsToken, ForkIsToken, TypeOK, Command, Event, Handler, Names, Setup
<1>11. HandlerWaits'
  BY <1>01, <1>02 DEF Finish, cliVars, HandlerWaits, CommandsMatch, IsRun, OfHandler, Ending, HasAsked, EventIsToken, ReadingIsToken, ForkIsToken, RunIsToken, LostIsEmpty, TypeOK, Command, Event, Handler, Names, Setup
<1>12. LostIsEmpty'
  BY <1>01, <1>02 DEF Finish, cliVars, LostIsEmpty, TypeOK, Command, Event, Handler, Names, Setup
<1>13. EventsHaveScripts'
  BY <1>01, <1>02 DEF Finish, cliVars, TypeOK, Command, Event, Handler, Names, Setup
<1>14. ListedAreAnnounced'
  BY <1>01, <1>02 DEF Finish, cliVars, ListedAreAnnounced, Known, EventsHaveScripts, Parses, TypeOK, Command, Event, Handler, Names, Setup
<1>15. AnnouncedAreListed'
  BY <1>01, <1>02 DEF Finish, cliVars, AnnouncedAreListed, Known, Parses, TypeOK, Command, Event, Handler, Names, Setup
<1>16. LastIsLast'
  BY <1>01, <1>02 DEF Finish, cliVars, LastIsLast, HandlerWaits, Ending, Max1, TypeOK, Command, Event, Handler, Names, Setup
<1>17. HasToken'
  BY <1>01, <1>02 DEF Finish, cliVars, HasToken, NotYet, Running, EventIsToken, ReadingIsToken, Ending, HandlerWaits, TypeOK, Command, Event, Handler, Names, Setup
<1> QED BY <1>1, <1>2, <1>3, <1>4, <1>5, <1>6, <1>7, <1>8, <1>9, <1>10, <1>11, <1>12, <1>13, <1>14, <1>15, <1>16, <1>17

LEMMA LoseConnectionKeepsInv ==
    ASSUME Inv, LoseConnection
    PROVE  Inv'
<1> USE ScriptsAreThemselves, MaxStepsIsAnInteger DEF Inv, Fibers, Runs
<1>01. ~RunSent' /\ ~HandlerSent' /\ ~PauseQueued' /\ \A s : ~Parsed(s)'
  BY DEF LoseConnection, RunSent, HandlerSent, PauseQueued, Parsed
<1>02. OneRun' /\ OneOfHandler' /\ PauseIsLast' /\ EventsHaveScripts'
  BY DEF LoseConnection, OneRun, OneOfHandler, PauseIsLast, EventsHaveScripts
<1>1. TypeOK'
  BY <1>01, <1>02 DEF LoseConnection, Asking, Idle, Over, debuggeeVars, TypeOK, Command, Event, Handler, Names, Setup
<1>2. NotYet'
  BY <1>01, <1>02 DEF LoseConnection, Asking, Idle, Over, debuggeeVars, NotYet, Running, At, Waiting, After, TypeOK, Command, Event, Handler, Names, Setup
<1>3. PauseIsLast'
  BY <1>01, <1>02 DEF LoseConnection, Asking, Idle, Over, debuggeeVars, RunIsToken, EventIsToken, TypeOK, Command, Event, Handler, Names, Setup
<1>4. EventIsToken'
  BY <1>01, <1>02 DEF LoseConnection, Asking, Idle, Over, debuggeeVars, EventIsToken, Ending, HandlerWaits, HasAsked, RunIsToken, TypeOK, Command, Event, Handler, Names, Setup
<1>5. ReadingIsToken'
  BY <1>01, <1>02 DEF LoseConnection, Asking, Idle, Over, debuggeeVars, ReadingIsToken, EventIsToken, Ending, TypeOK, Command, Event, Handler, Names, Setup
<1>6. ForkIsToken'
  BY <1>01, <1>02 DEF LoseConnection, Asking, Idle, Over, debuggeeVars, ForkIsToken, EventIsToken, ReadingIsToken, Ending, TypeOK, Command, Event, Handler, Names, Setup
<1>7. RunIsToken'
  BY <1>01, <1>02 DEF LoseConnection, Asking, Idle, Over, debuggeeVars, RunIsToken, EventIsToken, ForkIsToken, ReadingIsToken, TypeOK, Command, Event, Handler, Names, Setup
<1>8. OneRun'
  BY <1>01, <1>02 DEF LoseConnection, Asking, Idle, Over, debuggeeVars, EventIsToken, ForkIsToken, ReadingIsToken, TypeOK, Command, Event, Handler, Names, Setup
<1>9. OneOfHandler'
  BY <1>01, <1>02 DEF LoseConnection, Asking, Idle, Over, debuggeeVars, HandlerWaits, HasAsked, TypeOK, Command, Event, Handler, Names, Setup
<1>10. CommandsMatch'
  BY <1>01, <1>02 DEF LoseConnection, Asking, Idle, Over, debuggeeVars, CommandsMatch, IsRun, OfHandler, Ending, RunSent, HandlerSent, HandlerWaits, HasAsked, EventIsToken, ReadingIsToken, ForkIsToken, TypeOK, Command, Event, Handler, Names, Setup
<1>11. HandlerWaits'
  BY <1>01, <1>02 DEF LoseConnection, Asking, Idle, Over, debuggeeVars, HandlerWaits, CommandsMatch, IsRun, OfHandler, Ending, HasAsked, EventIsToken, ReadingIsToken, ForkIsToken, RunIsToken, LostIsEmpty, TypeOK, Command, Event, Handler, Names, Setup
<1>12. LostIsEmpty'
  BY <1>01, <1>02 DEF LoseConnection, Asking, Idle, Over, debuggeeVars, LostIsEmpty, TypeOK, Command, Event, Handler, Names, Setup
<1>13. EventsHaveScripts'
  BY <1>01, <1>02 DEF LoseConnection, Asking, Idle, Over, debuggeeVars, TypeOK, Command, Event, Handler, Names, Setup
<1>14. ListedAreAnnounced'
  BY <1>01, <1>02 DEF LoseConnection, Asking, Idle, Over, debuggeeVars, ListedAreAnnounced, Known, EventsHaveScripts, Parses, TypeOK, Command, Event, Handler, Names, Setup
<1>15. AnnouncedAreListed'
  BY <1>01, <1>02 DEF LoseConnection, Asking, Idle, Over, debuggeeVars, AnnouncedAreListed, Known, Parses, TypeOK, Command, Event, Handler, Names, Setup
<1>16. LastIsLast'
  BY <1>01, <1>02 DEF LoseConnection, Asking, Idle, Over, debuggeeVars, LastIsLast, HandlerWaits, Ending, Max1, TypeOK, Command, Event, Handler, Names, Setup
<1>17. HasToken'
  BY <1>01, <1>02 DEF LoseConnection, Asking, Idle, Over, debuggeeVars, HasToken, NotYet, Running, EventIsToken, ReadingIsToken, Ending, HandlerWaits, TypeOK, Command, Event, Handler, Names, Setup
<1> QED BY <1>1, <1>2, <1>3, <1>4, <1>5, <1>6, <1>7, <1>8, <1>9, <1>10, <1>11, <1>12, <1>13, <1>14, <1>15, <1>16, <1>17

LEMMA HandlePauseKeepsInv ==
    ASSUME Inv, HandlePause
    PROVE  Inv'
<1> USE ScriptsAreThemselves, MaxStepsIsAnInteger DEF Inv, Fibers, Runs
<1>01. /\ Taken /\ IsPause(1) /\ PauseQueued /\ ~PauseQueued'
       /\ events[1].script = place /\ \A s : ~Parses(1, s)
  BY TakesTakes DEF HandlePause, IsPause, Parses, PauseQueued, Taken
<1>02. /\ dbg = "paused" /\ forks = 0 /\ ~RunSent /\ ~HandlerSent /\ reply["handler"] = "none"
       /\ handler = Idle /\ link = "up" /\ ~Ending
  BY <1>01 DEF EventIsToken, HandlerWaits, HasAsked, Ending, Taken, Idle
<1>03. Ran \/ Reads \/ Forked
  BY <1>01, <1>02, WriteAppends DEF HandlePause, Taken, Answers, WithSource, Show, Asks, Rests, Command, Ran, Reads, Forked, Known
<1>04. wire' = wire =>
       /\ RunSent' <=> RunSent
       /\ HandlerSent' <=> HandlerSent
       /\ OneRun' <=> OneRun
       /\ OneOfHandler' <=> OneOfHandler
  BY SameWire
<1>1. TypeOK'
  <2>1. handler' \in Handler
    BY <1>01, <1>02, <1>03, <1>04 DEF Ran, Reads, Forked, Idle, Known, Handler
  <2>2. stepCount' \in Nat /\ forks' \in Nat /\ dropped' \subseteq Nat
    BY <1>01, <1>02, <1>03, <1>04 DEF Ran, Reads, Forked, TypeOK
  <2>3. wire' \in Seq(Command) /\ events' \in Seq(Event)
    BY <1>01, <1>02, <1>03, <1>04 DEF Ran, Reads, Forked, Written, Taken, TypeOK
  <2>4. scripts' \in [Scripts -> {"unlisted", "listed", "read"}] /\ reply' \in [Fibers -> {"none", "ok", "failed"}]
    BY DEF HandlePause, debuggeeVars, TypeOK
  <2> QED BY <2>1, <2>2, <2>3, <2>4 DEF HandlePause, debuggeeVars, TypeOK
<1>2. NotYet'
  BY <1>01, <1>02, <1>03, <1>04 DEF HandlePause, debuggeeVars, NotYet, Running, At, Waiting, After, TypeOK, Command, Event, Handler, Names, Setup, Taken, IsPause, Ran, Reads, Forked, Idle, Written
<1>3. PauseIsLast'
  BY <1>01, <1>02, <1>03, <1>04 DEF HandlePause, debuggeeVars, RunIsToken, EventIsToken, TypeOK, Command, Event, Handler, Names, Setup, Taken, IsPause, Ran, Reads, Forked, Idle, Written
<1>4. EventIsToken'
  BY <1>01, <1>02, <1>03, <1>04 DEF HandlePause, debuggeeVars, EventIsToken, Ending, HandlerWaits, HasAsked, RunIsToken, TypeOK, Command, Event, Handler, Names, Setup, Taken, IsPause, Ran, Reads, Forked, Idle, Written
<1>5. ReadingIsToken'
  BY <1>01, <1>02, <1>03, <1>04 DEF HandlePause, debuggeeVars, ReadingIsToken, EventIsToken, Ending, TypeOK, Command, Event, Handler, Names, Setup, Taken, IsPause, Ran, Reads, Forked, Idle, Written
<1>6. ForkIsToken'
  BY <1>01, <1>02, <1>03, <1>04 DEF HandlePause, debuggeeVars, ForkIsToken, EventIsToken, ReadingIsToken, Ending, TypeOK, Command, Event, Handler, Names, Setup, Taken, IsPause, Ran, Reads, Forked, Idle, Written
<1>7. RunIsToken'
  BY <1>01, <1>02, <1>03, <1>04 DEF HandlePause, debuggeeVars, RunIsToken, EventIsToken, ForkIsToken, ReadingIsToken, TypeOK, Command, Event, Handler, Names, Setup, Taken, IsPause, Ran, Reads, Forked, Idle, Written
<1>8. OneRun'
  BY <1>01, <1>02, <1>03, <1>04 DEF HandlePause, debuggeeVars, EventIsToken, ForkIsToken, ReadingIsToken, TypeOK, Command, Event, Handler, Names, Setup, Taken, IsPause, Ran, Reads, Forked, Idle, Written
<1>9. OneOfHandler'
  BY <1>01, <1>02, <1>03, <1>04 DEF HandlePause, debuggeeVars, HandlerWaits, HasAsked, TypeOK, Command, Event, Handler, Names, Setup, Taken, IsPause, Ran, Reads, Forked, Idle, Written
<1>10. CommandsMatch'
  BY <1>01, <1>02, <1>03, <1>04 DEF HandlePause, debuggeeVars, CommandsMatch, IsRun, OfHandler, Ending, RunSent, HandlerSent, HandlerWaits, HasAsked, EventIsToken, ReadingIsToken, ForkIsToken, TypeOK, Command, Event, Handler, Names, Setup, Taken, IsPause, Ran, Reads, Forked, Idle, Written
<1>11. HandlerWaits'
  BY <1>01, <1>02, <1>03, <1>04 DEF HandlePause, debuggeeVars, HandlerWaits, CommandsMatch, IsRun, OfHandler, Ending, HasAsked, EventIsToken, ReadingIsToken, ForkIsToken, RunIsToken, LostIsEmpty, TypeOK, Command, Event, Handler, Names, Setup, Taken, IsPause, Ran, Reads, Forked, Idle, Written
<1>12. LostIsEmpty'
  BY <1>01, <1>02, <1>03, <1>04 DEF HandlePause, debuggeeVars, LostIsEmpty, TypeOK, Command, Event, Handler, Names, Setup, Taken, IsPause, Ran, Reads, Forked, Idle, Written
<1>13. EventsHaveScripts'
  BY <1>01, <1>02, <1>03, <1>04 DEF HandlePause, debuggeeVars, TypeOK, Command, Event, Handler, Names, Setup, Taken, IsPause, Ran, Reads, Forked, Idle, Written
<1>14. ListedAreAnnounced'
  BY <1>01, <1>02, <1>03, <1>04 DEF HandlePause, debuggeeVars, ListedAreAnnounced, Known, EventsHaveScripts, Parses, TypeOK, Command, Event, Handler, Names, Setup, Taken, IsPause, Ran, Reads, Forked, Idle, Written
<1>15. AnnouncedAreListed'
  BY <1>01, <1>02, <1>03, <1>04 DEF HandlePause, debuggeeVars, AnnouncedAreListed, Known, Parses, TypeOK, Command, Event, Handler, Names, Setup, Taken, IsPause, Ran, Reads, Forked, Idle, Written
<1>16. LastIsLast'
  BY <1>01, <1>02, <1>03, <1>04 DEF HandlePause, debuggeeVars, LastIsLast, HandlerWaits, Ending, Max1, TypeOK, Command, Event, Handler, Names, Setup, Taken, IsPause, Ran, Reads, Forked, Idle, Written
<1>17. HasToken'
  BY <1>01, <1>02, <1>03, <1>04 DEF HandlePause, debuggeeVars, HasToken, NotYet, Running, EventIsToken, ReadingIsToken, Ending, HandlerWaits, TypeOK, Command, Event, Handler, Names, Setup, Taken, IsPause, Ran, Reads, Forked, Idle, Written
<1> QED BY <1>1, <1>2, <1>3, <1>4, <1>5, <1>6, <1>7, <1>8, <1>9, <1>10, <1>11, <1>12, <1>13, <1>14, <1>15, <1>16, <1>17

LEMMA SourceReadKeepsInv ==
    ASSUME Inv, SourceRead
    PROVE  Inv'
<1> USE ScriptsAreThemselves, MaxStepsIsAnInteger DEF Inv, Fibers, Runs
<1>01. /\ dbg = "paused" /\ handler.script = place /\ forks = 0 /\ ~RunSent /\ ~HandlerSent
       /\ ~Ending /\ ~PauseQueued /\ Running
  BY DEF SourceRead, Hears, ReadingIsToken, EventIsToken, HandlerWaits, HasAsked, Ending
<1>02. IF link = "up" THEN Ran \/ Forked ELSE Failed
  BY <1>01, WriteAppends DEF SourceRead, WithSource, Answers, Show, Asks, Rests, Command, Ran, Forked, Failed, TypeOK
<1>03. wire' = wire =>
       /\ RunSent' <=> RunSent
       /\ HandlerSent' <=> HandlerSent
       /\ OneRun' <=> OneRun
       /\ OneOfHandler' <=> OneOfHandler
  BY SameWire
<1>04. /\ events' = events /\ (PauseQueued' <=> PauseQueued)
       /\ \A s : Parsed(s)' <=> Parsed(s)
       /\ EventsHaveScripts' /\ PauseIsLast'
  BY SameEvents DEF SourceRead, Hears, KeepSource, debuggeeVars
<1>1. TypeOK'
  <2>1. handler' \in Handler
    BY <1>01, <1>02, <1>03, <1>04 DEF Ran, Forked, Failed, Idle, Over, TypeOK, Command, Event, Handler
  <2>2. stepCount' \in Nat /\ forks' \in Nat /\ dropped' \subseteq Nat
    BY <1>01, <1>02, <1>03, <1>04 DEF Ran, Forked, Failed, TypeOK
  <2>3. wire' \in Seq(Command) /\ events' \in Seq(Event)
    BY <1>01, <1>02, <1>03, <1>04 DEF Ran, Forked, Failed, Written, Taken, TypeOK
  <2>4. scripts' \in [Scripts -> {"unlisted", "listed", "read"}] /\ reply' \in [Fibers -> {"none", "ok", "failed"}]
    BY DEF SourceRead, Hears, KeepSource, debuggeeVars, TypeOK
  <2> QED BY <2>1, <2>2, <2>3, <2>4 DEF SourceRead, Hears, KeepSource, debuggeeVars, TypeOK
<1>2. NotYet'
  BY <1>01, <1>02, <1>03, <1>04 DEF SourceRead, Hears, KeepSource, debuggeeVars, NotYet, Running, At, Waiting, After, TypeOK, Command, Event, Handler, Names, Setup, Ran, Forked, Failed, Idle, Over, Written
<1>3. PauseIsLast'
  BY <1>01, <1>02, <1>03, <1>04 DEF SourceRead, Hears, KeepSource, debuggeeVars, RunIsToken, EventIsToken, TypeOK, Command, Event, Handler, Names, Setup, Ran, Forked, Failed, Idle, Over, Written
<1>4. EventIsToken'
  BY <1>01, <1>02, <1>03, <1>04 DEF SourceRead, Hears, KeepSource, debuggeeVars, EventIsToken, Ending, HandlerWaits, HasAsked, RunIsToken, TypeOK, Command, Event, Handler, Names, Setup, Ran, Forked, Failed, Idle, Over, Written
<1>5. ReadingIsToken'
  BY <1>01, <1>02, <1>03, <1>04 DEF SourceRead, Hears, KeepSource, debuggeeVars, ReadingIsToken, EventIsToken, Ending, TypeOK, Command, Event, Handler, Names, Setup, Ran, Forked, Failed, Idle, Over, Written
<1>6. ForkIsToken'
  BY <1>01, <1>02, <1>03, <1>04 DEF SourceRead, Hears, KeepSource, debuggeeVars, ForkIsToken, EventIsToken, ReadingIsToken, Ending, TypeOK, Command, Event, Handler, Names, Setup, Ran, Forked, Failed, Idle, Over, Written
<1>7. RunIsToken'
  BY <1>01, <1>02, <1>03, <1>04 DEF SourceRead, Hears, KeepSource, debuggeeVars, RunIsToken, EventIsToken, ForkIsToken, ReadingIsToken, TypeOK, Command, Event, Handler, Names, Setup, Ran, Forked, Failed, Idle, Over, Written
<1>8. OneRun'
  BY <1>01, <1>02, <1>03, <1>04 DEF SourceRead, Hears, KeepSource, debuggeeVars, EventIsToken, ForkIsToken, ReadingIsToken, TypeOK, Command, Event, Handler, Names, Setup, Ran, Forked, Failed, Idle, Over, Written
<1>9. OneOfHandler'
  BY <1>01, <1>02, <1>03, <1>04 DEF SourceRead, Hears, KeepSource, debuggeeVars, HandlerWaits, HasAsked, TypeOK, Command, Event, Handler, Names, Setup, Ran, Forked, Failed, Idle, Over, Written
<1>10. CommandsMatch'
  BY <1>01, <1>02, <1>03, <1>04 DEF SourceRead, Hears, KeepSource, debuggeeVars, CommandsMatch, IsRun, OfHandler, Ending, RunSent, HandlerSent, HandlerWaits, HasAsked, EventIsToken, ReadingIsToken, ForkIsToken, TypeOK, Command, Event, Handler, Names, Setup, Ran, Forked, Failed, Idle, Over, Written
<1>11. HandlerWaits'
  BY <1>01, <1>02, <1>03, <1>04 DEF SourceRead, Hears, KeepSource, debuggeeVars, HandlerWaits, CommandsMatch, IsRun, OfHandler, Ending, HasAsked, EventIsToken, ReadingIsToken, ForkIsToken, RunIsToken, LostIsEmpty, TypeOK, Command, Event, Handler, Names, Setup, Ran, Forked, Failed, Idle, Over, Written
<1>12. LostIsEmpty'
  BY <1>01, <1>02, <1>03, <1>04 DEF SourceRead, Hears, KeepSource, debuggeeVars, LostIsEmpty, TypeOK, Command, Event, Handler, Names, Setup, Ran, Forked, Failed, Idle, Over, Written
<1>13. EventsHaveScripts'
  BY <1>01, <1>02, <1>03, <1>04 DEF SourceRead, Hears, KeepSource, debuggeeVars, TypeOK, Command, Event, Handler, Names, Setup, Ran, Forked, Failed, Idle, Over, Written
<1>14. ListedAreAnnounced'
  BY <1>01, <1>02, <1>03, <1>04 DEF SourceRead, Hears, KeepSource, debuggeeVars, ListedAreAnnounced, Known, EventsHaveScripts, Parses, TypeOK, Command, Event, Handler, Names, Setup, Ran, Forked, Failed, Idle, Over, Written
<1>15. AnnouncedAreListed'
  BY <1>01, <1>02, <1>03, <1>04 DEF SourceRead, Hears, KeepSource, debuggeeVars, AnnouncedAreListed, Known, Parses, TypeOK, Command, Event, Handler, Names, Setup, Ran, Forked, Failed, Idle, Over, Written
<1>16. LastIsLast'
  BY <1>01, <1>02, <1>03, <1>04 DEF SourceRead, Hears, KeepSource, debuggeeVars, LastIsLast, HandlerWaits, Ending, Max1, TypeOK, Command, Event, Handler, Names, Setup, Ran, Forked, Failed, Idle, Over, Written
<1>17. HasToken'
  BY <1>01, <1>02, <1>03, <1>04 DEF SourceRead, Hears, KeepSource, debuggeeVars, HasToken, NotYet, Running, EventIsToken, ReadingIsToken, Ending, HandlerWaits, TypeOK, Command, Event, Handler, Names, Setup, Ran, Forked, Failed, Idle, Over, Written
<1> QED BY <1>1, <1>2, <1>3, <1>4, <1>5, <1>6, <1>7, <1>8, <1>9, <1>10, <1>11, <1>12, <1>13, <1>14, <1>15, <1>16, <1>17

-----------------------------------------------------------------------------
(* The invariant holds in every reachable state. *)

LEMMA InitInv == Init => Inv
<1> SUFFICES ASSUME Init PROVE Inv
  OBVIOUS
<1> USE ScriptsAreThemselves, MaxStepsIsAnInteger
<1>1. TypeOK
  <2>1. main \in [at : Names, waits : BOOLEAN] /\ handler \in Handler
    BY MainTyped DEF Init, Names, Handler, Idle
  <2>2. /\ scripts \in [Scripts -> {"unlisted", "listed", "read"}]
        /\ reply \in [Fibers -> {"none", "ok", "failed"}]
    BY DEF Init
  <2>3. events \in Seq(Event) /\ wire \in Seq(Command)
    BY DEF Init
  <2>4. /\ stepCount \in Nat /\ forks \in Nat /\ dropped \subseteq Nat /\ stops \in Nat
        /\ link \in {"up", "lost"} /\ dbg \in {"held", "running", "paused", "ended"}
        /\ place \in Scripts \cup {NoFrame} /\ announced \subseteq Scripts
        /\ enabled \in BOOLEAN
    BY DEF Init
  <2> QED BY <2>1, <2>2, <2>3, <2>4 DEF TypeOK
<1>2. ~PauseQueued /\ ~RunSent /\ ~HandlerSent /\ \A s : ~Parsed(s)
  BY DEF Init, PauseQueued, RunSent, HandlerSent, Parsed
<1>3. PauseIsLast /\ OneRun /\ OneOfHandler /\ CommandsMatch /\ EventsHaveScripts
  BY DEF Init, PauseIsLast, OneRun, OneOfHandler, CommandsMatch, EventsHaveScripts
<1>4. EventIsToken /\ ReadingIsToken /\ ForkIsToken /\ RunIsToken /\ HandlerWaits
  BY <1>2 DEF Init, EventIsToken, ReadingIsToken, ForkIsToken, RunIsToken, HandlerWaits,
     Ending, HasAsked, Idle, Fibers
<1>5. LostIsEmpty /\ ListedAreAnnounced /\ AnnouncedAreListed
  BY <1>2 DEF Init, LostIsEmpty, ListedAreAnnounced, AnnouncedAreListed, Idle
<1>6. LastIsLast /\ HasToken /\ NotYet
  BY DEF Init, LastIsLast, Max1, HasToken, NotYet
<1> QED BY <1>1, <1>3, <1>4, <1>5, <1>6 DEF Inv

LEMMA StutterKeepsInv == Inv /\ UNCHANGED vars => Inv'
<1> SUFFICES ASSUME Inv, UNCHANGED vars PROVE Inv'
  OBVIOUS
<1> USE DEF Inv, vars, cliVars, debuggeeVars
<1>1. /\ PauseQueued' <=> PauseQueued
      /\ \A s : Parsed(s)' <=> Parsed(s)
      /\ EventsHaveScripts' /\ PauseIsLast'
  BY SameEvents
<1>2. (RunSent' <=> RunSent) /\ (HandlerSent' <=> HandlerSent) /\ OneRun' /\ OneOfHandler'
  BY SameWire
<1>3. TypeOK' /\ NotYet' /\ LostIsEmpty' /\ LastIsLast'
  BY DEF TypeOK, NotYet, LostIsEmpty, LastIsLast
<1>4. EventIsToken' /\ ReadingIsToken' /\ ForkIsToken' /\ RunIsToken'
  BY <1>1, <1>2 DEF EventIsToken, ReadingIsToken, ForkIsToken, RunIsToken, Ending
<1>5. CommandsMatch'
  BY DEF CommandsMatch, IsRun, OfHandler, Ending
<1>6. HandlerWaits'
  BY <1>2 DEF HandlerWaits, Ending, HasAsked
<1>7. ListedAreAnnounced' /\ AnnouncedAreListed'
  BY <1>1 DEF ListedAreAnnounced, AnnouncedAreListed, Known
<1>8. HasToken'
  BY <1>1, <1>2 DEF HasToken, Running
<1> QED BY <1>1, <1>2, <1>3, <1>4, <1>5, <1>6, <1>7, <1>8

LEMMA NextKeepsInv == Inv /\ [Next]_vars => Inv'
<1> SUFFICES ASSUME Inv, [Next]_vars PROVE Inv'
  OBVIOUS
<1>1. CASE Main
  BY <1>1, DiscoverKeepsInv, MainSendsKeepsInv, MainGoesOnKeepsInv DEF Main
<1>2. CASE Handles
  BY <1>2, IgnoreKeepsInv, HandleScriptKeepsInv, HandlePauseKeepsInv, ListedKeepsInv,
     SourceReadKeepsInv, AnsweredKeepsInv, LeaveKeepsInv, PrintErrorKeepsInv DEF Handles
<1>3. CASE ForkSends
  BY <1>3, ForkSendsKeepsInv
<1>4. CASE Debuggee
  BY <1>4, ServeEnableKeepsInv, ServeRunIfWaitingKeepsInv, ServePauseKeepsInv,
     ServeGetSourceKeepsInv, ServeRunKeepsInv DEF Debuggee
<1>5. CASE Program
  BY <1>5, AnnounceKeepsInv, StopKeepsInv, FinishKeepsInv DEF Program
<1>6. CASE LoseConnection
  BY <1>6, LoseConnectionKeepsInv
<1>7. CASE UNCHANGED vars
  BY <1>7, StutterKeepsInv
<1> QED BY <1>1, <1>2, <1>3, <1>4, <1>5, <1>6, <1>7 DEF Next

(* What the command, its handlers and the debuggee have in common holds     *)
(* from connecting on, for every script and every bound on the steps.      *)
THEOREM InvHolds == Spec => []Inv
BY InitInv, NextKeepsInv, PTL DEF Spec

-----------------------------------------------------------------------------
(* What the invariant says of the properties. *)

(* A StepOver or a Resume on the wire is the answer to the stop the        *)
(* debuggee is at, for any scripts and any option.                         *)
THEOREM RunsAlwaysFindAPause == Spec => []RunsFindAPause
<1>1. Inv => RunsFindAPause
  BY DEF Inv, RunIsToken, RunSent, IsRun, RunsFindAPause
<1> QED BY <1>1, InvHolds, PTL

(* While the connection stands, a stop nobody remembers is one whose event *)
(* ended in a printed error.                                               *)
THEOREM StopsAreRemembered == Spec => []StopIsRemembered
<1>1. Inv => StopIsRemembered
  BY DEF Inv, HasToken, StopIsRemembered, PauseQueued, IsPause, RunSent, IsRun
<1> QED BY <1>1, InvHolds, PTL

(* Whatever sources are refused, the handler knows every script it stops   *)
(* in: its own check for an unknown script is never needed.                *)
THEOREM StopsAreListed == Spec => []StopsAreInListedScripts
<1>1. Inv => StopsAreInListedScripts
  <2> SUFFICES ASSUME Inv, NEW i \in 1..Len(events), events[i].kind = "paused",
                      events[i].script \in Scripts, ~Known(events[i].script)
               PROVE  \E j \in 1..(i - 1) : Parses(j, events[i].script)
    BY DEF StopsAreInListedScripts, Parses
  <2>1. i = Len(events) /\ events[i].script = place /\ dbg = "paused" /\ link = "up"
    <3>1. i = Len(events) /\ events[i].script = place /\ PauseQueued
      BY DEF Inv, PauseIsLast, IsPause, PauseQueued
    <3>2. dbg = "paused"
      BY <3>1 DEF Inv, EventIsToken
    <3>3. link = "up"
      BY DEF Inv, LostIsEmpty, TypeOK
    <3> QED BY <3>1, <3>2, <3>3
  <2>2. place \in announced
    BY <2>1, ScriptsAreThemselves DEF Inv, ListedAreAnnounced
  <2>3. PICK j \in 1..Len(events) : Parses(j, place)
    BY <2>1, <2>2 DEF Inv, AnnouncedAreListed, Parsed
  <2>4. j # i
    BY <2>3 DEF Parses
  <2>5. Len(events) \in Nat
    BY DEF Inv, TypeOK
  <2>6. j \in 1..(i - 1)
    BY <2>1, <2>4, <2>5
  <2> QED BY <2>1, <2>3, <2>6
<1> QED BY <1>1, InvHolds, PTL

(* Never a line more than asked for, however the answers and the events    *)
(* interleave.                                                             *)
THEOREM StepsStayBounded == Spec => []StepsAreBounded
<1>1. Inv => StepsAreBounded
  BY DEF Inv, LastIsLast, StepsAreBounded
<1> QED BY <1>1, InvHolds, PTL

(* A line is counted while the program stands at the place it shows.       *)
THEOREM LinesShowWhereItStands == Spec => ShownWhereItStands
<1> DEFINE Good == \/ link = "lost"
                   \/ dbg = "paused" /\ place \in announced \ (Internal \cup Sourceless)
<1>1. ASSUME Inv, Next, stepCount' # stepCount
      PROVE  Good
  <2>1. HandlePause \/ SourceRead
    BY <1>1 DEF Next, Main, Discover, MainSends, MainGoesOn, Handles, Ignore, HandleScript,
       Listed, Answered, Leave, PrintError, ForkSends, Debuggee, ServeEnable,
       ServeRunIfWaiting, ServePause, ServeGetSource, ServeRun, Program, Announce, Stop,
       Finish, LoseConnection, cliVars
  <2>2. CASE HandlePause
    <3>1. Taken /\ IsPause(1) /\ Head(events) = events[1]
      BY <1>1, <2>2, TakesTakes DEF Inv, HandlePause, IsPause, Taken
    <3>2. events[1].script = place /\ dbg = "paused"
      BY <1>1, <3>1 DEF Inv, Taken, PauseQueued, EventIsToken
    <3>3. Known(place) /\ place \notin Internal /\ place \notin Sourceless
      BY <1>1, <2>2, <3>1, <3>2 DEF HandlePause, Answers, WithSource
    <3> QED BY <1>1, <3>2, <3>3, ScriptsAreThemselves DEF Inv, ListedAreAnnounced, Known
  <2>3. CASE SourceRead
    <3>1. /\ handler.script = place /\ place \notin Internal /\ dbg = "paused"
          /\ Known(place)
      BY <1>1, <2>3 DEF Inv, SourceRead, Hears, ReadingIsToken, ListedAreAnnounced
    <3>2. place \notin Sourceless
      BY <1>1, <2>3, <3>1 DEF SourceRead, WithSource, Answers
    <3> QED BY <1>1, <3>1, <3>2 DEF Inv, ListedAreAnnounced, Known
  <2> QED BY <2>1, <2>2, <2>3
<1>2. Inv /\ [Next]_vars => [stepCount' # stepCount => Good]_vars
  BY <1>1
<1> QED BY InvHolds, <1>2, PTL DEF Spec, ShownWhereItStands
=============================================================================
