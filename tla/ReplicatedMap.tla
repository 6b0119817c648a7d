---------------------------- MODULE ReplicatedMap ----------------------------
(***************************************************************************)
(* What replication promises, without saying how: each site has a stamp,   *)
(* a version and a value, for every cell; a site writes a cell by giving   *)
(* it a greater version; otherwise a cell only ever changes to a greater   *)
(* stamp that another site has given it.  Nothing is invented, and nothing *)
(* a site knows is taken back.                                             *)
(***************************************************************************)
EXTENDS Naturals

CONSTANTS Sites, Cells, Values

VARIABLE stamp   \* stamp[s][c]: the version and the value of c at s
VARIABLE given   \* the stamps writers have given: cell, version and value

Stamps == [ver : Nat, val : Values \cup {0}]
Unwritten == [ver |-> 0, val |-> 0]

Less(a, b) == a.ver < b.ver \/ (a.ver = b.ver /\ a.val < b.val)

Init ==
    /\ stamp = [s \in Sites |-> [c \in Cells |-> Unwritten]]
    /\ given = {}

Write(s, c, v) ==
    LET new == [ver |-> stamp[s][c].ver + 1, val |-> v] IN
    /\ stamp' = [stamp EXCEPT ![s][c] = new]
    /\ given' = given \cup {<<c, new>>}

\* A site takes over stamps somebody gave, for cells where they are greater.
Join(s) ==
    /\ stamp' \in [Sites -> [Cells -> Stamps]]
    /\ \A t \in Sites \ {s} : stamp'[t] = stamp[t]
    /\ \A c \in Cells :
         stamp'[s][c] # stamp[s][c] =>
             Less(stamp[s][c], stamp'[s][c]) /\ <<c, stamp'[s][c]>> \in given
    /\ UNCHANGED given

Next == \E s \in Sites : Join(s) \/ \E c \in Cells, v \in Values : Write(s, c, v)

Spec == Init /\ [][Next]_<<stamp, given>>
=============================================================================
