------------------------ MODULE DomTuiBridgeProofs ------------------------
(***************************************************************************)
(* MirrorsTheDocument of DomTuiBridge, for any document, any changes in    *)
(* any batches, and the bridge's operations at any time between them.      *)
(***************************************************************************)
EXTENDS DomTuiBridge, FiniteSetTheorems, TLAPS

-----------------------------------------------------------------------------
(* Trees: what is above a node.                                            *)

LEMMA AboveIsAbove ==
    ASSUME NEW t \in Trees, NEW n \in Nodes
    PROVE  Above[t][n] = {a \in Parents :
               \A S \in SUBSET Parents : t[n] \in S \cup {None} /\ Upward(t, S) => a \in S}
BY DEF Above

(* The least set: what goes up from n and holds its parent holds all above. *)
LEMMA AboveIsLeast ==
    ASSUME NEW t \in Trees, NEW n \in Nodes, NEW S \in SUBSET Parents,
           t[n] \in S \cup {None}, Upward(t, S)
    PROVE  Above[t][n] \subseteq S
BY AboveIsAbove

LEMMA AboveGoesUp ==
    ASSUME NEW t \in Trees, NEW n \in Nodes
    PROVE  /\ Above[t][n] \subseteq Parents
           /\ t[n] \in Above[t][n] \cup {None}
           /\ Upward(t, Above[t][n])
<1>1. \A m \in Nodes : t[m] \in Parents \cup {None}
    BY DEF Trees
<1>2. ASSUME NEW m \in Above[t][n] \cap Nodes, t[m] # None
      PROVE  t[m] \in Above[t][n]
    <2>1. SUFFICES ASSUME NEW S \in SUBSET Parents, t[n] \in S \cup {None}, Upward(t, S)
                   PROVE  t[m] \in S
        BY <1>1, <1>2, AboveIsAbove
    <2>2. m \in S
        BY <2>1, AboveIsAbove
    <2> QED
        BY <2>1, <2>2, <1>2 DEF Upward
<1>3. t[n] \in Above[t][n] \cup {None}
    BY <1>1, AboveIsAbove
<1>4. Above[t][n] \subseteq Parents
    BY AboveIsAbove
<1> QED
    BY <1>2, <1>3, <1>4 DEF Upward

LEMMA AboveTheAbove ==
    ASSUME NEW t \in Trees, NEW n \in Nodes, NEW a \in Above[t][n] \cap Nodes
    PROVE  Above[t][a] \subseteq Above[t][n]
<1>1. Above[t][n] \subseteq Parents /\ Upward(t, Above[t][n])
    BY AboveGoesUp
<1>2. t[a] \in Above[t][n] \cup {None}
    BY <1>1 DEF Upward
<1> QED
    BY <1>1, <1>2, AboveIsLeast

(* Above a node there are its parent and what is above that.               *)
LEMMA ParentAndAbove ==
    ASSUME NEW t \in Trees, NEW n \in Nodes
    PROVE  /\ t[n] = None => Above[t][n] = {}
           /\ t[n] = Container => Above[t][n] = {Container}
           /\ t[n] \in Nodes => Above[t][n] = {t[n]} \cup Above[t][t[n]]
           /\ t[n] \in {None, Container} \cup Nodes
           /\ t[n] \in Nodes => t[n] \in Elements
<1>0. /\ t[n] \in Parents \cup {None} /\ Container \notin Nodes /\ None \notin Parents
      /\ Container \in Parents /\ Elements \subseteq Parents /\ Texts \cap Parents = {}
    BY DistinctNodes DEF Trees, Parents, Nodes
<1>1. CASE t[n] = None
    BY <1>0, <1>1, AboveIsLeast, DistinctNodes DEF Upward, Parents, Nodes
<1>2. CASE t[n] = Container
    <2>1. Upward(t, {Container})
        BY <1>0 DEF Upward
    <2>2. Above[t][n] \subseteq {Container}
        BY <1>0, <1>2, <2>1, AboveIsLeast
    <2> QED
        BY <1>0, <1>2, <2>2, AboveGoesUp
<1>3. CASE t[n] \in Elements
    <2> DEFINE S == {t[n]} \cup Above[t][t[n]]
    <2>1. t[n] \in Nodes
        BY <1>3 DEF Nodes
    <2>2. Above[t][t[n]] \subseteq Parents /\ Upward(t, Above[t][t[n]]) /\ t[t[n]] \in Above[t][t[n]] \cup {None}
        BY <2>1, AboveGoesUp
    <2>3. Upward(t, S)
        BY <2>2 DEF Upward
    <2>4. Above[t][n] \subseteq S
        BY <2>2, <2>3, <1>0, <1>3, AboveIsLeast
    <2>5. t[n] \in Above[t][n]
        BY <1>0, <1>3, AboveGoesUp
    <2>6. Above[t][t[n]] \subseteq Above[t][n]
        BY <2>1, <2>5, AboveTheAbove
    <2> QED
        BY <2>1, <2>4, <2>5, <2>6, <1>0, <1>3
<1> QED
    BY <1>0, <1>1, <1>2, <1>3 DEF Parents

Forest(t) == \A n \in Nodes : n \notin Above[t][n]
Below(t, n) == {k \in Nodes : k = n \/ n \in Above[t][k]}
From(t, p) == IF p = None THEN {} ELSE IF p = Container THEN {Container} ELSE {p} \cup Above[t][p]

(* Of two that are above one node, or are it, one is above the other.      *)
LEMMA OneLine ==
    ASSUME NEW t \in Trees, NEW n \in Nodes,
           NEW a \in ({n} \cup Above[t][n]) \cap Nodes, NEW b \in ({n} \cup Above[t][n]) \cap Nodes
    PROVE  a \in {b} \cup Above[t][b] \/ b \in {a} \cup Above[t][a]
<1> DEFINE Up(x) == {x} \cup Above[t][x]
           Comparable(x) == \A y \in Up(n) \cap Nodes : y \in Nodes /\ x \in Nodes => x \in Up(y) \/ y \in Up(x)
           S == {x \in Above[t][n] : Comparable(x)}
<1>1. Above[t][n] \subseteq Parents
    BY AboveGoesUp
<1>2. Upward(t, S)
    <2> SUFFICES ASSUME NEW x \in S \cap Nodes, t[x] # None
                 PROVE  t[x] \in S
        BY DEF Upward
    <2>1. t[x] \in Above[t][n]
        BY AboveGoesUp DEF Upward
    <2>2. ASSUME NEW y \in Up(n) \cap Nodes, t[x] \in Nodes
          PROVE  t[x] \in Up(y) \/ y \in Up(t[x])
        <3>1. Above[t][x] = Up(t[x])
            BY <2>2, ParentAndAbove
        <3>2. CASE y \in Up(x)
            BY <3>1, <3>2
        <3>3. CASE x \in Up(y)
            BY <3>1, <3>3, AboveTheAbove
        <3> QED
            BY <3>2, <3>3, <2>2
    <2> QED
        BY <2>1, <2>2
<1>3. t[n] \in S \cup {None}
    <2> SUFFICES ASSUME t[n] # None
                 PROVE  t[n] \in S
        OBVIOUS
    <2>1. t[n] \in Above[t][n]
        BY AboveGoesUp
    <2>2. ASSUME NEW y \in Up(n) \cap Nodes, t[n] \in Nodes
          PROVE  t[n] \in Up(y) \/ y \in Up(t[n])
        BY <2>1, <2>2, ParentAndAbove
    <2> QED
        BY <2>1, <2>2
<1>4. Above[t][n] \subseteq S
    BY <1>1, <1>2, <1>3, AboveIsLeast
<1>5. Comparable(n)
    OBVIOUS
<1>6. Comparable(a)
    BY <1>4, <1>5
<1> QED
    BY <1>6

(* What a node loses and gets with another parent, and whoever is below it. *)
LEMMA OthersStay ==
    ASSUME NEW t \in Trees, NEW u \in Trees, NEW n \in Nodes, NEW p,
           u = [t EXCEPT ![n] = p], NEW k \in Nodes \ Below(t, n)
    PROVE  Above[u][k] = Above[t][k]
<1>1. n # k /\ n \notin Above[t][k]
    BY DEF Below
<1>2. \A m \in Nodes \ {n} : u[m] = t[m]
    BY DEF Trees
<1>3. Above[t][k] \subseteq Parents /\ Above[u][k] \subseteq Parents
    BY AboveGoesUp
<1>4. Above[u][k] \subseteq Above[t][k]
    <2>1. Upward(u, Above[t][k]) /\ u[k] \in Above[t][k] \cup {None}
        BY <1>1, <1>2, AboveGoesUp DEF Upward
    <2> QED
        BY <1>3, <2>1, AboveIsLeast
<1>5. Above[t][k] \subseteq Above[u][k]
    <2>1. Upward(t, Above[u][k]) /\ t[k] \in Above[u][k] \cup {None}
        BY <1>1, <1>2, <1>4, AboveGoesUp DEF Upward
    <2> QED
        BY <1>3, <2>1, AboveIsLeast
<1> QED
    BY <1>4, <1>5

Moves(t, u, n, p) ==
    /\ u \in Trees /\ Forest(u)
    /\ Below(u, n) = Below(t, n)
    /\ \A k \in Nodes \ Below(t, n) : Above[u][k] = Above[t][k]
    /\ \A k \in Below(t, n) : Above[u][k] = (Above[t][k] \cap Below(t, n)) \cup From(t, p)

LEMMA SubtreeMoves ==
    ASSUME NEW t \in Trees, Forest(t), NEW n \in Nodes, NEW p \in Parents \cup {None},
           p \notin Below(t, n), NEW u, u = [t EXCEPT ![n] = p]
    PROVE  Moves(t, u, n, p)
<1>1. u \in Trees
    BY DEF Trees
<1>2. \A m \in Nodes \ {n} : u[m] = t[m]
    BY DEF Trees
<1>3. \A k \in Nodes \ Below(t, n) : Above[u][k] = Above[t][k]
    BY <1>1, OthersStay
<1>4. u[n] = p /\ p \in {None, Container} \cup Nodes
    BY DEF Trees, Parents, Nodes
<1>5. Above[u][n] = From(t, p)
    <2>1. p \in Nodes => Above[u][p] = Above[t][p]
        BY <1>3
    <2>2. Container \notin Nodes /\ None \notin Nodes /\ None # Container
        BY DistinctNodes DEF Nodes
    <2>3. /\ u[n] = None => Above[u][n] = {}
          /\ u[n] = Container => Above[u][n] = {Container}
          /\ u[n] \in Nodes => Above[u][n] = {u[n]} \cup Above[u][u[n]]
        BY <1>1, ParentAndAbove
    <2> QED
        BY <1>4, <2>1, <2>2, <2>3 DEF From
<1>6. From(t, p) \subseteq Parents /\ From(t, p) \cap Below(t, n) = {} /\ Upward(u, From(t, p))
    <2>1. From(t, p) \cap Below(t, n) = {}
        <3>1. Container \notin Below(t, n)
            BY DistinctNodes DEF Below, Nodes
        <3>2. CASE p \in Nodes
            <4>1. n \notin Above[t][p]
                BY <3>2 DEF Below
            <4>2. ASSUME NEW x \in Above[t][p], x \in Below(t, n)
                  PROVE  FALSE
                BY <3>2, <4>1, <4>2, AboveTheAbove DEF Below
            <4> QED
                BY <3>1, <4>2 DEF From
        <3> QED
            BY <1>4, <3>1, <3>2 DEF From
    <2> QED
        BY <1>1, <1>5, <2>1, AboveGoesUp
<1>7. ASSUME NEW k \in Below(t, n)
      PROVE  Above[u][k] = (Above[t][k] \cap Below(t, n)) \cup From(t, p)
    <2>1. CASE k = n
        <3>1. \A x \in Above[t][n] \cap Nodes : n \notin Above[t][x] /\ x # n
            BY AboveTheAbove DEF Forest
        <3> QED
            BY <3>1, <2>1, <1>5 DEF Below
    <2>2. CASE k # n
        <3> DEFINE S == (Above[t][k] \cap Below(t, n)) \cup From(t, p)
                   T == Above[u][k] \cup (Parents \ Below(t, n))
        <3>1. k \in Nodes /\ n \in Above[t][k] /\ u[k] = t[k]
            BY <1>2, <2>2 DEF Below
        <3>2. Above[t][k] \subseteq Parents /\ Upward(t, Above[t][k]) /\ t[k] \in Above[t][k] \cup {None}
              /\ Above[u][k] \subseteq Parents /\ Upward(u, Above[u][k]) /\ u[k] \in Above[u][k] \cup {None}
            BY <1>1, <3>1, AboveGoesUp
        <3>3. ASSUME NEW m \in Below(t, n), m # n
              PROVE  t[m] \in Below(t, n)
            BY <3>3, ParentAndAbove DEF Below
        <3>4. S \subseteq Parents /\ u[k] \in S \cup {None}
            BY <1>6, <3>1, <3>2, <3>3, <2>2
        <3>5. Upward(u, S)
            <4> SUFFICES ASSUME NEW m \in S \cap Nodes
                         PROVE  u[m] \in S \cup {None}
                BY DEF Upward
            <4>1. CASE m = n
                BY <4>1, <1>4, DistinctNodes DEF From, Nodes
            <4>2. CASE m # n /\ m \in Above[t][k] \cap Below(t, n)
                BY <4>2, <1>2, <3>2, <3>3 DEF Upward
            <4>3. CASE m \in From(t, p)
                BY <4>3, <1>6 DEF Upward
            <4> QED
                BY <4>1, <4>2, <4>3
        <3>6. Above[u][k] \subseteq S
            <4> HIDE DEF S
            <4> QED
                BY <1>1, <3>1, <3>4, <3>5, AboveIsLeast
        <3>7. T \subseteq Parents /\ t[k] \in T \cup {None}
            BY <3>1, <3>2
        <3>8. Upward(t, T)
            <4> SUFFICES ASSUME NEW m \in T \cap Nodes
                         PROVE  t[m] \in T \cup {None}
                BY DEF Upward
            <4>1. CASE m = n
                <5>1. t[n] \notin Below(t, n)
                    BY AboveGoesUp, DistinctNodes, ParentAndAbove DEF Forest, Below, Nodes
                <5> QED
                    BY <4>1, <5>1 DEF Trees
            <4>2. CASE m # n /\ m \in Above[u][k]
                BY <4>2, <1>2, <3>2 DEF Upward
            <4>3. CASE m \notin Below(t, n)
                <5>1. t[m] \notin Below(t, n)
                    BY <4>3, ParentAndAbove DEF Below
                <5> QED
                    BY <5>1 DEF Trees
            <4> QED
                BY <4>1, <4>2, <4>3
        <3>9. Above[t][k] \subseteq T
            BY <3>1, <3>7, <3>8, AboveIsLeast
        <3>10. n \in Above[u][k]
            BY <3>1, <3>9 DEF Below
        <3>11. From(t, p) \subseteq Above[u][k]
            BY <1>1, <1>5, <3>1, <3>10, AboveTheAbove
        <3> QED
            BY <3>6, <3>9, <3>11
    <2> QED
        BY <2>1, <2>2
<1>8. Below(u, n) = Below(t, n)
    <2>1. ASSUME NEW k \in Nodes, k # n, n \in Above[t][k]
          PROVE  n \in Above[u][k]
        BY <1>7, <2>1 DEF Below
    <2> QED
        BY <2>1, <1>3 DEF Below
<1>9. Forest(u)
    BY <1>3, <1>6, <1>7 DEF Forest, Below
<1> QED
    BY <1>1, <1>3, <1>7, <1>8, <1>9 DEF Moves

-----------------------------------------------------------------------------
(* The document and the records of its changes.                            *)

Line(k)   == {k} \cup Ancestors(k)
Way(m, k) == {x \in Line(k) \cap Nodes : m \in Line(x)}
Kinds     == {"removed", "added", "data"}
Records   == [kind : Kinds, node : Nodes]

Tells(i, kind, ns) == queue[i].kind = kind /\ queue[i].node \in ns
Unseen(ns)         == ns \cap Mapped = {}

LEMMA Documents ==
    ASSUME parent \in Trees, IsForest
    PROVE  /\ Forest(parent) /\ Container \notin Nodes /\ None \notin Parents
           /\ \A k \in Nodes :
                 /\ Ancestors(k) = Above[parent][k]
                 /\ Ancestors(k) \subseteq Parents /\ k \notin Ancestors(k)
                 /\ InDocument(k) <=> Container \in Ancestors(k)
                 /\ Subtree(k) = Below(parent, k) /\ k \in Subtree(k)
                 /\ parent[k] \in Parents \cup {None}
                 /\ parent[k] = None => Ancestors(k) = {}
                 /\ parent[k] = Container => Ancestors(k) = {Container}
                 /\ parent[k] \in Nodes => parent[k] \in Elements /\ Ancestors(k) = Line(parent[k])
                 /\ parent[k] \in {None, Container} \cup Elements
           /\ \A k, a \in Nodes : a \in Line(k) => Line(a) \subseteq Line(k)
           /\ \A k, a \in Nodes : a \in Line(k) <=> k \in Subtree(a)
           /\ \A k, a, b \in Nodes : a \in Line(k) /\ b \in Line(k) => a \in Line(b) \/ b \in Line(a)
<1>1. Container \notin Nodes /\ None \notin Parents
    BY DistinctNodes DEF Nodes, Parents
<1>2. Forest(parent)
    BY DEF IsForest, Forest, Ancestors
<1>3. ASSUME NEW k \in Nodes
      PROVE  /\ Ancestors(k) = Above[parent][k]
             /\ Ancestors(k) \subseteq Parents /\ k \notin Ancestors(k)
             /\ InDocument(k) <=> Container \in Ancestors(k)
             /\ Subtree(k) = Below(parent, k) /\ k \in Subtree(k)
             /\ parent[k] \in Parents \cup {None}
             /\ parent[k] = None => Ancestors(k) = {}
             /\ parent[k] = Container => Ancestors(k) = {Container}
             /\ parent[k] \in Nodes => parent[k] \in Elements /\ Ancestors(k) = Line(parent[k])
             /\ parent[k] \in {None, Container} \cup Elements
    <2>1. Ancestors(k) = Above[parent][k] /\ Ancestors(k) \subseteq Parents
        BY AboveGoesUp DEF Ancestors
    <2>2. k \notin Ancestors(k)
        BY DEF IsForest
    <2>3. InDocument(k) <=> Container \in Ancestors(k)
        BY <1>1 DEF InDocument
    <2>4. Subtree(k) = Below(parent, k) /\ k \in Subtree(k)
        BY DEF Subtree, Below, Ancestors
    <2>5. parent[k] \in Parents \cup {None} /\ parent[k] \in {None, Container} \cup Elements
        BY DEF Trees, Parents
    <2> QED
        BY <2>1, <2>2, <2>3, <2>4, <2>5, ParentAndAbove DEF Line, Ancestors
<1>4. \A k, a \in Nodes : a \in Line(k) => Line(a) \subseteq Line(k)
    BY AboveTheAbove DEF Line, Ancestors
<1>5. \A k, a \in Nodes : a \in Line(k) <=> k \in Subtree(a)
    BY DEF Line, Subtree
<1>6. \A k, a, b \in Nodes : a \in Line(k) /\ b \in Line(k) => a \in Line(b) \/ b \in Line(a)
    BY OneLine DEF Line, Ancestors
<1> QED
    BY <1>1, <1>2, <1>3, <1>4, <1>5, <1>6

(* All of a tree is in the document or nothing of it.                      *)
LEMMA TreesAreInDocument ==
    ASSUME parent \in Trees, IsForest, NEW k \in Nodes, NEW a \in Line(k) \cap Nodes
    PROVE  InDocument(a) <=> InDocument(k)
<1> DEFINE S == {x \in Ancestors(k) : x \in Nodes => (InDocument(x) <=> InDocument(k))}
<1>1. Upward(parent, S)
    <2> SUFFICES ASSUME NEW x \in S \cap Nodes, parent[x] # None
                 PROVE  parent[x] \in S
        BY DEF Upward
    <2>1. parent[x] \in Ancestors(k)
        BY AboveGoesUp DEF Upward, Ancestors
    <2>2. parent[x] \in Nodes => (InDocument(x) <=> InDocument(parent[x]))
        BY Documents DEF Line
    <2> QED
        BY <2>1, <2>2
<1>2. parent[k] \in S \cup {None}
    <2>1. parent[k] \in Ancestors(k) \cup {None}
        BY AboveGoesUp DEF Ancestors
    <2>2. parent[k] \in Nodes => (InDocument(k) <=> InDocument(parent[k]))
        BY Documents DEF Line
    <2> QED
        BY <2>1, <2>2
<1>3. Ancestors(k) \subseteq S
    <2>1. S \in SUBSET Parents
        BY Documents
    <2> QED
        BY <1>1, <1>2, <2>1, AboveIsLeast DEF Ancestors
<1> QED
    BY <1>3 DEF Line

(* Below the container there is one of its children.                       *)
LEMMA ChildOfTheContainer ==
    ASSUME parent \in Trees, IsForest, NEW k \in Nodes, InDocument(k)
    PROVE  \E n \in Line(k) \cap Nodes : parent[n] = Container
<1> SUFFICES ASSUME \A n \in Line(k) \cap Nodes : parent[n] # Container
             PROVE  FALSE
    OBVIOUS
<1> DEFINE S == Ancestors(k) \ {Container}
<1>1. Upward(parent, S)
    <2> SUFFICES ASSUME NEW x \in S \cap Nodes, parent[x] # None
                 PROVE  parent[x] \in S
        BY DEF Upward
    <2>1. parent[x] \in Ancestors(k)
        BY AboveGoesUp DEF Upward, Ancestors
    <2> QED
        BY <2>1 DEF Line
<1>2. parent[k] \in S \cup {None}
    BY AboveGoesUp DEF Ancestors, Line
<1>3. Ancestors(k) \subseteq S
    <2>1. S \in SUBSET Parents
        BY Documents
    <2> QED
        BY <1>1, <1>2, <2>1, AboveIsLeast DEF Ancestors
<1> QED
    BY <1>3, Documents

(* The nearest of the elements M above k.                                  *)
LEMMA NearestIsThere ==
    ASSUME parent \in Trees, IsForest, NEW k \in Nodes, NEW M
    PROVE  LET above == Ancestors(k) \cap M \cap Elements
           IN  /\ above = {} => Nearest(k, M) = Root
               /\ above # {} => Nearest(k, M) \in above /\ above \ {Nearest(k, M)} \subseteq Ancestors(Nearest(k, M))
               /\ parent[k] \in M \cap Elements => Nearest(k, M) = parent[k]
<1> DEFINE above == Ancestors(k) \cap M \cap Elements
           S == {x \in Ancestors(k) : x \in Nodes => above \subseteq Line(x)}
<1>0. Elements \subseteq Nodes
    BY DEF Nodes
<1>1. above = {} => Nearest(k, M) = Root
    BY DEF Nearest
<1>2. ASSUME above # {}
      PROVE  \E a \in above : above \ {a} \subseteq Ancestors(a)
    <2> SUFFICES ASSUME \A a \in above : ~ (above \ {a} \subseteq Ancestors(a))
                 PROVE  FALSE
        OBVIOUS
    <2>1. \A x \in S : x \notin above
        BY <1>0 DEF Line
    <2>2. Upward(parent, S)
        <3> SUFFICES ASSUME NEW x \in S \cap Nodes, parent[x] # None
                     PROVE  parent[x] \in S
            BY DEF Upward
        <3>1. parent[x] \in Ancestors(k)
            BY AboveGoesUp DEF Upward, Ancestors
        <3>2. above \subseteq Ancestors(x)
            BY <2>1 DEF Line
        <3> QED
            BY <3>1, <3>2, Documents
    <2>3. parent[k] \in S \cup {None}
        <3>1. parent[k] \in Ancestors(k) \cup {None}
            BY AboveGoesUp DEF Ancestors
        <3> QED
            BY <3>1, Documents
    <2>4. Ancestors(k) \subseteq S
        <3>1. S \in SUBSET Parents
            BY Documents
        <3> HIDE DEF S
        <3> QED
            BY <2>2, <2>3, <3>1, AboveIsLeast DEF Ancestors
    <2> QED
        BY <2>1, <2>4, <1>2
<1>3. ASSUME above # {}
      PROVE  Nearest(k, M) \in above /\ above \ {Nearest(k, M)} \subseteq Ancestors(Nearest(k, M))
    <2>1. Nearest(k, M) = CHOOSE a \in above : above \ {a} \subseteq Ancestors(a)
        BY <1>3 DEF Nearest
    <2> HIDE DEF above
    <2> QED
        BY <2>1, <1>2, <1>3
<1>4. ASSUME parent[k] \in M \cap Elements
      PROVE  Nearest(k, M) = parent[k]
    <2> DEFINE a == Nearest(k, M)
    <2>1. parent[k] \in above /\ Ancestors(k) = Line(parent[k])
        BY <1>0, <1>4, Documents DEF Line
    <2>2. a \in above /\ above \ {a} \subseteq Ancestors(a)
        BY <1>3, <2>1
    <2> SUFFICES ASSUME a # parent[k]
                 PROVE  FALSE
        OBVIOUS
    <2>3. a \in Nodes /\ parent[k] \in Nodes
        BY <1>0, <2>1, <2>2
    <2>4. a \in Ancestors(parent[k]) /\ parent[k] \in Ancestors(a)
        BY <2>1, <2>2 DEF Line
    <2>5. a \in Ancestors(a)
        <3> HIDE DEF a
        <3> QED
            BY <2>3, <2>4, AboveTheAbove DEF Ancestors
    <2> QED
        BY <2>3, <2>5, Documents
<1> QED
    BY <1>1, <1>3, <1>4

(* A change gives a node n another parent, or none: what was below n still *)
(* is, and has from n up what the new parent has.                          *)
GivesParent(n, p) ==
    /\ parent \in Trees /\ IsForest
    /\ n \in Nodes /\ p \in Parents \cup {None} /\ p \notin Subtree(n)
    /\ parent' = [parent EXCEPT ![n] = p]

InDoc(p) == p # None /\ InDocument(p)

LEMMA TreesMove ==
    ASSUME NEW n, NEW p, GivesParent(n, p)
    PROVE  /\ parent' \in Trees /\ IsForest'
           /\ \A k \in Nodes : (k \in Subtree(n))' <=> k \in Subtree(n)
           /\ \A k \in Nodes \ Subtree(n) :
                 /\ Line(k)' = Line(k) /\ Ancestors(k)' = Ancestors(k)
                 /\ (InDocument(k))' <=> InDocument(k)
                 /\ parent'[k] = parent[k]
           /\ \A k \in Subtree(n) :
                 /\ (InDocument(k))' <=> InDoc(p)
                 /\ n \in Line(k)' /\ Line(k) \cap Subtree(n) \subseteq Line(k)'
                 /\ \A x \in Ancestors(k)' : x \in Ancestors(k) \cap Subtree(n)
                                                \/ x = p \/ (p \in Nodes /\ x \in Ancestors(p))
                 /\ InDocument(k) <=> InDoc(parent[n])
                 /\ k # n => parent'[k] = parent[k] /\ n \in Ancestors(k)'
           /\ \A k \in Subtree(n), m \in Subtree(n) : Way(m, k)' = Way(m, k)
           /\ \A k \in Nodes \ Subtree(n), m \in Nodes : Way(m, k)' = Way(m, k)
           /\ parent'[n] = p
<1> USE DEF GivesParent
<1>0. /\ parent' \in Trees /\ Forest(parent') /\ Below(parent', n) = Below(parent, n)
      /\ Subtree(n) = Below(parent, n)
      /\ \A k \in Nodes \ Below(parent, n) : Above[parent'][k] = Above[parent][k]
      /\ \A k \in Below(parent, n) :
            Above[parent'][k] = (Above[parent][k] \cap Below(parent, n)) \cup From(parent, p)
    <2>1. Subtree(n) = Below(parent, n) /\ Forest(parent)
        BY Documents
    <2>2. Moves(parent, parent', n, p)
        BY <2>1, SubtreeMoves
    <2> QED
        BY <2>1, <2>2 DEF Moves
<1>1. IsForest' /\ Subtree(n)' = Subtree(n)
    BY <1>0 DEF Forest, IsForest, Ancestors, Subtree, Below
<1>2. /\ \A k \in Nodes \ Subtree(n) : Ancestors(k)' = Ancestors(k)
      /\ \A k \in Subtree(n) : Ancestors(k)' = (Ancestors(k) \cap Subtree(n)) \cup From(parent, p)
    BY <1>0 DEF Ancestors, Subtree
<1>3. Container \notin Nodes /\ None \notin Parents /\ Subtree(n) \subseteq Nodes /\ n \in Subtree(n)
      /\ p \in {None, Container} \cup Nodes
    BY Documents DEF Subtree, Parents, Nodes
<1>4. \A x \in From(parent, p) : x = p \/ (p \in Nodes /\ x \in Ancestors(p))
    BY <1>3 DEF From, Ancestors
<1>5. Container \in From(parent, p) <=> InDoc(p)
    BY <1>3 DEF From, InDoc, InDocument, Ancestors, Parents
<1>6. \A k \in Nodes : InDocument(k) <=> Container \in Ancestors(k)
    BY <1>3 DEF InDocument
<1>7. \A k \in Nodes : (InDocument(k))' <=> Container \in Ancestors(k)'
    BY <1>3 DEF InDocument
<1>8. \A k \in Subtree(n) : (InDocument(k))' <=> InDoc(p)
    BY <1>2, <1>3, <1>5, <1>7
<1>9. \A k \in Subtree(n) : InDocument(k) <=> InDoc(parent[n])
    <2> SUFFICES ASSUME NEW k \in Subtree(n)
                 PROVE  InDocument(k) <=> InDoc(parent[n])
        OBVIOUS
    <2>1. InDocument(n) <=> InDocument(k)
        BY <1>3, TreesAreInDocument DEF Subtree, Line
    <2>2. InDocument(n) <=> InDoc(parent[n])
        <3>1. n \in Nodes /\ Elements \subseteq Nodes /\ Container # None
            BY DistinctNodes DEF Nodes
        <3>2. CASE parent[n] = None
            BY <3>1, <3>2, <1>6, Documents DEF InDoc
        <3>3. CASE parent[n] = Container
            BY <3>1, <3>3, <1>6, Documents DEF InDoc, InDocument
        <3>4. CASE parent[n] \in Elements
            <4>1. Ancestors(n) = Line(parent[n]) /\ parent[n] \in Nodes /\ parent[n] # None
                BY <3>1, <3>4, <1>3, Documents DEF Parents
            <4>2. Container \in Ancestors(n) <=> Container \in Ancestors(parent[n])
                BY <4>1, <1>3 DEF Line
            <4> QED
                BY <4>1, <4>2, <3>1, <1>6 DEF InDoc
        <3> QED
            BY <3>1, <3>2, <3>3, <3>4, Documents
    <2> QED
        BY <2>1, <2>2
<1>10. \A k \in Nodes : n # k => parent'[k] = parent[k]
    BY DEF Trees
<1>11. parent'[n] = p
    BY DEF Trees
<1>12. \A k \in Subtree(n) : n \in Line(k) /\ n \in Line(k)' /\ Line(k) \cap Subtree(n) \subseteq Line(k)'
                              /\ (k # n => n \in Ancestors(k)')
    BY <1>2, <1>3 DEF Line, Subtree
<1>13. From(parent, p) \cap Subtree(n) = {}
    BY <1>3, <1>4, Documents DEF Line
<1>14. \A k \in Subtree(n), m \in Subtree(n) : Way(m, k)' = Way(m, k)
    <2> SUFFICES ASSUME NEW k \in Subtree(n), NEW m \in Subtree(n)
                 PROVE  Way(m, k)' = Way(m, k)
        OBVIOUS
    <2>1. ASSUME NEW x \in Way(m, k)
          PROVE  x \in Way(m, k)'
        <3>1. x \in Subtree(n)
            BY <1>3, <1>12, <2>1, Documents DEF Way
        <3> QED
            BY <3>1, <1>12, <2>1 DEF Way
    <2>2. ASSUME NEW x \in Way(m, k)'
          PROVE  x \in Way(m, k)
        <3>1. x \in Nodes /\ x \in Line(k)' /\ m \in Line(x)'
            BY <2>2 DEF Way
        <3>2. x \in Subtree(n)
            <4> SUFFICES ASSUME x \notin Subtree(n)
                         PROVE  FALSE
                OBVIOUS
            <4>1. m \in Line(x)
                BY <3>1, <1>2 DEF Line
            <4> QED
                BY <4>1, <3>1, <1>3, Documents
        <3>3. x \in Line(k) /\ m \in Line(x)
            BY <1>2, <1>13, <3>1, <3>2 DEF Line
        <3> QED
            BY <3>1, <3>3 DEF Way
    <2> QED
        BY <2>1, <2>2
<1>15. \A k \in Nodes \ Subtree(n), m \in Nodes : Way(m, k)' = Way(m, k)
    <2> SUFFICES ASSUME NEW k \in Nodes \ Subtree(n), NEW m \in Nodes
                 PROVE  Way(m, k)' = Way(m, k)
        OBVIOUS
    <2>1. Line(k)' = Line(k)
        BY <1>2 DEF Line
    <2>2. \A x \in Line(k) \cap Nodes : x \notin Subtree(n)
        BY <1>3, Documents
    <2>3. \A x \in Line(k) \cap Nodes : Line(x)' = Line(x)
        BY <2>2, <1>2 DEF Line
    <2> QED
        BY <2>1, <2>3 DEF Way
<1>16. \A k \in Nodes \ Subtree(n) :
                 /\ Line(k)' = Line(k) /\ Ancestors(k)' = Ancestors(k)
                 /\ (InDocument(k))' <=> InDocument(k)
                 /\ parent'[k] = parent[k]
    BY <1>2, <1>3, <1>6, <1>7, <1>10 DEF Line
<1>17. \A k \in Subtree(n) : \A x \in Ancestors(k)' : x \in Ancestors(k) \cap Subtree(n)
                                                \/ x = p \/ (p \in Nodes /\ x \in Ancestors(p))
    BY <1>2, <1>4
<1>18. \A k \in Subtree(n) : k # n => parent'[k] = parent[k]
    BY <1>3, <1>10
<1> QED
    BY <1>0, <1>1, <1>8, <1>9, <1>11, <1>12, <1>14, <1>15, <1>16, <1>17, <1>18

-----------------------------------------------------------------------------
(* What a bridge that was told of every change keeps, while records are    *)
(* still to be handled. A record is about all that is below its node now.  *)

Doomed(k)         == \E i \in DOMAIN queue : Tells(i, "removed", Line(k))
DoomedAfter(k, i) == \E j \in DOMAIN queue : j > i /\ Tells(j, "removed", Line(k))
Expected(k)       == \E i \in DOMAIN queue : Tells(i, "added", Line(k)) /\ Unseen(Way(queue[i].node, k))
Cut(k)            == ~InDocument(k) /\ Unseen(Ancestors(k))
Brought(h)        == \E j \in DOMAIN queue : /\ Tells(j, "added", Ancestors(h))
                                             /\ Unseen(Way(queue[j].node, h) \ {h})
InPlace(k)        == \/ parent[k] = Container /\ inside[Box(k)] = Root
                     \/ parent[k] \in Mapped /\ inside[Box(k)] = Box(parent[k])

(* What left the document and is still mapped will be removed.             *)
GoneAreDoomed == \A k \in Nodes : k \in Mapped /\ ~InDocument(k) => Doomed(k)

(* Where something out of the document will be added, it will be removed   *)
(* after that.                                                             *)
GoneStayGone ==
    \A k \in Nodes : \A i \in DOMAIN queue :
        ~InDocument(k) /\ Tells(i, "added", Line(k)) => DoomedAfter(k, i)

(* A node of the document that is not mapped will be added, by way of      *)
(* nodes that are not mapped either: the handler does not go below others. *)
MissingAreExpected ==
    \A k \in Nodes : k \notin Mapped /\ k \notin blanked => Expected(k) \/ Cut(k)

(* What is to be removed, and has a parent again, will be added: itself,   *)
(* or, if it was moved to a tree out of the document before any other      *)
(* record was made, with the part of that tree it is in.                   *)
RemovedComeBack ==
    \A i \in DOMAIN queue : queue[i].kind = "removed" =>
        \/ \E j \in DOMAIN queue : j > i /\ Tells(j, "added", {queue[i].node})
        \/ parent[queue[i].node] = None
        \/ i = 1 /\ (Cut(queue[i].node) \/ Brought(queue[i].node))

(* If a node will be added before something above it, its place will be    *)
(* taken back.                                                             *)
AddedInOrder ==
    \A k \in Nodes : InDocument(k) =>
        \A i, j \in DOMAIN queue :
            i < j /\ Tells(i, "added", {k}) /\ Tells(j, "added", Ancestors(k)) => DoomedAfter(k, i)

PlacesHold == \A k \in Nodes : k \in Mapped /\ InDocument(k) => InPlace(k) \/ Doomed(k)

ContentHolds ==
    \A k \in Nodes : k \in Mapped /\ InDocument(k) /\ (k \in Texts \/ data[k] # Blank) =>
        shown[Box(k)] \in MayShow(k, data[k]) \/ Doomed(k) \/ \E i \in DOMAIN queue : Tells(i, "data", {k})

Told == /\ GoneAreDoomed /\ GoneStayGone /\ MissingAreExpected /\ RemovedComeBack
        /\ AddedInOrder /\ PlacesHold /\ ContentHolds

-----------------------------------------------------------------------------
(* A node gets another parent.                                             *)

(* The change, as a bridge that stays in sync is told of it.               *)
MovesHeard(n, p) ==
    /\ GivesParent(n, p)
    /\ parent[n] # None \/ p # None
    /\ queue \in Seq(Records)
    /\ queue' = queue \o (IF InDoc(parent[n]) THEN <<Record("removed", n)>> ELSE <<>>)
                      \o (IF InDoc(p) THEN <<Record("added", n)>> ELSE <<>>)
    /\ parent[n] # None /\ ~InDoc(parent[n]) => queue = <<>>
    /\ p # None /\ ~InDoc(p) => queue = <<>>
    /\ data' = data /\ map' = map /\ inside' = inside /\ shown' = shown /\ blanked' = blanked

LEMMA OneMore ==
    ASSUME NEW S, NEW q \in Seq(S), NEW x \in S
    PROVE  /\ q \o <<x>> \in Seq(S) /\ Len(q \o <<x>>) = Len(q) + 1
           /\ DOMAIN q = 1..Len(q) /\ DOMAIN (q \o <<x>>) = 1..(Len(q) + 1) /\ Len(q) \in Nat
           /\ \A i \in DOMAIN q : (q \o <<x>>)[i] = q[i]
           /\ (q \o <<x>>)[Len(q) + 1] = x
OBVIOUS

LEMMA NoneMore == ASSUME NEW S, NEW q \in Seq(S) PROVE q \o <<>> = q
OBVIOUS

LEMMA RecordsAreRecords ==
    ASSUME NEW q \in Seq(Records)
    PROVE  /\ DOMAIN q = 1..Len(q) /\ Len(q) \in Nat
           /\ \A i \in DOMAIN q : q[i].kind \in Kinds /\ q[i].node \in Nodes
<1>1. \A i \in DOMAIN q : q[i] \in Records
    OBVIOUS
<1> QED
    BY <1>1 DEF Records

LEMMA RecordsOfMoves ==
    ASSUME NEW n, NEW p, MovesHeard(n, p)
    PROVE  /\ DOMAIN queue = 1..Len(queue) /\ DOMAIN queue' = 1..Len(queue') /\ Len(queue) \in Nat /\ Len(queue') \in Nat
           /\ queue' \in Seq(Records)
           /\ \A i \in DOMAIN queue : i \in DOMAIN queue' /\ queue'[i] = queue[i]
           /\ InDoc(parent[n]) => Len(queue) + 1 \in DOMAIN queue' /\ queue'[Len(queue) + 1] = Record("removed", n)
           /\ InDoc(p) => Len(queue') \in DOMAIN queue' /\ queue'[Len(queue')] = Record("added", n)
                          /\ Len(queue') > Len(queue)
                          /\ (InDoc(parent[n]) => Len(queue') > Len(queue) + 1)
           /\ \A i \in DOMAIN queue' :
                 \/ i \in DOMAIN queue
                 \/ InDoc(parent[n]) /\ i = Len(queue) + 1
                 \/ InDoc(p) /\ i = Len(queue')
<1> DEFINE out == IF InDoc(parent[n]) THEN <<Record("removed", n)>> ELSE <<>>
           half == queue \o out
<1>1. Record("removed", n) \in Records /\ Record("added", n) \in Records /\ queue \in Seq(Records)
    BY DEF MovesHeard, GivesParent, Record, Records, Kinds
<1>2. /\ half \in Seq(Records)
      /\ InDoc(parent[n]) => /\ Len(half) = Len(queue) + 1 /\ half[Len(queue) + 1] = Record("removed", n)
                             /\ \A i \in DOMAIN queue : half[i] = queue[i]
      /\ ~InDoc(parent[n]) => half = queue
    BY <1>1, OneMore, NoneMore
<1>3. InDoc(p) => queue' = half \o <<Record("added", n)>>
    BY DEF MovesHeard
<1>4. ~InDoc(p) => queue' = half
    BY <1>2, NoneMore DEF MovesHeard
<1> HIDE DEF half
<1>5. LET next == half \o <<Record("added", n)>>
      IN  /\ next \in Seq(Records) /\ Len(next) = Len(half) + 1 /\ next[Len(half) + 1] = Record("added", n)
          /\ \A i \in DOMAIN half : next[i] = half[i]
    BY <1>1, <1>2, OneMore
<1>6. queue' \in Seq(Records)
    BY <1>2, <1>3, <1>4, <1>5
<1>7. /\ DOMAIN queue = 1..Len(queue) /\ Len(queue) \in Nat
      /\ DOMAIN queue' = 1..Len(queue') /\ Len(queue') \in Nat
      /\ DOMAIN half = 1..Len(half) /\ Len(half) \in Nat
    <2>1. queue \in Seq(Records) /\ half \in Seq(Records)
        BY <1>1, <1>2
    <2> QED
        BY <2>1, <1>6, RecordsAreRecords
<1>8. CASE InDoc(p)
    <2>1. /\ Len(queue') = Len(half) + 1 /\ queue'[Len(half) + 1] = Record("added", n)
          /\ \A i \in DOMAIN half : queue'[i] = half[i]
        BY <1>3, <1>5, <1>8
    <2>2. CASE InDoc(parent[n])
        BY <1>2, <1>6, <1>7, <1>8, <2>1, <2>2
    <2>3. CASE ~InDoc(parent[n])
        <3>1. half = queue
            BY <1>2, <2>3
        <3>2. /\ Len(queue') = Len(queue) + 1 /\ queue'[Len(queue) + 1] = Record("added", n)
              /\ \A i \in DOMAIN queue : queue'[i] = queue[i]
            BY <2>1, <3>1
        <3> QED
            BY <1>6, <1>7, <1>8, <2>3, <3>2
    <2> QED
        BY <2>2, <2>3
<1>9. CASE ~InDoc(p)
    <2>1. CASE InDoc(parent[n])
        BY <1>2, <1>4, <1>6, <1>7, <1>9, <2>1
    <2>2. CASE ~InDoc(parent[n])
        BY <1>2, <1>4, <1>6, <1>7, <1>9, <2>2
    <2> QED
        BY <2>1, <2>2
<1> QED
    BY <1>8, <1>9

LEMMA MovesKeepOthers ==
    ASSUME NEW n, NEW p, MovesHeard(n, p), NEW k \in Nodes \ Subtree(n)
    PROVE  /\ Doomed(k) => Doomed(k)'
           /\ \A i \in DOMAIN queue : DoomedAfter(k, i) => DoomedAfter(k, i)'
           /\ Expected(k) => Expected(k)'
           /\ Cut(k) <=> Cut(k)'
           /\ Brought(k) => Brought(k)'
           /\ InPlace(k) => InPlace(k)'
           /\ Mapped' = Mapped
<1>1. /\ Line(k)' = Line(k) /\ Ancestors(k)' = Ancestors(k) /\ ((InDocument(k))' <=> InDocument(k)) /\ parent'[k] = parent[k]
      /\ \A m \in Nodes : Way(m, k)' = Way(m, k)
    BY TreesMove DEF MovesHeard
<1>2. \A i \in DOMAIN queue : i \in DOMAIN queue' /\ queue'[i] = queue[i] /\ queue[i].node \in Nodes
    BY RecordsOfMoves, RecordsAreRecords DEF MovesHeard
<1>3. Mapped' = Mapped
    BY DEF MovesHeard, Mapped
<1>4. \A x : Box(x)' = Box(x)
    BY DEF MovesHeard, Box
<1> QED
    BY <1>1, <1>2, <1>3, <1>4 DEF MovesHeard, Doomed, DoomedAfter, Expected, Cut, Brought, InPlace, Tells, Unseen

LEMMA MovesKeepBelow ==
    ASSUME NEW n, NEW p, MovesHeard(n, p), NEW k \in Subtree(n)
    PROVE  /\ InDocument(k) <=> InDoc(parent[n])
           /\ (InDocument(k))' <=> InDoc(p)
           /\ InDoc(parent[n]) => Doomed(k)' /\ \A i \in DOMAIN queue : DoomedAfter(k, i)'
           /\ ~InDoc(parent[n]) /\ queue # <<>> =>
                 (Doomed(k) => Doomed(k)') /\ \A i \in DOMAIN queue : DoomedAfter(k, i) => DoomedAfter(k, i)'
           /\ InDoc(p) /\ Unseen(Way(n, k)) => Expected(k)'
           /\ \A i \in DOMAIN queue :
                 /\ Tells(i, "added", Line(k)) /\ Unseen(Way(queue[i].node, k)) =>
                       Expected(k)' \/ Unseen(Way(n, k))
                 /\ Tells(i, "added", Ancestors(k)) /\ Unseen(Way(queue[i].node, k) \ {k}) =>
                       Brought(k)' \/ Unseen(Way(n, k) \ {k})
           /\ Mapped' = Mapped
<1>0. GivesParent(n, p) /\ n \in Nodes /\ k \in Nodes /\ parent \in Trees /\ IsForest /\ n \in Line(k)
    BY DEF MovesHeard, GivesParent, Subtree, Line
<1>1. /\ InDocument(k) <=> InDoc(parent[n])
      /\ (InDocument(k))' <=> InDoc(p)
      /\ n \in Line(k)' /\ Line(k) \cap Subtree(n) \subseteq Line(k)'
      /\ k # n => n \in Ancestors(k)'
      /\ \A m \in Subtree(n) : Way(m, k)' = Way(m, k)
    BY <1>0, TreesMove
<1>2. \A i \in DOMAIN queue : i \in DOMAIN queue' /\ queue'[i] = queue[i] /\ queue[i].node \in Nodes
    BY RecordsOfMoves, RecordsAreRecords DEF MovesHeard
<1>3. Mapped' = Mapped
    BY DEF MovesHeard, Mapped
<1>4. InDoc(parent[n]) => Doomed(k)' /\ \A i \in DOMAIN queue : DoomedAfter(k, i)'
    <2> SUFFICES ASSUME InDoc(parent[n])
                 PROVE  Doomed(k)' /\ \A i \in DOMAIN queue : DoomedAfter(k, i)'
        OBVIOUS
    <2>1. PICK r \in DOMAIN queue' : queue'[r] = Record("removed", n) /\ \A i \in DOMAIN queue : r > i
        BY RecordsOfMoves
    <2> QED
        BY <2>1, <1>1 DEF Doomed, DoomedAfter, Tells, Record
<1>5. ASSUME ~InDoc(parent[n]), queue # <<>>
      PROVE  (Doomed(k) => Doomed(k)') /\ \A i \in DOMAIN queue : DoomedAfter(k, i) => DoomedAfter(k, i)'
    <2>1. parent[n] = None /\ Ancestors(n) = {}
        BY <1>0, <1>5, Documents DEF MovesHeard
    <2>2. \A x \in Line(k) \cap Nodes : x \in Line(k)'
        BY <1>0, <1>1, <2>1, Documents DEF Line
    <2> QED
        BY <1>2, <2>2 DEF Doomed, DoomedAfter, Tells
<1>6. ASSUME InDoc(p), Unseen(Way(n, k))
      PROVE  Expected(k)'
    <2>1. PICK r \in DOMAIN queue' : queue'[r] = Record("added", n)
        BY <1>6, RecordsOfMoves
    <2>2. Way(n, k)' = Way(n, k)
        BY <1>0, <1>1 DEF Subtree
    <2> QED
        BY <1>1, <1>3, <1>6, <2>1, <2>2 DEF Expected, Tells, Record, Unseen
<1>7. ASSUME NEW m \in Line(k) \cap Nodes
      PROVE  /\ m \in Subtree(n) => m \in Line(k)' /\ Way(m, k)' = Way(m, k)
             /\ m \notin Subtree(n) => Way(n, k) \subseteq Way(m, k)
    <2>1. m \in Subtree(n) \/ m \in Line(n)
        BY <1>0, Documents
    <2>2. m \in Line(n) => Way(n, k) \subseteq Way(m, k)
        BY <1>0, Documents DEF Way
    <2> QED
        BY <1>1, <2>1, <2>2
<1>8. \A i \in DOMAIN queue : Tells(i, "added", Line(k)) /\ Unseen(Way(queue[i].node, k)) =>
                       Expected(k)' \/ Unseen(Way(n, k))
    BY <1>2, <1>3, <1>7 DEF Expected, Tells, Unseen
<1>9. ASSUME NEW i \in DOMAIN queue, Tells(i, "added", Ancestors(k)), Unseen(Way(queue[i].node, k) \ {k})
      PROVE  Brought(k)' \/ Unseen(Way(n, k) \ {k})
    <2>1. queue[i].node \in Line(k) /\ queue[i].node # k
        BY <1>0, <1>9, Documents DEF Tells, Line
    <2>2. CASE queue[i].node \in Subtree(n)
        <3>1. queue[i].node \in Ancestors(k)' /\ \A m \in {queue[i].node} : Way(m, k)' = Way(m, k)
            BY <1>2, <1>7, <2>1, <2>2 DEF Line
        <3> QED
            BY <1>2, <1>3, <1>9, <3>1 DEF Brought, Tells, Unseen
    <2>3. CASE queue[i].node \notin Subtree(n)
        BY <1>2, <1>7, <1>9, <2>1, <2>3 DEF Unseen
    <2> QED
        BY <2>2, <2>3
<1> QED
    BY <1>1, <1>3, <1>4, <1>5, <1>6, <1>8, <1>9

(* The new places of whoever is below n, when there were no records.       *)
LEMMA NobodyIsAbove ==
    ASSUME NEW n, NEW p, MovesHeard(n, p), queue = <<>>, GoneAreDoomed, ~InDoc(p),
           NEW k \in Subtree(n), Unseen(Ancestors(k) \cap Subtree(n))
    PROVE  Cut(k)'
<1>0. GivesParent(n, p) /\ n \in Nodes /\ k \in Nodes /\ parent \in Trees /\ IsForest
    BY DEF MovesHeard, GivesParent, Subtree
<1>1. ~ (InDocument(k))'
    BY <1>0, TreesMove
<1>2. \A x \in Nodes : ~InDocument(x) => x \notin Mapped
    BY DEF GoneAreDoomed, Doomed
<1>3. ASSUME p \in Nodes
      PROVE  \A x \in Line(p) \cap Nodes : x \notin Mapped
    <2>1. ~ InDocument(p)
        BY <1>3, DistinctNodes DEF InDoc, Nodes
    <2> QED
        BY <1>0, <1>2, <1>3, <2>1, TreesAreInDocument
<1>4. \A x \in Ancestors(k)' : x \notin Mapped
    <2> SUFFICES ASSUME NEW x \in Ancestors(k)'
                 PROVE  x \notin Mapped
        OBVIOUS
    <2>1. x \in Ancestors(k) \cap Subtree(n) \/ x = p \/ (p \in Nodes /\ x \in Ancestors(p))
        BY <1>0, TreesMove
    <2>2. \A y \in Mapped : y \in Nodes
        BY DEF Mapped
    <2> QED
        BY <1>3, <2>1, <2>2 DEF Unseen, Line
<1>5. Mapped' = Mapped
    BY DEF MovesHeard, Mapped
<1> QED
    BY <1>1, <1>4, <1>5 DEF Cut, Unseen

LEMMA MovesKeepTold ==
    ASSUME NEW n, NEW p, MovesHeard(n, p), Told, blanked \subseteq Nodes
    PROVE  Told'
<1>0. GivesParent(n, p) /\ n \in Nodes /\ parent \in Trees /\ IsForest /\ Subtree(n) \subseteq Nodes /\ n \in Subtree(n)
      /\ queue \in Seq(Records)
    BY Documents DEF MovesHeard, GivesParent, Subtree
<1>1. /\ \A i \in DOMAIN queue : i \in DOMAIN queue' /\ queue'[i] = queue[i] /\ queue[i].node \in Nodes
      /\ DOMAIN queue = 1..Len(queue) /\ Len(queue) \in Nat /\ DOMAIN queue' = 1..Len(queue') /\ Len(queue') \in Nat
    BY <1>0, RecordsOfMoves, RecordsAreRecords
<1>2. ASSUME NEW i \in DOMAIN queue'
      PROVE  \/ i \in DOMAIN queue
             \/ InDoc(parent[n]) /\ i = Len(queue) + 1 /\ queue'[i] = Record("removed", n)
             \/ InDoc(p) /\ i = Len(queue') /\ queue'[i] = Record("added", n)
    BY RecordsOfMoves
<1>3. Mapped' = Mapped /\ blanked' = blanked
    BY DEF MovesHeard, Mapped
<1>4. GoneAreDoomed'
    <2> SUFFICES ASSUME NEW k \in Nodes, k \in Mapped', ~ (InDocument(k))'
                 PROVE  Doomed(k)'
        BY DEF GoneAreDoomed
    <2>1. CASE k \notin Subtree(n)
        <3>1. ~ InDocument(k)
            BY <1>0, <2>1, TreesMove
        <3>2. Doomed(k)
            BY <1>3, <3>1 DEF Told, GoneAreDoomed
        <3> QED
            BY <2>1, <3>2, MovesKeepOthers
    <2>2. CASE k \in Subtree(n)
        <3>1. ~ InDoc(p)
            BY <2>2, MovesKeepBelow
        <3>2. CASE InDoc(parent[n])
            BY <2>2, <3>2, MovesKeepBelow
        <3>3. CASE ~ InDoc(parent[n])
            <4>1. queue = <<>>
                BY <3>1, <3>3 DEF MovesHeard
            <4>2. ~ InDocument(k)
                BY <2>2, <3>3, MovesKeepBelow
            <4>3. Doomed(k)
                BY <1>3, <4>2 DEF Told, GoneAreDoomed
            <4> QED
                BY <4>1, <4>3 DEF Doomed
        <3> QED
            BY <3>2, <3>3
    <2> QED
        BY <2>1, <2>2
<1>5. GoneStayGone'
    <2> SUFFICES ASSUME NEW k \in Nodes, NEW i \in DOMAIN queue', ~ (InDocument(k))',
                        queue'[i].kind = "added", queue'[i].node \in Line(k)'
                 PROVE  DoomedAfter(k, i)'
        BY DEF GoneStayGone, Tells
    <2>1. CASE k \notin Subtree(n)
        <3>1. ~ InDocument(k) /\ Line(k)' = Line(k)
            BY <1>0, <2>1, TreesMove
        <3>2. n \notin Line(k)
            BY <1>0, <2>1, Documents
        <3>3. i \in DOMAIN queue
            BY <1>2, <3>1, <3>2 DEF Record
        <3>4. DoomedAfter(k, i)
            BY <1>1, <3>1, <3>3 DEF Told, GoneStayGone, Tells
        <3> QED
            BY <2>1, <3>3, <3>4, MovesKeepOthers
    <2>2. CASE k \in Subtree(n)
        <3>1. ~ InDoc(p)
            BY <2>2, MovesKeepBelow
        <3>2. i \in DOMAIN queue
            BY <1>2, <3>1 DEF Record
        <3>3. queue # <<>>
            BY <3>2
        <3>4. InDoc(parent[n])
            BY <3>1, <3>3 DEF MovesHeard
        <3> QED
            BY <2>2, <3>2, <3>4, MovesKeepBelow
    <2> QED
        BY <2>1, <2>2
<1>6. MissingAreExpected'
    <2> SUFFICES ASSUME NEW k \in Nodes, k \notin Mapped, k \notin blanked
                 PROVE  Expected(k)' \/ Cut(k)'
        BY <1>3 DEF MissingAreExpected
    <2>1. Expected(k) \/ Cut(k)
        BY DEF Told, MissingAreExpected
    <2>2. CASE k \notin Subtree(n)
        BY <2>1, <2>2, MovesKeepOthers
    <2>3. CASE k \in Subtree(n)
        <3>1. Expected(k) => Expected(k)' \/ Unseen(Way(n, k))
            BY <2>3, MovesKeepBelow DEF Expected
        <3>2. Cut(k) => Unseen(Way(n, k))
            BY DEF Cut, Way, Unseen, Line
        <3>3. CASE InDoc(p)
            BY <2>1, <2>3, <3>1, <3>2, <3>3, MovesKeepBelow
        <3>4. CASE ~ InDoc(p)
            <4> SUFFICES ASSUME ~ Expected(k)'
                         PROVE  Cut(k)'
                OBVIOUS
            <4>1. Unseen(Way(n, k))
                BY <2>1, <3>1, <3>2
            <4>2. Unseen(Ancestors(k) \cap Subtree(n))
                BY <1>0, <4>1, Documents DEF Unseen, Way, Line
            <4>3. CASE queue = <<>>
                BY <2>3, <3>4, <4>2, <4>3, NobodyIsAbove DEF Told
            <4>4. CASE queue # <<>>
                <5>1. p = None
                    BY <3>4, <4>4 DEF MovesHeard
                <5>2. \A x \in Ancestors(k)' : x \in Ancestors(k) \cap Subtree(n) \/ x \notin Nodes
                    BY <1>0, <2>3, <5>1, TreesMove, DistinctNodes DEF Nodes
                <5>3. ~ (InDocument(k))'
                    BY <2>3, <3>4, MovesKeepBelow
                <5> QED
                    BY <1>3, <4>2, <5>2, <5>3 DEF Cut, Unseen, Mapped
            <4> QED
                BY <4>3, <4>4
        <3> QED
            BY <3>3, <3>4
    <2> QED
        BY <2>2, <2>3
<1>7. RemovedComeBack'
    <2> SUFFICES ASSUME NEW i \in DOMAIN queue', NEW h, h = queue'[i].node, queue'[i].kind = "removed"
                 PROVE  \/ \E j \in DOMAIN queue' : j > i /\ queue'[j].kind = "added" /\ queue'[j].node = h
                        \/ parent'[h] = None
                        \/ i = 1 /\ (Cut(h)' \/ Brought(h)')
        BY DEF RemovedComeBack, Tells
    <2>0. InDoc(p) => Len(queue') \in DOMAIN queue' /\ queue'[Len(queue')] = Record("added", n)
                      /\ \A j \in DOMAIN queue : Len(queue') > j
        BY <1>1, RecordsOfMoves
    <2>1. CASE i \notin DOMAIN queue
        <3>1. InDoc(parent[n]) /\ i = Len(queue) + 1 /\ h = n
            BY <1>2, <2>1 DEF Record
        <3>2. CASE InDoc(p)
            <4>1. Len(queue') \in DOMAIN queue' /\ Len(queue') > i
                BY <3>1, <3>2, RecordsOfMoves
            <4>2. queue'[Len(queue')].kind = "added" /\ queue'[Len(queue')].node = h
                BY <2>0, <3>1, <3>2 DEF Record
            <4> QED
                BY <4>1, <4>2
        <3>3. CASE ~ InDoc(p) /\ p # None
            <4>1. queue = <<>>
                BY <3>3 DEF MovesHeard
            <4>2. i = 1
                BY <1>1, <3>1, <4>1
            <4>3. \A x \in Ancestors(n) \cap Subtree(n) : FALSE
                <5> SUFFICES ASSUME NEW x \in Ancestors(n) \cap Subtree(n)
                             PROVE  FALSE
                    OBVIOUS
                <5>1. x \in Nodes /\ n \in Line(x) /\ Line(x) \subseteq Line(n) /\ n \notin Ancestors(n)
                    BY <1>0, Documents DEF Line
                <5>2. n \in Ancestors(x) /\ Ancestors(x) \subseteq Ancestors(n)
                    BY <1>0, <5>1, AboveTheAbove DEF Line, Ancestors
                <5> QED
                    BY <5>1, <5>2
            <4> QED
                BY <1>0, <3>1, <3>3, <4>1, <4>2, <4>3, NobodyIsAbove DEF Told, Unseen
        <3>4. CASE p = None
            BY <1>0, <3>1, <3>4, TreesMove
        <3> QED
            BY <3>2, <3>3, <3>4
    <2>2. CASE i \in DOMAIN queue
        <3>1. h \in Nodes /\ queue[i].node = h /\ queue[i].kind = "removed" /\ queue # <<>>
            BY <1>1, <2>2
        <3>2. \/ \E j \in DOMAIN queue : j > i /\ queue[j].kind = "added" /\ queue[j].node = h
              \/ parent[h] = None
              \/ i = 1 /\ (Cut(h) \/ Brought(h))
            BY <2>2, <3>1 DEF Told, RemovedComeBack, Tells
        <3>3. CASE \E j \in DOMAIN queue : j > i /\ queue[j].kind = "added" /\ queue[j].node = h
            BY <1>1, <3>3
        <3>4. CASE h = n
            <4>1. InDoc(p) \/ p = None
                BY <3>1 DEF MovesHeard
            <4> QED
                BY <1>0, <2>0, <2>2, <3>4, <4>1, TreesMove DEF Record
        <3>5. CASE parent[h] = None /\ h # n
            BY <1>0, <3>1, <3>5, TreesMove
        <3>6. CASE i = 1 /\ (Cut(h) \/ Brought(h)) /\ h \notin Subtree(n)
            BY <3>1, <3>6, MovesKeepOthers
        <3>7. CASE i = 1 /\ (Cut(h) \/ Brought(h)) /\ h \in Subtree(n) /\ h # n
            <4>1. Brought(h) => Brought(h)' \/ Unseen(Way(n, h) \ {h})
                BY <3>7, MovesKeepBelow DEF Brought
            <4>2. Cut(h) => Unseen(Way(n, h) \ {h})
                BY DEF Cut, Way, Unseen, Line
            <4> SUFFICES ASSUME Unseen(Way(n, h) \ {h})
                         PROVE  Cut(h)' \/ Brought(h)'
                BY <3>7, <4>1, <4>2
            <4>3. CASE InDoc(p)
                <5>1. n \in Ancestors(h)' /\ Way(n, h)' = Way(n, h)
                    BY <1>0, <3>7, TreesMove
                <5> QED
                    BY <1>3, <2>0, <4>3, <5>1 DEF Brought, Tells, Record, Unseen
            <4>4. CASE ~ InDoc(p)
                <5>1. p = None
                    BY <3>1, <4>4 DEF MovesHeard
                <5>2. \A x \in Ancestors(h)' : x \in Ancestors(h) \cap Subtree(n) \/ x \notin Nodes
                    BY <1>0, <3>7, <5>1, TreesMove, DistinctNodes DEF Nodes
                <5>3. ~ (InDocument(h))'
                    BY <3>7, <4>4, MovesKeepBelow
                <5>4. Unseen(Ancestors(h) \cap Subtree(n))
                    BY <1>0, <3>1, Documents DEF Unseen, Way, Line
                <5> QED
                    BY <1>3, <5>2, <5>3, <5>4 DEF Cut, Unseen, Mapped
            <4> QED
                BY <4>3, <4>4
        <3> QED
            BY <3>2, <3>3, <3>4, <3>5, <3>6, <3>7
    <2> QED
        BY <2>1, <2>2
<1>8. AddedInOrder'
    <2> SUFFICES ASSUME NEW k \in Nodes, (InDocument(k))', NEW i \in DOMAIN queue', NEW j \in DOMAIN queue',
                        i < j, queue'[i].kind = "added", queue'[i].node = k,
                        queue'[j].kind = "added", queue'[j].node \in Ancestors(k)'
                 PROVE  DoomedAfter(k, i)'
        BY DEF AddedInOrder, Tells
    <2>1. i \in DOMAIN queue
        BY <1>1, <1>2 DEF Record
    <2>2. queue[i].kind = "added" /\ queue[i].node = k
        BY <1>1, <2>1
    <2>3. CASE k \notin Subtree(n)
        <3>1. InDocument(k) /\ Ancestors(k)' = Ancestors(k)
            BY <1>0, <2>3, TreesMove
        <3>2. n \notin Ancestors(k)
            BY <1>0, <2>3, Documents DEF Line
        <3>3. j \in DOMAIN queue
            BY <1>2, <3>1, <3>2 DEF Record
        <3>4. DoomedAfter(k, i)
            BY <1>1, <2>1, <2>2, <3>1, <3>3 DEF Told, AddedInOrder, Tells
        <3> QED
            BY <2>1, <2>3, <3>4, MovesKeepOthers
    <2>4. CASE k \in Subtree(n)
        <3>1. CASE InDoc(parent[n])
            BY <2>1, <2>4, <3>1, MovesKeepBelow
        <3>2. CASE ~ InDoc(parent[n])
            <4>1. ~ InDocument(k)
                BY <2>4, <3>2, MovesKeepBelow
            <4>2. DoomedAfter(k, i)
                BY <2>1, <2>2, <4>1 DEF Told, GoneStayGone, Tells, Line
            <4>3. queue # <<>>
                BY <2>1
            <4> QED
                BY <2>1, <2>4, <3>2, <4>2, <4>3, MovesKeepBelow
        <3> QED
            BY <3>1, <3>2
    <2> QED
        BY <2>3, <2>4
<1>9. ASSUME NEW k \in Subtree(n), k \in Mapped, (InDocument(k))'
      PROVE  Doomed(k)'
    <2>1. CASE InDoc(parent[n])
        BY <2>1, MovesKeepBelow
    <2>2. CASE ~ InDoc(parent[n])
        <3>1. Doomed(k)
            BY <1>0, <1>9, <2>2, MovesKeepBelow DEF Told, GoneAreDoomed
        <3>2. queue # <<>>
            BY <3>1 DEF Doomed
        <3> QED
            BY <2>2, <3>1, <3>2, MovesKeepBelow
    <2> QED
        BY <2>1, <2>2
<1>10. PlacesHold'
    <2> SUFFICES ASSUME NEW k \in Nodes, k \in Mapped, (InDocument(k))'
                 PROVE  InPlace(k)' \/ Doomed(k)'
        BY <1>3 DEF PlacesHold
    <2>1. CASE k \notin Subtree(n)
        <3>1. InDocument(k)
            BY <1>0, <2>1, TreesMove
        <3> QED
            BY <2>1, <3>1, MovesKeepOthers DEF Told, PlacesHold
    <2> QED
        BY <1>9, <2>1
<1>11. ContentHolds'
    <2> SUFFICES ASSUME NEW k \in Nodes, k \in Mapped, (InDocument(k))', k \in Texts \/ data[k] # Blank
                 PROVE  \/ shown[<<k, map[k]>>] \in MayShow(k, data[k]) \/ Doomed(k)'
                        \/ \E i \in DOMAIN queue' : queue'[i].kind = "data" /\ queue'[i].node = k
        BY <1>3 DEF ContentHolds, Tells, Box, MovesHeard
    <2>1. CASE k \notin Subtree(n)
        <3>1. InDocument(k)
            BY <1>0, <2>1, TreesMove
        <3>2. shown[<<k, map[k]>>] \in MayShow(k, data[k]) \/ Doomed(k) \/ \E i \in DOMAIN queue : queue[i].kind = "data" /\ queue[i].node = k
            BY <3>1 DEF Told, ContentHolds, Tells, Box
        <3> QED
            BY <1>1, <2>1, <3>2, MovesKeepOthers
    <2> QED
        BY <1>9, <2>1
<1> QED
    BY <1>4, <1>5, <1>6, <1>7, <1>8, <1>10, <1>11 DEF Told

-----------------------------------------------------------------------------
(* Everything else leaves the tree as it is.                               *)

LEMMA SameTree ==
    ASSUME parent' = parent
    PROVE  /\ \A k : /\ Line(k)' = Line(k) /\ Ancestors(k)' = Ancestors(k) /\ Subtree(k)' = Subtree(k)
                     /\ (InDocument(k))' <=> InDocument(k)
           /\ \A m, k : Way(m, k)' = Way(m, k)
           /\ IsForest' <=> IsForest
BY DEF Line, Ancestors, Subtree, InDocument, Way, IsForest

(* With as many records or more, what is expected still is.                *)
LEMMA RecordsStay ==
    ASSUME parent' = parent, map' = map, NEW k,
           \A i \in DOMAIN queue : i \in DOMAIN queue' /\ queue'[i] = queue[i]
    PROVE  /\ Doomed(k) => Doomed(k)'
           /\ \A i \in DOMAIN queue : DoomedAfter(k, i) => DoomedAfter(k, i)'
           /\ Expected(k) => Expected(k)'
           /\ Cut(k) => Cut(k)'
           /\ Brought(k) => Brought(k)'
           /\ Mapped' = Mapped /\ Box(k)' = Box(k)
<1>1. Mapped' = Mapped /\ Box(k)' = Box(k)
    BY DEF Mapped, Box
<1> QED
    BY <1>1, SameTree DEF Doomed, DoomedAfter, Expected, Cut, Brought, Tells, Unseen

LEMMA DataKeepsTold ==
    ASSUME Told, NEW n \in Nodes, NEW v, SetData(n, v), synced', queue \in Seq(Records), data \in [Nodes -> Data]
    PROVE  Told'
<1>1. parent' = parent /\ map' = map /\ inside' = inside /\ shown' = shown
      /\ blanked \subseteq blanked' /\ (\A k \in Nodes \ {n} : data'[k] = data[k])
    BY DEF SetData, tui
<1>2. (observer \/ ~InDocument(n)) /\ queue' = queue \o Reports(n, Record("data", n))
    BY DEF SetData, Misses
<1>3. /\ \A i \in DOMAIN queue : i \in DOMAIN queue' /\ queue'[i] = queue[i]
      /\ \A i \in DOMAIN queue' : i \in DOMAIN queue \/ queue'[i].kind = "data"
      /\ InDocument(n) => \E i \in DOMAIN queue' : queue'[i].kind = "data" /\ queue'[i].node = n
    <2>1. Record("data", n) \in Records
        BY DEF Record, Records, Kinds
    <2>2. CASE InDocument(n) /\ observer
        <3>1. queue' = queue \o <<Record("data", n)>>
            BY <1>2, <2>2 DEF Reports
        <3>2. /\ DOMAIN queue = 1..Len(queue) /\ DOMAIN queue' = 1..(Len(queue) + 1) /\ Len(queue) \in Nat
              /\ \A i \in DOMAIN queue : queue'[i] = queue[i]
              /\ queue'[Len(queue) + 1] = Record("data", n)
            BY <2>1, <3>1, OneMore
        <3> QED
            BY <3>2 DEF Record
    <2>3. CASE ~InDocument(n)
        <3>1. queue' = queue
            BY <1>2, <2>3, NoneMore DEF Reports
        <3> QED
            BY <2>3, <3>1
    <2> QED
        BY <1>2, <2>2, <2>3
<1>4. \A k \in Nodes : /\ Doomed(k) => Doomed(k)'
                       /\ \A i \in DOMAIN queue : DoomedAfter(k, i) => DoomedAfter(k, i)'
                       /\ Expected(k) => Expected(k)'
                       /\ Cut(k) => Cut(k)'
                       /\ Brought(k) => Brought(k)'
                       /\ Mapped' = Mapped /\ Box(k)' = Box(k)
    BY <1>1, <1>3, RecordsStay
<1>5. /\ \A k : /\ Line(k)' = Line(k) /\ Ancestors(k)' = Ancestors(k)
                /\ (InDocument(k))' <=> InDocument(k)
    BY <1>1, SameTree
<1>6. GoneAreDoomed'
    BY <1>4, <1>5 DEF Told, GoneAreDoomed
<1>7. GoneStayGone'
    <2> SUFFICES ASSUME NEW k \in Nodes, NEW i \in DOMAIN queue', ~InDocument(k),
                        queue'[i].kind = "added", queue'[i].node \in Line(k)
                 PROVE  DoomedAfter(k, i)'
        BY <1>5 DEF GoneStayGone, Tells
    <2>1. i \in DOMAIN queue /\ queue'[i] = queue[i]
        BY <1>3
    <2> QED
        BY <1>4, <2>1 DEF Told, GoneStayGone, Tells
<1>8. MissingAreExpected'
    <2> SUFFICES ASSUME NEW k \in Nodes, k \notin Mapped', k \notin blanked'
                 PROVE  Expected(k)' \/ Cut(k)'
        BY DEF MissingAreExpected
    <2> QED
        BY <1>1, <1>4 DEF Told, MissingAreExpected
<1>9. RemovedComeBack'
    <2> SUFFICES ASSUME NEW i \in DOMAIN queue', NEW h, h = queue'[i].node, queue'[i].kind = "removed"
                 PROVE  \/ \E j \in DOMAIN queue' : j > i /\ queue'[j].kind = "added" /\ queue'[j].node = h
                        \/ parent'[h] = None
                        \/ i = 1 /\ (Cut(h)' \/ Brought(h)')
        BY DEF RemovedComeBack, Tells
    <2>1. i \in DOMAIN queue /\ queue'[i] = queue[i] /\ queue[i].node = h /\ queue[i].kind = "removed"
        BY <1>3
    <2>2. \/ \E j \in DOMAIN queue : j > i /\ queue[j].kind = "added" /\ queue[j].node = h
          \/ parent[h] = None
          \/ i = 1 /\ (Cut(h) \/ Brought(h))
        BY <2>1 DEF Told, RemovedComeBack, Tells
    <2>3. h \in Nodes
        BY <2>1, RecordsAreRecords
    <2> QED
        BY <1>1, <1>3, <1>4, <2>2, <2>3
<1>10. AddedInOrder'
    <2> SUFFICES ASSUME NEW k \in Nodes, InDocument(k), NEW i \in DOMAIN queue', NEW j \in DOMAIN queue',
                        i < j, queue'[i].kind = "added", queue'[i].node = k,
                        queue'[j].kind = "added", queue'[j].node \in Ancestors(k)
                 PROVE  DoomedAfter(k, i)'
        BY <1>5 DEF AddedInOrder, Tells
    <2>1. i \in DOMAIN queue /\ queue'[i] = queue[i] /\ j \in DOMAIN queue /\ queue'[j] = queue[j]
        BY <1>3
    <2> QED
        BY <1>4, <2>1 DEF Told, AddedInOrder, Tells
<1>11. PlacesHold'
    <2> SUFFICES ASSUME NEW k \in Nodes, k \in Mapped, InDocument(k)
                 PROVE  InPlace(k)' \/ Doomed(k)'
        BY <1>4, <1>5 DEF PlacesHold
    <2>1. InPlace(k) => InPlace(k)'
        BY <1>1 DEF InPlace, Box, Mapped
    <2> QED
        BY <1>4, <2>1 DEF Told, PlacesHold
<1>12. ContentHolds'
    <2> SUFFICES ASSUME NEW k \in Nodes, k \in Mapped, InDocument(k), k \in Texts \/ data'[k] # Blank
                 PROVE  \/ shown[Box(k)] \in MayShow(k, data'[k]) \/ Doomed(k)'
                        \/ \E i \in DOMAIN queue' : queue'[i].kind = "data" /\ queue'[i].node = k
        BY <1>1, <1>4, <1>5 DEF ContentHolds, Tells
    <2>1. CASE k = n
        BY <1>3, <2>1
    <2>2. CASE k # n
        <3>1. data'[k] = data[k]
            BY <1>1, <2>2
        <3>2. shown[Box(k)] \in MayShow(k, data[k]) \/ Doomed(k) \/ \E i \in DOMAIN queue : queue[i].kind = "data" /\ queue[i].node = k
            BY <3>1 DEF Told, ContentHolds, Tells
        <3> QED
            BY <1>3, <1>4, <3>1, <3>2
    <2> QED
        BY <2>1, <2>2
<1> QED
    BY <1>6, <1>7, <1>8, <1>9, <1>10, <1>11, <1>12 DEF Told

(* Nothing happens to the tree, the records or the boxes.                  *)
LEMMA NothingChanges ==
    ASSUME Told, UNCHANGED <<parent, data, queue, map, inside, shown, blanked>>
    PROVE  Told'
<1>1. Mapped' = Mapped /\ (\A k : Box(k)' = Box(k))
    BY DEF Mapped, Box
<1>2. \A k : /\ Line(k)' = Line(k) /\ Ancestors(k)' = Ancestors(k) /\ ((InDocument(k))' <=> InDocument(k))
             /\ \A m : Way(m, k)' = Way(m, k)
    BY SameTree
<1>3. \A k : /\ (Doomed(k))' <=> Doomed(k)
             /\ \A i : (DoomedAfter(k, i))' <=> DoomedAfter(k, i)
             /\ (Expected(k))' <=> Expected(k)
             /\ (Cut(k))' <=> Cut(k)
             /\ (Brought(k))' <=> Brought(k)
             /\ (InPlace(k))' <=> InPlace(k)
    BY <1>1, <1>2 DEF Doomed, DoomedAfter, Expected, Cut, Brought, InPlace, Tells, Unseen
<1>4. \A i, kind, ns : (Tells(i, kind, ns))' <=> Tells(i, kind, ns)
    BY DEF Tells
<1> QED
    BY <1>1, <1>2, <1>3, <1>4
    DEF Told, GoneAreDoomed, GoneStayGone, MissingAreExpected, RemovedComeBack, AddedInOrder, PlacesHold, ContentHolds, Tells

-----------------------------------------------------------------------------
(* The handler takes the first record.                                     *)

LEMMA TheRest ==
    ASSUME NEW S, NEW q \in Seq(S), q # <<>>
    PROVE  /\ Head(q) = q[1] /\ 1 \in DOMAIN q /\ Tail(q) \in Seq(S)
           /\ DOMAIN q = 1..Len(q) /\ DOMAIN Tail(q) = 1..(Len(q) - 1) /\ Len(q) \in Nat
           /\ \A i \in DOMAIN Tail(q) : Tail(q)[i] = q[i + 1]
OBVIOUS

(* The first record is handled: nothing changes but the boxes.             *)
Handled ==
    /\ queue \in Seq(Records) /\ queue # <<>> /\ queue' = Tail(queue)
    /\ parent \in Trees /\ IsForest /\ blanked \subseteq Texts
    /\ UNCHANGED <<parent, data, blanked>>

LEMMA RecordsMoveUp ==
    ASSUME Handled
    PROVE  /\ 1 \in DOMAIN queue /\ DOMAIN queue \subseteq Nat
           /\ \A i \in DOMAIN queue' : i + 1 \in DOMAIN queue /\ queue'[i] = queue[i + 1] /\ i \in Nat \ {0}
           /\ \A i \in DOMAIN queue \ {1} : \E j \in DOMAIN queue' : j = i - 1 /\ queue'[j] = queue[i] /\ i \in Nat
           /\ \A i \in DOMAIN queue : queue[i].kind \in Kinds /\ queue[i].node \in Nodes
<1>1. queue \in Seq(Records) /\ queue # <<>> /\ queue' = Tail(queue)
    BY DEF Handled
<1> QED
    BY <1>1, TheRest, RecordsAreRecords

(* What the first record does not tell of a node, the others do.           *)
LEMMA TheRestTells ==
    ASSUME Handled, NEW k \in Nodes
    PROVE  /\ Doomed(k) /\ ~Tells(1, "removed", Line(k)) => Doomed(k)'
           /\ \A i \in DOMAIN queue' : DoomedAfter(k, i + 1) => DoomedAfter(k, i)'
           /\ DoomedAfter(k, 1) => Doomed(k)'
           /\ \A i \in DOMAIN queue \ {1}, m \in Line(k) :
                 queue[i].kind = "added" /\ queue[i].node = m /\ Way(m, k) \cap Mapped' = {} => Expected(k)'
           /\ (\E i \in DOMAIN queue : Tells(i, "data", {k})) /\ ~Tells(1, "data", {k}) =>
                 \E i \in DOMAIN queue' : queue'[i].kind = "data" /\ queue'[i].node = k
<1>1. Line(k)' = Line(k) /\ (\A m : Way(m, k)' = Way(m, k))
    BY SameTree DEF Handled
<1>2. Doomed(k) /\ ~Tells(1, "removed", Line(k)) => Doomed(k)'
    BY <1>1, RecordsMoveUp DEF Doomed, Tells
<1>3. ASSUME NEW i \in Nat, NEW j \in DOMAIN queue, j > i + 1, Tells(j, "removed", Line(k))
      PROVE  \E r \in DOMAIN queue' : r > i /\ queue'[r].kind = "removed" /\ queue'[r].node \in Line(k)'
    <2>1. j # 1 /\ j \in Nat
        BY <1>3, RecordsMoveUp
    <2>2. PICK r \in DOMAIN queue' : r = j - 1 /\ queue'[r] = queue[j]
        BY <2>1, RecordsMoveUp
    <2> QED
        BY <1>1, <1>3, <2>1, <2>2 DEF Tells
<1>4. \A i \in DOMAIN queue' : DoomedAfter(k, i + 1) => DoomedAfter(k, i)'
    <2> SUFFICES ASSUME NEW i \in DOMAIN queue', DoomedAfter(k, i + 1)
                 PROVE  DoomedAfter(k, i)'
        OBVIOUS
    <2>1. i \in Nat
        BY RecordsMoveUp
    <2> QED
        BY <1>3, <2>1 DEF DoomedAfter, Tells
<1>5. DoomedAfter(k, 1) => Doomed(k)'
    BY <1>3 DEF DoomedAfter, Doomed, Tells
<1>6. ASSUME NEW i \in DOMAIN queue \ {1}, NEW m \in Line(k),
             queue[i].kind = "added", queue[i].node = m, Way(m, k) \cap Mapped' = {}
      PROVE  Expected(k)'
    <2>1. PICK r \in DOMAIN queue' : queue'[r] = queue[i]
        BY <1>6, RecordsMoveUp
    <2> QED
        BY <1>1, <1>6, <2>1 DEF Expected, Tells, Unseen
<1>7. (\E i \in DOMAIN queue : Tells(i, "data", {k})) /\ ~Tells(1, "data", {k}) =>
                 \E i \in DOMAIN queue' : queue'[i].kind = "data" /\ queue'[i].node = k
    BY RecordsMoveUp DEF Tells
<1> QED
    BY <1>2, <1>4, <1>5, <1>6, <1>7

(* Whatever the handler does to the boxes, the order of the rest is right. *)
LEMMA HandledInOrder ==
    ASSUME Handled, Told
    PROVE  GoneStayGone' /\ RemovedComeBack' /\ AddedInOrder'
<1>1. /\ \A k : /\ Line(k)' = Line(k) /\ Ancestors(k)' = Ancestors(k)
                /\ (InDocument(k))' <=> InDocument(k)
      /\ parent' = parent
    BY SameTree DEF Handled
<1>2. GoneStayGone'
    <2> SUFFICES ASSUME NEW k \in Nodes, NEW i \in DOMAIN queue', ~InDocument(k),
                        queue'[i].kind = "added", queue'[i].node \in Line(k)
                 PROVE  DoomedAfter(k, i)'
        BY <1>1 DEF GoneStayGone, Tells
    <2>1. i + 1 \in DOMAIN queue /\ Tells(i + 1, "added", Line(k))
        BY RecordsMoveUp DEF Tells
    <2>2. DoomedAfter(k, i + 1)
        BY <2>1 DEF Told, GoneStayGone
    <2> QED
        BY <2>2, TheRestTells
<1>3. RemovedComeBack'
    <2> SUFFICES ASSUME NEW i \in DOMAIN queue', NEW h, h = queue'[i].node, queue'[i].kind = "removed"
                 PROVE  \/ \E j \in DOMAIN queue' : j > i /\ queue'[j].kind = "added" /\ queue'[j].node = h
                        \/ parent[h] = None
        BY <1>1 DEF RemovedComeBack, Tells
    <2>1. i + 1 \in DOMAIN queue /\ queue[i + 1].node = h /\ queue[i + 1].kind = "removed" /\ i \in Nat /\ i + 1 # 1
        BY RecordsMoveUp
    <2>2. (\E j \in DOMAIN queue : j > i + 1 /\ queue[j].kind = "added" /\ queue[j].node = h) \/ parent[h] = None
        <3> DEFINE r == i + 1
        <3> HIDE DEF r
        <3>1. r \in DOMAIN queue /\ queue[r].node = h /\ queue[r].kind = "removed" /\ r # 1
            BY <2>1 DEF r
        <3>2. (\E j \in DOMAIN queue : j > r /\ queue[j].kind = "added" /\ queue[j].node = h) \/ parent[h] = None
            BY <3>1 DEF Told, RemovedComeBack, Tells
        <3> QED
            BY <3>2 DEF r
    <2>3. ASSUME NEW j \in DOMAIN queue, j > i + 1, queue[j].kind = "added", queue[j].node = h
          PROVE  \E r \in DOMAIN queue' : r > i /\ queue'[r].kind = "added" /\ queue'[r].node = h
        <3>1. j # 1 /\ j \in Nat
            BY <2>1, <2>3, RecordsMoveUp
        <3>2. PICK r \in DOMAIN queue' : r = j - 1 /\ queue'[r] = queue[j]
            BY <3>1, RecordsMoveUp
        <3> QED
            BY <2>1, <2>3, <3>1, <3>2
    <2> QED
        BY <2>2, <2>3
<1>4. AddedInOrder'
    <2> SUFFICES ASSUME NEW k \in Nodes, InDocument(k), NEW i \in DOMAIN queue', NEW j \in DOMAIN queue',
                        i < j, queue'[i].kind = "added", queue'[i].node = k,
                        queue'[j].kind = "added", queue'[j].node \in Ancestors(k)
                 PROVE  DoomedAfter(k, i)'
        BY <1>1 DEF AddedInOrder, Tells
    <2>1. /\ i + 1 \in DOMAIN queue /\ Tells(i + 1, "added", {k})
          /\ j + 1 \in DOMAIN queue /\ Tells(j + 1, "added", Ancestors(k))
          /\ i + 1 < j + 1
        BY RecordsMoveUp DEF Tells
    <2>2. DoomedAfter(k, i + 1)
        BY <2>1 DEF Told, AddedInOrder
    <2> QED
        BY <2>2, TheRestTells
<1> QED
    BY <1>2, <1>3, <1>4

BoxesAreThere == map \in [Nodes -> Nat] /\ DOMAIN shown = Boxes /\ \A n \in Mapped : Box(n) \in Boxes

(* A node and all below it lose their boxes; the other boxes stay.         *)
LEMMA RemovingKeepsOthers ==
    ASSUME NEW h \in Nodes, RemoveNode(h), BoxesAreThere
    PROVE  /\ Mapped' = Mapped \ Subtree(h)
           /\ \A k \in Mapped' : Box(k)' = Box(k) /\ inside'[Box(k)] = inside[Box(k)] /\ Box(k) \in Boxes
           /\ shown' = shown /\ map' \in [Nodes -> Nat] /\ DOMAIN inside' = Boxes
           /\ \A b \in Boxes : inside'[b] \in {inside[b], Nowhere}
<1> DEFINE gone == Mapped \cap Subtree(h)
<1>1. map' = [k \in Nodes |-> IF k \in gone THEN 0 ELSE map[k]]
    BY DEF RemoveNode
<1>2. Mapped' = Mapped \ Subtree(h)
    BY <1>1 DEF Mapped
<1>3. \A k \in Mapped' : k \in Mapped /\ map'[k] = map[k] /\ Box(k)' = Box(k) /\ Box(k) \in Boxes
    BY <1>1, <1>2 DEF Box, BoxesAreThere, Mapped
<1>4. \A k \in Mapped' : \A g \in gone : Box(g) # Box(k)
    BY <1>2 DEF Box
<1>5. /\ shown' = shown /\ DOMAIN inside' = Boxes
      /\ \A b \in Boxes : inside'[b] \in {inside[b], Nowhere}
      /\ \A b \in Boxes : b \notin {Box(g) : g \in gone} => inside'[b] = inside[b]
    BY DEF RemoveNode
<1>6. map' \in [Nodes -> Nat]
    BY <1>1 DEF BoxesAreThere
<1> QED
    BY <1>2, <1>3, <1>4, <1>5, <1>6

LEMMA RemovedKeepsTold ==
    ASSUME Told, Handled, BoxesAreThere, queue[1].kind = "removed",
           NEW h, h = queue[1].node, RemoveNode(h)
    PROVE  Told'
<1>0. /\ h \in Nodes /\ 1 \in DOMAIN queue /\ parent \in Trees /\ IsForest
      /\ parent' = parent /\ data' = data /\ blanked' = blanked
    BY RecordsMoveUp DEF Handled
<1>1. /\ Mapped' = Mapped \ Subtree(h)
      /\ \A k \in Mapped' : Box(k)' = Box(k) /\ inside'[Box(k)] = inside[Box(k)] /\ Box(k) \in Boxes
      /\ shown' = shown
    BY <1>0, RemovingKeepsOthers
<1>2. /\ \A k : /\ Line(k)' = Line(k) /\ Ancestors(k)' = Ancestors(k)
                /\ (InDocument(k))' <=> InDocument(k)
      /\ \A m, k : Way(m, k)' = Way(m, k)
    BY <1>0, SameTree
<1>3. Mapped \subseteq Nodes
    BY DEF Mapped
<1>4. ASSUME NEW k \in Nodes \ Subtree(h)
      PROVE  h \notin Line(k) /\ (Doomed(k) => Doomed(k)')
    <2>1. h \notin Line(k)
        BY <1>0, Documents
    <2> QED
        BY <1>0, <2>1, TheRestTells DEF Tells
<1>5. GoneAreDoomed'
    <2> SUFFICES ASSUME NEW k \in Nodes, k \in Mapped', ~InDocument(k)
                 PROVE  Doomed(k)'
        BY <1>2 DEF GoneAreDoomed
    <2> QED
        BY <1>1, <1>4 DEF Told, GoneAreDoomed
<1>6. ASSUME NEW k \in Subtree(h), k \in Nodes
      PROVE  Expected(k)' \/ Cut(k)'
    <2>1. /\ h \in Line(k) /\ Line(h) \subseteq Line(k)
          /\ \A x \in Line(k) \cap Nodes : x \in Line(h) \/ x \in Subtree(h)
          /\ InDocument(k) <=> InDocument(h)
        <3>1. h \in Line(k)
            BY <1>0, <1>6, Documents
        <3> QED
            BY <1>0, <1>6, <3>1, Documents, TreesAreInDocument
    <2>2. ASSUME NEW j \in DOMAIN queue, j > 1, queue[j].kind = "added", queue[j].node = h
          PROVE  Expected(k)'
        <3>1. Way(h, k) \cap Mapped' = {}
            BY <1>0, <1>1, <1>3, Documents DEF Way
        <3> QED
            BY <1>6, <2>1, <2>2, <3>1, TheRestTells
    <2>3. ASSUME Cut(h)
          PROVE  Cut(k)'
        <3>1. \A x \in Ancestors(k) : x \notin Mapped'
            <4> SUFFICES ASSUME NEW x \in Ancestors(k), x \in Mapped'
                         PROVE  FALSE
                OBVIOUS
            <4>1. x \in Line(h)
                BY <1>1, <1>3, <2>1 DEF Line
            <4>2. x # h
                BY <1>0, <1>1, Documents
            <4> QED
                BY <1>1, <2>3, <4>1, <4>2 DEF Cut, Unseen, Line
        <3> QED
            BY <1>2, <2>1, <2>3, <3>1 DEF Cut, Unseen
    <2>4. parent[h] = None => Cut(h)
        BY <1>0, Documents DEF Cut, Unseen
    <2>5. ASSUME Brought(h)
          PROVE  Expected(k)'
        <3>1. PICK j \in DOMAIN queue : Tells(j, "added", Ancestors(h)) /\ Unseen(Way(queue[j].node, h) \ {h})
            BY <2>5 DEF Brought
        <3>2. PICK m \in Nodes : m = queue[j].node
            BY RecordsMoveUp
        <3>3. j # 1 /\ m \in Line(k)
            BY <2>1, <3>1, <3>2 DEF Tells, Line
        <3>4. \A x \in Way(m, k) : x \notin Mapped'
            <4> SUFFICES ASSUME NEW x \in Way(m, k), x \in Mapped'
                         PROVE  FALSE
                OBVIOUS
            <4>1. x \in Line(h) /\ x \in Mapped /\ x # h
                BY <1>0, <1>1, <1>3, <2>1, Documents DEF Way
            <4>2. x \in Way(m, h)
                BY <4>1 DEF Way
            <4> QED
                BY <3>1, <3>2, <4>1, <4>2 DEF Unseen
        <3> QED
            BY <1>6, <3>1, <3>2, <3>3, <3>4, TheRestTells DEF Tells
    <2>6. \/ \E j \in DOMAIN queue : j > 1 /\ queue[j].kind = "added" /\ queue[j].node = h
          \/ parent[h] = None
          \/ Cut(h) \/ Brought(h)
        BY <1>0 DEF Told, RemovedComeBack, Tells
    <2> QED
        BY <2>2, <2>3, <2>4, <2>5, <2>6
<1>7. MissingAreExpected'
    <2> SUFFICES ASSUME NEW k \in Nodes, k \notin Mapped', k \notin blanked
                 PROVE  Expected(k)' \/ Cut(k)'
        BY <1>0 DEF MissingAreExpected
    <2>1. CASE k \in Subtree(h)
        BY <1>6, <2>1
    <2>2. CASE k \notin Subtree(h)
        <3>1. Expected(k) \/ Cut(k)
            BY <1>1, <2>2 DEF Told, MissingAreExpected
        <3>2. Cut(k) => Cut(k)'
            BY <1>1, <1>2 DEF Cut, Unseen
        <3>3. ASSUME Expected(k)
              PROVE  Expected(k)'
            <4>1. PICK i \in DOMAIN queue : Tells(i, "added", Line(k)) /\ Unseen(Way(queue[i].node, k))
                BY <3>3 DEF Expected
            <4>2. i # 1
                BY <4>1 DEF Tells
            <4>3. PICK m \in Line(k) : m = queue[i].node
                BY <4>1 DEF Tells
            <4>4. Way(m, k) \cap Mapped' = {}
                BY <1>1, <4>1, <4>3 DEF Unseen
            <4> QED
                BY <4>1, <4>2, <4>3, <4>4, TheRestTells DEF Tells
        <3> QED
            BY <3>1, <3>2, <3>3
    <2> QED
        BY <2>1, <2>2
<1>8. PlacesHold'
    <2> SUFFICES ASSUME NEW k \in Nodes, k \in Mapped', InDocument(k)
                 PROVE  InPlace(k)' \/ Doomed(k)'
        BY <1>2 DEF PlacesHold
    <2>1. InPlace(k) \/ Doomed(k)
        BY <1>1 DEF Told, PlacesHold
    <2>2. Doomed(k) => Doomed(k)'
        BY <1>1, <1>4
    <2>3. CASE parent[k] = Container /\ inside[Box(k)] = Root
        BY <1>0, <1>1, <2>3 DEF InPlace
    <2>4. CASE parent[k] \in Mapped /\ inside[Box(k)] = Box(parent[k])
        <3>1. parent[k] \notin Subtree(h)
            <4>1. k \notin Subtree(h)
                BY <1>1
            <4>2. parent[k] \in Nodes => parent[k] \in Line(k)
                BY <1>0, Documents DEF Line
            <4> QED
                BY <1>0, <1>3, <2>4, <4>1, <4>2, Documents
        <3>2. PICK a \in Mapped : a = parent[k]
            BY <2>4
        <3>3. a \in Mapped' /\ Box(a)' = Box(a)
            BY <1>1, <3>1, <3>2
        <3>4. inside'[Box(k)'] = Box(a)' /\ parent'[k] = a
            BY <1>0, <1>1, <2>4, <3>2, <3>3
        <3> QED
            BY <3>2, <3>3, <3>4 DEF InPlace
    <2> QED
        BY <2>1, <2>2, <2>3, <2>4 DEF InPlace
<1>9. ContentHolds'
    <2> SUFFICES ASSUME NEW k \in Nodes, k \in Mapped', InDocument(k), k \in Texts \/ data[k] # Blank
                 PROVE  \/ shown[Box(k)] \in MayShow(k, data[k]) \/ Doomed(k)'
                        \/ \E i \in DOMAIN queue' : queue'[i].kind = "data" /\ queue'[i].node = k
        BY <1>0, <1>1, <1>2 DEF ContentHolds, Tells
    <2>1. shown[Box(k)] \in MayShow(k, data[k]) \/ Doomed(k) \/ \E i \in DOMAIN queue : Tells(i, "data", {k})
        BY <1>1 DEF Told, ContentHolds
    <2> QED
        BY <1>1, <1>4, <2>1, TheRestTells DEF Tells
<1> QED
    BY <1>5, <1>7, <1>8, <1>9, HandledInOrder DEF Told

(* What a new box shows, and what a change puts there, is what it may show. *)
LEMMA ContentsMayShow ==
    \A k \in Nodes : Contents[k] \in MayShow(k, data[k]) /\ data[k] \in MayShow(k, data[k])
BY DEF Contents, MayShow

(* Trimming leaves a content one. *)
LEMMA ContentsAreData == data \in [Nodes -> Data] => \A k \in Nodes : Contents[k] \in Data
<1>1. Trim \in [Data -> Data]
    BY DistinctNodes DEF Data
<1> QED
    BY <1>1 DEF Contents, Content

(* A changed node's box shows what the node holds now, blanks and all.     *)
LEMMA ContentKeepsTold ==
    ASSUME Told, Handled, BoxesAreThere, queue[1].kind = "data",
           NEW h, h = queue[1].node, map' = map, inside' = inside,
           shown' = IF h \in Mapped /\ (h \in Texts \/ data[h] # Blank)
                    THEN [shown EXCEPT ![Box(h)] = data[h]] ELSE shown
    PROVE  Told'
<1>0. /\ h \in Nodes /\ 1 \in DOMAIN queue /\ parent' = parent /\ data' = data /\ blanked' = blanked
    BY RecordsMoveUp DEF Handled
<1>1. /\ \A k : /\ Line(k)' = Line(k) /\ Ancestors(k)' = Ancestors(k)
                /\ (InDocument(k))' <=> InDocument(k)
      /\ \A m, k : Way(m, k)' = Way(m, k)
      /\ Mapped' = Mapped /\ \A k : Box(k)' = Box(k)
    BY <1>0, SameTree DEF Mapped, Box
<1>2. \A k \in Nodes : (Doomed(k) => Doomed(k)') /\ (InPlace(k) => InPlace(k)')
    BY <1>0, <1>1, TheRestTells DEF Tells, InPlace
<1>3. GoneAreDoomed'
    BY <1>1, <1>2 DEF Told, GoneAreDoomed
<1>4. MissingAreExpected'
    <2> SUFFICES ASSUME NEW k \in Nodes, k \notin Mapped, k \notin blanked
                 PROVE  Expected(k)' \/ Cut(k)'
        BY <1>0, <1>1 DEF MissingAreExpected
    <2>1. Cut(k) => Cut(k)'
        BY <1>1 DEF Cut, Unseen
    <2>2. ASSUME Expected(k)
          PROVE  Expected(k)'
        <3>1. PICK i \in DOMAIN queue : Tells(i, "added", Line(k)) /\ Unseen(Way(queue[i].node, k))
            BY <2>2 DEF Expected
        <3>2. i # 1
            BY <3>1 DEF Tells
        <3> QED
            BY <1>1, <3>1, <3>2, TheRestTells DEF Tells, Unseen
    <2> QED
        BY <2>1, <2>2 DEF Told, MissingAreExpected
<1>5. PlacesHold'
    BY <1>1, <1>2 DEF Told, PlacesHold
<1>6. ContentHolds'
    <2> SUFFICES ASSUME NEW k \in Nodes, k \in Mapped, InDocument(k), k \in Texts \/ data[k] # Blank
                 PROVE  \/ shown'[Box(k)] \in MayShow(k, data[k]) \/ Doomed(k)'
                        \/ \E i \in DOMAIN queue' : queue'[i].kind = "data" /\ queue'[i].node = k
        BY <1>0, <1>1 DEF ContentHolds, Tells
    <2>1. CASE k = h
        BY <2>1, ContentsMayShow DEF BoxesAreThere
    <2>2. CASE k # h
        <3>1. shown'[Box(k)] = shown[Box(k)]
            <4>1. Box(k) # Box(h) /\ Box(k) \in DOMAIN shown
                BY <2>2 DEF Box, BoxesAreThere
            <4> QED
                BY <4>1
        <3>2. ~Tells(1, "data", {k})
            BY <2>2 DEF Tells
        <3> QED
            BY <1>2, <3>1, <3>2, TheRestTells DEF Told, ContentHolds
    <2> QED
        BY <2>1, <2>2
<1> QED
    BY <1>3, <1>4, <1>5, <1>6, HandledInOrder DEF Told

-----------------------------------------------------------------------------
(* Nodes get boxes.                                                        *)

BoxesOf(k) == {b \in Boxes : b[1] = k}
BoxesAreNumbered == /\ \A k \in Nodes : IsFiniteSet(BoxesOf(k))
                    /\ \A b \in Boxes : b[1] \in Nodes /\ b[2] \in 1 .. Made(b[1])

LEMMA MadeIsNat ==
    ASSUME BoxesAreNumbered
    PROVE  \A k \in Nodes : Made(k) \in Nat /\ <<k, Made(k) + 1>> \notin Boxes
<1> SUFFICES ASSUME NEW k \in Nodes
             PROVE  Made(k) \in Nat /\ <<k, Made(k) + 1>> \notin Boxes
    OBVIOUS
<1>1. Made(k) \in Nat
    <2>1. IsFiniteSet(BoxesOf(k)) /\ Made(k) = Cardinality(BoxesOf(k))
        BY DEF BoxesAreNumbered, Made, BoxesOf
    <2> QED
        BY <2>1, FS_CardinalityType
<1>2. ASSUME <<k, Made(k) + 1>> \in Boxes
      PROVE  FALSE
    <2> DEFINE m == Made(k)
               b == <<k, m + 1>>
    <2>1. b[1] = k /\ b[2] = m + 1
        OBVIOUS
    <2>2. b[2] \in 1..m
        BY <1>2, <2>1 DEF BoxesAreNumbered
    <2>3. m \in Nat
        BY <1>1
    <2> HIDE DEF m
    <2> QED
        BY <2>1, <2>2, <2>3
<1> QED
    BY <1>1, <1>2

LEMMA AddingKeepsOthers ==
    ASSUME NEW new \in SUBSET Nodes, new \cap Mapped = {}, AddNodes(new),
           BoxesAreThere, BoxesAreNumbered, parent \in Trees, IsForest
    PROVE  /\ Mapped' = Mapped \cup new
           /\ \A k \in Mapped : /\ Box(k)' = Box(k) /\ Box(k) \in Boxes
                                /\ inside'[Box(k)] = inside[Box(k)] /\ shown'[Box(k)] = shown[Box(k)]
           /\ \A k \in new :
                 /\ shown'[Box(k)'] \in MayShow(k, data[k])
                 /\ parent[k] = Container => inside'[Box(k)'] = Root
                 /\ \A a \in (Mapped \cup new) \cap Elements :
                       parent[k] = a => inside'[Box(k)'] = Box(a)'
<1> DEFINE place(k) == LET a == Nearest(k, Mapped \cup new) IN IF a = Root THEN Root ELSE <<a, map'[a]>>
           more == {<<k, Made(k) + 1>> : k \in new}
<1>1. map' = [k \in Nodes |-> IF k \in new THEN Made(k) + 1 ELSE map[k]]
    BY DEF AddNodes
<1>2. /\ inside' = WithBoxes(new, inside, [k \in new |-> place(k)])
      /\ shown' = WithBoxes(new, shown, Contents)
    BY DEF AddNodes
<1> HIDE DEF place
<1>3. \A k \in Nodes : Made(k) \in Nat /\ <<k, Made(k) + 1>> \notin Boxes
    BY MadeIsNat
<1>4. Mapped' = Mapped \cup new
    <2>1. \A k \in Nodes : Made(k) + 1 # 0
        <3> SUFFICES ASSUME NEW k \in Nodes
                     PROVE  Made(k) + 1 # 0
            OBVIOUS
        <3>1. Made(k) \in Nat
            BY <1>3
        <3> QED
            BY <3>1
    <2>2. \A k \in Nodes : map'[k] # 0 <=> k \in new \/ map[k] # 0
        BY <1>1, <2>1
    <2> QED
        BY <2>2 DEF Mapped
<1>5. ASSUME NEW k \in Mapped
      PROVE  /\ Box(k)' = Box(k) /\ Box(k) \in Boxes
             /\ inside'[Box(k)] = inside[Box(k)] /\ shown'[Box(k)] = shown[Box(k)]
    <2>1. map'[k] = map[k]
        BY <1>1, <1>5 DEF Mapped
    <2>2. Box(k)' = Box(k) /\ Box(k) \in Boxes
        BY <2>1 DEF Box, BoxesAreThere
    <2> QED
        BY <1>2, <2>2 DEF WithBoxes
<1>6. ASSUME NEW k \in new
      PROVE  /\ Box(k)' = <<k, Made(k) + 1>>
             /\ inside'[Box(k)'] = place(k) /\ shown'[Box(k)'] = Contents[k]
    <2>1. Box(k)' = <<k, Made(k) + 1>> /\ Box(k)' \notin Boxes /\ Box(k)' \in more
        BY <1>1, <1>3 DEF Box
    <2>2. Box(k)'[1] = k
        BY <2>1
    <2> QED
        BY <1>2, <2>1, <2>2 DEF WithBoxes
<1>7. ASSUME NEW k \in new, parent[k] = Container
      PROVE  place(k) = Root
    <2>1. Ancestors(k) = {Container} /\ Container \notin Elements
        BY <1>7, Documents DEF Nodes
    <2> QED
        BY <2>1, NearestIsThere DEF place
<1>8. ASSUME NEW k \in new, NEW a \in (Mapped \cup new) \cap Elements, parent[k] = a
      PROVE  place(k) = Box(a)'
    <2>1. a # Root
        BY DistinctNodes
    <2>2. Nearest(k, Mapped \cup new) = a
        BY <1>8, NearestIsThere
    <2> QED
        BY <2>1, <2>2 DEF place, Box
<1>9. \A k \in new : shown'[Box(k)'] \in MayShow(k, data[k])
    BY <1>6, ContentsMayShow
<1> QED
    BY <1>4, <1>5, <1>6, <1>7, <1>8, <1>9

(* The nodes that get a box below h: with each its parent, if it is not h. *)
LEMMA FreshNodes ==
    ASSUME parent \in Trees, IsForest, NEW h \in Nodes
    PROVE  /\ Fresh(h) \subseteq Subtree(h) /\ Subtree(h) \subseteq Nodes
           /\ \A x \in Fresh(h) : x \notin Mapped
           /\ \A x \in Fresh(h), y \in Mapped \cap Subtree(h) : y \notin Line(x)
           /\ \A k \in Fresh(h) \ {h} : parent[k] \in Fresh(h) \cap Elements
           /\ \A k \in Subtree(h) :
                 Shows(k) /\ k \notin Mapped /\ k \notin Fresh(h) =>
                    \E y \in Mapped : y \in Ancestors(k) \cap Subtree(h)
<1>1. ASSUME NEW k \in Fresh(h) \ {h}
      PROVE  parent[k] \in Fresh(h) \cap Elements
    <2>1. k \in Nodes /\ h \in Ancestors(k) /\ Mapped \cap (Ancestors(k) \cap Subtree(h)) = {}
        BY DEF Fresh, Subtree
    <2>2. parent[k] \in Elements /\ parent[k] \in Nodes
        <3>1. parent[k] \in {None, Container} \cup Elements /\ Container \notin Nodes
            BY <2>1, Documents
        <3> QED
            BY <2>1, <3>1, Documents DEF Nodes
    <2>3. Ancestors(k) = Line(parent[k])
        BY <2>1, <2>2, Documents
    <2>4. parent[k] \in Subtree(h)
        BY <2>1, <2>2, <2>3, Documents
    <2> QED
        BY <2>1, <2>2, <2>3, <2>4 DEF Fresh, Shows, Line
<1>2. Subtree(h) \subseteq Nodes
    BY DEF Subtree
<1> QED
    BY <1>1, <1>2 DEF Fresh, Line

(* A node and all below it get boxes, unless there is one above them.      *)
LEMMA AddedKeepsTold ==
    ASSUME Told, Handled, BoxesAreThere, BoxesAreNumbered, queue[1].kind = "added",
           \A t \in Texts \ blanked : data[t] # Blank,
           NEW h, h = queue[1].node, AddNodes(Fresh(h))
    PROVE  Told'
<1>0. /\ h \in Nodes /\ 1 \in DOMAIN queue /\ parent \in Trees /\ IsForest /\ blanked \subseteq Texts
      /\ parent' = parent /\ data' = data /\ blanked' = blanked
    BY RecordsMoveUp DEF Handled
<1>1. /\ Fresh(h) \subseteq Subtree(h) /\ Subtree(h) \subseteq Nodes
      /\ \A x \in Fresh(h) : x \notin Mapped
      /\ \A x \in Fresh(h), y \in Mapped \cap Subtree(h) : y \notin Line(x)
      /\ \A k \in Fresh(h) \ {h} : parent[k] \in Fresh(h) \cap Elements
      /\ \A k \in Subtree(h) :
            Shows(k) /\ k \notin Mapped /\ k \notin Fresh(h) =>
               \E y \in Mapped : y \in Ancestors(k) \cap Subtree(h)
    BY <1>0, FreshNodes
<1>2. /\ Mapped' = Mapped \cup Fresh(h)
      /\ \A k \in Mapped : /\ Box(k)' = Box(k) /\ Box(k) \in Boxes
                           /\ inside'[Box(k)] = inside[Box(k)] /\ shown'[Box(k)] = shown[Box(k)]
      /\ \A k \in Fresh(h) :
            /\ shown'[Box(k)'] \in MayShow(k, data[k])
            /\ parent[k] = Container => inside'[Box(k)'] = Root
            /\ \A a \in (Mapped \cup Fresh(h)) \cap Elements :
                  parent[k] = a => inside'[Box(k)'] = Box(a)'
    <2>1. Fresh(h) \in SUBSET Nodes /\ Fresh(h) \cap Mapped = {}
        BY <1>1
    <2> QED
        BY <1>0, <2>1, AddingKeepsOthers
<1>3. /\ \A k : /\ Line(k)' = Line(k) /\ Ancestors(k)' = Ancestors(k)
                /\ (InDocument(k))' <=> InDocument(k)
      /\ \A m, k : Way(m, k)' = Way(m, k)
    BY <1>0, SameTree
<1>4. \A k \in Nodes : Doomed(k) => Doomed(k)'
    BY TheRestTells DEF Tells
<1>5. Mapped \subseteq Nodes
    BY DEF Mapped
<1>6. GoneAreDoomed'
    <2> SUFFICES ASSUME NEW k \in Nodes, k \in Mapped', ~InDocument(k)
                 PROVE  Doomed(k)'
        BY <1>3 DEF GoneAreDoomed
    <2>1. CASE k \in Mapped
        BY <1>4, <2>1 DEF Told, GoneAreDoomed
    <2>2. CASE k \in Fresh(h)
        <3>1. h \in Line(k)
            BY <1>0, <1>1, <2>2, Documents
        <3>2. DoomedAfter(k, 1)
            BY <1>0, <3>1 DEF Told, GoneStayGone, Tells
        <3> QED
            BY <3>2, TheRestTells
    <2> QED
        BY <1>2, <2>1, <2>2
<1>7. ASSUME NEW k \in Nodes, k \notin Mapped', k \notin blanked
      PROVE  Expected(k)' \/ Cut(k)'
    <2>1. Expected(k) \/ Cut(k)
        BY <1>2, <1>7 DEF Told, MissingAreExpected
    <2>2. Shows(k)
        BY <1>7 DEF Shows, Nodes
    <2>3. CASE k \notin Subtree(h)
        <3>1. h \notin Line(k) /\ \A x \in Line(k) : x \notin Fresh(h)
            BY <1>0, <1>1, <2>3, Documents
        <3>2. ASSUME Expected(k)
              PROVE  Expected(k)'
            <4>1. PICK i \in DOMAIN queue : Tells(i, "added", Line(k)) /\ Unseen(Way(queue[i].node, k))
                BY <3>2 DEF Expected
            <4>2. i # 1
                BY <3>1, <4>1 DEF Tells
            <4>3. PICK m \in Line(k) : m = queue[i].node
                BY <4>1 DEF Tells
            <4>4. Way(m, k) \cap Mapped' = {}
                BY <1>2, <3>1, <4>1, <4>3 DEF Unseen, Way
            <4> QED
                BY <4>1, <4>2, <4>3, <4>4, TheRestTells DEF Tells
        <3>3. Cut(k) => Cut(k)'
            BY <1>2, <1>3, <3>1 DEF Cut, Unseen, Line
        <3> QED
            BY <2>1, <3>2, <3>3
    <2>4. CASE k \in Subtree(h)
        <3>1. PICK y \in Mapped : y \in Ancestors(k) \cap Subtree(h)
            BY <1>1, <1>2, <1>7, <2>2, <2>4
        <3>2. Expected(k)
            BY <2>1, <3>1 DEF Cut, Unseen
        <3>3. PICK i \in DOMAIN queue : Tells(i, "added", Line(k)) /\ Unseen(Way(queue[i].node, k))
            BY <3>2 DEF Expected
        <3>4. PICK m \in Line(k) \cap Nodes : m = queue[i].node
            BY <3>3, RecordsMoveUp DEF Tells
        <3>5. y \in Nodes /\ y \in Line(k)
            BY <1>5, <3>1 DEF Line
        <3>6. m \notin Line(y)
            <4> SUFFICES ASSUME m \in Line(y)
                         PROVE  FALSE
                OBVIOUS
            <4>1. y \in Way(m, k)
                BY <3>5 DEF Way
            <4> QED
                BY <3>3, <3>4, <4>1 DEF Unseen
        <3>7. y \in Line(m)
            BY <1>0, <3>5, <3>6, Documents
        <3>8. i # 1
            BY <1>0, <3>1, <3>4, <3>5, <3>6, Documents
        <3>9. \A x \in Way(m, k) : x \notin Fresh(h)
            <4> SUFFICES ASSUME NEW x \in Way(m, k), x \in Fresh(h)
                         PROVE  FALSE
                OBVIOUS
            <4>1. y \in Line(x)
                BY <1>0, <3>7, Documents DEF Way
            <4> QED
                BY <1>1, <3>1, <4>1
        <3>10. Way(m, k) \cap Mapped' = {}
            BY <1>2, <3>3, <3>4, <3>9 DEF Unseen
        <3> QED
            BY <3>3, <3>4, <3>8, <3>10, TheRestTells DEF Tells
    <2> QED
        BY <2>3, <2>4
<1>8. MissingAreExpected'
    BY <1>0, <1>7 DEF MissingAreExpected
<1>9. ASSUME NEW k \in Fresh(h), NEW a \in (Mapped \cup Fresh(h)) \cap Elements, parent[k] = a
      PROVE  InPlace(k)'
    BY <1>0, <1>2, <1>9 DEF InPlace
<1>10. PlacesHold'
    <2> SUFFICES ASSUME NEW k \in Nodes, k \in Mapped', InDocument(k)
                 PROVE  InPlace(k)' \/ Doomed(k)'
        BY <1>3 DEF PlacesHold
    <2>1. CASE k \in Mapped
        <3>1. InPlace(k) => InPlace(k)'
            BY <1>0, <1>2, <2>1 DEF InPlace
        <3> QED
            BY <1>4, <2>1, <3>1 DEF Told, PlacesHold
    <2>2. CASE k \in Fresh(h) \ {h}
        BY <1>1, <1>9, <2>2
    <2>3. CASE k \in Fresh(h) /\ k = h
        <3>1. parent[h] # None
            BY <2>3, <1>0, Documents
        <3>2. CASE parent[h] = Container
            BY <1>0, <1>2, <2>3, <3>2 DEF InPlace
        <3>3. CASE parent[h] \in Mapped /\ parent[h] \in Elements
            BY <1>9, <2>3, <3>3
        <3>4. CASE parent[h] \notin Mapped /\ parent[h] \in Elements
            <4>1. PICK a \in Nodes : a = parent[h] /\ a \in Elements /\ a \notin blanked /\ Ancestors(h) = Line(a)
                BY <1>0, <3>4, Documents, DistinctNodes DEF Nodes
            <4>2. InDocument(a)
                BY <1>0, <2>3, <4>1, TreesAreInDocument DEF Line
            <4>3. Expected(a)
                BY <3>4, <4>1, <4>2 DEF Told, MissingAreExpected, Cut
            <4>4. PICK i \in DOMAIN queue : Tells(i, "added", Ancestors(h))
                BY <4>1, <4>3 DEF Expected
            <4>5. i # 1
                BY <1>0, <4>4, Documents DEF Tells
            <4>6. 1 < i
                BY <4>5, RecordsAreRecords DEF Handled
            <4>7. DoomedAfter(h, 1)
                BY <1>0, <2>3, <4>4, <4>6 DEF Told, AddedInOrder, Tells
            <4> QED
                BY <2>3, <4>7, TheRestTells
        <3> QED
            BY <1>0, <3>1, <3>2, <3>3, <3>4, Documents
    <2> QED
        BY <1>2, <2>1, <2>2, <2>3
<1>11. ContentHolds'
    <2> SUFFICES ASSUME NEW k \in Nodes, k \in Mapped', InDocument(k), k \in Texts \/ data[k] # Blank
                 PROVE  \/ shown'[Box(k)'] \in MayShow(k, data[k]) \/ Doomed(k)'
                        \/ \E i \in DOMAIN queue' : queue'[i].kind = "data" /\ queue'[i].node = k
        BY <1>0, <1>3 DEF ContentHolds, Tells
    <2>1. CASE k \in Mapped
        <3>1. shown[Box(k)] \in MayShow(k, data[k]) \/ Doomed(k) \/ \E i \in DOMAIN queue : Tells(i, "data", {k})
            BY <2>1 DEF Told, ContentHolds
        <3> QED
            BY <1>2, <1>4, <2>1, <3>1, TheRestTells DEF Tells
    <2> QED
        BY <1>2, <2>1
<1> QED
    BY <1>6, <1>8, <1>10, <1>11, HandledInOrder DEF Told

(* With no records to handle, what is in the document gets its boxes: all  *)
(* of it when there were none, nothing when nothing was missing.           *)
LEMMA ExistingKeepsTold ==
    ASSUME parent \in Trees, IsForest, queue = <<>>, blanked \subseteq Texts,
           Mapped = {} \/ Told, BoxesAreThere, BoxesAreNumbered,
           \A t \in Texts \ blanked : data[t] # Blank,
           NEW new, new = UNION {Fresh(n) : n \in {k \in Nodes : parent[k] = Container}},
           AddNodes(new), UNCHANGED <<parent, data, queue, blanked>>
    PROVE  Told'
<1>1. ASSUME NEW k \in new
      PROVE  \E n \in Nodes : k \in Fresh(n) /\ k \in Subtree(n) /\ parent[n] = Container
    BY FreshNodes
<1>2. new \in SUBSET Nodes /\ new \cap Mapped = {}
    BY FreshNodes
<1>3. /\ Mapped' = Mapped \cup new
      /\ \A k \in Mapped : /\ Box(k)' = Box(k) /\ Box(k) \in Boxes
                           /\ inside'[Box(k)] = inside[Box(k)] /\ shown'[Box(k)] = shown[Box(k)]
      /\ \A k \in new :
            /\ shown'[Box(k)'] \in MayShow(k, data[k])
            /\ parent[k] = Container => inside'[Box(k)'] = Root
            /\ \A a \in (Mapped \cup new) \cap Elements :
                  parent[k] = a => inside'[Box(k)'] = Box(a)'
    BY <1>2, AddingKeepsOthers
<1>4. \A k : /\ Line(k)' = Line(k) /\ Ancestors(k)' = Ancestors(k)
             /\ (InDocument(k))' <=> InDocument(k)
    BY SameTree
<1>5. queue' = <<>> /\ DOMAIN queue' = {} /\ DOMAIN queue = {}
    OBVIOUS
<1>6. \A k : ~Doomed(k) /\ ~Expected(k)
    BY <1>5 DEF Doomed, Expected
<1>7. ASSUME NEW k \in new
      PROVE  InDocument(k)
    <2>1. PICK n \in Nodes : k \in Fresh(n) /\ k \in Subtree(n) /\ parent[n] = Container
        BY <1>1
    <2>2. InDocument(n) /\ n \in Line(k) /\ k \in Nodes
        BY <1>2, <2>1, Documents
    <2> QED
        BY <2>2, TreesAreInDocument
<1>8. Mapped \subseteq Nodes
    BY DEF Mapped
<1>9. GoneAreDoomed'
    <2> SUFFICES ASSUME NEW k \in Nodes, k \in Mapped', ~InDocument(k)
                 PROVE  FALSE
        BY <1>4 DEF GoneAreDoomed
    <2> QED
        BY <1>3, <1>6, <1>7 DEF Told, GoneAreDoomed
<1>10. GoneStayGone' /\ RemovedComeBack' /\ AddedInOrder'
    BY <1>5 DEF GoneStayGone, RemovedComeBack, AddedInOrder
<1>11. MissingAreExpected'
    <2> SUFFICES ASSUME NEW k \in Nodes, k \notin Mapped', k \notin blanked
                 PROVE  ~InDocument(k) /\ \A x \in Ancestors(k) : x \notin Mapped'
        BY <1>4 DEF MissingAreExpected, Cut, Unseen
    <2>1. ~InDocument(k) /\ \A x \in Ancestors(k) : x \notin Mapped
        <3>1. CASE Mapped = {}
            <4> SUFFICES ASSUME InDocument(k)
                         PROVE  FALSE
                BY <3>1
            <4>1. PICK n \in Nodes : n \in Line(k) /\ parent[n] = Container
                BY ChildOfTheContainer
            <4>2. k \in Subtree(n) /\ Shows(k)
                BY <4>1, Documents DEF Shows, Nodes
            <4>3. k \in Fresh(n)
                BY <3>1, <4>2 DEF Fresh
            <4> QED
                BY <1>3, <4>1, <4>3
        <3>2. CASE Told
            BY <1>3, <1>6, <3>2 DEF Told, MissingAreExpected, Cut, Unseen
        <3> QED
            BY <3>1, <3>2
    <2>2. \A x \in Ancestors(k) : x \notin new
        BY <1>2, <1>7, <2>1, TreesAreInDocument DEF Line
    <2> QED
        BY <1>3, <2>1, <2>2
<1>12. PlacesHold'
    <2> SUFFICES ASSUME NEW k \in Nodes, k \in Mapped', InDocument(k)
                 PROVE  InPlace(k)'
        BY <1>4 DEF PlacesHold
    <2>1. CASE k \in Mapped
        <3>1. InPlace(k)
            BY <1>6, <2>1 DEF Told, PlacesHold
        <3> QED
            BY <1>3, <2>1, <3>1 DEF InPlace
    <2>2. CASE k \in new
        <3>1. PICK n \in Nodes : k \in Fresh(n) /\ parent[n] = Container
            BY <1>1, <2>2
        <3>2. CASE parent[k] = Container
            BY <1>3, <2>2, <3>2 DEF InPlace
        <3>3. CASE k # n
            <4>1. parent[k] \in Fresh(n) \cap Elements
                BY <3>1, <3>3, FreshNodes
            <4>2. PICK a \in new \cap Elements : a = parent[k]
                BY <3>1, <4>1
            <4> QED
                BY <1>3, <2>2, <4>2 DEF InPlace
        <3> QED
            BY <3>1, <3>2, <3>3
    <2> QED
        BY <1>3, <2>1, <2>2
<1>13. ContentHolds'
    <2> SUFFICES ASSUME NEW k \in Nodes, k \in Mapped', InDocument(k), k \in Texts \/ data[k] # Blank
                 PROVE  shown'[Box(k)'] \in MayShow(k, data[k])
        BY <1>4 DEF ContentHolds, Tells
    <2>1. CASE k \in Mapped
        BY <1>3, <1>5, <1>6, <2>1 DEF Told, ContentHolds
    <2> QED
        BY <1>3, <2>1
<1> QED
    BY <1>9, <1>10, <1>11, <1>12, <1>13 DEF Told

-----------------------------------------------------------------------------
(* What the variables hold.                                                *)

(* The boxes and the map, after a node got one or some lost theirs.        *)
BoxTypes == /\ BoxesAreThere /\ BoxesAreNumbered
            /\ \A b \in Boxes : inside[b] \in Boxes \cup {Root, Nowhere} /\ shown[b] \in Data

Types == /\ parent \in Trees /\ IsForest /\ data \in [Nodes -> Data]
         /\ observer \in BOOLEAN /\ delivering \in BOOLEAN
         /\ observer \/ queue = <<>>
         /\ delivering => queue # <<>>
         /\ queue \in Seq(Records)
         /\ changes \in 0 .. MaxChanges
         /\ synced \in BOOLEAN /\ blanked \subseteq Texts
         /\ BoxTypes
         /\ \A t \in Texts \ blanked : data[t] # Blank

LEMMA TypesAre == Types => TypeOK
BY DEF Types, TypeOK, BoxTypes, Trees, Records, Kinds, BoxesAreThere, BoxesAreNumbered

LEMMA TypesInit == Init => Types
<1> SUFFICES ASSUME Init
             PROVE  Types
    OBVIOUS
<1>1. Boxes = {} /\ DOMAIN shown = {} /\ Mapped = {} /\ map \in [Nodes -> Nat]
    BY DEF Init, Boxes, Mapped
<1>2. BoxesAreThere
    BY <1>1 DEF BoxesAreThere
<1>3. BoxesAreNumbered
    <2>1. \A k : BoxesOf(k) = {}
        BY <1>1 DEF BoxesOf
    <2> QED
        BY <1>1, <2>1, FS_EmptySet DEF BoxesAreNumbered
<1>4. data \in [Nodes -> Data] /\ MaxChanges \in Nat
    BY DistinctNodes DEF Init, Nodes, Data
<1>5. synced \in BOOLEAN /\ queue \in Seq(Records)
    BY DEF Init
<1>6. blanked \subseteq Texts /\ \A t \in Texts \ blanked : data[t] # Blank
    BY DEF Init
<1>7. changes \in 0 .. MaxChanges
    BY <1>4 DEF Init
<1>8. BoxTypes
    BY <1>1, <1>2, <1>3 DEF BoxTypes
<1>9. parent \in Trees /\ IsForest /\ observer \in BOOLEAN /\ delivering = FALSE /\ queue = <<>>
    BY DEF Init, Trees
<1> QED
    BY <1>4, <1>5, <1>6, <1>7, <1>8, <1>9 DEF Types

LEMMA RemovingKeepsBoxTypes ==
    ASSUME BoxTypes, NEW h \in Nodes, RemoveNode(h)
    PROVE  BoxTypes'
<1>1. /\ Mapped' = Mapped \ Subtree(h)
      /\ \A k \in Mapped' : Box(k)' = Box(k) /\ Box(k) \in Boxes
      /\ shown' = shown /\ map' \in [Nodes -> Nat] /\ Boxes' = Boxes
      /\ \A b \in Boxes : inside'[b] \in {inside[b], Nowhere}
    BY RemovingKeepsOthers DEF BoxTypes, Boxes
<1>2. \A k : BoxesOf(k)' = BoxesOf(k) /\ Made(k)' = Made(k)
    BY <1>1 DEF BoxesOf, Made
<1> QED
    BY <1>1, <1>2 DEF BoxTypes, BoxesAreThere, BoxesAreNumbered

LEMMA AddingKeepsBoxTypes ==
    ASSUME BoxTypes, NEW new \in SUBSET Nodes, new \cap Mapped = {}, AddNodes(new),
           parent \in Trees, IsForest, data \in [Nodes -> Data]
    PROVE  BoxTypes'
<1> DEFINE place(k) == LET a == Nearest(k, Mapped \cup new) IN IF a = Root THEN Root ELSE <<a, map'[a]>>
           more == {<<k, Made(k) + 1>> : k \in new}
<1>1. map' = [k \in Nodes |-> IF k \in new THEN Made(k) + 1 ELSE map[k]]
    BY DEF AddNodes
<1>2. /\ inside' = [b \in Boxes \cup more |-> IF b \in Boxes THEN inside[b] ELSE [k \in new |-> place(k)][b[1]]]
      /\ shown' = [b \in Boxes \cup more |-> IF b \in Boxes THEN shown[b] ELSE Contents[b[1]]]
    BY DEF AddNodes, WithBoxes
<1>3. \A k \in Nodes : Made(k) \in Nat /\ <<k, Made(k) + 1>> \notin Boxes
    BY MadeIsNat DEF BoxTypes
<1>4. /\ Mapped' = Mapped \cup new
      /\ \A k \in Mapped : Box(k)' = Box(k) /\ Box(k) \in Boxes
    BY AddingKeepsOthers DEF BoxTypes
<1>5. Boxes' = Boxes \cup more /\ DOMAIN shown' = Boxes \cup more
    BY <1>2 DEF Boxes
<1>6. \A k \in new : Box(k)' \in more
    BY <1>1 DEF Box
<1>7. map' \in [Nodes -> Nat]
    <2>1. \A k \in Nodes : map'[k] \in Nat
        <3> SUFFICES ASSUME NEW k \in Nodes
                     PROVE  map'[k] \in Nat
            OBVIOUS
        <3>1. Made(k) \in Nat /\ map[k] \in Nat
            BY <1>3 DEF BoxTypes, BoxesAreThere
        <3> QED
            BY <1>1, <3>1
    <2> QED
        BY <1>1, <2>1
<1>8. BoxesAreThere'
    BY <1>4, <1>5, <1>6, <1>7 DEF BoxesAreThere
<1>9. \A b \in more : b[1] \in new /\ b = <<b[1], Made(b[1]) + 1>> /\ b[2] = Made(b[1]) + 1
    OBVIOUS
<1>10. ASSUME NEW k \in Nodes
       PROVE  /\ IsFiniteSet(BoxesOf(k)')
              /\ Made(k)' \in Nat /\ Made(k)' >= Made(k)
              /\ k \in new => Made(k)' = Made(k) + 1
    <2>1. IsFiniteSet(BoxesOf(k)) /\ Made(k) = Cardinality(BoxesOf(k)) /\ Made(k)' = Cardinality(BoxesOf(k)') /\ Made(k) \in Nat
        BY <1>3 DEF BoxTypes, BoxesAreNumbered, Made, BoxesOf
    <2>2. CASE k \in new
        <3> DEFINE b == <<k, Made(k) + 1>>
        <3>1. BoxesOf(k)' = BoxesOf(k) \cup {b}
            BY <1>5, <1>9, <2>2 DEF BoxesOf
        <3>2. b \notin BoxesOf(k)
            BY <1>3 DEF BoxesOf
        <3> HIDE DEF b
        <3>3. IsFiniteSet(BoxesOf(k)') /\ Made(k)' = Made(k) + 1
            BY <2>1, <3>1, <3>2, FS_AddElement
        <3> QED
            BY <2>1, <3>3
    <2>3. CASE k \notin new
        <3>1. BoxesOf(k)' = BoxesOf(k)
            BY <1>5, <1>9, <2>3 DEF BoxesOf
        <3>2. Made(k)' = Made(k)
            BY <2>1, <3>1
        <3> QED
            BY <2>1, <2>3, <3>1, <3>2
    <2> QED
        BY <2>2, <2>3
<1>11. BoxesAreNumbered'
    <2> SUFFICES ASSUME NEW b \in Boxes'
                 PROVE  b[1] \in Nodes /\ b[2] \in 1 .. Made(b[1])'
        BY <1>10 DEF BoxesAreNumbered
    <2>1. CASE b \in Boxes
        <3>1. b[1] \in Nodes /\ b[2] \in 1 .. Made(b[1])
            BY <2>1 DEF BoxTypes, BoxesAreNumbered
        <3>2. Made(b[1]) \in Nat /\ Made(b[1])' \in Nat /\ Made(b[1])' >= Made(b[1])
            BY <1>3, <1>10, <3>1
        <3> QED
            BY <3>1, <3>2
    <2>2. CASE b \in more
        <3>1. b[1] \in new /\ b[2] = Made(b[1]) + 1 /\ b[1] \in Nodes
            BY <1>9, <2>2
        <3>2. Made(b[1]) \in Nat /\ Made(b[1])' = Made(b[1]) + 1
            BY <1>3, <1>10, <3>1
        <3> QED
            BY <3>1, <3>2
    <2> QED
        BY <1>5, <2>1, <2>2
<1>12. ASSUME NEW k \in new
       PROVE  place(k) \in Boxes' \cup {Root, Nowhere}
    <2> DEFINE a == Nearest(k, Mapped \cup new)
    <2>1. a = Root \/ a \in Mapped \cup new
        BY NearestIsThere
    <2>2. \A c \in Mapped \cup new : <<c, map'[c]>> \in Boxes'
        <3>1. \A c \in Mapped \cup new : Box(c)' \in Boxes'
            BY <1>4, <1>5, <1>6
        <3> QED
            BY <3>1 DEF Box
    <2> QED
        BY <2>1, <2>2
<1>13. ASSUME NEW b \in Boxes'
       PROVE  inside'[b] \in Boxes' \cup {Root, Nowhere} /\ shown'[b] \in Data
    <2>1. CASE b \in Boxes
        BY <1>2, <1>5, <2>1 DEF BoxTypes
    <2>2. CASE b \notin Boxes
        <3>1. b \in more /\ b[1] \in new
            BY <1>5, <1>9, <2>2
        <3>2. inside'[b] = place(b[1]) /\ shown'[b] = Contents[b[1]]
            <4> HIDE DEF place
            <4> QED
                BY <1>2, <2>2, <3>1
        <3> HIDE DEF place
        <3>3. Contents[b[1]] \in Data
            BY <3>1, ContentsAreData
        <3> QED
            BY <1>12, <3>1, <3>2, <3>3
    <2> QED
        BY <2>1, <2>2
<1> QED
    BY <1>8, <1>11, <1>13 DEF BoxTypes

LEMMA BoxTypesStay ==
    ASSUME BoxTypes, map' = map, inside' = inside, DOMAIN shown' = DOMAIN shown,
           \A b \in DOMAIN shown : shown'[b] \in Data
    PROVE  BoxTypes'
<1>1. Boxes' = Boxes /\ Mapped' = Mapped
    BY DEF Boxes, Mapped
<1>2. \A k : Box(k)' = Box(k) /\ BoxesOf(k)' = BoxesOf(k) /\ Made(k)' = Made(k)
    BY <1>1 DEF Box, BoxesOf, Made
<1>3. DOMAIN shown = Boxes
    BY DEF BoxTypes, BoxesAreThere
<1> QED
    BY <1>1, <1>2, <1>3 DEF BoxTypes, BoxesAreThere, BoxesAreNumbered

LEMMA ReportsAreRecords ==
    ASSUME NEW q \in Seq(Records), NEW t, NEW n \in Nodes, NEW kind \in Kinds, observer \/ q = <<>>
    PROVE  /\ q \o Reports(t, Record(kind, n)) \in Seq(Records) /\ q \o <<>> = q
           /\ observer \/ q \o Reports(t, Record(kind, n)) = <<>>
<1>1. Record(kind, n) \in Records
    BY DEF Record, Records
<1>2. Reports(t, Record(kind, n)) \in Seq(Records) /\ (observer \/ Reports(t, Record(kind, n)) = <<>>)
    BY <1>1 DEF Reports
<1> HIDE DEF Reports
<1> QED
    BY <1>2

(* removeChild, appendChild and insertBefore give a node a parent or none. *)
Moved(n, p) == \/ p = None /\ Remove(n)
               \/ p \in Parents /\ InsertNode(n, p)

LEMMA ScriptsMove ==
    ASSUME Types, NEW n \in Nodes, NEW p, Moved(n, p)
    PROVE  /\ GivesParent(n, p) /\ Change
           /\ queue' \in Seq(Records) /\ (observer \/ queue' = <<>>)
           /\ synced' => synced /\ MovesHeard(n, p)
           /\ synced' \in BOOLEAN
           /\ UNCHANGED <<data, observer, delivering, tui, blanked>>
<1> DEFINE from == parent[n]
           out == IF from # None THEN Reports(from, Record("removed", n)) ELSE <<>>
           into == IF p # None THEN Reports(p, Record("added", n)) ELSE <<>>
<1>0. /\ parent \in Trees /\ IsForest /\ queue \in Seq(Records) /\ (observer \/ queue = <<>>) /\ synced \in BOOLEAN
      /\ None \notin Parents /\ "removed" \in Kinds /\ "added" \in Kinds
    BY Documents DEF Types, Kinds
<1>1. CASE Remove(n) /\ p = None
    <2>1. /\ parent[n] # None /\ p = None /\ parent' = [parent EXCEPT ![n] = p]
          /\ queue' = queue \o Reports(from, Record("removed", n)) /\ Change
          /\ UNCHANGED <<data, observer, delivering, tui, blanked>>
          /\ synced' = (synced /\ ~Misses(from) /\ ~Unheard(from))
        BY <1>1 DEF Remove
    <2>2. GivesParent(n, p)
        BY <1>0, <2>1, DistinctNodes DEF GivesParent, Subtree, Nodes
    <2>3. queue' \in Seq(Records) /\ (observer \/ queue' = <<>>)
        BY <1>0, <2>1, ReportsAreRecords
    <2>4. ASSUME synced'
          PROVE  synced /\ MovesHeard(n, p)
        <3>1. synced /\ ~Misses(from) /\ ~Unheard(from)
            BY <2>1, <2>4
        <3>2. Reports(from, Record("removed", n)) = IF InDoc(from) THEN <<Record("removed", n)>> ELSE <<>>
            BY <2>1, <3>1 DEF Reports, Misses, InDoc
        <3>3. ~InDoc(from) => queue = <<>>
            BY <2>1, <3>1 DEF Unheard, InDoc
        <3>4. (IF InDoc(p) THEN <<Record("added", n)>> ELSE <<>>) = <<>>
            BY <2>1 DEF InDoc
        <3>5. queue' \o <<>> = queue'
            BY <2>3
        <3> QED
            BY <1>0, <2>1, <2>2, <3>1, <3>2, <3>3, <3>4, <3>5 DEF MovesHeard, tui
    <2> QED
        BY <2>1, <2>2, <2>3, <2>4
<1>2. CASE p \in Parents /\ InsertNode(n, p)
    <2>1. /\ p # None /\ p \notin Subtree(n) /\ parent' = [parent EXCEPT ![n] = p]
          /\ queue' = queue \o out \o into /\ Change
          /\ UNCHANGED <<data, observer, delivering, tui, blanked>>
          /\ synced' = (/\ synced
                        /\ from # None => ~Misses(from) /\ ~Unheard(from)
                        /\ ~Misses(p) /\ ~Unheard(p))
        BY <1>0, <1>2 DEF InsertNode
    <2>2. GivesParent(n, p)
        BY <1>0, <1>2, <2>1 DEF GivesParent
    <2>3. queue' \in Seq(Records) /\ (observer \/ queue' = <<>>)
        <3>1. queue \o out \in Seq(Records) /\ (observer \/ queue \o out = <<>>)
            BY <1>0, ReportsAreRecords
        <3> HIDE DEF out
        <3>2. queue \o out \o into \in Seq(Records) /\ (observer \/ queue \o out \o into = <<>>)
            BY <1>0, <2>1, <3>1, ReportsAreRecords
        <3> QED
            BY <2>1, <3>2
    <2>4. ASSUME synced'
          PROVE  synced /\ MovesHeard(n, p)
        <3>1. /\ synced /\ (from # None => ~Misses(from) /\ ~Unheard(from))
              /\ ~Misses(p) /\ ~Unheard(p)
            BY <2>1, <2>4
        <3>2. out = IF InDoc(from) THEN <<Record("removed", n)>> ELSE <<>>
            BY <2>1, <3>1 DEF Reports, Misses, InDoc
        <3>3. into = IF InDoc(p) THEN <<Record("added", n)>> ELSE <<>>
            BY <2>1, <3>1 DEF Reports, Misses, InDoc
        <3>4. (from # None /\ ~InDoc(from) => queue = <<>>) /\ (p # None /\ ~InDoc(p) => queue = <<>>)
            BY <2>1, <3>1 DEF Unheard, InDoc
        <3> QED
            BY <1>0, <2>1, <2>2, <3>1, <3>2, <3>3, <3>4 DEF MovesHeard, tui
    <2> QED
        BY <2>1, <2>2, <2>3, <2>4
<1> QED
    BY <1>1, <1>2 DEF Moved

LEMMA HandlingHandles ==
    ASSUME Types, NEW kind, Handling(kind)
    PROVE  /\ Handled /\ Head(queue) = queue[1] /\ queue[1].kind = kind /\ queue[1].node \in Nodes
           /\ queue' \in Seq(Records) /\ delivering' \in BOOLEAN /\ (delivering' => queue' # <<>>)
           /\ observer
           /\ UNCHANGED <<dom, observer, changes, synced, blanked>>
<1>1. /\ queue \in Seq(Records) /\ queue # <<>> /\ (observer \/ queue = <<>>)
      /\ parent \in Trees /\ IsForest /\ blanked \subseteq Texts
    BY DEF Types, Handling
<1>2. Head(queue) = queue[1] /\ 1 \in DOMAIN queue /\ Tail(queue) \in Seq(Records)
    BY <1>1, TheRest
<1>3. queue[1].node \in Nodes
    BY <1>1, <1>2, RecordsAreRecords
<1> QED
    BY <1>1, <1>2, <1>3 DEF Handling, Handled, dom

(* The nodes processExistingChildren gives boxes to.                       *)
Existing == UNION {Fresh(n) : n \in {k \in Nodes : parent[k] = Container}}

LEMMA NewNodes ==
    ASSUME Types
    PROVE  /\ Existing \in SUBSET Nodes /\ Existing \cap Mapped = {}
           /\ \A h \in Nodes : Fresh(h) \in SUBSET Nodes /\ Fresh(h) \cap Mapped = {}
BY FreshNodes DEF Types, Existing

LEMMA StepsKeepTypes == Types /\ [Next]_vars => Types'
<1> SUFFICES ASSUME Types, [Next]_vars
             PROVE  Types'
    OBVIOUS
<1>0. /\ parent \in Trees /\ IsForest /\ data \in [Nodes -> Data]
      /\ observer \in BOOLEAN /\ delivering \in BOOLEAN
      /\ observer \/ queue = <<>>
      /\ delivering => queue # <<>>
      /\ queue \in Seq(Records)
      /\ changes \in 0 .. MaxChanges
      /\ synced \in BOOLEAN /\ blanked \subseteq Texts
      /\ BoxTypes
      /\ \A t \in Texts \ blanked : data[t] # Blank
    BY DEF Types
<1>1. map' = map /\ inside' = inside /\ shown' = shown => BoxTypes'
    BY <1>0, BoxTypesStay DEF BoxTypes, BoxesAreThere
<1>2. parent' = parent => parent' \in Trees /\ IsForest'
    BY <1>0, SameTree
<1>3. Change => ~delivering /\ changes' \in 0 .. MaxChanges
    <2>1. MaxChanges \in Nat
        BY DistinctNodes
    <2> QED
        BY <1>0, <2>1 DEF Change, Script
<1>4. ASSUME NEW n \in Nodes, NEW p, Moved(n, p)
      PROVE  Types'
    <2>1. /\ GivesParent(n, p) /\ Change
          /\ queue' \in Seq(Records) /\ (observer \/ queue' = <<>>)
          /\ synced' \in BOOLEAN
          /\ UNCHANGED <<data, observer, delivering, tui, blanked>>
        BY <1>4, ScriptsMove
    <2>2. parent' \in Trees /\ IsForest'
        BY <2>1, TreesMove
    <2> QED
        BY <1>0, <1>1, <1>3, <2>1, <2>2 DEF Types, tui
<1>5. ASSUME NEW n \in Nodes, NEW v \in Data, SetData(n, v)
      PROVE  Types'
    <2>1. /\ Change /\ data' = [data EXCEPT ![n] = v] /\ queue' = queue \o Reports(n, Record("data", n))
          /\ synced' = (synced /\ ~Misses(n))
          /\ blanked' = blanked \cup ({n} \cap (IF v = Blank THEN Texts ELSE {}))
          /\ UNCHANGED <<parent, observer, delivering, tui>>
        BY <1>5 DEF SetData
    <2>2. queue' \in Seq(Records) /\ (observer \/ queue' = <<>>)
        BY <1>0, <2>1, ReportsAreRecords DEF Kinds
    <2>3. data' \in [Nodes -> Data] /\ blanked' \subseteq Texts
        BY <1>0, <2>1
    <2>4. \A t \in Texts \ blanked' : data'[t] # Blank
        <3> SUFFICES ASSUME NEW t \in Texts \ blanked'
                     PROVE  data'[t] # Blank
            OBVIOUS
        <3>1. t \in Nodes /\ t \notin blanked
            BY <2>1 DEF Nodes
        <3> QED
            BY <1>0, <2>1, <3>1
    <2> QED
        BY <1>0, <1>1, <1>2, <1>3, <2>1, <2>2, <2>3, <2>4 DEF Types, tui
<1>6. CASE Observe \/ Disconnect
    <2>1. /\ ~delivering /\ observer' \in BOOLEAN /\ queue' = <<>> /\ synced' \in BOOLEAN
          /\ UNCHANGED <<dom, delivering, tui, changes, blanked>>
        BY <1>6 DEF Observe, Disconnect, Script
    <2>2. queue' \in Seq(Records)
        BY <2>1
    <2> QED
        BY <1>0, <1>1, <1>2, <2>1, <2>2 DEF Types, dom, tui
<1>7. CASE ProcessExistingChildren
    <2>1. /\ AddNodes(Existing) /\ synced' \in BOOLEAN
          /\ UNCHANGED <<dom, observer, queue, delivering, changes, blanked>>
        BY <1>7 DEF ProcessExistingChildren, Existing
    <2>2. BoxTypes'
        BY <1>0, <2>1, NewNodes, AddingKeepsBoxTypes
    <2> QED
        BY <1>0, <1>2, <2>1, <2>2 DEF Types, dom
<1>8. CASE Deliver
    BY <1>0, <1>1, <1>2, <1>8 DEF Types, Deliver, dom, tui
<1>9. ASSUME NEW kind, Handling(kind), BoxTypes'
      PROVE  Types'
    <2>1. /\ queue' \in Seq(Records) /\ delivering' \in BOOLEAN /\ (delivering' => queue' # <<>>)
          /\ observer
          /\ UNCHANGED <<dom, observer, changes, synced, blanked>>
        BY <1>9, HandlingHandles
    <2> QED
        BY <1>0, <1>2, <1>9, <2>1 DEF Types, dom
<1>10. CASE HandleRemoved
    <2>1. Handling("removed") /\ RemoveNode(Head(queue).node) /\ Head(queue).node \in Nodes
        BY <1>10, HandlingHandles DEF HandleRemoved
    <2>2. BoxTypes'
        BY <1>0, <2>1, RemovingKeepsBoxTypes
    <2> QED
        BY <1>9, <2>1, <2>2
<1>11. CASE HandleAdded
    <2>1. Handling("added") /\ AddNodes(Fresh(Head(queue).node)) /\ Head(queue).node \in Nodes
        BY <1>11, HandlingHandles DEF HandleAdded, AddNode
    <2>2. BoxTypes'
        BY <1>0, <2>1, NewNodes, AddingKeepsBoxTypes
    <2> QED
        BY <1>9, <2>1, <2>2
<1>12. CASE HandleData
    <2> DEFINE n == Head(queue).node
    <2>1. Handling("data") /\ n \in Nodes /\ map' = map /\ inside' = inside
          /\ shown' = (IF n \in Mapped /\ (n \in Texts \/ data[n] # Blank)
                       THEN [shown EXCEPT ![Box(n)] = data[n]] ELSE shown)
        BY <1>12, HandlingHandles DEF HandleData
    <2>2. DOMAIN shown' = DOMAIN shown /\ \A b \in DOMAIN shown : shown'[b] \in Data
        <3>1. \A b \in DOMAIN shown : shown[b] \in Data
            BY <1>0 DEF BoxTypes, BoxesAreThere
        <3>2. data[n] \in Data
            BY <1>0, <2>1
        <3> HIDE DEF n
        <3> QED
            BY <2>1, <3>1, <3>2
    <2>3. BoxTypes'
        BY <1>0, <2>1, <2>2, BoxTypesStay
    <2> QED
        BY <1>9, <2>1, <2>3
<1>13. CASE UNCHANGED vars
    BY <1>0, <1>1, <1>2, <1>13 DEF Types, vars, dom, tui
<1>14. CASE \E n \in Nodes : Remove(n)
    <2>1. PICK n \in Nodes : Moved(n, None)
        BY <1>14 DEF Moved
    <2> QED
        BY <1>4, <2>1
<1>15. CASE \E n \in Nodes, p \in Parents : InsertNode(n, p)
    <2>1. PICK n \in Nodes, p \in Parents : Moved(n, p)
        BY <1>15 DEF Moved
    <2> QED
        BY <1>4, <2>1
<1>16. CASE \E n \in Nodes, v \in Data : SetData(n, v)
    BY <1>5, <1>16
<1> QED
    BY <1>6, <1>7, <1>8, <1>10, <1>11, <1>12, <1>13, <1>14, <1>15, <1>16 DEF Next

-----------------------------------------------------------------------------
(* The theorems.                                                           *)

LEMMA StepsKeepTold ==
    Types /\ (synced => Told) /\ [Next]_vars => (synced' => Told')
<1> SUFFICES ASSUME Types, synced => Told, [Next]_vars, synced'
             PROVE  Told'
    OBVIOUS
<1>0. /\ parent \in Trees /\ IsForest /\ queue \in Seq(Records) /\ blanked \subseteq Texts
      /\ data \in [Nodes -> Data] /\ BoxesAreThere /\ BoxesAreNumbered
      /\ \A t \in Texts \ blanked : data[t] # Blank
    BY DEF Types, BoxTypes
<1>1. ASSUME NEW n \in Nodes, NEW p, Moved(n, p)
      PROVE  Told'
    <2>1. synced /\ MovesHeard(n, p)
        BY <1>1, ScriptsMove
    <2>2. blanked \subseteq Nodes
        BY <1>0 DEF Nodes
    <2> QED
        BY <2>1, <2>2, MovesKeepTold
<1>2. ASSUME NEW n \in Nodes, NEW v \in Data, SetData(n, v)
      PROVE  Told'
    <2>1. synced
        BY <1>2 DEF SetData
    <2> QED
        BY <1>0, <1>2, <2>1, DataKeepsTold
<1>3. CASE Observe \/ Disconnect
    <2>1. synced /\ UNCHANGED <<parent, data, queue, map, inside, shown, blanked>>
        BY <1>3 DEF Observe, Disconnect, dom, tui
    <2> QED
        BY <2>1, NothingChanges
<1>4. CASE ProcessExistingChildren
    <2>1. /\ AddNodes(Existing) /\ queue = <<>> /\ (Mapped = {} \/ Told)
          /\ UNCHANGED <<parent, data, queue, blanked>>
        BY <1>4 DEF ProcessExistingChildren, Existing, dom
    <2> QED
        BY <1>0, <2>1, ExistingKeepsTold DEF Existing
<1>5. CASE Deliver
    <2>1. synced /\ UNCHANGED <<parent, data, queue, map, inside, shown, blanked>>
        BY <1>5 DEF Deliver, dom, tui
    <2> QED
        BY <2>1, NothingChanges
<1>6. CASE HandleRemoved
    <2>1. /\ synced /\ Handled /\ queue[1].kind = "removed"
          /\ RemoveNode(queue[1].node)
        BY <1>6, HandlingHandles DEF HandleRemoved, Handling
    <2> QED
        BY <1>0, <2>1, RemovedKeepsTold
<1>7. CASE HandleAdded
    <2>1. /\ synced /\ Handled /\ queue[1].kind = "added"
          /\ AddNodes(Fresh(queue[1].node))
        BY <1>7, HandlingHandles DEF HandleAdded, AddNode, Handling
    <2> QED
        BY <1>0, <2>1, AddedKeepsTold
<1>8. CASE HandleData
    <2> DEFINE h == queue[1].node
    <2>1. /\ synced /\ Handled /\ queue[1].kind = "data" /\ map' = map /\ inside' = inside
          /\ shown' = IF h \in Mapped /\ (h \in Texts \/ data[h] # Blank)
                      THEN [shown EXCEPT ![Box(h)] = data[h]] ELSE shown
        BY <1>8, HandlingHandles DEF HandleData, Handling
    <2> QED
        BY <1>0, <2>1, ContentKeepsTold
<1>9. CASE UNCHANGED vars
    <2>1. synced /\ UNCHANGED <<parent, data, queue, map, inside, shown, blanked>>
        BY <1>9 DEF vars, dom, tui
    <2> QED
        BY <2>1, NothingChanges
<1>10. CASE \E n \in Nodes : Remove(n)
    <2>1. PICK n \in Nodes : Moved(n, None)
        BY <1>10 DEF Moved
    <2> QED
        BY <1>1, <2>1
<1>11. CASE \E n \in Nodes, p \in Parents : InsertNode(n, p)
    <2>1. PICK n \in Nodes, p \in Parents : Moved(n, p)
        BY <1>11 DEF Moved
    <2> QED
        BY <1>1, <2>1
<1>12. CASE \E n \in Nodes, v \in Data : SetData(n, v)
    BY <1>2, <1>12
<1> QED
    BY <1>3, <1>4, <1>5, <1>6, <1>7, <1>8, <1>9, <1>10, <1>11, <1>12 DEF Next

(* What the variables of the bridge hold, in every reachable state.        *)
THEOREM BridgeTypeCorrect == Spec => []TypeOK
<1>1. Init => Types
    BY TypesInit
<1>2. Types /\ [Next]_vars => Types'
    BY StepsKeepTypes
<1>3. Types => TypeOK
    BY TypesAre
<1> QED
    BY <1>1, <1>2, <1>3, PTL DEF Spec

(* Before the bridge there is nothing of the document to tell it of.       *)
LEMMA ToldInit == Init => (synced => Told)
<1> SUFFICES ASSUME Init, synced
             PROVE  Told
    OBVIOUS
<1>0. /\ synced = (~ \E n \in Nodes : InDocument(n))
      /\ queue = <<>> /\ map = [n \in Nodes |-> 0]
    BY DEF Init
<1>1. /\ \A n \in Nodes : ~InDocument(n)
      /\ DOMAIN queue = {} /\ Mapped = {}
    <2>1. ~ \E n \in Nodes : InDocument(n)
        BY <1>0
    <2> QED
        BY <1>0, <2>1 DEF Mapped
<1>2. \A n \in Nodes : Cut(n)
    BY <1>1 DEF Cut, Unseen
<1> QED
    BY <1>1, <1>2
    DEF Told, GoneAreDoomed, GoneStayGone, MissingAreExpected, RemovedComeBack, AddedInOrder, PlacesHold, ContentHolds

LEMMA ToldMirrors == Types /\ (synced => Told) => MirrorsTheDocument
<1> SUFFICES ASSUME Types, Told, queue = <<>>
             PROVE  /\ Mapped \subseteq {n \in Nodes : InDocument(n)}
                    /\ {n \in Nodes \ blanked : InDocument(n)} \subseteq Mapped
                    /\ \A n \in Mapped :
                          /\ inside[Box(n)] = IF parent[n] = Container THEN Root ELSE Box(parent[n])
                          /\ n \in Texts \/ data[n] # Blank => shown[Box(n)] \in MayShow(n, data[n])
    BY DEF MirrorsTheDocument, AtRest
<1>1. DOMAIN queue = {}
    OBVIOUS
<1>2. \A k : ~Doomed(k) /\ ~Expected(k)
    BY <1>1 DEF Doomed, Expected
<1>3. Mapped \subseteq Nodes
    BY DEF Mapped
<1>4. Mapped \subseteq {n \in Nodes : InDocument(n)}
    BY <1>2, <1>3 DEF Told, GoneAreDoomed
<1>5. {n \in Nodes \ blanked : InDocument(n)} \subseteq Mapped
    BY <1>2 DEF Told, MissingAreExpected, Cut
<1>6. ASSUME NEW n \in Mapped
      PROVE  /\ inside[Box(n)] = IF parent[n] = Container THEN Root ELSE Box(parent[n])
             /\ n \in Texts \/ data[n] # Blank => shown[Box(n)] \in MayShow(n, data[n])
    <2>1. n \in Nodes /\ InDocument(n) /\ Container \notin Mapped
        BY <1>3, <1>4, DistinctNodes DEF Nodes
    <2>2. InPlace(n)
        BY <1>2, <2>1 DEF Told, PlacesHold
    <2>3. inside[Box(n)] = IF parent[n] = Container THEN Root ELSE Box(parent[n])
        BY <2>1, <2>2 DEF InPlace
    <2>4. n \in Texts \/ data[n] # Blank => shown[Box(n)] \in MayShow(n, data[n])
        BY <1>1, <1>2, <2>1 DEF Told, ContentHolds
    <2> QED
        BY <2>3, <2>4
<1> QED
    BY <1>4, <1>5, <1>6

(* When every record is handled, and the bridge was told of every change   *)
(* it needed, the renderables are those of the document: each in the one   *)
(* of its parent, with what it holds, whatever batches the records came in *)
(* (handleMutations, addElementNode, removeNode, findParentRenderable).    *)
THEOREM BridgeMirrorsTheDocument == Spec => []MirrorsTheDocument
<1>1. Init => Types /\ (synced => Told)
    BY TypesInit, ToldInit
<1>2. Types /\ (synced => Told) /\ [Next]_vars => Types' /\ (synced' => Told')
    BY StepsKeepTypes, StepsKeepTold
<1>3. Types /\ (synced => Told) => MirrorsTheDocument
    BY ToldMirrors
<1> QED
    BY <1>1, <1>2, <1>3, PTL DEF Spec
=============================================================================
