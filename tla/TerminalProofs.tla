--------------------------- MODULE TerminalProofs ---------------------------
(***************************************************************************)
(* Proofs about what people and tests see of a terminal program.  First the *)
(* event relay, for every page, every keyboard and any number of script    *)
(* steps: where Tab goes, what of it can be seen, and what the keys make   *)
(* of a text field.  Then TuiSpawn, for any program, text, waits, times *)
(* and bounds: what a wait says of the output.                             *)
(***************************************************************************)
EXTENDS EventRelay, TuiSpawn, WellFoundedInduction, FiniteSetTheorems, SequenceTheorems,
        TLAPS

-----------------------------------------------------------------------------
(* Least and greatest numbers *)

Precedes == {ss \in Nat \X Nat : ss[1] < ss[2]}

LEMMA PrecedesIsWellFounded == IsWellFoundedOn(Precedes, Nat)
<1>1. OpToRel(<, Nat) = Precedes
    BY Zenon DEF OpToRel, Precedes
<1> QED
    BY <1>1, NatLessThanWellFounded

(* A proof by induction takes the least number that is not as claimed. *)
LEMMA SomeNumberIsLeast ==
    ASSUME NEW S, S \subseteq Nat, S # {}
    PROVE  \E least \in S : \A i \in S : least <= i
<1>1. PICK least \in S : \A i \in S : <<i, least>> \notin Precedes
    BY PrecedesIsWellFounded, WFMin
<1>2. \A i \in S : ~(i < least)
    BY <1>1 DEF Precedes
<1> QED
    BY <1>2

LEMMA MinIsLeast ==
    ASSUME NEW S, S \subseteq Nat, S # {}
    PROVE  Min(S) \in S /\ \A i \in S : Min(S) <= i
BY SomeNumberIsLeast DEF Min

LEMMA MaxIsGreatest ==
    ASSUME NEW n \in Nat, NEW S, S \subseteq 0..n, S # {}
    PROVE  Max(S) \in S /\ \A i \in S : i <= Max(S)
<1>1. PICK i \in S : TRUE
    OBVIOUS
<1> DEFINE Left == {n - j : j \in S}
<1>2. Left \subseteq Nat /\ n - i \in Left
    OBVIOUS
<1>3. PICK least \in Left : \A k \in Left : least <= k
    BY <1>2, SomeNumberIsLeast
<1>4. PICK greatest \in S : least = n - greatest
    BY <1>3
<1>5. \A j \in S : greatest >= j
    <2> TAKE j \in S
    <2>1. n - greatest <= n - j /\ j \in Nat /\ greatest \in Nat
        BY <1>3, <1>4
    <2> QED
        BY <2>1
<1>6. \E x \in S : \A y \in S : x >= y
    BY <1>5
<1>7. Max(S) \in S /\ \A y \in S : Max(S) >= y
    BY <1>6 DEF Max
<1> QED
    BY <1>7

-----------------------------------------------------------------------------
(* Going round *)

(* What MovedAmong means for the elements of a document. *)
LEMMA MovesToANeighbour ==
    ASSUME NEW n \in Nat, NEW some, some \subseteq 0..n, some # {}, NEW from, NEW back
    PROVE  LET e == MovedAmong(some, from, back)
               ahead == {d \in some : from \in some /\ IF back THEN d < from ELSE d > from}
           IN  /\ e \in some
               /\ ahead # {} => e \in ahead
               /\ \A d \in (IF ahead = {} THEN some ELSE ahead) : IF back THEN d <= e ELSE e <= d
<1> DEFINE ahead == {d \in some : from \in some /\ IF back THEN d < from ELSE d > from}
           among == IF ahead = {} THEN some ELSE ahead
<1>1. among \subseteq 0..n /\ among # {} /\ among \subseteq Nat
    <2>1. among \subseteq some /\ among # {} /\ 0..n \subseteq Nat
        OBVIOUS
    <2> QED
        BY <2>1
<1>2. MovedAmong(some, from, back) = IF back THEN Max(among) ELSE Min(among)
    BY DEF MovedAmong
<1>3. CASE back
    <2>1. Max(among) \in among /\ \A i \in among : i <= Max(among)
        BY <1>1, MaxIsGreatest
    <2> QED
        BY <2>1, <1>2, <1>3
<1>4. CASE ~back
    <2>1. Min(among) \in among /\ \A i \in among : Min(among) <= i
        BY <1>1, MinIsLeast
    <2> QED
        BY <2>1, <1>2, <1>4
<1> QED
    BY <1>3, <1>4

(* Whoever goes on comes by every one of them. *)
LEMMA GoingOnComesByAll ==
    ASSUME NEW n \in Nat, NEW some, some \subseteq 0..n, NEW from, NEW visited, visited \subseteq some,
           some # {} => MovedAmong(some, from, FALSE) \in visited,
           \A e \in visited : MovedAmong(some, e, FALSE) \in visited
    PROVE  visited = some
<1> SUFFICES ASSUME visited # some
             PROVE  FALSE
    OBVIOUS
<1> DEFINE Next1(e) == MovedAmong(some, e, FALSE)
<1>1. some # {} /\ some \subseteq Nat
    <2>1. 0..n \subseteq Nat
        OBVIOUS
    <2> QED
        BY <2>1
<1>2. \A e \in some : /\ \A d \in some : d > e => Next1(e) > e /\ Next1(e) <= d
                      /\ (\A d \in some : d <= e) => \A d \in some : Next1(e) <= d
    <2> TAKE e \in some
    <2> DEFINE later == {d \in some : e \in some /\ IF FALSE THEN d < e ELSE d > e}
    <2>1. /\ Next1(e) \in some
          /\ later # {} => Next1(e) \in later
          /\ \A d \in (IF later = {} THEN some ELSE later) : Next1(e) <= d
        BY <1>1, MovesToANeighbour
    <2> HIDE DEF Next1
    <2>2. later = {d \in some : d > e}
        OBVIOUS
    <2>3. e \in Nat /\ \A d \in some : d \in Nat
        BY <1>1
    <2> HIDE DEF later
    <2>4. CASE \E d \in some : d > e
        <3>1. Next1(e) \in later /\ \A d \in later : Next1(e) <= d
            BY <2>1, <2>2, <2>4
        <3> QED
            BY <3>1, <2>2, <2>3, <2>4
    <2>5. CASE \A d \in some : d <= e
        <3>1. \A d \in some : ~(d > e)
            BY <2>3, <2>5
        <3>2. later = {}
            BY <3>1, <2>2
        <3> QED
            BY <3>2, <2>1, <2>3, <2>5
    <2> QED
        BY <2>3, <2>4, <2>5
<1> HIDE DEF Next1
<1>3. \A e \in visited : Next1(e) \in visited
    BY DEF Next1
(* From one that is visited on, all are. *)
<1>4. ASSUME NEW first \in visited
      PROVE  \A e \in some : first <= e => e \in visited
    <2> SUFFICES ASSUME NEW e \in some, first <= e, e \notin visited
                 PROVE  FALSE
        OBVIOUS
    <2> DEFINE Missed == {d \in some : first <= d /\ d \notin visited}
    <2>1. PICK least \in Missed : \A d \in Missed : least <= d
        BY <1>1, SomeNumberIsLeast
    <2> DEFINE Before == {d \in visited : d < least}
    <2>2. Before \subseteq 0..n /\ first \in Before
        <3>1. first <= least /\ first # least /\ first \in Nat /\ least \in Nat
            BY <1>1, <1>4, <2>1
        <3>2. first < least
            BY <3>1
        <3> QED
            BY <3>2, <1>4
    <2>3. Max(Before) \in Before /\ \A d \in Before : d <= Max(Before)
        BY <2>2, MaxIsGreatest
    <2> HIDE DEF Before
    <2>4. Next1(Max(Before)) \in visited /\ Next1(Max(Before)) > Max(Before) /\ Next1(Max(Before)) <= least
        BY <1>2, <1>3, <2>1, <2>3 DEF Before
    <2>5. Next1(Max(Before)) < least
        <3>1. Next1(Max(Before)) # least /\ Next1(Max(Before)) \in Nat /\ least \in Nat
            BY <1>1, <2>1, <2>4
        <3> QED
            BY <3>1, <2>4
    <2>6. Next1(Max(Before)) \in Before
        BY <2>4, <2>5 DEF Before
    <2>7. Max(Before) \in Nat /\ Next1(Max(Before)) \in Nat
        BY <1>1, <2>3, <2>6 DEF Before
    <2> QED
        BY <2>3, <2>4, <2>6, <2>7
<1>5. PICK first \in visited : TRUE
    BY <1>1
<1>6. Max(some) \in some /\ \A d \in some : d <= Max(some)
    BY <1>1, MaxIsGreatest
<1>7. Max(some) \in visited
    BY <1>4, <1>5, <1>6
<1>8. Next1(Max(some)) \in visited /\ \A d \in some : Next1(Max(some)) <= d
    BY <1>2, <1>3, <1>6, <1>7
<1> QED
    BY <1>4, <1>8

(* Going back undoes going on. *)
LEMMA GoingBackReturns ==
    ASSUME NEW n \in Nat, NEW some, some \subseteq 0..n, NEW e \in some
    PROVE  MovedAmong(some, MovedAmong(some, e, FALSE), TRUE) = e
<1> DEFINE on == MovedAmong(some, e, FALSE)
           home1 == MovedAmong(some, on, TRUE)
           later == {d \in some : e \in some /\ IF FALSE THEN d < e ELSE d > e}
           earlier == {d \in some : on \in some /\ IF TRUE THEN d < on ELSE d > on}
<1>1. some # {} /\ some \in SUBSET Nat
    OBVIOUS
<1>2. /\ on \in some /\ (later # {} => on \in later)
      /\ \A d \in (IF later = {} THEN some ELSE later) : on <= d
    BY <1>1, MovesToANeighbour
<1> HIDE DEF on
<1>3. /\ home1 \in some /\ (earlier # {} => home1 \in earlier)
      /\ \A d \in (IF earlier = {} THEN some ELSE earlier) : d <= home1
    BY <1>1, MovesToANeighbour
<1> HIDE DEF home1
<1>4. home1 = e
    <2>1. CASE later # {}
        <3>1. e \in earlier
            BY <2>1, <1>1, <1>2
        <3>2. e <= home1 /\ home1 < on /\ (home1 > e => on <= home1)
            BY <3>1, <2>1, <1>1, <1>2, <1>3
        <3> QED
            BY <3>2, <1>1, <1>2, <1>3
    <2>2. CASE later = {}
        <3>1. earlier = {}
            <4>1. \A d \in some : on <= d /\ d \in Nat /\ on \in Nat
                BY <2>2, <1>1, <1>2
            <4>2. \A d \in some : ~(d < on)
                BY <4>1
            <4> QED
                BY <4>2
        <3>2. e <= home1 /\ home1 <= e
            BY <3>1, <2>2, <1>1, <1>3
        <3> QED
            BY <3>2, <1>1, <1>3
    <2> QED
        BY <2>1, <2>2
<1> QED
    BY <1>4 DEF home1, on

-----------------------------------------------------------------------------
(* Rows *)

(* Adding up from parent to parent gives a row for every element. *)
LEMMA RowsAddUp ==
    ASSUME NEW n \in Nat, NEW up \in [1..n -> Nat], NEW y \in [1..n -> Nat],
           \A e \in 1..n : up[e] < e
    PROVE  \E rows \in [0..n -> Nat] : \A e \in 0..n : rows[e] = IF e = 0 THEN 0 ELSE y[e] + rows[up[e]]
<1> DEFINE AddsUp(rows, k) == \A e \in 0..k : rows[e] = IF e = 0 THEN 0 ELSE y[e] + rows[up[e]]
           Fails == {k \in 0..n : ~\E rows \in [0..k -> Nat] : AddsUp(rows, k)}
<1>0. n \in 0..n
    OBVIOUS
<1> SUFFICES ASSUME Fails # {}
             PROVE  FALSE
    <2>1. CASE n \notin Fails
        <3>1. \E rows \in [0..n -> Nat] : AddsUp(rows, n)
            BY <2>1, <1>0
        <3> QED
            BY <3>1
    <2> QED
        BY <2>1
<1>1. Fails \subseteq Nat
    OBVIOUS
<1>2. PICK k \in Fails : \A j \in Fails : k <= j
    BY <1>1, SomeNumberIsLeast
<1>3. k # 0
    <2> SUFFICES ASSUME k = 0
                 PROVE  FALSE
        OBVIOUS
    <2> DEFINE none == [e \in 0..0 |-> 0]
    <2>1. none \in [0..0 -> Nat] /\ AddsUp(none, 0)
        OBVIOUS
    <2> QED
        BY <2>1, <1>2
<1>4. k \in Nat /\ k - 1 \in 0..n /\ k \in 1..n /\ k - 1 \notin Fails
    <2>1. k \in 0..n
        BY <1>2
    <2>2. k \in Nat /\ k - 1 \in 0..n /\ k \in 1..n /\ ~(k <= k - 1)
        BY <2>1, <1>3
    <2> QED
        BY <2>2, <1>2
<1>5. PICK less \in [0..(k - 1) -> Nat] : AddsUp(less, k - 1)
    BY <1>4
<1> DEFINE more == [e \in 0..k |-> IF e = k THEN y[k] + less[up[k]] ELSE less[e]]
<1>6. up[k] \in 0..(k - 1) /\ y[k] \in Nat
    BY <1>4
<1>7. more \in [0..k -> Nat]
    <2>1. \A e \in 0..k : e # k => e \in 0..(k - 1)
        BY <1>4
    <2> QED
        BY <2>1, <1>6
<1>8. AddsUp(more, k)
    <2> SUFFICES ASSUME NEW e \in 0..k
                 PROVE  more[e] = IF e = 0 THEN 0 ELSE y[e] + more[up[e]]
        OBVIOUS
    <2>1. CASE e = k
        <3>1. up[k] # k /\ up[k] \in 0..k
            BY <1>4, <1>6
        <3> QED
            BY <2>1, <3>1, <1>3
    <2>2. CASE e # k
        <3>1. e \in 0..(k - 1)
            BY <2>2, <1>4
        <3>2. CASE e = 0
            BY <3>1, <3>2, <2>2, <1>5
        <3>3. CASE e # 0
            <4>1. e \in 1..n /\ e < k /\ up[e] \in Nat /\ up[e] < e /\ k \in Nat
                BY <3>1, <3>3, <1>4
            <4>2. up[e] \in 0..k /\ up[e] # k
                BY <4>1
            <4> QED
                BY <3>1, <3>3, <4>2, <2>2, <1>5
        <3> QED
            BY <3>2, <3>3
    <2> QED
        BY <2>1, <2>2
<1> QED
    BY <1>2, <1>7, <1>8

LEMMA ItemsAreOfTheSet ==
    ASSUME NEW S, NEW s \in Seq(S)
    PROVE  Len(s) \in Nat /\ DOMAIN s = 1..Len(s) /\ \A i \in DOMAIN s : s[i] \in S
OBVIOUS

LEMMA PagesHaveElements ==
    ASSUME page \in Pages
    PROVE  /\ Len(page) \in Nat /\ Elements = 1..Len(page)
           /\ \A e \in Elements : /\ page[e].parent \in Nat /\ page[e].parent < e
                                 /\ page[e].y \in Nat /\ page[e].rows \in Nat
<1> DEFINE Node == [kind : Kinds, parent : Nat, drawn : BOOLEAN, y : Nat, rows : Nat,
                    group : STRING, access : STRING, for : Nat]
<1>1. page \in Seq(Node) /\ \A e \in DOMAIN page : page[e].parent < e
    BY PagesAreDocuments
<1>2. Len(page) \in Nat /\ DOMAIN page = 1..Len(page) /\ \A e \in DOMAIN page : page[e] \in Node
    BY <1>1, ItemsAreOfTheSet
<1> QED
    BY <1>1, <1>2 DEF Elements

(* The box around an element is one before it. *)
LEMMA HoldersComeBefore ==
    ASSUME page \in Pages, NEW e \in Elements
    PROVE  Holder(e) \in Nat /\ Holder(e) < e /\ (Holder(e) # Body => Holder(e) \in Elements)
<1> DEFINE around == {Body} \cup {a \in 1..page[e].parent : a \in Above[e] /\ page[a].drawn}
<1>1. page[e].parent \in Nat /\ page[e].parent < e /\ Len(page) \in Nat /\ Elements = 1..Len(page)
    BY PagesHaveElements
<1>2. around \subseteq 0..page[e].parent /\ around # {}
    BY <1>1 DEF Body
<1>3. Max(around) \in 0..page[e].parent
    BY <1>1, <1>2, MaxIsGreatest
<1>4. Holder(e) = Max(around)
    BY DEF Holder
<1> HIDE DEF around
<1> QED
    BY <1>1, <1>3, <1>4 DEF Body

(* From box to box, any numbers add up; rows and boxes are such numbers. *)
LEMMA RowsAreNumbers ==
    ASSUME page \in Pages
    PROVE  /\ \A e \in 0..Len(page) : Top[e] \in Nat /\ Depth[e] \in Nat
           /\ Top[Body] = 0 /\ Depth[Body] = 0
           /\ \A e \in Elements : Depth[e] = 1 + Depth[Holder(e)]
<1> DEFINE n == Len(page)
           Tops(rows) == [e \in 0..n |-> IF e = Body THEN 0 ELSE page[e].y + rows[Holder(e)]]
           Depths(rows) == [e \in 0..n |-> IF e = Body THEN 0 ELSE 1 + rows[Holder(e)]]
           ups == [e \in 1..n |-> Holder(e)]
           ys == [e \in 1..n |-> page[e].y]
           ones == [e \in 1..n |-> 1]
<1>1. n \in Nat /\ Elements = 1..n
    BY PagesHaveElements
<1>2. ups \in [1..n -> Nat] /\ ys \in [1..n -> Nat] /\ ones \in [1..n -> Nat] /\ \A e \in 1..n : ups[e] < e
    BY <1>1, PagesHaveElements, HoldersComeBefore
<1>3. /\ \A e \in 1..n : ups[e] = Holder(e) /\ ys[e] = page[e].y /\ ones[e] = 1
      /\ \A e \in 0..n : e # 0 => e \in 1..n
    BY <1>1
<1> HIDE DEF n, ups, ys, ones
<1>4. PICK rows \in [0..n -> Nat] : \A e \in 0..n : rows[e] = IF e = 0 THEN 0 ELSE ys[e] + rows[ups[e]]
    BY <1>1, <1>2, RowsAddUp
<1>5. PICK boxes \in [0..n -> Nat] : \A e \in 0..n : boxes[e] = IF e = 0 THEN 0 ELSE ones[e] + boxes[ups[e]]
    BY <1>1, <1>2, RowsAddUp
<1>6. rows = Tops(rows)
    BY <1>3, <1>4 DEF Body
<1>7. boxes = Depths(boxes)
    BY <1>3, <1>5 DEF Body
<1>8. Top = Tops(Top)
    BY <1>6 DEF Top, n
<1>9. Depth = Depths(Depth)
    BY <1>7 DEF Depth, n
<1>10. /\ \A e \in 0..n : Top[e] = IF e = 0 THEN 0 ELSE page[e].y + Top[Holder(e)]
       /\ \A e \in 0..n : Depth[e] = IF e = 0 THEN 0 ELSE 1 + Depth[Holder(e)]
    BY <1>8, <1>9 DEF Body
<1> DEFINE Odd == {e \in 0..n : Top[e] \notin Nat \/ Depth[e] \notin Nat}
<1>11. Odd = {}
    <2> SUFFICES ASSUME Odd # {}
                 PROVE  FALSE
        OBVIOUS
    <2>1. Odd \subseteq Nat
        OBVIOUS
    <2>2. PICK e \in Odd : \A d \in Odd : e <= d
        BY <2>1, SomeNumberIsLeast
    <2>3. e # 0 /\ e \in 1..n /\ e \in Elements
        BY <1>1, <1>3, <1>10, <2>2
    <2>4. Holder(e) \in 0..n /\ Holder(e) \notin Odd
        <3>1. Holder(e) \in Nat /\ Holder(e) < e
            BY <2>3, HoldersComeBefore
        <3> DEFINE h == Holder(e)
        <3> HIDE DEF h
        <3>2. h \in 0..n /\ ~(e <= h)
            BY <1>1, <2>3, <3>1 DEF h
        <3> QED
            BY <2>2, <3>2 DEF h
    <2>5. Top[Holder(e)] \in Nat /\ Depth[Holder(e)] \in Nat /\ page[e].y \in Nat
        BY <2>3, <2>4, PagesHaveElements
    <2>6. Top[e] \in Nat /\ Depth[e] \in Nat
        BY <1>10, <2>2, <2>3, <2>5
    <2> QED
        BY <2>2, <2>6
<1>12. \A e \in Elements : e \in 0..n /\ e # 0
    BY <1>1
<1> QED
    BY <1>1, <1>10, <1>11, <1>12 DEF Body, n

LEMMA ElementsAreSomeBoxesDown ==
    ASSUME page \in Pages, NEW e \in Elements
    PROVE  Depth[e] \in Nat /\ Depth[e] >= 1
<1>1. Len(page) \in Nat /\ Elements = 1..Len(page)
    BY PagesHaveElements
<1>2. e \in 0..Len(page) /\ Holder(e) \in 0..Len(page)
    BY <1>1, HoldersComeBefore
<1>3. Depth[e] \in Nat /\ Depth[Holder(e)] \in Nat /\ Depth[e] = 1 + Depth[Holder(e)]
    BY <1>2, RowsAreNumbers
<1> QED
    BY <1>3

(* Nothing is left out above an element that is not too deep. *)
LEMMA PlacesOfElements ==
    ASSUME page \in Pages, NEW e \in Elements
    PROVE  /\ elementTop(e) \in Int
           /\ Depth[e] <= MaxDepth => elementTop(e) = Top[e]
<1> DEFINE passed == {a \in Elements : a \in Above[e] /\ page[a].drawn /\ Depth[a] + MaxDepth = Depth[e]}
<1>1. Len(page) \in Nat /\ Elements = 1..Len(page) /\ MaxDepth \in Nat
    BY PagesHaveElements, BoundsAreNumbers
<1>2. {Body} \cup passed \subseteq 0..Len(page) /\ {Body} \cup passed # {}
    BY <1>1 DEF Body
<1>3. Max({Body} \cup passed) \in {Body} \cup passed
    BY <1>1, <1>2, MaxIsGreatest
<1>4. Reached(e) = Max({Body} \cup passed)
    BY DEF Reached
<1>5. Depth[e] <= MaxDepth => passed = {}
    <2>1. \A a \in Elements : Depth[a] \in Nat /\ Depth[a] >= 1
        BY ElementsAreSomeBoxesDown
    <2> QED
        BY <1>1, <2>1
<1> HIDE DEF passed
<1>6. Reached(e) \in 0..Len(page) /\ (Depth[e] <= MaxDepth => Reached(e) = Body)
    BY <1>2, <1>3, <1>4, <1>5
<1>7. Top[e] \in Nat /\ Top[Reached(e)] \in Nat /\ Top[Body] = 0
    BY <1>1, <1>6, RowsAreNumbers
<1> QED
    BY <1>6, <1>7 DEF elementTop

-----------------------------------------------------------------------------
(* The invariant: the page is a document, and rows are rows. *)

RelayIInv ==
    /\ page \in Pages
    /\ scrollTop \in Int

LEMMA StopsAreElements ==
    ASSUME page \in Pages
    PROVE  /\ Len(page) \in Nat /\ getFocusableElements \subseteq Elements /\ Selected \subseteq Elements
           /\ Elements \subseteq 0..Len(page)
BY PagesHaveElements DEF getFocusableElements, Selected, SearchRoot, Below

LEMMA TabGoesToAStop ==
    ASSUME page \in Pages, getFocusableElements # {}, NEW from, NEW back
    PROVE  Moved(from, back) \in getFocusableElements
<1>1. Len(page) \in Nat /\ getFocusableElements \subseteq 0..Len(page)
    BY StopsAreElements
<1> QED
    BY <1>1, MovesToANeighbour DEF Moved

LEMMA ScrollingShows ==
    ASSUME page \in Pages, scrollTop \in Int, NEW e \in Elements
    PROVE  /\ scrolledIntoView(e) \in Int
           /\ Scrolls(e) /\ Depth[e] <= MaxDepth /\ page[e].rows <= Height =>
                 /\ scrolledIntoView(e) <= Top[e]
                 /\ Top[e] + page[e].rows <= scrolledIntoView(e) + Height
<1>1. /\ elementTop(e) \in Int /\ (Depth[e] <= MaxDepth => elementTop(e) = Top[e])
      /\ page[e].rows \in Nat /\ Height \in Nat
      /\ elementBottom(e) = elementTop(e) + page[e].rows
    BY PagesHaveElements, PlacesOfElements, BoundsAreNumbers DEF elementBottom
<1> QED
    BY <1>1 DEF scrolledIntoView

LEMMA RelayInitIInv == Init => RelayIInv
BY DEF Init, RelayIInv

LEMMA RelayNextIInv == RelayIInv /\ [Next]_vars => RelayIInv'
<1> SUFFICES ASSUME RelayIInv, [Next]_vars
             PROVE  RelayIInv'
    OBVIOUS
<1> USE DEF RelayIInv
<1>1. CASE Attach \/ Detach \/ DeactivateFocusTrap \/ ReleaseTrap
    BY <1>1 DEF Attach, Detach, DeactivateFocusTrap, ReleaseTrap, Detached, deactivateTrap, Call, Script,
                Default, document
<1>2. ASSUME NEW e \in Elements, ActivateFocusTrap(e)
      PROVE  RelayIInv'
    BY <1>2 DEF ActivateFocusTrap, Call, Script
<1>3. CASE moveFocus
    <2>1. scrollTop' \in Int
        <3>1. CASE getFocusableElements = {}
            BY <1>3, <3>1 DEF moveFocus
        <3>2. CASE getFocusableElements # {}
            <4> DEFINE e == Moved(focus, "shift" \in key.mods)
            <4>1. e \in Elements
                BY <3>2, TabGoesToAStop, StopsAreElements
            <4> QED
                BY <1>3, <3>2, <4>1, ScrollingShows DEF moveFocus
        <3> QED
            BY <3>1, <3>2
    <2> QED
        BY <1>3, <2>1 DEF moveFocus, Default, relay, document
<1>4. ASSUME NEW e \in Elements, Scroll(e)
      PROVE  RelayIInv'
    <2>1. Top[e] \in Nat
        BY PagesHaveElements, RowsAreNumbers
    <2> QED
        BY <1>4, <2>1 DEF Scroll, Script, Call, relay
<1>5. CASE SetScrollContainer \/ Keypress
    BY <1>5 DEF SetScrollContainer, Keypress, Script, Call, document, relay
<1>6. CASE Prevented \/ handleAccesskey \/ moveRadioFocus \/ dispatchClick \/ Edit \/ Ignored
    BY <1>6 DEF Prevented, handleAccesskey, moveRadioFocus, dispatchClick, Edit, Ignored, Default, document, relay
<1>7. ASSUME NEW e \in Elements,
             \/ FocusElement(e) \/ RemoveElement(e) \/ HideElement(e) \/ DisableElement(e) \/ SelectText(e)
      PROVE  RelayIInv'
    BY <1>7 DEF FocusElement, RemoveElement, HideElement, DisableElement, SelectText, Script, Call, document, relay
<1>8. CASE UNCHANGED vars
    BY <1>8 DEF vars
<1>9. \A kinds : Are(kinds) \subseteq Elements
    BY DEF Are
<1> QED
    BY <1>1, <1>2, <1>3, <1>4, <1>5, <1>6, <1>7, <1>8, <1>9 DEF Next

LEMMA AlwaysRelayIInv == Spec => []RelayIInv
BY RelayInitIInv, RelayNextIInv, PTL DEF Spec

-----------------------------------------------------------------------------
(* The stops of Tab *)

LEMMA GroupsShareARadio ==
    ASSUME NEW r \in Are({"radio"}), NEW s \in InGroup(r)
    PROVE  s \in Are({"radio"}) /\ r \in InGroup(s) /\ InGroup(s) = InGroup(r)
BY DEF InGroup, Are

LEMMA TargetsAreOfTheGroup ==
    ASSUME page \in Pages, NEW group, group \subseteq Elements, group # {}
    PROVE  /\ getRadioGroupTabTarget(group) \in group
           /\ group \cap checked # {} => getRadioGroupTabTarget(group) \in checked
<1>1. Elements \subseteq Nat
    BY PagesHaveElements
<1>2. \A some : some \subseteq group /\ some # {} => Min(some) \in some
    BY <1>1, MinIsLeast
<1> QED
    BY <1>2 DEF getRadioGroupTabTarget

(* Whatever the page is and whatever was hidden, disabled, removed and     *)
(* trapped, Tab comes by every stop from wherever it began, Shift+Tab goes *)
(* back, and each group of radios is entered at one of them.               *)
THEOREM TabComesByEveryStop == Spec => []TabVisitsEverything
<1>1. RelayIInv => TabVisitsEverything
    <2> SUFFICES ASSUME RelayIInv
                 PROVE  TabVisitsEverything
        OBVIOUS
    <2> DEFINE stops == getFocusableElements
    <2>1. page \in Pages /\ Len(page) \in Nat /\ stops \subseteq 0..Len(page) /\ Selected \subseteq Elements
        BY StopsAreElements DEF RelayIInv
    <2>2. ASSUME NEW visited \in SUBSET stops,
                 stops # {} => MovedAmong(stops, focus, FALSE) \in visited,
                 \A e \in visited : MovedAmong(stops, e, FALSE) \in visited
          PROVE  visited = stops
        <3> HIDE DEF stops
        <3> QED
            BY <2>1, <2>2, GoingOnComesByAll
    <2>3. ASSUME NEW e \in stops
          PROVE  MovedAmong(stops, MovedAmong(stops, e, FALSE), TRUE) = e
        <3> HIDE DEF stops
        <3> QED
            BY <2>1, <2>3, GoingBackReturns
    <2>4. ASSUME NEW r \in Selected \cap Are({"radio"}), attached
          PROVE  /\ Cardinality(stops \cap InGroup(r)) = 1
                 /\ Selected \cap InGroup(r) \cap checked # {} => stops \cap InGroup(r) \subseteq checked
        <3> DEFINE group == Selected \cap InGroup(r)
                   t == getRadioGroupTabTarget(group)
        <3>1. r \in group /\ group \subseteq Elements
            BY <2>1 DEF InGroup
        <3>2. t \in group /\ (group \cap checked # {} => t \in checked)
            BY <2>1, <3>1, TargetsAreOfTheGroup
        <3>3. \A s \in InGroup(r) : s \in Are({"radio"}) /\ InGroup(s) = InGroup(r)
            BY GroupsShareARadio
        <3>4. \A s \in group : s \in stops <=> s = t
            BY <2>4, <3>3 DEF getFocusableElements
        <3>5. stops \subseteq Selected
            BY DEF getFocusableElements
        <3>6. stops \cap InGroup(r) = {t}
            BY <3>2, <3>4, <3>5
        <3> QED
            BY <3>2, <3>6, FS_Singleton
    <2> QED
        BY <2>2, <2>3, <2>4 DEF TabVisitsEverything
<1> QED
    BY <1>1, AlwaysRelayIInv, PTL

(* Tab never stops at what is hidden, disabled or outside the trap, and    *)
(* what it stops at is brought into sight, if it has a box that fits and   *)
(* lies no deeper than the code climbs.                                    *)
THEOREM TabStaysInSight == Spec => TabLandsInSight
<1>1. ASSUME RelayIInv, Next, key.name = "tab", key' = NoKey, focus' # focus
      PROVE  /\ focus' \in Elements \ disabled /\ isElementVisible(focus')
             /\ trap # Nothing => focus' \in Below(trap)
             /\ (scrolling /\ page[focus'].drawn /\ Depth[focus'] <= MaxDepth
                     /\ page[focus'].rows <= Height /\ Height > 0) =>
                    (scrollTop' <= Top[focus'] /\ Top[focus'] + page[focus'].rows <= scrollTop' + Height)
    <2>1. key # NoKey
        BY <1>1 DEF NoKey
    <2>2. moveFocus
        <3>1. ~ Script
            BY <1>1, <2>1 DEF Script, Call
        <3>2. ~ ReleaseTrap /\ ~ handleAccesskey /\ ~ moveRadioFocus
            BY <1>1 DEF ReleaseTrap, ReleasesTrap, handleAccesskey, UsesAccesskey, Letters, moveRadioFocus,
                        MovesRadio, Arrows
        <3>3. ~ Attach /\ ~ Keypress /\ ~ Prevented /\ ~ dispatchClick /\ ~ Edit /\ ~ Ignored
            BY <1>1, <2>1 DEF Attach, Call, Keypress, Prevented, dispatchClick, Edit, Ignored
        <3> QED
            BY <1>1, <3>1, <3>2, <3>3 DEF Next, Detach, DeactivateFocusTrap, SetScrollContainer, ActivateFocusTrap,
                RemoveElement, HideElement, FocusElement, DisableElement, Scroll, SelectText
    <2> DEFINE e == Moved(focus, "shift" \in key.mods)
    <2>3. focus' = Focused(e)
        BY <2>2 DEF moveFocus
    <2>4. getFocusableElements # {}
        BY <1>1, <2>3 DEF Moved, MovedAmong, Focused
    <2>5. scrollTop' = scrolledIntoView(e)
        BY <2>2, <2>4 DEF moveFocus
    <2>6. e \in getFocusableElements
        BY <1>1, <2>4, TabGoesToAStop DEF RelayIInv
    <2> HIDE DEF e
    <2>7. focus' = e /\ Connected(e)
        BY <1>1, <2>3 DEF Focused
    <2>8. e \in SearchRoot /\ e \in Elements \ disabled /\ isElementVisible(e)
        BY <1>1, <2>6, StopsAreElements DEF getFocusableElements, Selected, RelayIInv
    <2>9. trap # Nothing => e \in Below(trap)
        BY <2>8 DEF SearchRoot
    <2>10. scrolling /\ page[e].drawn /\ Height > 0 => Scrolls(e)
        BY <2>7 DEF Scrolls
    <2> QED
        BY <1>1, <2>5, <2>7, <2>8, <2>9, <2>10, ScrollingShows DEF RelayIInv
<1> QED
    BY <1>1, AlwaysRelayIInv, PTL DEF Spec, TabLandsInSight, vars

-----------------------------------------------------------------------------
(* Text and lines *)

Characters == {" "} \cup Letters \cup {toUpperCase[c] : c \in Letters}
Texts == Seq(Characters)

\* A field: its selection lies in its text.
IsField(f) ==
    /\ f = [value |-> f.value, start |-> f.start, end |-> f.end, selects |-> f.selects]
    /\ f.value \in Texts /\ f.selects \in BOOLEAN
    /\ f.start \in Nat /\ f.end \in Nat /\ f.start <= f.end /\ f.end <= Len(f.value)

LEMMA PartsOfTexts ==
    ASSUME NEW s \in Texts, NEW m \in 1..(Len(s) + 1), NEW n \in 0..Len(s)
    PROVE  /\ SubSeq(s, m, n) \in Texts
           /\ Len(SubSeq(s, m, n)) = IF m <= n THEN n - m + 1 ELSE 0
           /\ \A i \in 1..(n - m + 1) : SubSeq(s, m, n)[i] = s[m + i - 1]
<1>1. Len(s) \in Nat /\ \A i \in 1..Len(s) : s[i] \in Characters
    BY ElementOfSeq, LenProperties DEF Texts
<1>2. \A i \in m..n : s[i] \in Characters
    BY <1>1
<1> QED
    BY <1>1, <1>2, SubSeqProperties DEF Texts

LEMMA TextsAreEqual ==
    ASSUME NEW s \in Texts, NEW t \in Texts, Len(s) = Len(t), \A i \in 1..Len(s) : s[i] = t[i]
    PROVE  s = t
BY SeqEqual DEF Texts

LEMMA TextsTogether ==
    ASSUME NEW s \in Texts, NEW t \in Texts
    PROVE  /\ s \o t \in Texts /\ Len(s) \in Nat /\ Len(t) \in Nat /\ Len(s \o t) = Len(s) + Len(t)
           /\ \A i \in 1..Len(s) : (s \o t)[i] = s[i]
           /\ \A i \in 1..Len(t) : (s \o t)[Len(s) + i] = t[i]
<1>1. /\ s \o t \in Texts /\ Len(s) \in Nat /\ Len(t) \in Nat /\ Len(s \o t) = Len(s) + Len(t)
      /\ \A i \in 1..(Len(s) + Len(t)) : (s \o t)[i] = IF i <= Len(s) THEN s[i] ELSE t[i - Len(s)]
    BY ConcatProperties, LenProperties DEF Texts
<1> QED
    BY <1>1

LEMMA TogetherInAnyOrder ==
    ASSUME NEW s \in Texts, NEW t \in Texts, NEW u \in Texts
    PROVE  (s \o t) \o u = s \o (t \o u)
BY ConcatAssociative DEF Texts

(* A text put together from two is taken apart into them again. *)
LEMMA PartsOfBoth ==
    ASSUME NEW s \in Texts, NEW t \in Texts
    PROVE  /\ SubSeq(s \o t, 1, Len(s)) = s
           /\ SubSeq(s \o t, Len(s) + 1, Len(s \o t)) = t
<1> DEFINE v == s \o t
<1>1. /\ v \in Texts /\ Len(s) \in Nat /\ Len(t) \in Nat /\ Len(v) = Len(s) + Len(t)
      /\ \A i \in 1..Len(s) : v[i] = s[i]
      /\ \A i \in 1..Len(t) : v[Len(s) + i] = t[i]
    BY TextsTogether
<1> HIDE DEF v
<1>2. SubSeq(v, 1, Len(s)) = s
    <2>1. /\ SubSeq(v, 1, Len(s)) \in Texts /\ Len(SubSeq(v, 1, Len(s))) = Len(s)
          /\ \A i \in 1..Len(s) : SubSeq(v, 1, Len(s))[i] = v[i]
        <3>1. 1 \in 1..(Len(v) + 1) /\ Len(s) \in 0..Len(v) /\ Len(s) - 1 + 1 = Len(s)
            BY <1>1
        <3>2. /\ SubSeq(v, 1, Len(s)) \in Texts
              /\ Len(SubSeq(v, 1, Len(s))) = IF 1 <= Len(s) THEN Len(s) - 1 + 1 ELSE 0
              /\ \A i \in 1..(Len(s) - 1 + 1) : SubSeq(v, 1, Len(s))[i] = v[1 + i - 1]
            BY <1>1, <3>1, PartsOfTexts
        <3> QED
            BY <1>1, <3>2
    <2> QED
        BY <1>1, <2>1, TextsAreEqual
<1>3. SubSeq(v, Len(s) + 1, Len(v)) = t
    <2>1. /\ SubSeq(v, Len(s) + 1, Len(v)) \in Texts /\ Len(SubSeq(v, Len(s) + 1, Len(v))) = Len(t)
          /\ \A i \in 1..Len(t) : SubSeq(v, Len(s) + 1, Len(v))[i] = v[Len(s) + i]
        <3>1. Len(s) + 1 \in 1..(Len(v) + 1) /\ Len(v) \in 0..Len(v)
            BY <1>1
        <3>2. /\ SubSeq(v, Len(s) + 1, Len(v)) \in Texts
              /\ Len(SubSeq(v, Len(s) + 1, Len(v))) = IF Len(s) + 1 <= Len(v) THEN Len(v) - (Len(s) + 1) + 1 ELSE 0
              /\ \A i \in 1..(Len(v) - (Len(s) + 1) + 1) :
                    SubSeq(v, Len(s) + 1, Len(v))[i] = v[Len(s) + 1 + i - 1]
            BY <1>1, <3>1, PartsOfTexts
        <3> QED
            BY <1>1, <3>2
    <2> QED
        BY <1>1, <2>1, TextsAreEqual
<1> QED
    BY <1>2, <1>3 DEF v

(* A text is what is before some place in it and what is behind. *)
LEMMA TakenApart ==
    ASSUME NEW s \in Texts, NEW k \in 0..Len(s)
    PROVE  /\ SubSeq(s, 1, k) \in Texts /\ SubSeq(s, k + 1, Len(s)) \in Texts
           /\ Len(SubSeq(s, 1, k)) = k /\ Len(SubSeq(s, k + 1, Len(s))) = Len(s) - k
           /\ SubSeq(s, 1, k) \o SubSeq(s, k + 1, Len(s)) = s
<1>1. Len(s) \in Nat /\ 1 \in 1..(Len(s) + 1) /\ k + 1 \in 1..(Len(s) + 1) /\ Len(s) \in 0..Len(s)
    BY LenProperties DEF Texts
<1>2. /\ SubSeq(s, 1, k) \in Texts /\ SubSeq(s, k + 1, Len(s)) \in Texts
      /\ Len(SubSeq(s, 1, k)) = (IF 1 <= k THEN k - 1 + 1 ELSE 0)
      /\ Len(SubSeq(s, k + 1, Len(s))) = IF k + 1 <= Len(s) THEN Len(s) - (k + 1) + 1 ELSE 0
    BY <1>1, PartsOfTexts
<1>3. 1 \in 1..(Len(s) + 1) /\ k \in (1 - 1)..Len(s) /\ Len(s) \in k..Len(s)
    BY <1>1
<1>4. SubSeq(s, 1, k) \o SubSeq(s, k + 1, Len(s)) = SubSeq(s, 1, Len(s))
    BY <1>3, ConcatAdjacentSubSeq DEF Texts
<1>5. SubSeq(s, 1, Len(s)) = s
    BY SubSeqFull DEF Texts
<1>6. Len(SubSeq(s, 1, k)) = k
    BY <1>1, <1>2
<1>7. Len(SubSeq(s, k + 1, Len(s))) = Len(s) - k
    BY <1>1, <1>2
<1> QED
    BY <1>2, <1>4, <1>5, <1>6, <1>7

(* What is cut off a line is cut off one of its ends. *)
LEMMA EndsOfParts ==
    ASSUME NEW b \in Texts, NEW a \in Texts, NEW i \in 0..Len(b), NEW j \in 0..Len(a)
    PROVE  /\ SubSeq(b \o a, 1, i) = SubSeq(b, 1, i)
           /\ SubSeq(b \o a, Len(b) + j + 1, Len(b \o a)) = SubSeq(a, j + 1, Len(a))
<1> DEFINE b1 == SubSeq(b, 1, i)
           b2 == SubSeq(b, i + 1, Len(b))
           a1 == SubSeq(a, 1, j)
           a2 == SubSeq(a, j + 1, Len(a))
<1>1. b1 \in Texts /\ b2 \in Texts /\ Len(b1) = i /\ b1 \o b2 = b
    BY TakenApart
<1>2. a1 \in Texts /\ a2 \in Texts /\ Len(a1) = j /\ a1 \o a2 = a
    BY TakenApart
<1> HIDE DEF a1, a2, b1, b2
<1>3. b \o a = b1 \o (b2 \o a) /\ b2 \o a \in Texts
    <2>1. (b1 \o b2) \o a = b1 \o (b2 \o a)
        BY <1>1, TogetherInAnyOrder
    <2>2. b2 \o a \in Texts
        BY <1>1, TextsTogether
    <2> QED
        BY <2>1, <2>2, <1>1
<1>4. b \o a = (b \o a1) \o a2 /\ b \o a1 \in Texts /\ Len(b \o a1) = Len(b) + j
    <2>1. b \o (a1 \o a2) = (b \o a1) \o a2
        BY <1>2, TogetherInAnyOrder
    <2>2. b \o a1 \in Texts /\ Len(b \o a1) = Len(b) + Len(a1)
        BY <1>2, TextsTogether
    <2> QED
        BY <2>1, <2>2, <1>2
<1>5. SubSeq(b \o a, 1, i) = b1
    BY <1>1, <1>3, PartsOfBoth
<1>6. SubSeq(b \o a, Len(b) + j + 1, Len(b \o a)) = a2
    BY <1>2, <1>4, PartsOfBoth
<1> QED
    BY <1>5, <1>6 DEF b1, a2

-----------------------------------------------------------------------------
(* Lines and fields *)

LEMMA LinesOfFields ==
    ASSUME NEW f, IsField(f)
    PROVE  LET b == Line(f).before
               a == Line(f).after
               at == getSelectionPosition(f)[1]
           IN  /\ b \in Texts /\ a \in Texts /\ b \o a = f.value
               /\ at \in 0..Len(f.value) /\ Len(b) = at /\ Len(a) = Len(f.value) - at
               /\ Line(f).marked \in 0..Len(a)
               /\ getSelectionPosition(f)[2] = Len(b) + Line(f).marked
               /\ ~ f.selects => a = <<>> /\ b = f.value /\ Line(f).marked = 0
<1> DEFINE b == Line(f).before
           a == Line(f).after
           at == getSelectionPosition(f)[1]
           to == getSelectionPosition(f)[2]
           v == f.value
<1>1. v \in Texts /\ Len(v) \in Nat
    BY LenProperties DEF IsField, Texts
<1>2. at \in 0..Len(v) /\ to \in at..Len(v) /\ (~ f.selects => at = Len(v) /\ to = Len(v))
    BY <1>1 DEF IsField, getSelectionPosition
<1>3. b = SubSeq(v, 1, at) /\ a = SubSeq(v, at + 1, Len(v)) /\ Line(f).marked = to - at
    <2>1. Line(f) = [before |-> Slice(v, 0, at), after |-> Slice(v, at, Len(v)), marked |-> to - at]
        BY Zenon DEF Line
    <2>2. Slice(v, 0, at) = SubSeq(v, 1, at) /\ Slice(v, at, Len(v)) = SubSeq(v, at + 1, Len(v))
        BY DEF Slice
    <2> HIDE DEF at, to, v
    <2>3. /\ Line(f).before = Slice(v, 0, at) /\ Line(f).after = Slice(v, at, Len(v))
          /\ Line(f).marked = to - at
        BY <2>1
    <2> QED
        BY <2>2, <2>3
<1> HIDE DEF b, a, at, to, v
<1>4. b \in Texts /\ a \in Texts /\ Len(b) = at /\ Len(a) = Len(v) - at /\ b \o a = v
    BY <1>1, <1>2, <1>3, TakenApart
<1>5. Line(f).marked \in 0..Len(a) /\ to = Len(b) + Line(f).marked
    BY <1>1, <1>2, <1>3, <1>4
<1>6. ~ f.selects => a = <<>> /\ b = v /\ Line(f).marked = 0
    <2> SUFFICES ASSUME ~ f.selects
                 PROVE  a = <<>> /\ b = v /\ Line(f).marked = 0
        OBVIOUS
    <2>1. at = Len(v) /\ to = Len(v)
        BY <1>2
    <2>2. b = v
        BY <1>3, <2>1, SubSeqFull, <1>1 DEF Texts
    <2>3. a = <<>>
        BY <1>1, <1>3, <2>1, SubSeqEmpty
    <2> QED
        BY <2>1, <2>2, <2>3, <1>1, <1>3
<1> QED
    BY <1>1, <1>2, <1>4, <1>5, <1>6 DEF b, a, at, to, v

(* Where the cursor is put. *)
LEMMA CursorsAreSet ==
    ASSUME NEW f, IsField(f), NEW b \in Texts, NEW a \in Texts, b \o a = f.value,
           f.selects \/ a = <<>>
    PROVE  LET g == setSelectionPosition(f, Len(b))
           IN  IsField(g) /\ Line(g) = At(b, a)
<1> DEFINE g == setSelectionPosition(f, Len(b))
<1>1. Len(b) \in Nat /\ Len(a) \in Nat /\ Len(f.value) = Len(b) + Len(a)
    <2>1. Len(b) \in Nat /\ Len(a) \in Nat /\ Len(b \o a) = Len(b) + Len(a)
        BY TextsTogether
    <2> QED
        BY <2>1
<1>2. CASE f.selects
    <2>1. g = [value |-> f.value, start |-> Len(b), end |-> Len(b), selects |-> TRUE]
        BY <1>2 DEF IsField, setSelectionPosition
    <2> HIDE DEF g
    <2>2. IsField(g)
        BY <2>1, <1>1 DEF IsField
    <2>3. getSelectionPosition(g) = <<Len(b), Len(b)>> /\ g.value = b \o a
        BY <2>1 DEF getSelectionPosition
    <2>4. Line(g) = [before |-> SubSeq(b \o a, 1, Len(b)), after |-> SubSeq(b \o a, Len(b) + 1, Len(b \o a)),
                     marked |-> 0]
        BY <2>3, <1>1 DEF Line, Slice
    <2> QED
        BY <2>2, <2>4, PartsOfBoth DEF At, g
<1>3. CASE ~ f.selects
    <2>1. g = f /\ a = <<>>
        BY <1>3 DEF setSelectionPosition
    <2>2. b = f.value
        BY <2>1, ConcatEmptySeq DEF Texts
    <2>3. Line(f).before = b /\ Line(f).after = <<>> /\ Line(f).marked = 0
        BY <1>3, <2>2, LinesOfFields
    <2> QED
        BY <2>1, <2>3 DEF At, Line
<1> QED
    BY <1>2, <1>3

LEMMA ValuesAreSet ==
    ASSUME NEW f, IsField(f), NEW v \in Texts
    PROVE  LET g == SetValue(f, v)
           IN  IsField(g) /\ g.value = v /\ g.selects = f.selects
<1>1. Len(v) \in Nat
    BY LenProperties DEF Texts
<1>2. CASE v = f.value
    BY <1>2 DEF SetValue
<1>3. CASE v # f.value
    <2> DEFINE g == SetValue(f, v)
    <2>1. g = [value |-> v, start |-> Len(v), end |-> Len(v), selects |-> f.selects]
        <3>1. f = [value |-> f.value, start |-> f.start, end |-> f.end, selects |-> f.selects]
            BY DEF IsField
        <3>2. g = [f EXCEPT !.value = v, !.start = Len(v), !.end = Len(v)]
            BY <1>3 DEF SetValue
        <3> HIDE DEF g
        <3> QED
            BY <3>1, <3>2
    <2>2. f.selects \in BOOLEAN
        BY DEF IsField
    <2> HIDE DEF g
    <2>3. g.value = v /\ g.start = Len(v) /\ g.end = Len(v) /\ g.selects = f.selects
        BY <2>1
    <2>4. IsField(g)
        BY <1>1, <2>1, <2>2, <2>3 DEF IsField
    <2> QED
        BY <2>3, <2>4 DEF g
<1> QED
    BY <1>2, <1>3

(* Where text and cursor are put. *)
LEMMA TextsAreSet ==
    ASSUME NEW f, IsField(f), NEW b \in Texts, NEW a \in Texts, f.selects \/ a = <<>>
    PROVE  LET g == setSelectionPosition(SetValue(f, b \o a), Len(b))
           IN  IsField(g) /\ Line(g) = At(b, a)
<1> DEFINE g == SetValue(f, b \o a)
<1>1. b \o a \in Texts
    BY TextsTogether
<1>2. IsField(g) /\ g.value = b \o a /\ g.selects = f.selects
    BY <1>1, ValuesAreSet
<1> HIDE DEF g
<1>3. LET h == setSelectionPosition(g, Len(b))
      IN  IsField(h) /\ Line(h) = At(b, a)
    BY <1>2, CursorsAreSet
<1> QED
    BY <1>3 DEF g

(* What is left when a part around the cursor is cut. *)
LEMMA CutsLeaveTheRest ==
    ASSUME NEW f, IsField(f),
           NEW i \in 0..Len(Line(f).before), NEW j \in 0..Len(Line(f).after)
    PROVE  LET g == Cut(f, i, Len(Line(f).before) + j)
           IN  IsField(g) /\ Line(g) = At(SubSeq(Line(f).before, 1, i),
                                          SubSeq(Line(f).after, j + 1, Len(Line(f).after)))
<1> DEFINE b == Line(f).before
           a == Line(f).after
           b1 == SubSeq(b, 1, i)
           a1 == SubSeq(a, j + 1, Len(a))
<1>1. b \in Texts /\ a \in Texts /\ b \o a = f.value /\ Len(b) \in Nat /\ (~ f.selects => a = <<>>)
    BY LinesOfFields, LenProperties DEF Texts
<1> HIDE DEF a, b
<1>2. b1 \in Texts /\ a1 \in Texts /\ Len(b1) = i
    BY <1>1, TakenApart DEF a, b
<1>3. /\ Slice(f.value, 0, i) = b1
      /\ Slice(f.value, Len(b) + j, Len(f.value)) = a1
    <2>1. SubSeq(b \o a, 1, i) = b1 /\ SubSeq(b \o a, Len(b) + j + 1, Len(b \o a)) = a1
        BY <1>1, EndsOfParts DEF a, b
    <2> QED
        BY <1>1, <2>1 DEF Slice
<1>4. ~ f.selects => a1 = <<>>
    <2>1. a = <<>> => Len(a) = 0 /\ Len(a) < j + 1
        BY DEF a
    <2> QED
        BY <1>1, <2>1, SubSeqEmpty
<1> HIDE DEF a1, b1
<1>7. LET g == setSelectionPosition(SetValue(f, b1 \o a1), i)
      IN  IsField(g) /\ Line(g) = At(b1, a1)
    BY <1>2, <1>4, TextsAreSet
<1>8. Cut(f, i, Len(b) + j) = setSelectionPosition(SetValue(f, b1 \o a1), i)
    BY <1>3 DEF Cut
<1> QED
    BY <1>7, <1>8 DEF b1, a1, b, a

-----------------------------------------------------------------------------
(* Words *)

LEMMA LettersOfParts ==
    ASSUME NEW s \in Texts, NEW m \in 1..(Len(s) + 1), NEW n \in 0..Len(s), NEW c \in ToSet(SubSeq(s, m, n))
    PROVE  \E k \in m..n : c = s[k]
<1>1. Len(s) \in Nat
    BY LenProperties DEF Texts
<1> DEFINE part == SubSeq(s, m, n)
<1>2. /\ part \in Texts /\ Len(part) = (IF m <= n THEN n - m + 1 ELSE 0)
      /\ \A i \in 1..(n - m + 1) : part[i] = s[m + i - 1]
    BY PartsOfTexts
<1>3. DOMAIN part = 1..Len(part)
    BY <1>2, LenProperties DEF Texts
<1> HIDE DEF part
<1>4. PICK i \in DOMAIN part : c = part[i]
    BY DEF ToSet, part
<1>5. i \in 1..(n - m + 1) /\ m + i - 1 \in m..n
    BY <1>1, <1>2, <1>3, <1>4
<1> QED
    BY <1>2, <1>4, <1>5

LEMMA WordsAndBlanks ==
    ASSUME NEW s \in Texts, NEW m \in 1..(Len(s) + 1), NEW n \in 0..Len(s)
    PROVE  /\ (\A k \in m..n : s[k] # " ") => Words(SubSeq(s, m, n))
           /\ (\A k \in m..n : s[k] = " ") => Blanks(SubSeq(s, m, n))
<1>1. ASSUME \A k \in m..n : s[k] # " "
      PROVE  Words(SubSeq(s, m, n))
    <2> SUFFICES ASSUME " " \in ToSet(SubSeq(s, m, n))
                 PROVE  FALSE
        BY Zenon DEF Words, Blank
    <2>1. \E k \in m..n : " " = s[k]
        BY LettersOfParts
    <2> QED
        BY <1>1, <2>1, Zenon
<1>2. ASSUME \A k \in m..n : s[k] = " "
      PROVE  Blanks(SubSeq(s, m, n))
    <2> SUFFICES ASSUME NEW c \in ToSet(SubSeq(s, m, n))
                 PROVE  c = " "
        BY Zenon DEF Blanks, Blank
    <2>1. \E k \in m..n : c = s[k]
        BY LettersOfParts
    <2> QED
        BY <1>2, <2>1, Zenon
<1> QED
    BY <1>1, <1>2, Zenon

LEMMA WordsEndTheLine ==
    ASSUME NEW s \in Texts
    PROVE  findWordBoundaryBackward(s) \in 0..Len(s) /\ WordLeft(s, findWordBoundaryBackward(s))
<1> DEFINE i == findWordBoundaryBackward(s)
           L == Len(s)
           B(k) == s[k] = " "
<1>1. L \in Nat
    BY LenProperties DEF Texts
<1>8. DOMAIN s = 1..L
    BY LenProperties DEF Texts
<1>2. WordsOf(s) \subseteq 1..L /\ BlanksOf(s) \subseteq 1..L
    BY <1>8, Zenon DEF WordsOf, BlanksOf
<1>3. \A k \in 1..L : k \in WordsOf(s) <=> ~ B(k)
    BY <1>8, Zenon DEF WordsOf
<1>4. \A k \in 1..L : k \in BlanksOf(s) <=> B(k)
    BY <1>8, Zenon DEF BlanksOf
<1>5. SUFFICES \E j \in i..L : /\ i \in 0..L
                               /\ \A k \in (i + 1)..j : ~ B(k)
                               /\ \A k \in (j + 1)..L : B(k)
                               /\ i > 0 => i < j /\ B(i)
    <2>1. PICK j \in i..L : /\ i \in 0..L
                            /\ \A k \in (i + 1)..j : ~ B(k)
                            /\ \A k \in (j + 1)..L : B(k)
                            /\ i > 0 => i < j /\ B(i)
        BY <1>5
    <2> HIDE DEF i, L, B
    <2>2. i + 1 \in 1..(L + 1) /\ j + 1 \in 1..(L + 1) /\ j \in 0..L /\ L \in 0..L
        BY <1>1, <2>1
    <2>3. Words(SubSeq(s, i + 1, j))
        BY <2>1, <2>2, WordsAndBlanks, Zenon DEF L, B
    <2>4. Blanks(SubSeq(s, j + 1, L))
        BY <2>1, <2>2, WordsAndBlanks, Zenon DEF L, B
    <2> QED
        BY <2>1, <2>3, <2>4 DEF WordLeft, Blank, i, L, B
<1> HIDE DEF L, B
<1>6. CASE WordsOf(s) = {}
    <2>1. i = 0
        BY <1>6 DEF findWordBoundaryBackward
    <2> HIDE DEF i
    <2>2. \A k \in 1..L : B(k)
        BY <1>3, <1>6
    <2>3. 0 \in i..L /\ i \in 0..L /\ ~(i > 0) /\ (i + 1)..0 = {} /\ (0 + 1)..L = 1..L
        BY <1>1, <2>1
    <2> QED
        BY <2>2, <2>3
<1>7. CASE WordsOf(s) # {}
    <2> DEFINE j == Max(WordsOf(s))
               Behind == {0} \cup {k \in BlanksOf(s) : k < j}
    <2>1. j \in WordsOf(s) /\ \A k \in WordsOf(s) : k <= j
        <3>1. WordsOf(s) \subseteq 0..L
            BY <1>1, <1>2
        <3> QED
            BY <1>1, <1>7, <3>1, MaxIsGreatest
    <2> HIDE DEF j
    <2>2. i = Max(Behind)
        BY <1>7 DEF findWordBoundaryBackward, j
    <2>3. i \in Behind /\ \A k \in Behind : k <= i
        <3>1. Behind \subseteq 0..L /\ Behind # {}
            BY <1>1, <1>2
        <3> HIDE DEF Behind, i
        <3> QED
            BY <1>1, <2>2, <3>1, MaxIsGreatest
    <2> HIDE DEF i
    <2>4. j \in 1..L /\ i \in 0..L /\ i < j /\ (i > 0 => B(i))
        BY <1>1, <1>2, <1>4, <2>1, <2>3
    <2>5. ASSUME NEW k \in (i + 1)..j
          PROVE  ~ B(k)
        <3>1. k \in 1..L /\ k <= j /\ ~(k <= i)
            BY <1>1, <2>4
        <3>2. CASE k = j
            BY <3>1, <3>2, <1>3, <2>1
        <3>3. CASE k # j
            <4>1. k < j /\ k \notin Behind
                BY <3>1, <3>3, <2>3, <2>4
            <4> QED
                BY <4>1, <3>1, <1>4
        <3> QED
            BY <3>2, <3>3
    <2>6. ASSUME NEW k \in (j + 1)..L
          PROVE  B(k)
        <3>1. k \in 1..L /\ ~(k <= j)
            BY <1>1, <2>4
        <3> QED
            BY <3>1, <1>3, <2>1
    <2>7. j \in i..L
        BY <1>1, <2>4
    <2> QED
        BY <2>4, <2>5, <2>6, <2>7
<1> QED
    BY <1>6, <1>7

LEMMA WordsBeginTheRest ==
    ASSUME NEW s \in Texts
    PROVE  findWordBoundaryForward(s) \in 0..Len(s) /\ WordRight(s, findWordBoundaryForward(s))
<1> DEFINE i == findWordBoundaryForward(s)
           L == Len(s)
           B(k) == s[k] = " "
<1>1. L \in Nat
    BY LenProperties DEF Texts
<1>8. DOMAIN s = 1..L
    BY LenProperties DEF Texts
<1>2. WordsOf(s) \subseteq 1..L /\ BlanksOf(s) \subseteq 1..L
    BY <1>8, Zenon DEF WordsOf, BlanksOf
<1>3. \A k \in 1..L : k \in WordsOf(s) <=> ~ B(k)
    BY <1>8, Zenon DEF WordsOf
<1>4. \A k \in 1..L : k \in BlanksOf(s) <=> B(k)
    BY <1>8, Zenon DEF BlanksOf
<1>5. SUFFICES \E j \in 0..i : /\ i \in 0..L
                               /\ \A k \in 1..j : B(k)
                               /\ \A k \in (j + 1)..i : ~ B(k)
                               /\ i < L => j < i /\ B(i + 1)
    <2>1. PICK j \in 0..i : /\ i \in 0..L
                            /\ \A k \in 1..j : B(k)
                            /\ \A k \in (j + 1)..i : ~ B(k)
                            /\ i < L => j < i /\ B(i + 1)
        BY <1>5
    <2> HIDE DEF i, L, B
    <2>2. 1 \in 1..(L + 1) /\ j + 1 \in 1..(L + 1) /\ j \in 0..L /\ i \in 0..L
        BY <1>1, <2>1
    <2>3. Blanks(SubSeq(s, 1, j))
        BY <2>1, <2>2, WordsAndBlanks, Zenon DEF L, B
    <2>4. Words(SubSeq(s, j + 1, i))
        BY <2>1, <2>2, WordsAndBlanks, Zenon DEF L, B
    <2> QED
        BY <2>1, <2>3, <2>4 DEF WordRight, Blank, i, L, B
<1> HIDE DEF L, B
<1>6. CASE WordsOf(s) = {}
    <2>1. i = L
        BY <1>6 DEF findWordBoundaryForward, L
    <2> HIDE DEF i
    <2>2. \A k \in 1..L : B(k)
        BY <1>3, <1>6
    <2>3. L \in 0..i /\ i \in 0..L /\ ~(i < L) /\ (L + 1)..i = {}
        BY <1>1, <2>1
    <2> QED
        BY <2>2, <2>3
<1>7. CASE WordsOf(s) # {}
    <2> DEFINE w == Min(WordsOf(s))
               Marks == {L} \cup {k - 1 : k \in {b \in BlanksOf(s) : b > w}}
    <2>1. w \in WordsOf(s) /\ \A k \in WordsOf(s) : w <= k
        <3>1. WordsOf(s) \subseteq Nat
            BY <1>1, <1>2
        <3> QED
            BY <1>7, <3>1, MinIsLeast
    <2> HIDE DEF w
    <2>2. i = Min(Marks)
        BY <1>7 DEF findWordBoundaryForward, w, L
    <2>3. i \in Marks /\ \A k \in Marks : i <= k
        <3>1. Marks \subseteq Nat /\ Marks # {}
            BY <1>1, <1>2
        <3> HIDE DEF Marks, i
        <3> QED
            BY <2>2, <3>1, MinIsLeast
    <2> HIDE DEF i
    <2>4. w \in 1..L /\ i \in 0..L /\ w <= i /\ (i < L => B(i + 1))
        <3>1. w \in 1..L
            BY <1>2, <2>1
        <3>2. CASE i = L
            BY <1>1, <3>1, <3>2
        <3>3. CASE i # L
            <4>1. PICK b \in BlanksOf(s) : b > w /\ i = b - 1
                BY <2>3, <3>3
            <4>2. b \in 1..L /\ B(b) /\ i + 1 = b
                BY <4>1, <1>2, <1>4
            <4> QED
                BY <1>1, <3>1, <4>1, <4>2
        <3> QED
            BY <3>2, <3>3
    <2>5. ASSUME NEW k \in (w - 1 + 1)..i
          PROVE  ~ B(k)
        <3>1. k \in 1..L /\ w <= k /\ k <= i
            BY <1>1, <2>4
        <3>2. CASE k = w
            BY <3>1, <3>2, <1>3, <2>1
        <3>3. CASE k # w
            <4>1. k > w /\ ~(i <= k - 1)
                BY <3>1, <3>3, <2>4
            <4>2. k - 1 \notin Marks
                BY <4>1, <2>3
            <4> QED
                BY <4>1, <4>2, <3>1, <1>4
        <3> QED
            BY <3>2, <3>3
    <2>6. ASSUME NEW k \in 1..(w - 1)
          PROVE  B(k)
        <3>1. k \in 1..L /\ ~(w <= k)
            BY <1>1, <2>4
        <3> QED
            BY <3>1, <1>3, <2>1
    <2>7. w - 1 \in 0..i /\ (i < L => w - 1 < i)
        BY <1>1, <2>4
    <2> QED
        BY <2>4, <2>5, <2>6, <2>7
<1> QED
    BY <1>6, <1>7

-----------------------------------------------------------------------------
(* Keys *)

LEMMA OneCharacter ==
    ASSUME NEW c \in Characters, NEW s \in Texts
    PROVE  <<c>> \in Texts /\ Len(<<c>>) = 1 /\ Append(s, c) = s \o <<c>> /\ s \o <<c>> \in Texts
<1>1. Append(<<>>, c) \in Texts /\ Len(Append(<<>>, c)) = 1
    <2>1. <<>> \in Texts /\ Len(<<>>) = 0
        BY EmptySeq DEF Texts
    <2>2. Append(<<>>, c) \in Texts /\ Len(Append(<<>>, c)) = Len(<<>>) + 1
        BY <2>1, AppendProperties DEF Texts
    <2> QED
        BY <2>1, <2>2
<1>3. <<c>> = Append(<<>>, c)
    OBVIOUS
<1>2. Append(s, c) = s \o <<c>>
    BY AppendIsConcat DEF Texts
<1>4. <<c>> \in Texts /\ Len(<<c>>) = 1
    BY <1>1, <1>3
<1> QED
    BY <1>2, <1>4, TextsTogether

LEMMA FirstCharacter ==
    ASSUME NEW s \in Texts, s # <<>>
    PROVE  /\ Head(s) \in Characters /\ Tail(s) \in Texts /\ Len(s) \in Nat /\ Len(s) > 0
           /\ s = <<Head(s)>> \o Tail(s) /\ Tail(s) = SubSeq(s, 2, Len(s))
<1>1. Head(s) \in Characters /\ Tail(s) \in Texts /\ Tail(s) = SubSeq(s, 2, Len(s))
    BY HeadTailProperties, TailIsSubSeq DEF Texts
<1>2. Len(s) \in Nat /\ Len(s) > 0
    BY EmptySeq DEF Texts
<1>3. 1 \in 1..Len(s) /\ Len(s) \in 1..Len(s)
    BY <1>2
<1>4. SubSeq(s, 1, Len(s)) = <<s[1]>> \o SubSeq(s, 1 + 1, Len(s)) /\ SubSeq(s, 1, Len(s)) = s
    BY <1>3, SubSeqRecursiveFirst, SubSeqFull DEF Texts
<1>5. Head(SubSeq(s, 1, Len(s))) = s[1]
    BY <1>3, HeadTailOfSubSeq DEF Texts
<1> QED
    BY <1>1, <1>2, <1>4, <1>5

LEMMA LastCharacter ==
    ASSUME NEW s \in Texts, s # <<>>
    PROVE  /\ Front(s) \in Texts /\ <<Last(s)>> \in Texts /\ Len(s) \in Nat /\ Len(s) > 0
           /\ Len(Front(s)) = Len(s) - 1 /\ s = Front(s) \o <<Last(s)>>
<1>1. Len(s) \in Nat /\ Len(s) > 0
    BY EmptySeq DEF Texts
<1>2. 1 \in 1..Len(s) /\ Len(s) \in 1..Len(s) /\ Len(s) - 1 \in 0..Len(s)
    BY <1>1
<1>3. SubSeq(s, 1, Len(s)) = SubSeq(s, 1, Len(s) - 1) \o <<s[Len(s)]>> /\ SubSeq(s, 1, Len(s)) = s
    BY <1>2, SubSeqRecursiveSecond, SubSeqFull DEF Texts
<1>4. SubSeq(s, 1, Len(s) - 1) \in Texts /\ Len(SubSeq(s, 1, Len(s) - 1)) = Len(s) - 1
    BY <1>2, TakenApart
<1>5. s[Len(s)] \in Characters
    BY <1>2, ElementOfSeq DEF Texts
<1>6. <<s[Len(s)]>> \in Texts
    BY <1>5, OneCharacter
<1> QED
    BY <1>1, <1>3, <1>4, <1>6 DEF Front, Last

LEMMA EmptyTexts ==
    ASSUME NEW s \in Texts
    PROVE  /\ <<>> \in Texts /\ <<>> \o s = s /\ s \o <<>> = s /\ Len(<<>>) = 0
           /\ SubSeq(s, 1, 0) = <<>> /\ SubSeq(s, 1, Len(s)) = s /\ SubSeq(s, Len(s) + 1, Len(s)) = <<>>
<1>1. Len(s) \in Nat
    BY LenProperties DEF Texts
<1> QED
    BY <1>1, EmptySeq, ConcatEmptySeq, SubSeqEmpty, SubSeqFull DEF Texts

(* A key that moves the cursor. *)
LEMMA CursorsMove ==
    ASSUME NEW f, IsField(f), NEW b \in Texts, NEW a \in Texts, b \o a = f.value
    PROVE  LET g == setSelectionPosition(f, Len(b))
           IN  IsField(g) /\ g.value = f.value /\ (f.selects => Line(g) = At(b, a))
<1> DEFINE g == setSelectionPosition(f, Len(b))
<1>1. CASE f.selects
    <2>1. IsField(g) /\ Line(g) = At(b, a)
        BY <1>1, CursorsAreSet
    <2>2. g.value = f.value
        BY <1>1 DEF IsField, setSelectionPosition
    <2> QED
        BY <2>1, <2>2
<1>2. CASE ~ f.selects
    BY <1>2 DEF setSelectionPosition
<1> QED
    BY <1>1, <1>2 DEF IsField

CtrlNames == {"a", "e", "f", "b", "d", "w", "u", "k"}
AltNames == {"f", "b", "d"}


(* With Ctrl, the keys of readline do what they do on a line. *)
LEMMA ControlKeysEdit ==
    ASSUME NEW f, IsField(f), NEW name \in CtrlNames
    PROVE  LET g == CtrlKeys(f)[name]
           IN  /\ IsField(g)
               /\ f.selects \/ g.value # f.value => Control(name, Line(f), Line(g))
<1> DEFINE b == Line(f).before
           a == Line(f).after
           v == f.value
           g == CtrlKeys(f)[name]
           at == getSelectionPosition(f)[1]
           word == findWordBoundaryBackward(b)
           Done == IsField(g) /\ (f.selects \/ g.value # v => Control(name, Line(f), Line(g)))
<1>1. /\ b \in Texts /\ a \in Texts /\ b \o a = v /\ v \in Texts
      /\ Len(b) \in Nat /\ Len(a) \in Nat /\ Len(v) \in Nat
      /\ at = Len(b) /\ Len(v) = Len(b) + Len(a)
    <2>1. b \in Texts /\ a \in Texts /\ b \o a = v /\ at = Len(b)
        BY LinesOfFields
    <2>2. v \in Texts
        BY DEF IsField
    <2> HIDE DEF a, b, v, at
    <2>3. Len(b) \in Nat /\ Len(a) \in Nat /\ Len(b \o a) = Len(b) + Len(a)
        BY <2>1, TextsTogether
    <2> QED
        BY <2>1, <2>2, <2>3
<1>2. word \in 0..Len(b) /\ WordLeft(b, word)
    BY <1>1, WordsEndTheLine
<1>3. Slice(v, 0, at) = b
    BY DEF Line
<1>4. CtrlKeys(f)[name] =
          CASE name = "a" -> setSelectionPosition(f, 0)
            [] name = "e" -> setSelectionPosition(f, Len(v))
            [] name = "f" -> setSelectionPosition(f, IF at < Len(v) THEN at + 1 ELSE Len(v))
            [] name = "b" -> setSelectionPosition(f, IF at > 0 THEN at - 1 ELSE 0)
            [] name = "d" -> IF at < Len(v) THEN Cut(f, at, at + 1) ELSE f
            [] name = "w" -> Cut(f, word, at)
            [] name = "u" -> Cut(f, 0, at)
            [] name = "k" -> Cut(f, at, Len(v))
    BY <1>3 DEF CtrlKeys, CtrlNames
<1>5. ASSUME NEW n
      PROVE  Control(name, Line(f), n) <=>
                 \/ name = "a" /\ n = At(<<>>, b \o a)
                 \/ name = "e" /\ n = At(b \o a, <<>>)
                 \/ name = "f" /\ n = IF a = <<>> THEN At(b, a) ELSE At(Append(b, Head(a)), Tail(a))
                 \/ name = "b" /\ n = IF b = <<>> THEN At(b, a) ELSE At(Front(b), <<Last(b)>> \o a)
                 \/ name = "d" /\ n = IF a = <<>> THEN Line(f) ELSE At(b, Tail(a))
                 \/ name = "w" /\ \E i \in 0..Len(b) : WordLeft(b, i) /\ n = At(SubSeq(b, 1, i), a)
                 \/ name = "u" /\ n = At(<<>>, a)
                 \/ name = "k" /\ n = At(b, <<>>)
    BY DEF Control, Text
<1>6. ASSUME NEW i \in 0..Len(b), NEW j \in 0..Len(a)
      PROVE  LET h == Cut(f, i, Len(b) + j)
             IN  IsField(h) /\ Line(h) = At(SubSeq(b, 1, i), SubSeq(a, j + 1, Len(a)))
    BY CutsLeaveTheRest
<1>7. f.value = v
    OBVIOUS
<1> HIDE DEF a, b, v, g, at, word
<1>11. CASE name = "a"
    <2>1. <<>> \in Texts /\ <<>> \o v = v /\ Len(<<>>) = 0
        BY <1>1, EmptyTexts
    <2>2. LET h == setSelectionPosition(f, Len(<<>>))
          IN  IsField(h) /\ h.value = f.value /\ (f.selects => Line(h) = At(<<>>, v))
        BY <1>1, <1>7, <2>1, CursorsMove
    <2> QED
        BY <1>1, <1>4, <1>5, <1>7, <1>11, <2>1, <2>2 DEF g
<1>12. CASE name = "e"
    <2>1. <<>> \in Texts /\ v \o <<>> = v
        BY <1>1, EmptyTexts
    <2>2. LET h == setSelectionPosition(f, Len(v))
          IN  IsField(h) /\ h.value = f.value /\ (f.selects => Line(h) = At(v, <<>>))
        BY <1>1, <1>7, <2>1, CursorsMove
    <2> QED
        BY <1>1, <1>4, <1>5, <1>7, <1>12, <2>1, <2>2 DEF g
<1>13. CASE name = "f"
    <2>1. CASE a = <<>>
        <3>1. Len(v) = Len(b) /\ ~(at < Len(v))
            BY <1>1, <2>1, EmptyTexts
        <3>2. LET h == setSelectionPosition(f, Len(b))
              IN  IsField(h) /\ h.value = f.value /\ (f.selects => Line(h) = At(b, a))
            BY <1>1, <1>7, CursorsMove
        <3> QED
            BY <1>1, <1>4, <1>5, <1>7, <1>13, <2>1, <3>1, <3>2 DEF g
    <2>2. CASE a # <<>>
        <3>1. /\ Head(a) \in Characters /\ Tail(a) \in Texts /\ Len(a) > 0 /\ a = <<Head(a)>> \o Tail(a)
            BY <1>1, <2>2, FirstCharacter
        <3>2. /\ <<Head(a)>> \in Texts /\ Append(b, Head(a)) = b \o <<Head(a)>>
              /\ Len(<<Head(a)>>) = 1 /\ b \o <<Head(a)>> \in Texts
            BY <1>1, <3>1, OneCharacter
        <3>3. Len(b \o <<Head(a)>>) = at + 1
            BY <1>1, <3>2, TextsTogether
        <3>4. (b \o <<Head(a)>>) \o Tail(a) = v
            <4> DEFINE h == <<Head(a)>>
                       t == Tail(a)
            <4>1. h \in Texts /\ t \in Texts /\ b \in Texts
                BY <1>1, <3>1, <3>2
            <4>4. a = h \o t
                BY <3>1
            <4> HIDE DEF h, t
            <4>2. (b \o h) \o t = b \o (h \o t)
                BY <4>1, TogetherInAnyOrder
            <4>3. (b \o h) \o t = v
                BY <1>1, <4>2, <4>4
            <4> QED
                BY <4>3 DEF h, t
        <3>5. LET h == setSelectionPosition(f, Len(b \o <<Head(a)>>))
              IN  /\ IsField(h) /\ h.value = f.value
                  /\ f.selects => Line(h) = At(b \o <<Head(a)>>, Tail(a))
            BY <1>7, <3>1, <3>2, <3>4, CursorsMove
        <3>6. at < Len(v)
            BY <1>1, <3>1
        <3> QED
            BY <1>1, <1>4, <1>5, <1>7, <1>13, <2>2, <3>2, <3>3, <3>5, <3>6 DEF g
    <2> QED
        BY <2>1, <2>2
<1>14. CASE name = "b"
    <2>1. CASE b = <<>>
        <3>1. at = 0 /\ Len(b) = 0
            BY <1>1, <2>1, EmptyTexts
        <3>2. LET h == setSelectionPosition(f, Len(b))
              IN  IsField(h) /\ h.value = f.value /\ (f.selects => Line(h) = At(b, a))
            BY <1>1, <1>7, CursorsMove
        <3> QED
            BY <1>1, <1>4, <1>5, <1>7, <1>14, <2>1, <3>1, <3>2 DEF g
    <2>2. CASE b # <<>>
        <3>1. /\ Front(b) \in Texts /\ <<Last(b)>> \in Texts /\ Len(b) > 0
              /\ Len(Front(b)) = Len(b) - 1 /\ b = Front(b) \o <<Last(b)>>
            BY <1>1, <2>2, LastCharacter
        <3>2. <<Last(b)>> \o a \in Texts /\ Front(b) \o (<<Last(b)>> \o a) = v
            <4> DEFINE h == Front(b)
                       t == <<Last(b)>>
            <4>1. h \in Texts /\ t \in Texts /\ a \in Texts
                BY <1>1, <3>1
            <4>4. b = h \o t
                BY <3>1
            <4> HIDE DEF h, t
            <4>2. (h \o t) \o a = h \o (t \o a)
                BY <4>1, TogetherInAnyOrder
            <4>5. t \o a \in Texts
                BY <4>1, TextsTogether
            <4>3. t \o a \in Texts /\ h \o (t \o a) = v
                BY <1>1, <4>2, <4>4, <4>5
            <4> QED
                BY <4>3 DEF h, t
        <3>3. LET h == setSelectionPosition(f, Len(Front(b)))
              IN  /\ IsField(h) /\ h.value = f.value
                  /\ f.selects => Line(h) = At(Front(b), <<Last(b)>> \o a)
            BY <1>7, <3>1, <3>2, CursorsMove
        <3>4. at > 0 /\ Len(Front(b)) = at - 1
            BY <1>1, <3>1
        <3> QED
            BY <1>1, <1>4, <1>5, <1>7, <1>14, <2>2, <3>3, <3>4 DEF g
    <2> QED
        BY <2>1, <2>2
<1>15. CASE name = "d"
    <2>1. CASE a = <<>>
        <3>1. ~(at < Len(v))
            BY <1>1, <2>1, EmptyTexts
        <3> QED
            BY <1>4, <1>5, <1>15, <2>1, <3>1 DEF g
    <2>2. CASE a # <<>>
        <3>1. Len(a) > 0 /\ Tail(a) = SubSeq(a, 2, Len(a))
            BY <1>1, <2>2, FirstCharacter
        <3>2. Len(b) \in 0..Len(b) /\ 1 \in 0..Len(a) /\ at < Len(v) /\ 1 + 1 = 2
            BY <1>1, <3>1
        <3>3. LET h == Cut(f, Len(b), Len(b) + 1)
              IN  IsField(h) /\ Line(h) = At(SubSeq(b, 1, Len(b)), SubSeq(a, 1 + 1, Len(a)))
            BY <1>6, <3>2
        <3>4. SubSeq(b, 1, Len(b)) = b
            BY <1>1, EmptyTexts
        <3> QED
            BY <1>1, <1>4, <1>5, <1>15, <2>2, <3>1, <3>2, <3>3, <3>4 DEF g
    <2> QED
        BY <2>1, <2>2
<1>16. CASE name = "w"
    <2>1. 0 \in 0..Len(a) /\ Len(b) + 0 = at /\ 0 + 1 = 1
        BY <1>1
    <2>2. LET h == Cut(f, word, Len(b) + 0)
          IN  IsField(h) /\ Line(h) = At(SubSeq(b, 1, word), SubSeq(a, 0 + 1, Len(a)))
        BY <1>2, <1>6, <2>1
    <2>3. SubSeq(a, 1, Len(a)) = a
        BY <1>1, EmptyTexts
    <2> QED
        BY <1>2, <1>4, <1>5, <1>16, <2>1, <2>2, <2>3 DEF g
<1>17. CASE name = "u"
    <2>1. 0 \in 0..Len(a) /\ 0 \in 0..Len(b) /\ Len(b) + 0 = at /\ 0 + 1 = 1
        BY <1>1
    <2>2. LET h == Cut(f, 0, Len(b) + 0)
          IN  IsField(h) /\ Line(h) = At(SubSeq(b, 1, 0), SubSeq(a, 0 + 1, Len(a)))
        BY <1>6, <2>1
    <2>3. SubSeq(a, 1, Len(a)) = a /\ SubSeq(b, 1, 0) = <<>>
        BY <1>1, EmptyTexts
    <2> QED
        BY <1>4, <1>5, <1>17, <2>1, <2>2, <2>3 DEF g
<1>18. CASE name = "k"
    <2>1. Len(a) \in 0..Len(a) /\ Len(b) \in 0..Len(b)
        BY <1>1
    <2>2. LET h == Cut(f, Len(b), Len(b) + Len(a))
          IN  IsField(h) /\ Line(h) = At(SubSeq(b, 1, Len(b)), SubSeq(a, Len(a) + 1, Len(a)))
        BY <1>6, <2>1
    <2>3. SubSeq(b, 1, Len(b)) = b /\ SubSeq(a, Len(a) + 1, Len(a)) = <<>>
        BY <1>1, EmptyTexts
    <2> QED
        BY <1>1, <1>4, <1>5, <1>18, <2>1, <2>2, <2>3 DEF g
<1> QED
    BY <1>7, <1>11, <1>12, <1>13, <1>14, <1>15, <1>16, <1>17, <1>18 DEF CtrlNames, g

(* With Alt, the keys for words do what they do on a line. *)
LEMMA AlternateKeysEdit ==
    ASSUME NEW f, IsField(f), NEW name \in AltNames
    PROVE  LET g == AltKeys(f)[name]
           IN  /\ IsField(g)
               /\ f.selects \/ g.value # f.value => Alternate(name, Line(f), Line(g))
<1> DEFINE b == Line(f).before
           a == Line(f).after
           v == f.value
           g == AltKeys(f)[name]
           at == getSelectionPosition(f)[1]
           word == findWordBoundaryBackward(b)
           next == findWordBoundaryForward(a)
<1>1. /\ b \in Texts /\ a \in Texts /\ b \o a = v
      /\ Len(b) \in Nat /\ Len(a) \in Nat /\ at = Len(b)
    BY LinesOfFields, LenProperties DEF Texts
<1>2. word \in 0..Len(b) /\ WordLeft(b, word)
    BY <1>1, WordsEndTheLine
<1>3. next \in 0..Len(a) /\ WordRight(a, next)
    BY <1>1, WordsBeginTheRest
<1>4. Slice(v, 0, at) = b /\ Slice(v, at, Len(v)) = a
    BY DEF Line
<1>5. g = CASE name = "f" -> setSelectionPosition(f, at + next)
            [] name = "b" -> setSelectionPosition(f, word)
            [] name = "d" -> Cut(f, at, at + next)
    BY <1>4 DEF AltKeys, AltNames
<1>6. ASSUME NEW n
      PROVE  Alternate(name, Line(f), n) <=>
                 \/ name = "f" /\ \E i \in 0..Len(a) :
                        WordRight(a, i) /\ n = At(b \o SubSeq(a, 1, i), SubSeq(a, i + 1, Len(a)))
                 \/ name = "b" /\ \E i \in 0..Len(b) :
                        WordLeft(b, i) /\ n = At(SubSeq(b, 1, i), SubSeq(b, i + 1, Len(b)) \o a)
                 \/ name = "d" /\ \E i \in 0..Len(a) :
                        WordRight(a, i) /\ n = At(b, SubSeq(a, i + 1, Len(a)))
    BY DEF Alternate
<1>7. ASSUME NEW i \in 0..Len(b), NEW j \in 0..Len(a)
      PROVE  LET h == Cut(f, i, Len(b) + j)
             IN  IsField(h) /\ Line(h) = At(SubSeq(b, 1, i), SubSeq(a, j + 1, Len(a)))
    BY CutsLeaveTheRest
<1>8. f.value = v
    OBVIOUS
<1> HIDE DEF a, b, v, g, at, word, next
<1>11. CASE name = "f"
    <2> DEFINE a1 == SubSeq(a, 1, next)
               a2 == SubSeq(a, next + 1, Len(a))
    <2>1. a1 \in Texts /\ a2 \in Texts /\ Len(a1) = next /\ a1 \o a2 = a
        BY <1>1, <1>3, TakenApart
    <2> HIDE DEF a1, a2
    <2>2. b \o a1 \in Texts /\ Len(b \o a1) = at + next
        BY <1>1, <2>1, TextsTogether
    <2>3. (b \o a1) \o a2 = v
        BY <1>1, <2>1, TogetherInAnyOrder
    <2>4. LET h == setSelectionPosition(f, Len(b \o a1))
          IN  IsField(h) /\ h.value = f.value /\ (f.selects => Line(h) = At(b \o a1, a2))
        BY <1>8, <2>1, <2>2, <2>3, CursorsMove
    <2>5. g = setSelectionPosition(f, Len(b \o a1))
        BY <1>5, <1>11, <2>2
    <2>6. f.selects => Line(g) = At(b \o SubSeq(a, 1, next), SubSeq(a, next + 1, Len(a)))
        BY <2>4, <2>5 DEF a1, a2
    <2> QED
        <3>1. IsField(g) /\ g.value = f.value
            BY <2>4, <2>5
        <3>2. f.selects => Alternate(name, Line(f), Line(g))
            BY <1>3, <1>6, <1>11, <2>6, Zenon
        <3> QED
            BY <1>8, <3>1, <3>2 DEF g
<1>12. CASE name = "b"
    <2> DEFINE b1 == SubSeq(b, 1, word)
               b2 == SubSeq(b, word + 1, Len(b))
    <2>1. b1 \in Texts /\ b2 \in Texts /\ Len(b1) = word /\ b1 \o b2 = b
        BY <1>1, <1>2, TakenApart
    <2> HIDE DEF b1, b2
    <2>2. b2 \o a \in Texts
        BY <1>1, <2>1, TextsTogether
    <2>3. b1 \o (b2 \o a) = v
        <3>1. (b1 \o b2) \o a = b1 \o (b2 \o a)
            BY <1>1, <2>1, TogetherInAnyOrder
        <3> QED
            BY <1>1, <2>1, <3>1
    <2>4. LET h == setSelectionPosition(f, Len(b1))
          IN  IsField(h) /\ h.value = f.value /\ (f.selects => Line(h) = At(b1, b2 \o a))
        BY <1>8, <2>1, <2>2, <2>3, CursorsMove
    <2>5. g = setSelectionPosition(f, Len(b1))
        BY <1>5, <1>12, <2>1
    <2>6. f.selects => Line(g) = At(SubSeq(b, 1, word), SubSeq(b, word + 1, Len(b)) \o a)
        BY <2>4, <2>5 DEF b1, b2
    <2> QED
        <3>1. IsField(g) /\ g.value = f.value
            BY <2>4, <2>5
        <3>2. f.selects => Alternate(name, Line(f), Line(g))
            BY <1>2, <1>6, <1>12, <2>6, Zenon
        <3> QED
            BY <1>8, <3>1, <3>2 DEF g
<1>13. CASE name = "d"
    <2>1. Len(b) \in 0..Len(b)
        BY <1>1
    <2>2. LET h == Cut(f, Len(b), Len(b) + next)
          IN  IsField(h) /\ Line(h) = At(SubSeq(b, 1, Len(b)), SubSeq(a, next + 1, Len(a)))
        BY <1>3, <1>7, <2>1
    <2>3. SubSeq(b, 1, Len(b)) = b
        BY <1>1, EmptyTexts
    <2>4. g = Cut(f, Len(b), Len(b) + next)
        BY <1>1, <1>5, <1>13
    <2>5. IsField(g) /\ Line(g) = At(b, SubSeq(a, next + 1, Len(a)))
        BY <2>2, <2>3, <2>4
    <2> QED
        <3>1. Alternate(name, Line(f), Line(g))
            BY <1>3, <1>6, <1>13, <2>5, Zenon
        <3> QED
            BY <2>5, <3>1 DEF g
<1> QED
    BY <1>8, <1>11, <1>12, <1>13 DEF AltNames, g

(* What is typed takes the place of the selection. *)
LEMMA CharactersAreTyped ==
    ASSUME NEW f, IsField(f), NEW k, charToInsert(k) \in Characters
    PROVE  LET g == Inserted(k, f)
           IN  IsField(g) /\ Type(charToInsert(k), Line(f), Line(g))
<1> DEFINE b == Line(f).before
           a == Line(f).after
           m == Line(f).marked
           c == charToInsert(k)
           at == getSelectionPosition(f)[1]
           to == getSelectionPosition(f)[2]
           rest == SubSeq(a, m + 1, Len(a))
<1>1. /\ b \in Texts /\ a \in Texts /\ b \o a = f.value /\ at = Len(b) /\ m \in 0..Len(a)
      /\ to = Len(b) + m /\ (~ f.selects => a = <<>> /\ m = 0)
    BY LinesOfFields
<1>2. Len(b) \in Nat /\ Len(a) \in Nat /\ c \in Characters
    BY <1>1, LenProperties DEF Texts
<1>3. Slice(f.value, 0, at) = b
    BY DEF Line
<1>4. Slice(f.value, to, Len(f.value)) = rest
    <2>1. Len(b) \in 0..Len(b)
        BY <1>2
    <2> HIDE DEF a, b, m, to, at
    <2>2. SubSeq(b \o a, Len(b) + m + 1, Len(b \o a)) = rest
        BY <1>1, <2>1, EndsOfParts
    <2> QED
        BY <1>1, <2>2 DEF Slice
<1>5. Inserted(k, f) = setSelectionPosition(SetValue(f, (b \o <<c>>) \o rest), Len(b) + 1)
    BY <1>1, <1>3, <1>4 DEF Inserted
<1>6. Type(c, Line(f), At(b \o <<c>>, rest))
    <2>1. Append(b, c) = b \o <<c>>
        BY <1>1, <1>2, OneCharacter
    <2> QED
        BY <2>1 DEF Type
<1> HIDE DEF a, b, m, c, at, to
<1>7. rest \in Texts /\ (~ f.selects => rest = <<>>)
    <2>1. rest \in Texts
        BY <1>1, TakenApart
    <2>2. a = <<>> /\ m = 0 => rest = <<>>
        <3>1. Len(<<>>) = 0
            BY EmptySeq
        <3> QED
            BY <3>1, SubSeqEmpty
    <2> QED
        BY <1>1, <2>1, <2>2
<1> HIDE DEF rest
<1>8. b \o <<c>> \in Texts /\ Len(b \o <<c>>) = Len(b) + 1
    BY <1>1, <1>2, OneCharacter, TextsTogether
<1>9. LET g == setSelectionPosition(SetValue(f, (b \o <<c>>) \o rest), Len(b \o <<c>>))
      IN  IsField(g) /\ Line(g) = At(b \o <<c>>, rest)
    BY <1>7, <1>8, TextsAreSet
<1> QED
    BY <1>5, <1>6, <1>8, <1>9 DEF c

(* Backspace takes the last character. *)
LEMMA LastCharactersAreTaken ==
    ASSUME NEW f, IsField(f)
    PROVE  LET g == Backspaced(f)
           IN  IsField(g) /\ Backspace(Line(f), Line(g))
<1> DEFINE v == f.value
           g == Backspaced(f)
<1>1. v \in Texts /\ Text(Line(f)) = v
    BY LinesOfFields DEF Text, IsField
<1>2. CASE v = <<>>
    <2>1. g = f
        BY <1>2 DEF Backspaced
    <2> QED
        BY <1>1, <1>2, <2>1 DEF Backspace
<1>3. CASE v # <<>>
    <2> DEFINE w == Front(v)
    <2>1. w \in Texts /\ Len(w) = Len(v) - 1 /\ Len(v) \in Nat /\ Len(w) \in Nat
        BY <1>1, <1>3, LastCharacter, LenProperties DEF Texts
    <2> HIDE DEF w
    <2>2. w # v
        BY <2>1
    <2>3. g = SetValue(f, w)
        BY <1>3 DEF Backspaced, w
    <2>4. f = [value |-> v, start |-> f.start, end |-> f.end, selects |-> f.selects] /\ f.selects \in BOOLEAN
        BY DEF IsField
    <2>5. SetValue(f, w) = [f EXCEPT !.value = w, !.start = Len(w), !.end = Len(w)]
        BY <2>2 DEF SetValue
    <2>6. SetValue(f, w) = [value |-> w, start |-> Len(w), end |-> Len(w), selects |-> f.selects]
        BY <2>4, <2>5
    <2> HIDE DEF g
    <2>7. IsField(g) /\ getSelectionPosition(g) = <<Len(w), Len(w)>> /\ g.value = w
        BY <2>1, <2>3, <2>4, <2>6 DEF IsField, getSelectionPosition
    <2>8. Line(g) = [before |-> SubSeq(w, 1, Len(w)), after |-> SubSeq(w, Len(w) + 1, Len(w)), marked |-> 0]
        <3>1. Line(g) = [before |-> Slice(w, 0, Len(w)), after |-> Slice(w, Len(w), Len(w)),
                         marked |-> Len(w) - Len(w)]
            BY <2>7 DEF Line
        <3>2. Len(w) - Len(w) = 0
            BY <2>1
        <3> QED
            BY <3>1, <3>2 DEF Slice
    <2>9. SubSeq(w, 1, Len(w)) = w /\ SubSeq(w, Len(w) + 1, Len(w)) = <<>>
        BY <2>1, EmptyTexts
    <2> QED
        BY <1>1, <1>3, <2>7, <2>8, <2>9 DEF Backspace, At, w, g
<1> QED
    BY <1>2, <1>3

-----------------------------------------------------------------------------
(* The fields of the page *)

\* The invariant of the fields.
FieldsIInv == DOMAIN field = Are({"text"}) /\ \A e \in DOMAIN field : IsField(field[e])

LEMMA KeysEdit ==
    ASSUME NEW k, NEW f, IsField(f), IsReadline(k) \/ IsCharacter(k) \/ k.name = "backspace"
    PROVE  LET g == IF IsReadline(k) THEN Readline(k, f)
                    ELSE IF IsCharacter(k) THEN Inserted(k, f) ELSE Backspaced(f)
               line == Line(f)
               next == Line(g)
           IN  /\ IsField(g)
               /\ f.selects \/ g.value # f.value =>
                     \/ "ctrl" \in k.mods /\ Control(k.name, line, next)
                     \/ WithAlt(k) /\ Alternate(k.name, line, next)
                     \/ IsCharacter(k) /\ ~ IsReadline(k) /\ Type(charToInsert(k), line, next)
                     \/ k.name = "backspace" /\ Backspace(line, next)
<1>1. CASE IsReadline(k)
    <2>1. \A name : name \in DOMAIN CtrlKeys(f) <=> name \in CtrlNames
        BY DEF CtrlKeys, CtrlNames
    <2>2. CASE "ctrl" \in k.mods /\ k.name \in CtrlNames
        <3>1. Readline(k, f) = CtrlKeys(f)[k.name]
            BY <2>1, <2>2 DEF Readline
        <3> QED
            BY <1>1, <2>2, <3>1, ControlKeysEdit
    <2>3. CASE ~("ctrl" \in k.mods /\ k.name \in CtrlNames)
        <3>1. Readline(k, f) = AltKeys(f)[k.name]
            BY <2>1, <2>3 DEF Readline
        <3>2. WithAlt(k) /\ k.name \in AltNames
            BY <1>1, <2>3 DEF IsReadline, CtrlNames, AltNames
        <3> QED
            BY <1>1, <3>1, <3>2, AlternateKeysEdit
    <2> QED
        BY <2>2, <2>3
<1>2. CASE ~ IsReadline(k) /\ IsCharacter(k)
    <2>1. charToInsert(k) \in Characters
        BY <1>2 DEF IsCharacter, charToInsert, Characters
    <2> QED
        BY <1>2, <2>1, CharactersAreTyped
<1>3. CASE ~ IsReadline(k) /\ ~ IsCharacter(k)
    BY <1>3, LastCharactersAreTaken
<1> QED
    BY <1>1, <1>2, <1>3

LEMMA FieldsInitIInv == Init => FieldsIInv
<1> SUFFICES ASSUME Init
             PROVE  FieldsIInv
    OBVIOUS
<1>1. field \in [Are({"text"}) -> [value : {<<>>}, start : {0}, end : {0}, selects : BOOLEAN]]
    BY DEF Init
<1>2. ASSUME NEW f \in [value : {<<>>}, start : {0}, end : {0}, selects : BOOLEAN]
      PROVE  IsField(f)
    <2>1. <<>> \in Texts /\ Len(<<>>) = 0
        BY EmptySeq DEF Texts
    <2> QED
        BY <2>1 DEF IsField
<1> QED
    BY <1>1, <1>2 DEF FieldsIInv

(* What Edit makes of the field that the key went to. *)
LEMMA EditsWriteOneField ==
    ASSUME FieldsIInv, Edit
    PROVE  /\ target \in DOMAIN field /\ IsField(field[target])
           /\ field' = [field EXCEPT ![target] = field'[target]]
           /\ IsReadline(key) \/ IsCharacter(key) \/ key.name = "backspace"
           /\ field'[target] = IF IsReadline(key) THEN Readline(key, field[target])
                               ELSE IF IsCharacter(key) THEN Inserted(key, field[target])
                               ELSE Backspaced(field[target])
<1> DEFINE g == IF IsReadline(key) THEN Readline(key, field[target])
                ELSE IF IsCharacter(key) THEN Inserted(key, field[target])
                ELSE Backspaced(field[target])
<1>1. target \in DOMAIN field /\ IsField(field[target])
    BY DEF Edit, Edits, IsText, FieldsIInv
<1>2. field' = [field EXCEPT ![target] = g]
    BY DEF Edit
<1>3. IsReadline(key) \/ IsCharacter(key) \/ key.name = "backspace"
    BY DEF Edit, Edits
<1> HIDE DEF g
<1>4. field'[target] = g
    BY <1>1, <1>2
<1> QED
    BY <1>1, <1>2, <1>3, <1>4 DEF g

LEMMA FieldsNextIInv == FieldsIInv /\ [Next]_vars => FieldsIInv'
<1> SUFFICES ASSUME FieldsIInv, [Next]_vars
             PROVE  FieldsIInv'
    OBVIOUS
<1>1. ASSUME page' = page, field' = field
      PROVE  FieldsIInv'
    BY <1>1, Zenon DEF FieldsIInv, Are, Elements
<1>2. CASE Edit
    <2>1. page' = page
        BY <1>2 DEF Edit, Default, document
    <2>2. Are({"text"})' = Are({"text"})
        BY <2>1 DEF Are, Elements
    <2>3. IsField(field'[target]) /\ field' = [field EXCEPT ![target] = field'[target]]
        BY <1>2, EditsWriteOneField, KeysEdit
    <2> QED
        BY <2>2, <2>3 DEF FieldsIInv
<1>3. ASSUME NEW e \in Are({"text"}), SelectText(e)
      PROVE  FieldsIInv'
    <2>1. page' = page
        BY <1>3 DEF SelectText, Call, Script
    <2>2. Are({"text"})' = Are({"text"})
        BY <2>1 DEF Are, Elements
    <2>3. PICK range \in {r \in (0..Len(field[e].value)) \X (0..Len(field[e].value)) : r[1] <= r[2]} :
              field' = [field EXCEPT ![e].start = range[1], ![e].end = range[2]]
        BY <1>3 DEF SelectText
    <2>4. e \in DOMAIN field /\ IsField(field[e])
        BY DEF FieldsIInv
    <2>5. Len(field[e].value) \in Nat
        BY <2>4, LenProperties DEF IsField, Texts
    <2>6. range[1] \in Nat /\ range[2] \in Nat /\ range[1] <= range[2] /\ range[2] <= Len(field[e].value)
        BY <2>5
    <2>7. field'[e] = [field[e] EXCEPT !.start = range[1], !.end = range[2]]
        BY <2>3, <2>4
    <2>8. IsField(field'[e])
        BY <2>4, <2>6, <2>7 DEF IsField
    <2>9. DOMAIN field' = DOMAIN field /\ \A d \in DOMAIN field \ {e} : field'[d] = field[d]
        BY <2>3, <2>4
    <2> QED
        BY <2>2, <2>8, <2>9 DEF FieldsIInv
<1>4. CASE Attach \/ Detach \/ DeactivateFocusTrap \/ SetScrollContainer \/ Keypress \/ Prevented
           \/ ReleaseTrap \/ handleAccesskey \/ moveFocus \/ moveRadioFocus \/ dispatchClick \/ Ignored
    <2>1. page' = page /\ field' = field
        BY <1>4 DEF Attach, Detach, DeactivateFocusTrap, SetScrollContainer, Keypress, Prevented, ReleaseTrap,
                    handleAccesskey, moveFocus, moveRadioFocus, dispatchClick, Ignored, Call, Script, Default, document
    <2> QED
        BY <1>1, <2>1
<1>5. ASSUME NEW e,
             \/ ActivateFocusTrap(e) \/ RemoveElement(e) \/ HideElement(e)
             \/ FocusElement(e) \/ DisableElement(e) \/ Scroll(e)
      PROVE  FieldsIInv'
    <2>1. page' = page /\ field' = field
        BY <1>5 DEF ActivateFocusTrap, RemoveElement, HideElement, FocusElement, DisableElement, Scroll, Call, Script,
                    document
    <2> QED
        BY <1>1, <2>1
<1>6. CASE UNCHANGED vars
    BY <1>1, <1>6 DEF vars
<1> QED
    BY <1>2, <1>3, <1>4, <1>5, <1>6 DEF Next

(* Whatever the keys and however long they go on, an edited field is the   *)
(* line its key makes of the line it was.                                  *)
THEOREM EditsAreLines == Spec => EditsLikeALine
<1>1. ASSUME FieldsIInv, [Next]_vars, NEW e \in DOMAIN field,
             key # NoKey, key' = NoKey, field'[e] # field[e],
             field[e].selects \/ field'[e].value # field[e].value
      PROVE  LET line == Line(field[e])
                 next == Line(field'[e])
             IN \/ "ctrl" \in key.mods /\ Control(key.name, line, next)
                \/ WithAlt(key) /\ Alternate(key.name, line, next)
                \/ IsCharacter(key) /\ ~ IsReadline(key) /\ Type(charToInsert(key), line, next)
                \/ key.name = "backspace" /\ Backspace(line, next)
    <2>1. CASE Edit
        <3>1. e = target
            BY <1>1, <2>1, EditsWriteOneField
        <3> DEFINE k == key
                   f == field[target]
        <3>2. IsField(f) /\ (IsReadline(k) \/ IsCharacter(k) \/ k.name = "backspace")
            BY <1>1, <2>1, EditsWriteOneField
        <3>3. field'[target] = IF IsReadline(k) THEN Readline(k, f)
                               ELSE IF IsCharacter(k) THEN Inserted(k, f) ELSE Backspaced(f)
            BY <1>1, <2>1, EditsWriteOneField
        <3> QED
            BY <1>1, <3>1, <3>2, <3>3, KeysEdit
    <2>2. CASE Attach \/ Detach \/ DeactivateFocusTrap \/ SetScrollContainer \/ Keypress \/ Prevented
               \/ ReleaseTrap \/ handleAccesskey \/ moveFocus \/ moveRadioFocus \/ dispatchClick \/ Ignored
        <3>1. field' = field
            BY <2>2 DEF Attach, Detach, DeactivateFocusTrap, SetScrollContainer, Keypress, Prevented, ReleaseTrap,
                        handleAccesskey, moveFocus, moveRadioFocus, dispatchClick, Ignored
        <3> QED
            BY <1>1, <3>1
    <2>3. ASSUME NEW d,
                 \/ ActivateFocusTrap(d) \/ RemoveElement(d) \/ HideElement(d)
                 \/ FocusElement(d) \/ DisableElement(d) \/ Scroll(d) \/ SelectText(d)
          PROVE  FALSE
        <3>1. key' = key
            BY <2>3 DEF ActivateFocusTrap, RemoveElement, HideElement, FocusElement, DisableElement, Scroll, SelectText,
                        Call, Script
        <3> QED
            BY <1>1, <3>1
    <2>4. CASE UNCHANGED vars
        BY <1>1, <2>4 DEF vars
    <2> QED
        BY <1>1, <2>1, <2>2, <2>3, <2>4 DEF Next
<1>2. FieldsIInv /\ [Next]_vars =>
          \A e \in DOMAIN field :
              (key # NoKey /\ key' = NoKey /\ field'[e] # field[e]
                  /\ (field[e].selects \/ field'[e].value # field[e].value)) =>
              LET line == Line(field[e])
                  next == Line(field'[e])
              IN \/ "ctrl" \in key.mods /\ Control(key.name, line, next)
                 \/ WithAlt(key) /\ Alternate(key.name, line, next)
                 \/ IsCharacter(key) /\ ~ IsReadline(key) /\ Type(charToInsert(key), line, next)
                 \/ key.name = "backspace" /\ Backspace(line, next)
    BY <1>1
<1> QED
    BY <1>2, FieldsInitIInv, FieldsNextIInv, PTL DEF Spec, EditsLikeALine

-----------------------------------------------------------------------------
(* TuiSpawn *)

WaitStates == {"idle", "waiting", "found", "stable"} \cup Failures

WaitRecords ==
    [state : WaitStates, start : Nat, due : Nat, lastOutput : Seq(STRING), lastChangeTime : Nat]

\* What the variables hold.
SpawnTypeOK ==
    /\ now \in Nat /\ lastData \in Nat /\ lastData <= now
    /\ printed \in 0 .. Len(Program) /\ delivered \in 0 .. printed
    /\ exited \in BOOLEAN /\ closed \in BOOLEAN /\ cleared \in BOOLEAN
    /\ outputChunks \in Seq(STRING)
    /\ wait \in [Waits -> WaitRecords]
    /\ arrived \subseteq TextWaits

\* A text wait that could find its text has found it, or will when it looks.
TextInv ==
    \A w \in TextWaits :
        w \in arrived =>
            /\ wait[w].state # "idle" /\ wait[w].state \notin Failures
            /\ wait[w].state = "waiting" => includes(outputChunks)

\* What a stable wait saw last is no longer than the output; if it is the output,
\* then no data came since it last saw a change.
StableWait(looked) ==
    /\ looked.lastChangeTime <= now
    /\ Len(looked.lastOutput) <= Len(outputChunks)
    /\ looked.lastOutput = outputChunks => lastData <= looked.lastChangeTime

StableInv ==
    ~ cleared => \A w \in StableWaits \ TextWaits :
                     wait[w].state = "waiting" => StableWait(wait[w])

IInv == SpawnTypeOK /\ TextInv /\ StableInv

-----------------------------------------------------------------------------
(* The output and one look at it. *)

LEMMA ChunksAreStrings ==
    ASSUME SpawnTypeOK, delivered < printed
    PROVE  Program[delivered + 1] \in STRING
<1>1. delivered + 1 \in 1 .. Len(Program)
  BY TextsAssumption DEF SpawnTypeOK
<1> QED BY <1>1, TextsAssumption

\* More output still includes what it included.
LEMMA IncludesStays ==
    ASSUME NEW S, NEW output \in Seq(S), NEW chunk \in S, includes(output)
    PROVE  includes(Append(output, chunk))
<1>1. PICK i \in 0 .. (Len(output) - Len(Needle)) :
          SubSeq(output, i + 1, i + Len(Needle)) = Needle
  BY DEF includes
<1>2. Len(Needle) \in Nat /\ Len(output) \in Nat
  BY TextsAssumption
<1>3. Len(Append(output, chunk)) = Len(output) + 1
  OBVIOUS
<1>4. i \in 0 .. (Len(Append(output, chunk)) - Len(Needle))
  BY <1>2, <1>3
<1>5. SubSeq(Append(output, chunk), i + 1, i + Len(Needle)) = Needle
  <2>1. i \in Nat /\ i + Len(Needle) <= Len(output)
    BY <1>2
  <2>2. CASE Len(Needle) = 0
    <3>1. \A some : SubSeq(some, i + 1, i + Len(Needle)) = << >>
      BY <2>1, <2>2, SubSeqEmpty
    <3> QED BY <1>1, <3>1
  <2>3. CASE Len(Needle) # 0
    <3>1. i + 1 \in 1 .. Len(output) /\ i + Len(Needle) \in 1 .. Len(output)
      BY <2>1, <2>3, <1>2
    <3>2. <<chunk>> \in Seq(S)
      OBVIOUS
    <3>3. Append(output, chunk) = output \o <<chunk>>
      BY AppendIsConcat
    <3>4. SubSeq(output \o <<chunk>>, i + 1, i + Len(Needle)) = SubSeq(output, i + 1, i + Len(Needle))
      BY <3>1, <3>2, SubSeqOfConcat1
    <3> QED BY <1>1, <3>3, <3>4
  <2> QED BY <2>2, <2>3
<1> QED BY <1>4, <1>5 DEF includes

LEMMA TimesAreNat ==
    /\ TextInterval \in Nat /\ StableInterval \in Nat /\ PollInterval \in Nat
    /\ StableMs \in Nat /\ StableMs > 0 /\ Timeout \in Nat
BY TimesAssumption

LEMMA IntervalType == \A w \in Waits : Interval(w) \in Nat
BY TimesAreNat DEF Interval

\* What a look may change of a wait.
LEMMA RecordTypes ==
    ASSUME NEW looked \in WaitRecords
    PROVE  /\ \A time \in Nat : [looked EXCEPT !.due = time] \in WaitRecords
           /\ \A state \in WaitStates : [looked EXCEPT !.state = state] \in WaitRecords
           /\ \A time \in Nat, output \in Seq(STRING) :
                [looked EXCEPT !.lastOutput = output, !.lastChangeTime = time] \in WaitRecords
BY DEF WaitRecords

LEMMA LooksType ==
    ASSUME SpawnTypeOK, NEW w \in Waits, NEW looked \in WaitRecords
    PROVE  Check(w, looked) \in WaitRecords
<1>1. now + Interval(w) \in Nat /\ now \in Nat /\ outputChunks \in Seq(STRING)
  BY IntervalType DEF SpawnTypeOK
<1>2. Later(w, looked) \in WaitRecords
  BY <1>1, RecordTypes DEF Later
<1>3. \A state \in WaitStates : Ends(looked, state) \in WaitRecords
  BY RecordTypes DEF Ends
<1>4. CheckText(w, looked) \in WaitRecords
  BY <1>2, <1>3 DEF CheckText, WaitStates, Failures
<1>5. CheckStable(w, looked) \in WaitRecords
  <2> DEFINE seen == IF outputChunks = looked.lastOutput THEN looked
                     ELSE [looked EXCEPT !.lastOutput = outputChunks, !.lastChangeTime = now]
  <2>1. seen \in WaitRecords
    BY <1>1, RecordTypes
  <2> HIDE DEF seen
  <2>2. Later(w, seen) \in WaitRecords
    BY <1>1, <2>1, RecordTypes DEF Later
  <2>3. \A state \in WaitStates : Ends(seen, state) \in WaitRecords
    BY <2>1, RecordTypes DEF Ends
  <2>4. CheckStable(w, looked) \in
          {Later(w, seen)} \cup {Ends(seen, state) : state \in {"stable", "timeout"}}
    BY DEF CheckStable, seen
  <2>5. {"stable", "timeout"} \subseteq WaitStates
    BY DEF WaitStates, Failures
  <2> QED BY <2>2, <2>3, <2>4, <2>5
<1>6. CheckPoll(w, looked) \in WaitRecords
  BY <1>2, <1>3 DEF CheckPoll, WaitStates, Failures
<1> QED BY <1>4, <1>5, <1>6 DEF Check

\* A look at a text that is there finds it, whatever the clock and the process say.
LEMMA LooksForText ==
    ASSUME NEW w \in TextWaits, NEW looked \in WaitRecords, includes(outputChunks)
    PROVE  Check(w, looked).state = "found"
BY DEF Check, CheckText, Ends, WaitRecords

\* A look that says stable comes after quiet or an end; one that waits on has seen the
\* output.
LEMMA LooksForQuiet ==
    ASSUME SpawnTypeOK, NEW w \in StableWaits \ TextWaits, NEW looked \in WaitRecords,
           looked.state = "waiting", StableWait(looked)
    PROVE  /\ Check(w, looked).state = "stable" => closed \/ now - lastData >= StableMs
           /\ Check(w, looked).state = "waiting" => StableWait(Check(w, looked))
<1> DEFINE seen == IF outputChunks = looked.lastOutput THEN looked
                   ELSE [looked EXCEPT !.lastOutput = outputChunks, !.lastChangeTime = now]
<1>1. /\ seen \in WaitRecords /\ seen.state = "waiting"
      /\ seen.lastOutput = outputChunks
      /\ lastData <= seen.lastChangeTime /\ seen.lastChangeTime <= now
  <2>1. now \in Nat /\ lastData <= now /\ outputChunks \in Seq(STRING)
    BY DEF SpawnTypeOK
  <2>2. seen \in WaitRecords
    BY <2>1, RecordTypes
  <2>3. CASE outputChunks = looked.lastOutput
    BY <2>2, <2>3 DEF StableWait
  <2>4. CASE outputChunks # looked.lastOutput
    <3>1. seen = [looked EXCEPT !.lastOutput = outputChunks, !.lastChangeTime = now]
      BY <2>4
    <3>2. /\ seen.state = looked.state /\ seen.lastOutput = outputChunks
          /\ seen.lastChangeTime = now
      BY <3>1 DEF WaitRecords
    <3> QED BY <2>1, <2>2, <3>2
  <2> QED BY <2>3, <2>4
<1>2. Check(w, looked) = CheckStable(w, looked)
  BY DEF Check
<1> HIDE DEF seen
<1>3. CheckStable(w, looked) =
        IF now - seen.lastChangeTime >= StableMs THEN Ends(seen, "stable")
        ELSE IF now - seen.start > Timeout THEN Ends(seen, "timeout")
        ELSE IF closed THEN Ends(seen, "stable")
        ELSE Later(w, seen)
  BY DEF CheckStable, seen
<1>4. CASE now - seen.lastChangeTime >= StableMs
  <2>1. now - lastData >= StableMs
    BY <1>1, <1>4, TimesAreNat DEF SpawnTypeOK, WaitRecords
  <2>2. Check(w, looked).state = "stable"
    BY <1>1, <1>2, <1>3, <1>4 DEF Ends, WaitRecords
  <2> QED BY <2>1, <2>2
<1>5. CASE ~ (now - seen.lastChangeTime >= StableMs)
  <2>1. CASE Check(w, looked) = Later(w, seen)
    <3>1. /\ Later(w, seen).lastOutput = seen.lastOutput
          /\ Later(w, seen).lastChangeTime = seen.lastChangeTime
          /\ Later(w, seen).state = "waiting"
      BY <1>1 DEF Later, WaitRecords
    <3> QED BY <2>1, <3>1, <1>1 DEF StableWait, SpawnTypeOK
  <2>2. CASE Check(w, looked) # Later(w, seen)
    <3>1. Check(w, looked) = Ends(seen, "timeout") \/ (closed /\ Check(w, looked) = Ends(seen, "stable"))
      BY <1>2, <1>3, <1>5, <2>2
    <3>2. Ends(seen, "timeout").state = "timeout" /\ Ends(seen, "stable").state = "stable"
      BY <1>1 DEF Ends, WaitRecords
    <3> QED BY <3>1, <3>2
  <2> QED BY <2>1, <2>2
<1> QED BY <1>4, <1>5

-----------------------------------------------------------------------------
(* The steps. *)

LEMMA InitIInv == SpawnInit => IInv
<1> SUFFICES ASSUME SpawnInit PROVE IInv
  OBVIOUS
<1>1. Idle \in WaitRecords /\ Idle.state = "idle"
  BY EmptySeq DEF Idle, WaitRecords, WaitStates
<1>2. SpawnTypeOK
  <2>1. 0 \in 0 .. Len(Program)
    BY TextsAssumption, LenProperties
  <2>2. outputChunks \in Seq(STRING)
    BY Zenon, EmptySeq DEF SpawnInit
  <2>3. wait \in [Waits -> WaitRecords]
    BY <1>1 DEF SpawnInit
  <2>4. /\ now \in Nat /\ lastData \in Nat /\ lastData <= now
        /\ printed \in 0 .. Len(Program) /\ delivered \in 0 .. printed
    BY <2>1 DEF SpawnInit
  <2>5. /\ arrived \subseteq TextWaits
        /\ exited \in BOOLEAN /\ closed \in BOOLEAN /\ cleared \in BOOLEAN
    BY DEF SpawnInit
  <2> QED BY <2>2, <2>3, <2>4, <2>5 DEF SpawnTypeOK
<1>3. TextInv
  BY DEF SpawnInit, TextInv
<1>4. StableInv
  BY <1>1 DEF SpawnInit, StableInv, Waits
<1> QED BY <1>2, <1>3, <1>4 DEF IInv

\* A look, at a call or when a timer fires, at the wait as it then is.
Looks(w, looked) ==
    /\ w \in Waits /\ looked \in WaitRecords /\ looked.state = "waiting"
    /\ wait' = [wait EXCEPT ![w] = Check(w, looked)]
    /\ \/ arrived' = arrived
       \/ w \in TextWaits /\ includes(outputChunks) /\ arrived' = arrived \cup {w}
    /\ w \in arrived => includes(outputChunks)
    /\ ~ cleared /\ w \in StableWaits \ TextWaits => StableWait(looked)
    /\ UNCHANGED <<now, process, handle>>

LEMMA CallLooks ==
    ASSUME IInv, NEW w \in Waits, CallWait(w)
    PROVE  \E looked : Looks(w, looked)
<1> DEFINE fresh == [state |-> "waiting", start |-> now, due |-> now,
                     lastOutput |-> IF w \in StableWaits THEN outputChunks ELSE <<>>,
                     lastChangeTime |-> now]
<1>1. now \in Nat /\ lastData \in Nat /\ lastData <= now /\ outputChunks \in Seq(STRING)
  BY DEF IInv, SpawnTypeOK
<1>2. fresh \in WaitRecords /\ fresh.state = "waiting"
  BY <1>1, EmptySeq DEF WaitRecords, WaitStates
<1>3. w \notin arrived
  BY DEF CallWait, IInv, SpawnTypeOK, TextInv
<1>4. w \in StableWaits => StableWait(fresh)
  BY <1>1 DEF StableWait
<1>5. Looks(w, fresh)
  BY <1>2, <1>3, <1>4 DEF Looks, CallWait
<1> QED BY <1>5

LEMMA FireLooks ==
    ASSUME IInv, NEW w \in Waits, Fire(w)
    PROVE  Looks(w, wait[w])
BY DEF Fire, Looks, IInv, SpawnTypeOK, TextInv, StableInv

LEMMA LookIInv ==
    ASSUME IInv, NEW w \in Waits, NEW looked, Looks(w, looked)
    PROVE  /\ IInv'
           /\ w \in StableWaits /\ wait'[w].state = "stable" /\ ~ cleared =>
                closed \/ now - lastData >= StableMs
<1>1. looked \in WaitRecords /\ looked.state = "waiting"
  BY DEF Looks
<1>2. Check(w, looked) \in WaitRecords
  BY <1>1, LooksType DEF IInv
<1>3. wait' \in [Waits -> WaitRecords] /\ wait'[w] = Check(w, looked)
      /\ \A v \in Waits \ {w} : wait'[v] = wait[v]
  BY <1>2 DEF Looks, IInv, SpawnTypeOK
<1>4. UNCHANGED <<now, printed, exited, outputChunks, delivered, closed, lastData, cleared>>
  BY DEF Looks, process, handle
<1>5. SpawnTypeOK'
  BY <1>3, <1>4 DEF IInv, SpawnTypeOK, Looks
<1>6. TextInv'
  <2> SUFFICES ASSUME NEW v \in TextWaits, v \in arrived'
               PROVE  /\ wait'[v].state # "idle" /\ wait'[v].state \notin Failures
                      /\ wait'[v].state = "waiting" => includes(outputChunks)'
    BY DEF TextInv
  <2>0. includes(outputChunks)' <=> includes(outputChunks)
    BY <1>4 DEF includes
  <2>1. CASE v = w
    <3>1. includes(outputChunks)
      BY <2>1 DEF Looks
    <3>2. wait'[v].state = "found"
      BY <1>1, <1>3, <2>1, <3>1, LooksForText
    <3> QED BY <3>2 DEF Failures
  <2>2. CASE v # w
    BY <1>3, <2>0, <2>2 DEF Looks, IInv, TextInv, Waits
  <2> QED BY <2>1, <2>2
<1>7. ~ cleared /\ w \in StableWaits \ TextWaits => StableWait(looked)
  BY DEF Looks
<1>8. StableInv'
  <2> SUFFICES ASSUME ~ cleared, NEW v \in StableWaits \ TextWaits, wait'[v].state = "waiting"
               PROVE  StableWait(wait[v])'
    BY <1>4 DEF StableInv
  <2>1. CASE v = w
    <3>1. StableWait(Check(w, looked))
      BY <1>1, <1>3, <1>7, <2>1, LooksForQuiet DEF IInv
    <3> QED BY <1>3, <1>4, <2>1, <3>1 DEF StableWait
  <2>2. CASE v # w
    <3>1. StableWait(wait[v]) /\ wait'[v] = wait[v]
      BY <1>3, <2>2 DEF IInv, StableInv, Waits
    <3> QED BY <1>4, <3>1 DEF StableWait
  <2> QED BY <2>1, <2>2
<1>9. ASSUME w \in StableWaits, wait'[w].state = "stable", ~ cleared
      PROVE  closed \/ now - lastData >= StableMs
  <2>1. w \notin TextWaits
    BY <1>1, <1>3, <1>9 DEF Check, CheckText, Later, Ends, WaitRecords
  <2> QED BY <1>1, <1>3, <1>7, <1>9, <2>1, LooksForQuiet DEF IInv
<1> QED BY <1>5, <1>6, <1>8, <1>9 DEF IInv

\* Data makes the output longer, and a stable wait will see that it did.
LEMMA DataIInv == ASSUME IInv, Data PROVE IInv'
<1>1. Program[delivered'] \in STRING /\ outputChunks \in Seq(STRING)
  BY ChunksAreStrings DEF IInv, Data, SpawnTypeOK
<1>2. outputChunks' \in Seq(STRING) /\ Len(outputChunks') = Len(outputChunks) + 1
  BY <1>1, AppendProperties DEF Data
<1>3. includes(outputChunks) => includes(outputChunks')
  BY <1>1, IncludesStays DEF Data
<1>4. includes(outputChunks)' <=> includes(outputChunks')
  BY DEF includes
<1>5. SpawnTypeOK'
  BY <1>2 DEF IInv, SpawnTypeOK, Data, process, Finding
<1>6. TextInv'
  BY <1>3, <1>4 DEF IInv, TextInv, Data, Finding, Failures
<1>7. StableInv'
  <2> SUFFICES ASSUME ~ cleared, NEW v \in StableWaits \ TextWaits, wait[v].state = "waiting"
               PROVE  StableWait(wait[v])'
    BY DEF StableInv, Data
  <2>1. StableWait(wait[v]) /\ wait[v] \in WaitRecords
    BY DEF IInv, StableInv, SpawnTypeOK, Waits
  <2>2. Len(wait[v].lastOutput) \in Nat /\ Len(outputChunks) \in Nat
    BY <1>1, <2>1, LenProperties DEF WaitRecords
  <2>3. Len(wait[v].lastOutput) < Len(outputChunks')
    BY <1>2, <2>1, <2>2 DEF StableWait
  <2> QED BY <1>2, <2>1, <2>2, <2>3 DEF StableWait, Data
<1> QED BY <1>5, <1>6, <1>7 DEF IInv

LEMMA TickIInv == ASSUME IInv, Tick PROVE IInv'
<1>1. SpawnTypeOK'
  BY DEF IInv, SpawnTypeOK, Tick, process, handle
<1>2. TextInv'
  BY DEF IInv, TextInv, Tick, handle, includes
<1>3. StableInv'
  BY DEF IInv, SpawnTypeOK, StableInv, StableWait, Tick, handle, Waits, WaitRecords
<1> QED BY <1>1, <1>2, <1>3 DEF IInv

\* The steps of the process and of the handle that are not data.
LEMMA OtherIInv ==
    ASSUME IInv, ProcessPrints \/ ProcessExits \/ Exit \/ Close \/ UNCHANGED spawnVars
    PROVE  IInv'
<1>1. UNCHANGED <<now, outputChunks, delivered, wait, arrived, lastData, cleared>>
  BY DEF ProcessPrints, ProcessExits, Exit, Close, process, handle, spawnVars
<1>2. SpawnTypeOK'
  <2>1. printed' \in 0 .. Len(Program) /\ delivered' \in 0 .. printed'
    BY <1>1, TextsAssumption, LenProperties
       DEF IInv, SpawnTypeOK, ProcessPrints, ProcessExits, Exit, Close, process, handle, spawnVars
  <2>2. exited' \in BOOLEAN /\ closed' \in BOOLEAN
    BY DEF IInv, SpawnTypeOK, ProcessPrints, ProcessExits, Exit, Close, process, handle, spawnVars
  <2> QED BY <1>1, <2>1, <2>2 DEF IInv, SpawnTypeOK
<1>3. TextInv'
  BY <1>1 DEF IInv, TextInv, includes
<1>4. StableInv'
  BY <1>1 DEF IInv, StableInv, StableWait
<1> QED BY <1>2, <1>3, <1>4 DEF IInv

LEMMA ClearIInv == ASSUME IInv, ClearOutput PROVE IInv'
<1>1. SpawnTypeOK'
  BY EmptySeq DEF IInv, SpawnTypeOK, ClearOutput, process
<1>2. TextInv' /\ StableInv'
  BY DEF ClearOutput, TextInv, StableInv
<1> QED BY <1>1, <1>2 DEF IInv

LEMMA NextIInv == IInv /\ [SpawnNext]_spawnVars => IInv'
<1> SUFFICES ASSUME IInv, [SpawnNext]_spawnVars PROVE IInv'
  OBVIOUS
<1>1. CASE ProcessPrints \/ ProcessExits \/ Exit \/ Close \/ UNCHANGED spawnVars
  BY <1>1, OtherIInv
<1>2. CASE Tick
  BY <1>2, TickIInv
<1>3. CASE Data
  BY <1>3, DataIInv
<1>4. CASE ClearOutput
  BY <1>4, ClearIInv
<1>5. ASSUME NEW w \in Waits, CallWait(w) PROVE IInv'
  BY <1>5, CallLooks, LookIInv
<1>6. ASSUME NEW w \in Waits, Fire(w) PROVE IInv'
  BY <1>6, FireLooks, LookIInv
<1> QED BY <1>1, <1>2, <1>3, <1>4, <1>5, <1>6 DEF SpawnNext

LEMMA Invariance == SpawnSpec => []IInv
BY InitIInv, NextIInv, PTL DEF SpawnSpec

\* Every reachable state is well typed.
THEOREM TypeCorrect == SpawnSpec => []SpawnTypeOK
<1>1. IInv => SpawnTypeOK
  BY DEF IInv
<1> QED BY <1>1, Invariance, PTL

\* waitForText (Spawn.ts 294-320) never fails with a text it could have found.
THEOREM ArrivedTextIsFound == SpawnSpec => []ArrivedIsFound
<1>1. IInv => ArrivedIsFound
  BY DEF IInv, TextInv, ArrivedIsFound
<1> QED BY <1>1, Invariance, PTL

\* waitForStable (Spawn.ts 331-363) succeeds only after a quiet time, or when the
\* terminal is closed.
THEOREM StableMeansQuiet == SpawnSpec => StableIsQuiet
<1> DEFINE Quiet ==
      \A w \in StableWaits :
          (wait[w].state # "stable" /\ wait'[w].state = "stable" /\ ~ cleared) =>
              closed \/ now - lastData >= StableMs
<1>1. ASSUME IInv, [SpawnNext]_spawnVars PROVE [Quiet]_spawnVars
  <2> SUFFICES ASSUME NEW w \in StableWaits, wait[w].state # "stable",
                      wait'[w].state = "stable", ~ cleared
               PROVE  closed \/ now - lastData >= StableMs
    OBVIOUS
  <2>1. wait' # wait /\ w \in Waits
    BY DEF Waits
  <2>2. PICK v \in Waits : CallWait(v) \/ Fire(v)
    BY <1>1, <2>1 DEF SpawnNext, ProcessPrints, ProcessExits, Tick, Data, Exit, Close, ClearOutput, spawnVars
  <2>3. PICK looked : Looks(v, looked)
    BY <1>1, <2>2, CallLooks, FireLooks
  <2>4. v = w
    BY <1>1, <2>1, <2>3 DEF Looks, IInv, SpawnTypeOK
  <2> QED BY <1>1, <2>3, <2>4, LookIInv
<1> QED BY <1>1, Invariance, PTL DEF SpawnSpec, StableIsQuiet
=============================================================================
