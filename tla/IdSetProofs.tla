---------------------------- MODULE IdSetProofs ----------------------------
(***************************************************************************)
(* What the id sets and the payloads of sqlite-graph-ext are, for every    *)
(* blob, every id and every row: which ids the functions' results hold,    *)
(* and that rows and numbers that are written are read again.  The         *)
(* functions are definitions by recursion over sequences and numbers; each *)
(* is shown to have a solution first, and what it computes is then shown   *)
(* by induction over a rank (RecursionHasASolution, ByRank).               *)
(*                                                                         *)
(* Sorting is described by relations: Lists(list, S, R) says that a        *)
(* sequence has the elements of S, each once, in the order R, and a set    *)
(* has one list in an order (ListsAreUnique).                              *)
(***************************************************************************)
EXTENDS GraphExt, WellFoundedInduction, FiniteSetTheorems, SequenceTheorems, TLAPS

-----------------------------------------------------------------------------
(* Numbers and recursion *)

Precedes == {ss \in Nat \X Nat : ss[1] < ss[2]}

\* Less-than among the numbers, as a relation, has no infinite descent.
LEMMA PrecedesIsWellFounded == IsWellFoundedOn(Precedes, Nat)
<1>1. OpToRel(<, Nat) = Precedes
    BY Zenon DEF OpToRel, Precedes
<1> QED
    BY <1>1, NatLessThanWellFounded

\* A set of numbers that is not empty has a least one.
LEMMA SomeNumberIsLeast ==
    ASSUME NEW S, S \subseteq Nat, S # {}
    PROVE  \E least \in S : \A i \in S : least <= i
<1>1. PICK least \in S : \A i \in S : <<i, least>> \notin Precedes
    BY PrecedesIsWellFounded, WFMin
<1>2. \A i \in S : ~(i < least)
    BY <1>1 DEF Precedes
<1> QED
    BY <1>2

(* Induction, for a set of numbers: what no step leaves, all are in.        *)
LEMMA AllNumbers ==
    ASSUME NEW S, 0 \in S, \A n \in Nat : n \in S => n + 1 \in S
    PROVE  \A n \in Nat : n \in S
<1> SUFFICES ASSUME NEW n \in Nat, n \notin S
             PROVE  FALSE
    OBVIOUS
<1>1. PICK least \in Nat \ S : \A i \in Nat \ S : least <= i
    BY SomeNumberIsLeast
<1>2. least - 1 \in Nat /\ least - 1 \in S
    BY <1>1
<1> QED
    BY <1>1, <1>2

(* A definition by recursion has a solution: what the value at a place is   *)
(* made of is the values at places of a lower rank.                         *)
LooksBack(value, D, V, rank) ==
    \A d \in D : \A f, g \in [D -> V] :
        (\A e \in D : rank[e] < rank[d] => f[e] = g[e]) => value[<<d, f>>] = value[<<d, g>>]

Recursive(value, D, V, rank, n) ==
    /\ V # {} /\ rank \in [D -> Nat] /\ n \in Nat /\ \A d \in D : rank[d] <= n
    /\ value \in [D \X [D -> V] -> V] /\ LooksBack(value, D, V, rank)

Solution(f, value, D, V) == f \in [D -> V] /\ \A d \in D : f[d] = value[<<d, f>>]

\* Up to each rank there is one solution, and it is unique: they agree.
LEMMA RecursionHasASolution ==
    ASSUME NEW value, NEW D, NEW V, NEW rank, NEW n, Recursive(value, D, V, rank, n)
    PROVE  \E f : Solution(f, value, D, V)
<1> USE DEF Recursive, Solution
<1> PICK some \in V : TRUE
    OBVIOUS
<1> DEFINE Solves(f, k) == \A d \in D : rank[d] < k => f[d] = value[<<d, f>>]
           Good == {k \in Nat : \E f \in [D -> V] : Solves(f, k)}
<1>1. 0 \in Good
    <2>1. [d \in D |-> some] \in [D -> V]
        OBVIOUS
    <2>2. \A d \in D : ~(rank[d] < 0)
        OBVIOUS
    <2> QED
        BY <2>1, <2>2
<1>2. ASSUME NEW k \in Nat, k \in Good
      PROVE  k + 1 \in Good
    <2>1. PICK f \in [D -> V] : Solves(f, k)
        BY <1>2
    <2> DEFINE g == [d \in D |-> IF rank[d] < k THEN f[d] ELSE value[<<d, f>>]]
    <2>2. g \in [D -> V]
        OBVIOUS
    <2>3. \A d \in D : rank[d] < k => g[d] = f[d]
        OBVIOUS
    <2>4. ASSUME NEW d \in D, rank[d] < k + 1
          PROVE  g[d] = value[<<d, g>>]
        <3>1. \A e \in D : rank[e] < rank[d] => f[e] = g[e]
            <4>1. \A e \in D : rank[e] < rank[d] => rank[e] < k
                BY <2>4
            <4> QED
                BY <4>1, <2>3
        <3>2. value[<<d, f>>] = value[<<d, g>>]
            BY <3>1, <2>2 DEF LooksBack
        <3>3. g[d] = value[<<d, f>>]
            BY <2>1
        <3> QED
            BY <3>2, <3>3
    <2>5. Solves(g, k + 1)
        BY <2>4
    <2> HIDE DEF g, Solves
    <2> QED
        BY <2>2, <2>5
<1> HIDE DEF Solves
<1>3. n + 1 \in Good
    <2> HIDE DEF Good
    <2> QED
        BY <1>1, <1>2, AllNumbers
<1>4. \A d \in D : rank[d] < n + 1
    OBVIOUS
<1> USE DEF Solves
<1> QED
    BY <1>3, <1>4

(* Induction over the rank.                                                 *)
Hereditary(S, D, rank) ==
    /\ rank \in [D -> Nat]
    /\ \A d \in D : (\A e \in D : rank[e] < rank[d] => e \in S) => d \in S

LEMMA ByRank ==
    ASSUME NEW S, NEW D, NEW rank, Hereditary(S, D, rank)
    PROVE  \A d \in D : d \in S
<1> USE DEF Hereditary
<1> DEFINE Good == {k \in Nat : \A d \in D : rank[d] < k => d \in S}
<1>1. 0 \in Good
    OBVIOUS
<1>2. ASSUME NEW k \in Nat, k \in Good
      PROVE  k + 1 \in Good
    <2> SUFFICES ASSUME NEW d \in D, rank[d] < k + 1
                 PROVE  d \in S
        OBVIOUS
    <2>1. \A e \in D : rank[e] < rank[d] => rank[e] < k
        OBVIOUS
    <2>2. \A e \in D : rank[e] < rank[d] => e \in S
        BY <1>2, <2>1
    <2> QED
        BY <2>2
<1> HIDE DEF Good
<1>3. \A k \in Nat : k \in Good
    BY <1>1, <1>2, AllNumbers
<1>4. \A d \in D : rank[d] + 1 \in Good
    BY <1>3
<1> QED
    BY <1>4 DEF Good

-----------------------------------------------------------------------------
(* Elements one after the other *)

(* An order, as the set of pairs whose first comes before the second, is    *)
(* strict and total on a set.                                               *)
Orders(R, S) ==
    /\ \A x \in S : <<x, x>> \notin R
    /\ \A x, y, z \in S : <<x, y>> \in R /\ <<y, z>> \in R => <<x, z>> \in R
    /\ \A x, y \in S : x = y \/ <<x, y>> \in R \/ <<y, x>> \in R

UpTo(S, R, x) == {y \in S : y = x \/ <<y, x>> \in R}

(* All elements of the set are in the list, each once, in the order.        *)
Lists(list, S, R) ==
    /\ list \in Seq(S) /\ DOMAIN list = 1 .. Len(list) /\ Len(list) = Cardinality(S)
    /\ \A x \in S : \E i \in 1 .. Len(list) : list[i] = x
    /\ \A i, j \in 1 .. Len(list) : i < j => <<list[i], list[j]>> \in R

(* What Along is made of.                                                   *)
Places(place, S, R) == place = [x \in S |-> Cardinality(UpTo(S, R, x))]
Listing(list, S, place) == list = [i \in 1 .. Cardinality(S) |-> CHOOSE x \in S : place[x] = i]

\* What is up to an element grows with it.
LEMMA UpToGrows ==
    ASSUME NEW S, NEW R, IsFiniteSet(S), Orders(R, S), NEW x \in S, NEW y \in S, <<x, y>> \in R
    PROVE  Cardinality(UpTo(S, R, x)) < Cardinality(UpTo(S, R, y))
<1>1. UpTo(S, R, x) \subseteq UpTo(S, R, y) /\ UpTo(S, R, y) \subseteq S
    BY DEF UpTo, Orders
<1>2. y \in UpTo(S, R, y) /\ y \notin UpTo(S, R, x)
    BY DEF UpTo, Orders
<1>3. IsFiniteSet(UpTo(S, R, y))
    BY <1>1, FS_Subset
<1>4. IsFiniteSet(UpTo(S, R, x)) /\ Cardinality(UpTo(S, R, x)) <= Cardinality(UpTo(S, R, y))
      /\ (Cardinality(UpTo(S, R, x)) = Cardinality(UpTo(S, R, y)) => UpTo(S, R, x) = UpTo(S, R, y))
    BY <1>1, <1>3, FS_Subset
<1> QED
    BY <1>2, <1>3, <1>4, FS_CardinalityType

\* Elements with different places, 1 to n, rising with the order, are a list.
LEMMA PlacesMakeAList ==
    ASSUME NEW S, NEW R, Orders(R, S), NEW n \in Nat, n = Cardinality(S), NEW place \in [S -> 1 .. n],
           \A x, y \in S : <<x, y>> \in R => place[x] < place[y],
           \A x, y \in S : place[x] = place[y] => x = y,
           NEW list \in [1 .. n -> S], \A i \in 1 .. n : place[list[i]] = i
    PROVE  Lists(list, S, R)
<1>1. list \in Seq(S) /\ DOMAIN list = 1 .. n /\ Len(list) = n
    OBVIOUS
<1>2. \A x \in S : \E i \in 1 .. n : list[i] = x
    <2> TAKE x \in S
    <2>1. place[x] \in 1 .. n /\ list[place[x]] \in S /\ place[list[place[x]]] = place[x]
        OBVIOUS
    <2> QED
        BY <2>1
<1>3. ASSUME NEW i \in 1 .. n, NEW j \in 1 .. n, i < j
      PROVE  <<list[i], list[j]>> \in R
    <2>1. list[i] \in S /\ list[j] \in S /\ place[list[i]] = i /\ place[list[j]] = j
        OBVIOUS
    <2>2. <<list[j], list[i]>> \notin R /\ list[i] # list[j]
        BY <2>1, <1>3
    <2> QED
        BY <2>1, <2>2 DEF Orders
<1> QED
    BY <1>1, <1>2, <1>3 DEF Lists

\* Along is the list of a finite set that an order orders.
LEMMA AlongLists ==
    ASSUME NEW S, NEW R, IsFiniteSet(S), Orders(R, S),
           NEW place, Places(place, S, R), NEW list, Listing(list, S, place)
    PROVE  Lists(list, S, R)
<1> DEFINE n == Cardinality(S)
<1>1. n \in Nat /\ IsFiniteSet(1 .. n) /\ Cardinality(1 .. n) = n
    BY FS_CardinalityType, FS_Interval
<1>2. place \in [S -> 1 .. n]
    <2> SUFFICES ASSUME NEW x \in S
                 PROVE  Cardinality(UpTo(S, R, x)) \in 1 .. n
        BY DEF Places
    <2>1. UpTo(S, R, x) \subseteq S /\ x \in UpTo(S, R, x)
        BY DEF UpTo
    <2>2. IsFiniteSet(UpTo(S, R, x)) /\ Cardinality(UpTo(S, R, x)) <= n
        BY <2>1, FS_Subset
    <2>3. Cardinality(UpTo(S, R, x)) \in Nat /\ Cardinality(UpTo(S, R, x)) # 0
        BY <2>1, <2>2, FS_CardinalityType, FS_EmptySet
    <2> QED
        BY <2>2, <2>3, <1>1
<1>3. \A x, y \in S : <<x, y>> \in R => place[x] < place[y]
    BY UpToGrows DEF Places
<1>4. \A x, y \in S : place[x] = place[y] => x = y
    <2> SUFFICES ASSUME NEW x \in S, NEW y \in S, place[x] = place[y], x # y
                 PROVE  FALSE
        OBVIOUS
    <2>1. <<x, y>> \in R \/ <<y, x>> \in R
        BY DEF Orders
    <2>2. place[x] \in Nat /\ place[y] \in Nat
        BY <1>2, <1>1
    <2> QED
        BY <2>1, <2>2, <1>3
<1>5. \A i \in 1 .. n : \E x \in S : place[x] = i
    <2>1. place \in Injection(S, 1 .. n)
        BY <1>2, <1>4 DEF Injection, IsInjective
    <2>2. place \in Surjection(S, 1 .. n)
        BY <2>1, <1>1, FS_Injection
    <2> QED
        BY <2>2 DEF Surjection
<1> HIDE DEF n
<1>6. \A i \in 1 .. n : list[i] \in S /\ place[list[i]] = i
    BY <1>5 DEF n, Listing
<1>7. list \in [1 .. n -> S]
    BY <1>6 DEF n, Listing
<1> QED
    BY <1>1, <1>2, <1>3, <1>4, <1>6, <1>7, PlacesMakeAList DEF n

\* A set has one list: where two first differed, an element would be missing.
LEMMA ListsAreUnique ==
    ASSUME NEW S, NEW R, Orders(R, S), NEW a, Lists(a, S, R), NEW b, Lists(b, S, R)
    PROVE  a = b
<1> DEFINE n == Len(a)
           Apart == {i \in 1 .. n : a[i] # b[i]}
<1>1. /\ n \in Nat /\ Len(b) = n /\ DOMAIN a = 1 .. n /\ DOMAIN b = 1 .. n
      /\ a \in Seq(S) /\ b \in Seq(S)
    BY DEF Lists
<1>2. SUFFICES ASSUME Apart # {}
               PROVE  FALSE
    BY <1>1
<1>3. PICK i \in Apart : \A k \in Apart : i <= k
    <2>1. Apart \subseteq Nat
        OBVIOUS
    <2> QED
        BY <2>1, <1>2, SomeNumberIsLeast
<1>4. i \in 1 .. n /\ a[i] # b[i] /\ \A k \in 1 .. n : k < i => a[k] = b[k]
    BY <1>3, <1>1
<1>5. a[i] \in S /\ b[i] \in S
    BY <1>1, <1>4
<1>6. PICK j \in 1 .. n : b[j] = a[i]
    BY <1>1, <1>5 DEF Lists
<1>7. PICK k \in 1 .. n : a[k] = b[i]
    BY <1>1, <1>5 DEF Lists
<1>8. ~(j < i)
    <2>1. j < i => a[j] = a[i] /\ <<a[j], a[i]>> \in R
        BY <1>4, <1>6, <1>1 DEF Lists
    <2> QED
        BY <2>1, <1>5 DEF Orders
<1>9. ~(k < i)
    <2>1. k < i => b[k] = b[i] /\ <<b[k], b[i]>> \in R
        BY <1>4, <1>7, <1>1 DEF Lists
    <2> QED
        BY <2>1, <1>5 DEF Orders
<1>10. i < j /\ i < k
    BY <1>4, <1>6, <1>7, <1>8, <1>9, <1>1
<1>11. <<b[i], b[j]>> \in R /\ <<a[i], a[k]>> \in R
    BY <1>10, <1>4, <1>1 DEF Lists
<1>12. <<b[i], a[i]>> \in R /\ <<a[i], b[i]>> \in R
    BY <1>11, <1>6, <1>7
<1> QED
    BY <1>12, <1>5 DEF Orders

\* A sequence and the set of its items.
LEMMA ItemsOf ==
    ASSUME NEW T, NEW s \in Seq(T)
    PROVE  /\ DOMAIN s = 1 .. Len(s) /\ Len(s) \in Nat
           /\ ToSet(s) \subseteq T /\ ToSet(s) = {s[i] : i \in 1 .. Len(s)} /\ IsFiniteSet(ToSet(s))
           /\ s \in Seq(ToSet(s))
<1>1. DOMAIN s = 1 .. Len(s) /\ Len(s) \in Nat
    OBVIOUS
<1>2. ToSet(s) \subseteq T /\ ToSet(s) = {s[i] : i \in 1 .. Len(s)}
    BY <1>1 DEF ToSet
<1>3. IsFiniteSet(ToSet(s))
    <2>1. IsFiniteSet(1 .. Len(s))
        BY <1>1, FS_Interval
    <2>2. s \in Surjection(1 .. Len(s), ToSet(s))
        BY <1>1, <1>2 DEF Surjection
    <2> QED
        BY <2>1, <2>2, FS_Surjection
<1>4. s \in Seq(ToSet(s))
    BY <1>1, <1>2
<1> QED
    BY <1>1, <1>2, <1>3, <1>4

(* A sequence each of whose items comes before the next ones lists them.    *)
LEMMA WhatRisesLists ==
    ASSUME NEW T, NEW s \in Seq(T), NEW R, \A x \in T : <<x, x>> \notin R,
           \A i, j \in 1 .. Len(s) : i < j => <<s[i], s[j]>> \in R
    PROVE  Lists(s, ToSet(s), R) /\ IsFiniteSet(ToSet(s))
<1>1. /\ DOMAIN s = 1 .. Len(s) /\ Len(s) \in Nat /\ ToSet(s) \subseteq T
      /\ ToSet(s) = {s[i] : i \in 1 .. Len(s)} /\ IsFiniteSet(ToSet(s)) /\ s \in Seq(ToSet(s))
    BY ItemsOf
<1>2. s \in Bijection(1 .. Len(s), ToSet(s))
    <2>1. s \in [1 .. Len(s) -> ToSet(s)]
        BY <1>1
    <2>2. \A i, j \in 1 .. Len(s) : s[i] = s[j] => i = j
        <3> SUFFICES ASSUME NEW i \in 1 .. Len(s), NEW j \in 1 .. Len(s), s[i] = s[j], i # j
                     PROVE  FALSE
            OBVIOUS
        <3>1. i < j \/ j < i
            BY <1>1
        <3>2. s[i] \in T
            BY <1>1
        <3> QED
            BY <3>1, <3>2
    <2> QED
        BY <2>1, <2>2, <1>1 DEF Bijection, Injection, Surjection, IsInjective
<1>3. Cardinality(ToSet(s)) = Len(s)
    <2>1. IsFiniteSet(1 .. Len(s)) /\ Cardinality(1 .. Len(s)) = Len(s)
        BY <1>1, FS_Interval
    <2>2. ExistsBijection(1 .. Len(s), ToSet(s))
        BY <1>2 DEF ExistsBijection
    <2> QED
        BY <2>1, <2>2, <1>1, FS_Bijection
<1>4. \A x \in ToSet(s) : \E i \in 1 .. Len(s) : s[i] = x
    BY <1>1
<1> QED
    BY <1>1, <1>3, <1>4 DEF Lists

-----------------------------------------------------------------------------
(* Kept items *)

\* The items of two sequences one after the other.
LEMMA ConcatItems ==
    ASSUME NEW T, NEW a \in Seq(T), NEW b \in Seq(T)
    PROVE  a \o b \in Seq(T) /\ ToSet(a \o b) = ToSet(a) \cup ToSet(b)
<1>1. PICK m \in Nat : m = Len(a)
    OBVIOUS
<1>2. PICK n \in Nat : n = Len(b)
    OBVIOUS
<1>3. PICK c : c = a \o b
    OBVIOUS
<1>4. /\ c \in Seq(T) /\ Len(c) = m + n
      /\ \A i \in 1 .. m : c[i] = a[i]
      /\ \A i \in 1 .. n : c[m + i] = b[i]
    BY <1>1, <1>2, <1>3
<1>5. /\ ToSet(c) = {c[i] : i \in 1 .. (m + n)}
      /\ ToSet(a) = {a[i] : i \in 1 .. m} /\ ToSet(b) = {b[i] : i \in 1 .. n}
    BY <1>1, <1>2, <1>4, ItemsOf
<1>6. \A i \in 1 .. (m + n) : i \in 1 .. m \/ (i - m \in 1 .. n /\ m + (i - m) = i)
    OBVIOUS
<1>7. (\A i \in 1 .. m : i \in 1 .. (m + n)) /\ \A i \in 1 .. n : m + i \in 1 .. (m + n)
    OBVIOUS
<1>8. ASSUME NEW i \in 1 .. (m + n)
      PROVE  c[i] \in ToSet(a) \cup ToSet(b)
    <2>1. CASE i \in 1 .. m
        BY <2>1, <1>4, <1>5
    <2>2. CASE i - m \in 1 .. n /\ m + (i - m) = i
        <3>1. c[m + (i - m)] = b[i - m]
            BY <2>2, <1>4
        <3> QED
            BY <3>1, <2>2, <1>5
    <2> QED
        BY <2>1, <2>2, <1>6
<1>9. ToSet(a) \subseteq ToSet(c) /\ ToSet(b) \subseteq ToSet(c)
    BY <1>4, <1>5, <1>7
<1>10. ToSet(c) \subseteq ToSet(a) \cup ToSet(b)
    BY <1>5, <1>8
<1>11. ToSet(c) = ToSet(a) \cup ToSet(b)
    BY <1>9, <1>10
<1> QED
    BY <1>3, <1>4, <1>11

LessThan == {ss \in Int \X Int : ss[1] < ss[2]}

\* Rising lists the places from the least to the greatest.
LEMMA RisingLists ==
    ASSUME NEW P, P \subseteq Int, IsFiniteSet(P)
    PROVE  Lists(Rising(P), P, LessThan)
<1>1. Orders(LessThan, P)
    BY DEF Orders, LessThan
<1> DEFINE place == [x \in P |-> Cardinality({y \in P : y = x \/ y < x})]
<1>2. Places(place, P, LessThan)
    <2>1. \A x \in P : UpTo(P, LessThan, x) = {y \in P : y = x \/ y < x}
        BY DEF UpTo, LessThan
    <2> QED
        BY <2>1 DEF Places
<1>3. Rising(P) = [i \in 1 .. Cardinality(P) |-> CHOOSE x \in P : place[x] = i]
    BY DEF Rising, Along
<1>4. Listing(Rising(P), P, place)
    BY <1>3 DEF Listing
<1> QED
    BY <1>1, <1>2, <1>4, AlongLists

(* The kept items are those at the listed places, in that order.            *)
LEMMA KeptItems ==
    ASSUME NEW T, NEW items \in Seq(T), NEW at \in Seq(DOMAIN items)
    PROVE  /\ Kept(items, at) \in Seq(T) /\ Len(Kept(items, at)) = Len(at)
           /\ DOMAIN Kept(items, at) = 1 .. Len(at)
           /\ \A n \in 1 .. Len(at) : Kept(items, at)[n] = items[at[n]]
<1> DEFINE f == [n \in DOMAIN at |-> items[at[n]]]
<1>1. f \in Seq(T) /\ Len(f) = Len(at)
    OBVIOUS
<1>2. Kept(items, at) = f
    BY <1>1 DEF Kept
<1> QED
    BY <1>1, <1>2

\* What is kept of a sequence at a set of its places.
LEMMA KeptRising ==
    ASSUME NEW T, NEW items \in Seq(T), NEW P, P \subseteq DOMAIN items
    PROVE  LET at == Rising(P)
               kept == Kept(items, at)
           IN  /\ at \in Seq(DOMAIN items) /\ Lists(at, P, LessThan) /\ Len(at) = Cardinality(P)
               /\ kept \in Seq(T) /\ Len(kept) = Len(at)
               /\ \A n \in 1 .. Len(at) : at[n] \in P /\ kept[n] = items[at[n]]
               /\ \A i, j \in 1 .. Len(at) : i < j => at[i] < at[j]
               /\ ToSet(kept) = {items[i] : i \in P}
<1> DEFINE at == Rising(P)
           kept == Kept(items, at)
<1>1. DOMAIN items = 1 .. Len(items) /\ Len(items) \in Nat /\ IsFiniteSet(1 .. Len(items))
    BY FS_Interval
<1>2. P \subseteq Int /\ IsFiniteSet(P)
    BY <1>1, FS_Subset
<1>3. Lists(at, P, LessThan)
    BY <1>2, RisingLists
<1> HIDE DEF at
<1>4. /\ at \in Seq(P) /\ at \in Seq(DOMAIN items) /\ Len(at) = Cardinality(P)
      /\ \A x \in P : \E i \in 1 .. Len(at) : at[i] = x
      /\ \A i, j \in 1 .. Len(at) : i < j => <<at[i], at[j]>> \in LessThan
    BY <1>3 DEF Lists
<1>5. kept \in Seq(T) /\ Len(kept) = Len(at) /\ DOMAIN kept = 1 .. Len(at)
      /\ \A n \in 1 .. Len(at) : kept[n] = items[at[n]]
    BY <1>4, KeptItems
<1> HIDE DEF kept
<1>6. \A n \in 1 .. Len(at) : at[n] \in P
    BY <1>4
<1>7. \A i, j \in 1 .. Len(at) : i < j => at[i] < at[j]
    BY <1>4 DEF LessThan
<1>8. ToSet(kept) = {items[i] : i \in P}
    <2>1. ToSet(kept) = {kept[n] : n \in 1 .. Len(at)}
        BY <1>5 DEF ToSet
    <2>2. \A i \in P : \E n \in 1 .. Len(at) : kept[n] = items[i]
        BY <1>4, <1>5
    <2>3. \A n \in 1 .. Len(at) : at[n] \in P /\ kept[n] = items[at[n]]
        BY <1>5, <1>6
    <2> QED
        BY <2>1, <2>2, <2>3
<1> QED
    BY <1>3, <1>4, <1>5, <1>6, <1>7, <1>8 DEF at, kept

(* Nothing is dropped where all places are kept.                            *)
LEMMA KeptAll ==
    ASSUME NEW T, NEW items \in Seq(T)
    PROVE  Kept(items, Rising(DOMAIN items)) = items
<1> DEFINE at == Rising(DOMAIN items)
           all == [i \in 1 .. Len(items) |-> i]
<1>1. DOMAIN items = 1 .. Len(items) /\ Len(items) \in Nat /\ DOMAIN items \subseteq Int
    OBVIOUS
<1>2. Lists(at, DOMAIN items, LessThan) /\ at \in Seq(DOMAIN items)
    BY KeptRising
<1>3. Lists(all, DOMAIN items, LessThan)
    <2>1. IsFiniteSet(1 .. Len(items)) /\ Cardinality(1 .. Len(items)) = Len(items)
        BY <1>1, FS_Interval
    <2> QED
        BY <1>1, <2>1 DEF Lists, LessThan
<1>4. Orders(LessThan, DOMAIN items)
    BY <1>1 DEF Orders, LessThan
<1>5. at = all
    <2> HIDE DEF at, all
    <2> QED
        BY <1>2, <1>3, <1>4, ListsAreUnique
<1>6. Kept(items, at) \in Seq(T) /\ Len(Kept(items, at)) = Len(items)
      /\ \A n \in 1 .. Len(items) : Kept(items, at)[n] = items[n]
    BY <1>1, <1>5, <1>2, KeptItems
<1> QED
    BY <1>6

-----------------------------------------------------------------------------
(* Sorting *)

IndexOrder(items, R) ==
    {ij \in (DOMAIN items) \X (DOMAIN items) :
        \/ <<items[ij[1]], items[ij[2]]>> \in R
        \/ items[ij[1]] = items[ij[2]] /\ ij[1] < ij[2]}

Arranges(sorted, items, R) ==
    /\ sorted \in Seq(ToSet(items)) /\ Len(sorted) = Len(items) /\ ToSet(sorted) = ToSet(items)
    /\ \A i, j \in 1 .. Len(sorted) :
         i < j => sorted[i] = sorted[j] \/ <<sorted[i], sorted[j]>> \in R
    /\ (\A i, j \in 1 .. Len(items) : items[i] = items[j] => i = j)
         => \A i, j \in 1 .. Len(sorted) : sorted[i] = sorted[j] => i = j

\* Items and, where they are equal, their places make an order of the places.
LEMMA IndicesAreOrdered ==
    ASSUME NEW T, NEW items \in Seq(T), NEW R, Orders(R, T)
    PROVE  Orders(IndexOrder(items, R), DOMAIN items)
<1> DEFINE D == DOMAIN items
           I == IndexOrder(items, R)
<1>1. D \subseteq Nat /\ \A i \in D : items[i] \in T
    OBVIOUS
<1>2. \A i, j \in D : <<i, j>> \in I <=>
          <<items[i], items[j]>> \in R \/ (items[i] = items[j] /\ i < j)
    BY DEF IndexOrder
<1> HIDE DEF I
<1>3. ASSUME NEW i \in D
      PROVE  <<i, i>> \notin I
    <2>1. <<items[i], items[i]>> \notin R /\ ~(i < i)
        BY <1>1 DEF Orders
    <2> QED
        BY <1>2, <2>1
<1>4. ASSUME NEW i \in D, NEW j \in D, NEW k \in D, <<i, j>> \in I, <<j, k>> \in I
      PROVE  <<i, k>> \in I
    <2>1. /\ <<items[i], items[j]>> \in R \/ (items[i] = items[j] /\ i < j)
          /\ <<items[j], items[k]>> \in R \/ (items[j] = items[k] /\ j < k)
        BY <1>2, <1>4
    <2>2. <<items[i], items[j]>> \in R /\ <<items[j], items[k]>> \in R => <<items[i], items[k]>> \in R
        BY <1>1 DEF Orders
    <2>3. i < j /\ j < k => i < k
        BY <1>1
    <2>4. <<items[i], items[k]>> \in R \/ (items[i] = items[k] /\ i < k)
        BY <2>1, <2>2, <2>3
    <2> QED
        BY <1>2, <2>4
<1>5. ASSUME NEW i \in D, NEW j \in D
      PROVE  i = j \/ <<i, j>> \in I \/ <<j, i>> \in I
    <2>1. items[i] = items[j] \/ <<items[i], items[j]>> \in R \/ <<items[j], items[i]>> \in R
        BY <1>1 DEF Orders
    <2>2. i = j \/ i < j \/ j < i
        BY <1>1
    <2> QED
        BY <1>2, <2>1, <2>2
<1> HIDE DEF D
<1>6. Orders(I, D)
    BY <1>3, <1>4, <1>5 DEF Orders
<1> QED
    BY <1>6 DEF D, I

\* Items taken along a list of their places are arranged.
LEMMA WhatIsListedIsArranged ==
    ASSUME NEW T, NEW items \in Seq(T), NEW R, NEW at,
           Lists(at, DOMAIN items, IndexOrder(items, R))
    PROVE  Arranges(Kept(items, at), items, R)
<1> DEFINE sorted == Kept(items, at)
           n == Len(items)
<1>1. n \in Nat /\ DOMAIN items = 1 .. n /\ IsFiniteSet(1 .. n) /\ Cardinality(1 .. n) = n
      /\ items \in Seq(ToSet(items)) /\ ToSet(items) = {items[i] : i \in 1 .. n}
    <2>1. n \in Nat /\ DOMAIN items = 1 .. n
        OBVIOUS
    <2>2. IsFiniteSet(1 .. n) /\ Cardinality(1 .. n) = n
        BY <2>1, FS_Interval
    <2> QED
        BY <2>1, <2>2, ItemsOf
<1>2. /\ at \in Seq(1 .. n) /\ Len(at) = n /\ at \in Seq(DOMAIN items)
      /\ \A x \in 1 .. n : \E i \in 1 .. n : at[i] = x
      /\ \A i, j \in 1 .. n : i < j => <<at[i], at[j]>> \in IndexOrder(items, R)
    BY <1>1 DEF Lists
<1>3. sorted \in Seq(ToSet(items)) /\ Len(sorted) = n /\ DOMAIN sorted = 1 .. n
      /\ \A i \in 1 .. n : sorted[i] = items[at[i]]
    <2>1. items \in Seq(ToSet(items)) /\ at \in Seq(DOMAIN items)
        BY <1>1, <1>2
    <2>2. /\ Kept(items, at) \in Seq(ToSet(items)) /\ Len(Kept(items, at)) = Len(at)
          /\ DOMAIN Kept(items, at) = 1 .. Len(at)
          /\ \A i \in 1 .. Len(at) : Kept(items, at)[i] = items[at[i]]
        BY <2>1, KeptItems
    <2> QED
        BY <2>2, <1>2
<1> HIDE DEF sorted, n
<1>4. \A i \in 1 .. n : at[i] \in 1 .. n
    BY SMTT(30), <1>2
<1>5. ToSet(sorted) = ToSet(items)
    <2>1. ToSet(sorted) = {sorted[i] : i \in 1 .. n}
        BY <1>3 DEF ToSet
    <2>2. \A i \in 1 .. n : \E k \in 1 .. n : sorted[k] = items[i]
        BY <1>2, <1>3
    <2>3. \A k \in 1 .. n : \E i \in 1 .. n : sorted[k] = items[i]
        BY <1>4, <1>3
    <2> QED
        BY ZenonT(30), <1>1, <2>1, <2>2, <2>3
<1>6. ASSUME NEW i \in 1 .. n, NEW j \in 1 .. n, i < j
      PROVE  sorted[i] = sorted[j] \/ <<sorted[i], sorted[j]>> \in R
    <2>1. <<at[i], at[j]>> \in IndexOrder(items, R)
        BY <1>2, <1>6
    <2> QED
        BY <2>1, <1>3 DEF IndexOrder
<1>7. ASSUME \A i, j \in 1 .. n : items[i] = items[j] => i = j,
             NEW i \in 1 .. n, NEW j \in 1 .. n, sorted[i] = sorted[j]
      PROVE  i = j
    <2>1. at \in Surjection(1 .. n, 1 .. n)
        <3>1. at \in [1 .. n -> 1 .. n]
            BY <1>2, <1>4
        <3> QED
            BY <3>1, <1>2 DEF Surjection
    <2>2. at \in Injection(1 .. n, 1 .. n)
        BY <2>1, <1>1, FS_Surjection
    <2>3. at[i] = at[j]
        BY <1>3, <1>4, <1>7
    <2> QED
        BY <2>2, <2>3 DEF Injection, IsInjective
<1>8. Arranges(sorted, items, R)
    BY <1>1, <1>3, <1>5, <1>6, <1>7 DEF Arranges, n
<1> QED
    BY <1>8 DEF sorted

-----------------------------------------------------------------------------
(* The orders *)

Bytes == {ss \in Seq(Nat) \X Seq(Nat) : lessLexicographic(ss[1], ss[2])}

\* extension.zig 73-76: std.mem.lessThan is a strict total order of the texts.
LEMMA BytesOrder == Orders(Bytes, Seq(Nat))
<1>1. ASSUME NEW a \in Seq(Nat), lessLexicographic(a, a)
      PROVE  FALSE
    BY <1>1 DEF lessLexicographic
<1>2. ASSUME NEW a \in Seq(Nat), NEW b \in Seq(Nat), NEW c \in Seq(Nat),
             lessLexicographic(a, b), lessLexicographic(b, c)
      PROVE  lessLexicographic(a, c)
    <2>1. PICK n \in 1 .. Len(b) : /\ n <= Len(a) + 1 /\ \A i \in 1 .. (n - 1) : a[i] = b[i]
                                   /\ n = Len(a) + 1 \/ a[n] < b[n]
        BY <1>2 DEF lessLexicographic
    <2>2. PICK m \in 1 .. Len(c) : /\ m <= Len(b) + 1 /\ \A i \in 1 .. (m - 1) : b[i] = c[i]
                                   /\ m = Len(b) + 1 \/ b[m] < c[m]
        BY <1>2 DEF lessLexicographic
    <2>3. CASE n < m
        <3>1. n \in 1 .. Len(c) /\ b[n] = c[n] /\ \A i \in 1 .. (n - 1) : a[i] = c[i]
            BY <2>1, <2>2, <2>3
        <3> QED
            BY <3>1, <2>1 DEF lessLexicographic
    <2>4. CASE n = m
        <3>1. n \in 1 .. Len(c) /\ b[n] < c[n] /\ \A i \in 1 .. (n - 1) : a[i] = c[i]
            BY <2>1, <2>2, <2>4
        <3>2. n = Len(a) + 1 \/ a[n] < c[n]
            <4>1. ASSUME n # Len(a) + 1
                  PROVE  a[n] < c[n]
                <5>1. n \in 1 .. Len(a) /\ a[n] < b[n]
                    BY <2>1, <4>1
                <5>2. a[n] \in Nat /\ b[n] \in Nat /\ c[n] \in Nat
                    <6>1. n \in 1 .. Len(b) /\ n \in 1 .. Len(c)
                        BY <3>1
                    <6> QED
                        BY <5>1, <6>1, ElementOfSeq
                <5>3. \A p, q, t \in Nat : p < q /\ q < t => p < t
                    OBVIOUS
                <5> QED
                    BY <5>1, <5>2, <5>3, <3>1
            <4> QED
                BY <4>1
        <3> QED
            BY <3>1, <3>2, <2>1 DEF lessLexicographic
    <2>5. CASE m < n
        <3>1. m \in 1 .. Len(c) /\ b[m] < c[m] /\ a[m] = b[m] /\ m <= Len(a) + 1
              /\ \A i \in 1 .. (m - 1) : a[i] = c[i]
            BY SMTT(30), <2>1, <2>2, <2>5
        <3> QED
            BY <3>1 DEF lessLexicographic
    <2> QED
        BY <2>1, <2>2, <2>3, <2>4, <2>5
<1>3. ASSUME NEW a \in Seq(Nat), NEW b \in Seq(Nat), a # b
      PROVE  lessLexicographic(a, b) \/ lessLexicographic(b, a)
    <2> DEFINE Apart == {i \in 1 .. Len(a) : i <= Len(b) /\ a[i] # b[i]}
    <2>1. CASE Apart = {}
        <3>1. CASE Len(a) < Len(b)
            <4>1. \A i \in 1 .. Len(a) : a[i] = b[i]
                <5>1. \A i \in 1 .. Len(a) : i <= Len(b)
                    BY <3>1
                <5> QED
                    BY <2>1, <5>1
            <4>2. PICK n \in 1 .. Len(b) : n = Len(a) + 1
                BY <3>1
            <4>3. \A i \in 1 .. (n - 1) : a[i] = b[i]
                BY <4>1, <4>2
            <4> QED
                BY <4>2, <4>3 DEF lessLexicographic
        <3>2. CASE Len(b) < Len(a)
            <4>1. \A i \in 1 .. Len(b) : b[i] = a[i]
                BY <2>1, <3>2
            <4>2. PICK n \in 1 .. Len(a) : n = Len(b) + 1
                BY <3>2
            <4>3. \A i \in 1 .. (n - 1) : b[i] = a[i]
                BY <4>1, <4>2
            <4> QED
                BY <4>2, <4>3 DEF lessLexicographic
        <3>3. CASE Len(a) = Len(b)
            <4>1. \A i \in 1 .. Len(a) : a[i] = b[i]
                BY <2>1, <3>3
            <4> QED
                BY SMTT(30), <4>1, <3>3, <1>3
        <3> QED
            BY <3>1, <3>2, <3>3
    <2>2. CASE Apart # {}
        <3>1. PICK n \in Apart : \A i \in Apart : n <= i
            <4>1. Apart \subseteq Nat
                OBVIOUS
            <4> QED
                BY <4>1, <2>2, SomeNumberIsLeast
        <3>2. n \in 1 .. Len(a) /\ n \in 1 .. Len(b) /\ a[n] # b[n]
              /\ \A i \in 1 .. (n - 1) : a[i] = b[i]
            <4>1. n \in 1 .. Len(a) /\ n \in 1 .. Len(b) /\ a[n] # b[n]
                OBVIOUS
            <4>2. ASSUME NEW i \in 1 .. (n - 1), a[i] # b[i]
                  PROVE  FALSE
                <5>1. i \in Apart /\ i < n
                    BY <4>1, <4>2
                <5> QED
                    BY <5>1, <3>1
            <4> QED
                BY <4>1, <4>2
        <3>3. a[n] < b[n] \/ b[n] < a[n]
            BY <3>2
        <3> QED
            BY <3>2, <3>3 DEF lessLexicographic
    <2> QED
        BY <2>1, <2>2
<1> HIDE DEF Bytes
<1>4. \A a, b \in Seq(Nat) : <<a, b>> \in Bytes <=> lessLexicographic(a, b)
    BY DEF Bytes
<1> QED
    BY <1>1, <1>2, <1>3, <1>4 DEF Orders

\* A letter is folded to its lower case first.
Folded(text) == [i \in DOMAIN text |-> IF text[i] \in 65 .. 90 THEN text[i] + 32 ELSE text[i]]

Locale == {ss \in Seq(Nat) \X Seq(Nat) : localeLess(ss[1], ss[2])}

\* So is localeCompare's: letters before their cases.
LEMMA LocaleOrder == Orders(Locale, Seq(Nat))
<1>1. ASSUME NEW a \in Seq(Nat)
      PROVE  Folded(a) \in Seq(Nat)
    <2>1. \A i \in 1 .. Len(a) : a[i] \in Nat
        OBVIOUS
    <2>2. Folded(a) \in [1 .. Len(a) -> Nat]
        BY <2>1 DEF Folded
    <2> QED
        BY <2>2
<1>2. \A a, b \in Seq(Nat) : <<a, b>> \in Bytes <=> lessLexicographic(a, b)
    BY DEF Bytes
<1>3. \A a, b \in Seq(Nat) : <<a, b>> \in Locale <=>
          <<Folded(a), Folded(b)>> \in Bytes \/ (Folded(a) = Folded(b) /\ <<b, a>> \in Bytes)
    <2> SUFFICES ASSUME NEW a \in Seq(Nat), NEW b \in Seq(Nat)
                 PROVE  <<a, b>> \in Locale <=>
                   <<Folded(a), Folded(b)>> \in Bytes \/ (Folded(a) = Folded(b) /\ <<b, a>> \in Bytes)
        OBVIOUS
    <2>1. <<a, b>> \in Locale <=> localeLess(a, b)
        BY DEF Locale
    <2>2. localeLess(a, b) <=> lessLexicographic(Folded(a), Folded(b))
                               \/ (Folded(a) = Folded(b) /\ lessLexicographic(b, a))
        BY Zenon DEF localeLess, Folded
    <2> QED
        BY <2>1, <2>2, <1>1, <1>2
<1> QED
    BY ZenonT(30), <1>1, <1>3, BytesOrder DEF Orders

TextPairs == Seq(Nat) \X Seq(Nat)
ByPair == {pq \in TextPairs \X TextPairs : PairLess(pq[1], pq[2])}

\* So is the order of the columns, one after the other.
LEMMA PairOrder == Orders(ByPair, TextPairs)
<1>1. \A p \in TextPairs : p[1] \in Seq(Nat) /\ p[2] \in Seq(Nat)
    BY DEF TextPairs
<1>2. \A p, q \in TextPairs : <<p, q>> \in ByPair <=>
          <<p[1], q[1]>> \in Bytes \/ (p[1] = q[1] /\ <<p[2], q[2]>> \in Bytes)
    BY <1>1 DEF ByPair, PairLess, Bytes
<1>3. \A p, q \in TextPairs : p[1] = q[1] /\ p[2] = q[2] => p = q
    BY DEF TextPairs
<1> HIDE DEF TextPairs, ByPair
<1>4. /\ \A x \in Seq(Nat) : <<x, x>> \notin Bytes
      /\ \A x, y, z \in Seq(Nat) : <<x, y>> \in Bytes /\ <<y, z>> \in Bytes => <<x, z>> \in Bytes
      /\ \A x, y \in Seq(Nat) : x = y \/ <<x, y>> \in Bytes \/ <<y, x>> \in Bytes
    BY BytesOrder DEF Orders
<1>5. \A p \in TextPairs : <<p, p>> \notin ByPair
    BY <1>1, <1>2, <1>4
<1>6. ASSUME NEW p \in TextPairs, NEW q \in TextPairs, NEW r \in TextPairs,
             <<p, q>> \in ByPair, <<q, r>> \in ByPair
      PROVE  <<p, r>> \in ByPair
    <2>1. /\ p[1] \in Seq(Nat) /\ q[1] \in Seq(Nat) /\ r[1] \in Seq(Nat)
          /\ p[2] \in Seq(Nat) /\ q[2] \in Seq(Nat) /\ r[2] \in Seq(Nat)
        BY <1>1
    <2>2. /\ <<p[1], q[1]>> \in Bytes \/ (p[1] = q[1] /\ <<p[2], q[2]>> \in Bytes)
          /\ <<q[1], r[1]>> \in Bytes \/ (q[1] = r[1] /\ <<q[2], r[2]>> \in Bytes)
        BY <1>2, <1>6
    <2>3. /\ <<p[1], q[1]>> \in Bytes /\ <<q[1], r[1]>> \in Bytes => <<p[1], r[1]>> \in Bytes
          /\ <<p[2], q[2]>> \in Bytes /\ <<q[2], r[2]>> \in Bytes => <<p[2], r[2]>> \in Bytes
        BY <1>4, <2>1
    <2>4. <<p[1], r[1]>> \in Bytes \/ (p[1] = r[1] /\ <<p[2], r[2]>> \in Bytes)
        BY <2>2, <2>3
    <2> QED
        BY <1>2, <2>4
<1>7. ASSUME NEW p \in TextPairs, NEW q \in TextPairs
      PROVE  p = q \/ <<p, q>> \in ByPair \/ <<q, p>> \in ByPair
    <2>1. p[1] = q[1] \/ <<p[1], q[1]>> \in Bytes \/ <<q[1], p[1]>> \in Bytes
        BY <1>1, <1>4
    <2>2. p[2] = q[2] \/ <<p[2], q[2]>> \in Bytes \/ <<q[2], p[2]>> \in Bytes
        BY <1>1, <1>4
    <2> QED
        BY <1>2, <1>3, <2>1, <2>2
<1> QED
    BY <1>5, <1>6, <1>7 DEF Orders

-----------------------------------------------------------------------------
(* What is sorted by each order *)

\* extension.zig 87-92: std.mem.sort arranges texts by their bytes,
LEMMA OrderedByBytes ==
    ASSUME NEW items \in Seq(Seq(Nat))
    PROVE  Arranges(Ordered(items, lessLexicographic), items, Bytes)
<1> DEFINE D == DOMAIN items
           place == [x \in D |-> Cardinality({y \in D :
                        y = x \/ (\/ lessLexicographic(items[y], items[x])
                                  \/ items[y] = items[x] /\ y < x)})]
           at == [i \in 1 .. Cardinality(D) |-> CHOOSE x \in D : place[x] = i]
<1>1. Ordered(items, lessLexicographic) = Kept(items, at)
    BY DEF Ordered, Along
<1>2. \A i, j \in D : <<i, j>> \in IndexOrder(items, Bytes) <=>
          lessLexicographic(items[i], items[j]) \/ (items[i] = items[j] /\ i < j)
    <2>1. \A i \in D : items[i] \in Seq(Nat)
        OBVIOUS
    <2> QED
        BY <2>1 DEF IndexOrder, Bytes
<1>3. \A x \in D : UpTo(D, IndexOrder(items, Bytes), x)
                     = {y \in D : y = x \/ (\/ lessLexicographic(items[y], items[x])
                                            \/ items[y] = items[x] /\ y < x)}
    BY <1>2 DEF UpTo
<1>4. Places(place, D, IndexOrder(items, Bytes))
    BY <1>3 DEF Places
<1>5. Listing(at, D, place)
    BY DEF Listing
<1>6. Orders(IndexOrder(items, Bytes), D)
    BY BytesOrder, IndicesAreOrdered
<1>7. IsFiniteSet(D)
    BY FS_Interval
<1> HIDE DEF D, place, at
<1>8. Lists(at, D, IndexOrder(items, Bytes))
    BY <1>4, <1>5, <1>6, <1>7, AlongLists
<1> QED
    BY <1>1, <1>8, WhatIsListedIsArranged DEF D

\* idset.ts 12: Array.sort by localeCompare,
LEMMA OrderedByLocale ==
    ASSUME NEW items \in Seq(Seq(Nat))
    PROVE  Arranges(Ordered(items, localeLess), items, Locale)
<1> DEFINE D == DOMAIN items
           place == [x \in D |-> Cardinality({y \in D :
                        y = x \/ (\/ localeLess(items[y], items[x])
                                  \/ items[y] = items[x] /\ y < x)})]
           at == [i \in 1 .. Cardinality(D) |-> CHOOSE x \in D : place[x] = i]
<1>1. Ordered(items, localeLess) = Kept(items, at)
    BY DEF Ordered, Along
<1>2. \A i, j \in D : <<i, j>> \in IndexOrder(items, Locale) <=>
          localeLess(items[i], items[j]) \/ (items[i] = items[j] /\ i < j)
    <2>1. \A i \in D : items[i] \in Seq(Nat)
        OBVIOUS
    <2> QED
        BY <2>1 DEF IndexOrder, Locale
<1>3. \A x \in D : UpTo(D, IndexOrder(items, Locale), x)
                     = {y \in D : y = x \/ (\/ localeLess(items[y], items[x])
                                            \/ items[y] = items[x] /\ y < x)}
    BY <1>2 DEF UpTo
<1>4. Places(place, D, IndexOrder(items, Locale))
    BY <1>3 DEF Places
<1>5. Listing(at, D, place)
    BY DEF Listing
<1>6. Orders(IndexOrder(items, Locale), D)
    BY LocaleOrder, IndicesAreOrdered
<1>7. IsFiniteSet(D)
    BY FS_Interval
<1> HIDE DEF D, place, at
<1>8. Lists(at, D, IndexOrder(items, Locale))
    BY <1>4, <1>5, <1>6, <1>7, AlongLists
<1> QED
    BY <1>1, <1>8, WhatIsListedIsArranged DEF D

\* extension.zig 647-648: and ORDER BY the rows by both columns.
LEMMA OrderedByPair ==
    ASSUME NEW items \in Seq(TextPairs)
    PROVE  Arranges(Ordered(items, PairLess), items, ByPair)
<1> DEFINE D == DOMAIN items
           place == [x \in D |-> Cardinality({y \in D :
                        y = x \/ (\/ PairLess(items[y], items[x])
                                  \/ items[y] = items[x] /\ y < x)})]
           at == [i \in 1 .. Cardinality(D) |-> CHOOSE x \in D : place[x] = i]
<1>1. Ordered(items, PairLess) = Kept(items, at)
    BY DEF Ordered, Along
<1>2. \A i, j \in D : <<i, j>> \in IndexOrder(items, ByPair) <=>
          PairLess(items[i], items[j]) \/ (items[i] = items[j] /\ i < j)
    <2>1. \A i \in D : items[i] \in TextPairs
        OBVIOUS
    <2> QED
        BY <2>1 DEF IndexOrder, ByPair
<1>3. \A x \in D : UpTo(D, IndexOrder(items, ByPair), x)
                     = {y \in D : y = x \/ (\/ PairLess(items[y], items[x])
                                            \/ items[y] = items[x] /\ y < x)}
    BY <1>2 DEF UpTo
<1>4. Places(place, D, IndexOrder(items, ByPair))
    BY <1>3 DEF Places
<1>5. Listing(at, D, place)
    BY DEF Listing
<1>6. Orders(IndexOrder(items, ByPair), D)
    BY PairOrder, IndicesAreOrdered
<1>7. IsFiniteSet(D)
    BY FS_Interval
<1> HIDE DEF D, place, at
<1>8. Lists(at, D, IndexOrder(items, ByPair))
    BY <1>4, <1>5, <1>6, <1>7, AlongLists
<1> QED
    BY <1>1, <1>8, WhatIsListedIsArranged DEF D

-----------------------------------------------------------------------------
(* Items without the blank ones, and without repetitions *)

\* Dropping what is empty drops nothing else.
LEMMA NonblankItems ==
    ASSUME NEW T, NEW items \in Seq(T)
    PROVE  /\ Nonblank(items) \in Seq(T)
           /\ ToSet(Nonblank(items)) = ToSet(items) \ {<<>>}
           /\ <<>> \notin ToSet(items) => Nonblank(items) = items
<1> DEFINE P == {i \in DOMAIN items : NonEmpty(items[i])}
<1>1. Nonblank(items) = Kept(items, Rising(P))
    BY DEF Nonblank
<1>2. Nonblank(items) \in Seq(T) /\ ToSet(Nonblank(items)) = {items[i] : i \in P}
    BY SMTT(30), <1>1, KeptRising
<1>3. {items[i] : i \in P} = ToSet(items) \ {<<>>}
    BY DEF ToSet, NonEmpty
<1>4. ASSUME <<>> \notin ToSet(items)
      PROVE  Nonblank(items) = items
    <2>1. P = DOMAIN items
        BY <1>4 DEF ToSet, NonEmpty
    <2> QED
        BY <1>1, <2>1, KeptAll
<1> QED
    BY <1>2, <1>3, <1>4

(* Of equal neighbours one is left: what was in order has none twice.       *)
LEMMA RepeatlessLists ==
    ASSUME NEW T, NEW R, Orders(R, T), NEW sorted \in Seq(T),
           \A i, j \in 1 .. Len(sorted) : i < j => sorted[i] = sorted[j] \/ <<sorted[i], sorted[j]>> \in R
    PROVE  Lists(Repeatless(sorted), ToSet(sorted), R) /\ Repeatless(sorted) \in Seq(T)
<1> DEFINE n == Len(sorted)
           P == {i \in DOMAIN sorted : i = 1 \/ sorted[i - 1] # sorted[i]}
           at == Rising(P)
           kept == Kept(sorted, at)
<1>1. n \in Nat /\ DOMAIN sorted = 1 .. n /\ ToSet(sorted) = {sorted[i] : i \in 1 .. n}
    BY ItemsOf
<1>2. Repeatless(sorted) = kept
    BY DEF Repeatless
<1>3. /\ at \in Seq(DOMAIN sorted) /\ kept \in Seq(T) /\ Len(kept) = Len(at)
      /\ \A k \in 1 .. Len(at) : at[k] \in P /\ kept[k] = sorted[at[k]]
      /\ \A i, j \in 1 .. Len(at) : i < j => at[i] < at[j]
      /\ ToSet(kept) = {sorted[i] : i \in P}
    <2>1. P \subseteq DOMAIN sorted
        OBVIOUS
    <2> HIDE DEF P
    <2> QED
        BY <2>1, KeptRising
<1> HIDE DEF at, kept
<1>4. \A i, j \in P : i < j => <<sorted[i], sorted[j]>> \in R
    <2> SUFFICES ASSUME NEW i \in P, NEW j \in P, i < j
                 PROVE  <<sorted[i], sorted[j]>> \in R
        OBVIOUS
    <2>1. i \in 1 .. n /\ j \in 1 .. n /\ j - 1 \in 1 .. n /\ i <= j - 1 /\ sorted[j - 1] # sorted[j]
        BY <1>1
    <2>2. <<sorted[j - 1], sorted[j]>> \in R
        BY <2>1
    <2>3. sorted[i] = sorted[j - 1] \/ <<sorted[i], sorted[j - 1]>> \in R
        BY <2>1
    <2>4. sorted[i] \in T /\ sorted[j] \in T /\ sorted[j - 1] \in T
        BY <2>1
    <2> QED
        BY <2>2, <2>3, <2>4 DEF Orders
<1>5. \A i, j \in 1 .. Len(kept) : i < j => <<kept[i], kept[j]>> \in R
    <2> SUFFICES ASSUME NEW i \in 1 .. Len(kept), NEW j \in 1 .. Len(kept), i < j
                 PROVE  <<kept[i], kept[j]>> \in R
        OBVIOUS
    <2>1. i \in 1 .. Len(at) /\ j \in 1 .. Len(at)
        BY <1>3
    <2>2. /\ at[i] \in P /\ at[j] \in P /\ at[i] < at[j]
          /\ kept[i] = sorted[at[i]] /\ kept[j] = sorted[at[j]]
        BY <1>3, <2>1
    <2> HIDE DEF P
    <2> QED
        BY <2>2, <1>4
<1>6. ToSet(kept) = ToSet(sorted)
    <2>1. ASSUME NEW i \in 1 .. n
          PROVE  \E k \in P : sorted[k] = sorted[i]
        <3> DEFINE Same == {k \in 1 .. n : sorted[k] = sorted[i]}
        <3>1. PICK k \in Same : \A j \in Same : k <= j
            <4>1. Same \subseteq Nat /\ Same # {}
                OBVIOUS
            <4> QED
                BY <4>1, SomeNumberIsLeast
        <3>2. k \in 1 .. n /\ sorted[k] = sorted[i] /\ (k # 1 => k - 1 \in 1 .. n)
            BY <1>1
        <3>3. k # 1 => sorted[k - 1] # sorted[i]
            <4>1. ASSUME k # 1, sorted[k - 1] = sorted[i]
                  PROVE  FALSE
                <5>1. k - 1 \in Same
                    BY <3>2, <4>1
                <5> QED
                    BY <5>1, <3>1, <3>2
            <4> QED
                BY <4>1
        <3> QED
            BY <3>2, <3>3, <1>1
    <2>2. P \subseteq 1 .. n
        BY <1>1
    <2> HIDE DEF P, n
    <2>3. ASSUME NEW x \in ToSet(kept)
          PROVE  x \in ToSet(sorted)
        BY <1>1, <1>3, <2>2
    <2>4. ASSUME NEW x \in ToSet(sorted)
          PROVE  x \in ToSet(kept)
        <3>1. PICK i \in 1 .. n : x = sorted[i]
            BY <1>1
        <3>2. PICK k \in P : sorted[k] = sorted[i]
            BY <2>1
        <3> QED
            BY <3>1, <3>2, <1>3
    <2> QED
        BY <2>3, <2>4
<1>7. \A x \in T : <<x, x>> \notin R
    BY DEF Orders
<1>8. Lists(kept, ToSet(kept), R)
    BY <1>3, <1>5, <1>7, WhatRisesLists
<1> QED
    BY <1>2, <1>3, <1>6, <1>8

\* What is sorted and has no equal neighbours lists the ids by their bytes.
LEMMA CanonicalLists ==
    ASSUME NEW ids \in Seq(Seq(Nat))
    PROVE  Canonical(ids) \in Seq(Seq(Nat)) /\ Lists(Canonical(ids), ToSet(ids), Bytes)
<1> DEFINE sorted == Ordered(ids, lessLexicographic)
<1>1. Arranges(sorted, ids, Bytes)
    BY OrderedByBytes
<1>2. ToSet(ids) \subseteq Seq(Nat)
    BY ItemsOf
<1> HIDE DEF sorted
<1>3. sorted \in Seq(Seq(Nat)) /\ ToSet(sorted) = ToSet(ids)
      /\ \A i, j \in 1 .. Len(sorted) : i < j => sorted[i] = sorted[j] \/ <<sorted[i], sorted[j]>> \in Bytes
    BY <1>1, <1>2 DEF Arranges
<1>4. Lists(Repeatless(sorted), ToSet(sorted), Bytes) /\ Repeatless(sorted) \in Seq(Seq(Nat))
    BY <1>3, BytesOrder, RepeatlessLists
<1>5. Canonical(ids) = Repeatless(sorted)
    BY DEF Canonical, sorted
<1> QED
    BY <1>3, <1>4, <1>5

\* idset.ts 12-13: uniqueSorted returns the values that are not empty, each
\* once, in the order of localeCompare.
THEOREM UniqueSortedLists ==
    ASSUME NEW values \in Seq(Seq(Nat))
    PROVE  /\ uniqueSorted(values) \in Seq(Seq(Nat))
           /\ Lists(uniqueSorted(values), ToSet(values) \ {<<>>}, Locale)
<1> DEFINE ids == Nonblank(values)
           sorted == Ordered(ids, localeLess)
<1>1. ids \in Seq(Seq(Nat)) /\ ToSet(ids) = ToSet(values) \ {<<>>}
    BY NonblankItems
<1>2. uniqueSorted(values) = Repeatless(sorted)
    BY DEF uniqueSorted
<1> HIDE DEF ids
<1>3. Arranges(sorted, ids, Locale)
    BY <1>1, OrderedByLocale
<1>4. ToSet(ids) \subseteq Seq(Nat)
    BY <1>1, ItemsOf
<1> HIDE DEF sorted
<1>5. sorted \in Seq(Seq(Nat)) /\ ToSet(sorted) = ToSet(ids)
      /\ \A i, j \in 1 .. Len(sorted) : i < j => sorted[i] = sorted[j] \/ <<sorted[i], sorted[j]>> \in Locale
    BY <1>3, <1>4 DEF Arranges
<1>6. Lists(Repeatless(sorted), ToSet(sorted), Locale) /\ Repeatless(sorted) \in Seq(Seq(Nat))
    BY <1>5, LocaleOrder, RepeatlessLists
<1> QED
    BY <1>1, <1>2, <1>5, <1>6

(* What has no id twice, nothing is freed of.                               *)
LEMMA NothingIsFreed ==
    ASSUME NEW T, NEW items \in Seq(T), \A i, j \in 1 .. Len(items) : i < j => items[i] # items[j]
    PROVE  withoutFreed(items) = items
<1>1. DOMAIN items = 1 .. Len(items) /\ Len(items) \in Nat
    OBVIOUS
<1>2. \A i \in DOMAIN items : {j \in 1 .. (i - 1) : items[j] = items[i]} = {}
    BY <1>1
<1>3. {i \in DOMAIN items : Cardinality({j \in 1 .. (i - 1) : items[j] = items[i]}) % 2 = 0} = DOMAIN items
    <2>1. Cardinality({}) = 0 /\ 0 % 2 = 0
        BY FS_EmptySet
    <2> QED
        BY <1>2, <2>1
<1>4. withoutFreed(items) = Kept(items, Rising(DOMAIN items))
    BY <1>3 DEF withoutFreed
<1> QED
    BY <1>4, KeptAll

-----------------------------------------------------------------------------
(* Texts joined and split *)

MarksOf(text, mark) == {i \in DOMAIN text : text[i] = mark}

\* Where a part starts and ends, with marks at the given places.
Starts(at, k) == IF k = 1 THEN 1 ELSE at[k - 1] + 1
Ends(at, k, length) == IF k = Len(at) + 1 THEN length ELSE at[k] - 1

\* The parts of a text, from mark to mark.
LEMMA SplitOf ==
    ASSUME NEW text \in Seq(Nat), NEW mark
    PROVE  LET at == Rising(MarksOf(text, mark))
           IN  /\ at \in Seq(1 .. Len(text)) /\ Lists(at, MarksOf(text, mark), LessThan)
               /\ Split(text, mark) \in Seq(Seq(Nat)) /\ Len(Split(text, mark)) = Len(at) + 1
               /\ \A k \in 1 .. (Len(at) + 1) :
                    Split(text, mark)[k] = SubSeq(text, Starts(at, k), Ends(at, k, Len(text)))
<1> DEFINE P == MarksOf(text, mark)
           at == Rising(P)
           marks == <<0>> \o at \o <<Len(text) + 1>>
           n == Len(at)
<1>1. at \in Seq(1 .. Len(text)) /\ Lists(at, P, LessThan) /\ n \in Nat
    <2>1. P \subseteq DOMAIN text /\ DOMAIN text = 1 .. Len(text)
        BY DEF MarksOf
    <2>2. at \in Seq(DOMAIN text) /\ Lists(at, P, LessThan)
        <3> HIDE DEF P
        <3> QED
            BY <2>1, KeptRising
    <2> QED
        BY <2>1, <2>2
<1>2. Split(text, mark) = [k \in 1 .. (Len(marks) - 1) |-> SubSeq(text, marks[k] + 1, marks[k + 1] - 1)]
    BY DEF Split, MarksOf
<1> HIDE DEF at, P
<1>3. /\ Len(marks) = n + 2 /\ marks[1] = 0 /\ marks[n + 2] = Len(text) + 1
      /\ \A k \in 1 .. n : marks[k + 1] = at[k] /\ at[k] \in 1 .. Len(text)
    BY <1>1
<1> HIDE DEF marks
<1>4. ASSUME NEW k \in 1 .. (n + 1)
      PROVE  /\ marks[k] + 1 = Starts(at, k) /\ marks[k + 1] - 1 = Ends(at, k, Len(text))
             /\ marks[k] \in 0 .. Len(text) /\ marks[k + 1] \in 1 .. (Len(text) + 1)
    <2>1. marks[k] + 1 = Starts(at, k) /\ marks[k] \in 0 .. Len(text)
        <3>1. CASE k = 1
            BY <3>1, <1>1, <1>3 DEF Starts
        <3>2. CASE k # 1
            <4>1. k - 1 \in 1 .. n /\ k - 1 + 1 = k
                BY <3>2, <1>1
            <4>2. marks[k] = at[k - 1] /\ at[k - 1] \in 1 .. Len(text)
                BY <4>1, <1>3
            <4> QED
                BY <3>2, <4>2 DEF Starts
        <3> QED
            BY <3>1, <3>2
    <2>2. marks[k + 1] - 1 = Ends(at, k, Len(text)) /\ marks[k + 1] \in 1 .. (Len(text) + 1)
        <3>1. CASE k = n + 1
            <4>1. k + 1 = n + 2
                BY <3>1, <1>1
            <4>2. marks[k + 1] = Len(text) + 1 /\ Len(text) \in Nat
                BY <4>1, <1>3
            <4> QED
                BY <3>1, <4>2 DEF Ends
        <3>2. CASE k # n + 1
            <4>1. k \in 1 .. n
                BY <3>2, <1>1
            <4>2. marks[k + 1] = at[k] /\ at[k] \in 1 .. Len(text)
                BY <4>1, <1>3
            <4> QED
                BY <3>2, <4>2 DEF Ends
        <3> QED
            BY <3>1, <3>2
    <2> QED
        BY <2>1, <2>2
<1>6. \A k \in 1 .. (n + 1) : SubSeq(text, marks[k] + 1, marks[k + 1] - 1) \in Seq(Nat)
    <2> SUFFICES ASSUME NEW k \in 1 .. (n + 1)
                 PROVE  SubSeq(text, marks[k] + 1, marks[k + 1] - 1) \in Seq(Nat)
        OBVIOUS
    <2>1. marks[k] + 1 \in Int /\ marks[k + 1] - 1 \in Int
          /\ \A i \in (marks[k] + 1) .. (marks[k + 1] - 1) : i \in 1 .. Len(text) /\ text[i] \in Nat
        BY SMTT(30), <1>4
    <2> QED
        BY <2>1, SubSeqProperties
<1>7. Len(marks) - 1 = n + 1
    BY <1>1, <1>3
<1>8. Split(text, mark) \in [1 .. (n + 1) -> Seq(Nat)]
    BY <1>2, <1>6, <1>7
<1>9. Split(text, mark) \in Seq(Seq(Nat)) /\ Len(Split(text, mark)) = n + 1
    BY <1>1, <1>8
<1>10. \A k \in 1 .. (n + 1) : Split(text, mark)[k] = SubSeq(text, marks[k] + 1, marks[k + 1] - 1)
    BY <1>2, <1>7
<1>11. \A k \in 1 .. (n + 1) :
            Split(text, mark)[k] = SubSeq(text, Starts(at, k), Ends(at, k, Len(text)))
    BY <1>4, <1>10
<1> QED
    BY <1>1, <1>9, <1>11 DEF at, P

\* A text without a mark is its one part.
LEMMA SplitPlain ==
    ASSUME NEW text \in Seq(Nat), NEW mark, mark \notin ToSet(text)
    PROVE  Split(text, mark) = <<text>>
<1> DEFINE at == Rising(MarksOf(text, mark))
<1>1. MarksOf(text, mark) = {}
    BY DEF MarksOf, ToSet
<1>2. Lists(at, {}, LessThan)
    BY SplitOf, <1>1
<1>3. Len(at) = 0
    BY <1>2, FS_EmptySet DEF Lists
<1> HIDE DEF at
<1>4. /\ Split(text, mark) \in Seq(Seq(Nat)) /\ Len(Split(text, mark)) = Len(at) + 1
      /\ \A k \in 1 .. (Len(at) + 1) : Split(text, mark)[k] = SubSeq(text, Starts(at, k), Ends(at, k, Len(text)))
    BY SplitOf DEF at
<1>5. Split(text, mark)[1] = text
    <2>1. Starts(at, 1) = 1 /\ Ends(at, 1, Len(text)) = Len(text)
        BY <1>3 DEF Starts, Ends
    <2>2. Split(text, mark)[1] = SubSeq(text, 1, Len(text))
        <3>1. 1 \in 1 .. (Len(at) + 1)
            BY <1>3
        <3>2. Split(text, mark)[1] = SubSeq(text, Starts(at, 1), Ends(at, 1, Len(text)))
            BY <3>1, <1>4
        <3> QED
            BY <2>1, <3>2
    <2> QED
        BY <2>2, SubSeqFull
<1>6. Split(text, mark) \in Seq(Seq(Nat)) /\ Len(Split(text, mark)) = 1
    BY <1>3, <1>4
<1> QED
    BY <1>5, <1>6

\* Equal stretches of two texts, one shifted against the other.
LEMMA SubSeqAgrees ==
    ASSUME NEW T, NEW s \in Seq(T), NEW t \in Seq(T), NEW m \in Nat, NEW n \in Nat, NEW d \in Nat, m > 0,
           n <= Len(s), n + d <= Len(t), \A i \in m .. n : s[i] = t[i + d]
    PROVE  SubSeq(s, m, n) = SubSeq(t, m + d, n + d)
<1>1. \A i \in m .. n : s[i] \in T
    OBVIOUS
<1>2. \A i \in (m + d) .. (n + d) : t[i] \in T
    OBVIOUS
<1>3. /\ SubSeq(s, m, n) \in Seq(T)
      /\ Len(SubSeq(s, m, n)) = IF m <= n THEN n - m + 1 ELSE 0
      /\ \A i \in 1 .. n - m + 1 : SubSeq(s, m, n)[i] = s[m + i - 1]
    BY <1>1, SubSeqProperties
<1>4. /\ SubSeq(t, m + d, n + d) \in Seq(T)
      /\ Len(SubSeq(t, m + d, n + d)) = IF m + d <= n + d THEN n + d - (m + d) + 1 ELSE 0
      /\ \A i \in 1 .. n + d - (m + d) + 1 : SubSeq(t, m + d, n + d)[i] = t[m + d + i - 1]
    <2>1. m + d \in Int /\ n + d \in Int
        OBVIOUS
    <2> QED
        BY <1>2, <2>1, SubSeqProperties
<1>5. Len(SubSeq(s, m, n)) = Len(SubSeq(t, m + d, n + d))
    BY <1>3, <1>4
<1>6. ASSUME NEW i \in 1 .. Len(SubSeq(s, m, n))
      PROVE  SubSeq(s, m, n)[i] = SubSeq(t, m + d, n + d)[i]
    <2>1. i \in 1 .. n - m + 1 /\ i \in 1 .. n + d - (m + d) + 1 /\ m + i - 1 \in m .. n
          /\ m + d + i - 1 = m + i - 1 + d
        BY <1>3
    <2> QED
        BY <2>1, <1>3, <1>4
<1> QED
    BY <1>3, <1>4, <1>5, <1>6, SeqEqual

\* One more place, behind all others.
LEMMA RisingAppend ==
    ASSUME NEW P, P \subseteq Nat, IsFiniteSet(P), NEW t \in Nat, \A x \in P : x < t
    PROVE  Rising(P \cup {t}) = Append(Rising(P), t)
<1> DEFINE at == Rising(P)
           Q == P \cup {t}
           n == Len(at)
           more == Append(at, t)
<1>1. Lists(at, P, LessThan)
    <2>1. P \subseteq Int
        OBVIOUS
    <2> QED
        BY <2>1, RisingLists
<1>2. Lists(Rising(Q), Q, LessThan)
    <2>1. Q \subseteq Int /\ IsFiniteSet(Q)
        BY FS_AddElement
    <2> HIDE DEF Q
    <2> QED
        BY <2>1, RisingLists
<1> HIDE DEF at
<1>3. at \in Seq(P) /\ n \in Nat /\ DOMAIN at = 1 .. n
    BY <1>1 DEF Lists
<1>4. /\ more \in Seq(Q) /\ Len(more) = n + 1 /\ more[n + 1] = t
      /\ \A k \in 1 .. n : more[k] = at[k] /\ at[k] \in P
    <2>1. at \in Seq(Q) /\ t \in Q
        BY <1>3
    <2> QED
        BY <2>1, <1>3
<1>5. /\ \A x \in P : \E k \in 1 .. n : at[k] = x
      /\ \A i, j \in 1 .. n : i < j => <<at[i], at[j]>> \in LessThan
    BY <1>1 DEF Lists
<1> HIDE DEF more, n
<1>6. \A x \in Q : <<x, x>> \notin LessThan
    BY DEF LessThan
<1>7. ASSUME NEW i \in 1 .. Len(more), NEW j \in 1 .. Len(more), i < j
      PROVE  <<more[i], more[j]>> \in LessThan
    <2>1. i \in 1 .. n /\ j \in 1 .. (n + 1)
        BY <1>3, <1>4, <1>7
    <2>2. CASE j = n + 1
        <3>1. more[j] = t /\ more[i] \in P
            BY <1>4, <2>1, <2>2
        <3>2. t \in Int /\ \A x \in P : x \in Int /\ x < t
            OBVIOUS
        <3> QED
            BY <3>1, <3>2 DEF LessThan
    <2>3. CASE j # n + 1
        <3>1. j \in 1 .. n
            BY <2>1, <2>3, <1>3
        <3> QED
            BY <3>1, <2>1, <1>4, <1>5, <1>7
    <2> QED
        BY <2>2, <2>3
<1>8. ToSet(more) = Q
    <2>1. ToSet(more) = {more[k] : k \in 1 .. (n + 1)}
        BY <1>4, ItemsOf
    <2>2. n + 1 \in 1 .. (n + 1) /\ \A k \in 1 .. n : k \in 1 .. (n + 1)
        BY <1>3
    <2>3. \A k \in 1 .. (n + 1) : k = n + 1 \/ k \in 1 .. n
        BY <1>3
    <2>4. ASSUME NEW x \in ToSet(more)
          PROVE  x \in Q
        BY <2>1, <2>3, <1>4
    <2>5. ASSUME NEW x \in Q
          PROVE  x \in ToSet(more)
        <3>1. CASE x = t
            BY <3>1, <2>1, <2>2, <1>4
        <3>2. CASE x \in P
            BY <3>2, <2>1, <2>2, <1>4, <1>5
        <3> QED
            BY <3>1, <3>2
    <2> QED
        BY <2>4, <2>5
<1>9. Orders(LessThan, Q)
    BY DEF Orders, LessThan
<1> HIDE DEF Q
<1>10. Lists(more, Q, LessThan)
    BY <1>4, <1>6, <1>7, <1>8, WhatRisesLists
<1> QED
    BY <1>2, <1>9, <1>10, ListsAreUnique DEF Q, more, at

(* A text, a mark and a part.                                               *)
Follows(whole, text, mark, part) == whole = Append(text, mark) \o part

(* A part behind a mark is one more part.                                   *)
LEMMA SplitStep ==
    ASSUME NEW text \in Seq(Nat), NEW part \in Seq(Nat), NEW mark \in Nat, mark \notin ToSet(part),
           NEW whole, Follows(whole, text, mark, part)
    PROVE  /\ whole \in Seq(Nat)
           /\ Len(Split(whole, mark)) = Len(Split(text, mark)) + 1
           /\ Split(whole, mark)[Len(Split(text, mark)) + 1] = part
           /\ \A k \in 1 .. Len(Split(text, mark)) : Split(whole, mark)[k] = Split(text, mark)[k]
<1>1. PICK t \in Nat : t = Len(text) + 1
    OBVIOUS
<1>2. PICK l \in Nat : l = Len(part)
    OBVIOUS
<1>3. /\ whole \in Seq(Nat) /\ Len(whole) = t + l /\ whole[t] = mark
      /\ DOMAIN whole = 1 .. (t + l) /\ DOMAIN text = 1 .. (t - 1) /\ DOMAIN part = 1 .. l
      /\ \A i \in 1 .. (t - 1) : whole[i] = text[i]
      /\ \A i \in 1 .. l : whole[t + i] = part[i]
    BY <1>1, <1>2 DEF Follows
<1>4. MarksOf(whole, mark) = MarksOf(text, mark) \cup {t}
    <2>1. \A i \in 1 .. l : part[i] # mark
        BY <1>3 DEF ToSet
    <2>2. ASSUME NEW i \in 1 .. (t + l), i # t, i \notin 1 .. (t - 1)
          PROVE  whole[i] # mark
        <3>1. i - t \in 1 .. l /\ t + (i - t) = i
            BY <2>2
        <3> QED
            BY <3>1, <2>1, <1>3
    <2>3. t \in 1 .. (t + l) /\ \A i \in 1 .. (t - 1) : i \in 1 .. (t + l)
        BY <1>1
    <2>4. ASSUME NEW i \in MarksOf(whole, mark)
          PROVE  i \in MarksOf(text, mark) \cup {t}
        BY <1>3, <2>2, <2>4 DEF MarksOf
    <2>5. ASSUME NEW i \in MarksOf(text, mark) \cup {t}
          PROVE  i \in MarksOf(whole, mark)
        BY <1>3, <2>3 DEF MarksOf
    <2> QED
        BY <2>4, <2>5
<1>5. PICK at : at = Rising(MarksOf(text, mark))
    OBVIOUS
<1>6. PICK to : to = Rising(MarksOf(whole, mark))
    OBVIOUS
<1>7. to = Append(at, t)
    <2>1. MarksOf(text, mark) \subseteq 1 .. (t - 1) /\ IsFiniteSet(1 .. (t - 1))
        BY <1>1, <1>3, FS_Interval DEF MarksOf
    <2>2. MarksOf(text, mark) \subseteq Nat /\ IsFiniteSet(MarksOf(text, mark))
          /\ \A x \in MarksOf(text, mark) : x < t
        BY <2>1, FS_Subset
    <2> QED
        BY <2>2, <1>4, <1>5, <1>6, RisingAppend
<1>8. PICK n \in Nat : n = Len(at)
    BY <1>5, SplitOf
<1>9. /\ at \in Seq(1 .. (t - 1)) /\ DOMAIN at = 1 .. n
      /\ Len(Split(text, mark)) = n + 1
      /\ \A k \in 1 .. (n + 1) :
           Split(text, mark)[k] = SubSeq(text, Starts(at, k), Ends(at, k, t - 1))
    <2>1. Len(text) = t - 1
        BY <1>1
    <2>2. at \in Seq(1 .. Len(text)) /\ Len(Split(text, mark)) = Len(at) + 1
          /\ \A k \in 1 .. (Len(at) + 1) :
               Split(text, mark)[k] = SubSeq(text, Starts(at, k), Ends(at, k, Len(text)))
        BY <1>5, SplitOf
    <2>3. at \in Seq(1 .. (t - 1)) /\ DOMAIN at = 1 .. n
        BY <2>1, <2>2, <1>8
    <2> QED
        BY <2>1, <2>2, <2>3, <1>8
<1>10. /\ Len(to) = n + 1 /\ to[n + 1] = t /\ \A k \in 1 .. n : to[k] = at[k] /\ at[k] \in 1 .. (t - 1)
    BY <1>7, <1>8, <1>9
<1>11. /\ Len(Split(whole, mark)) = n + 2
       /\ \A k \in 1 .. (n + 2) :
            Split(whole, mark)[k] = SubSeq(whole, Starts(to, k), Ends(to, k, t + l))
    <2>1. Len(Split(whole, mark)) = Len(to) + 1
          /\ \A k \in 1 .. (Len(to) + 1) :
               Split(whole, mark)[k] = SubSeq(whole, Starts(to, k), Ends(to, k, Len(whole)))
        BY <1>3, <1>6, SplitOf
    <2>2. Len(to) + 1 = n + 2
        BY <1>10
    <2> QED
        BY <2>1, <2>2, <1>3
<1>12. Split(whole, mark)[n + 2] = part
    <2>1. Split(whole, mark)[n + 2] = SubSeq(whole, t + 1, t + l)
        <3>1. n + 2 \in 1 .. (n + 2) /\ n + 2 # 1 /\ n + 2 - 1 = n + 1 /\ n + 2 = Len(to) + 1
            BY <1>10
        <3>2. Starts(to, n + 2) = t + 1 /\ Ends(to, n + 2, t + l) = t + l
            BY <3>1, <1>10 DEF Starts, Ends
        <3> QED
            BY <3>1, <3>2, <1>11
    <2>2. SubSeq(part, 1, l) = SubSeq(whole, 1 + t, l + t)
        <3>1. /\ 1 \in Nat /\ 1 > 0 /\ l <= Len(part) /\ l + t <= Len(whole)
              /\ \A i \in 1 .. l : part[i] = whole[i + t]
            BY <1>2, <1>3
        <3> QED
            BY <3>1, <1>3, SubSeqAgrees
    <2>3. SubSeq(part, 1, l) = part
        BY <1>2, SubSeqFull
    <2>4. 1 + t = t + 1 /\ l + t = t + l
        OBVIOUS
    <2> QED
        BY <2>1, <2>2, <2>3, <2>4
<1>13. ASSUME NEW k \in 1 .. (n + 1)
       PROVE  Split(whole, mark)[k] = Split(text, mark)[k]
    <2>1. (k # 1 => k - 1 \in 1 .. n) /\ (k # n + 1 => k \in 1 .. n) /\ k # n + 2 /\ k \in 1 .. (n + 2)
        OBVIOUS
    <2>2. PICK from : from = Starts(at, k)
        OBVIOUS
    <2>3. PICK upto : upto = Ends(at, k, t - 1)
        OBVIOUS
    <2>4. Split(text, mark)[k] = SubSeq(text, from, upto)
        BY <1>9, <2>2, <2>3
    <2>5. Split(whole, mark)[k] = SubSeq(whole, from, upto)
        <3>1. from = Starts(to, k)
            <4>1. CASE k = 1
                BY <4>1, <2>2 DEF Starts
            <4>2. CASE k # 1
                <5>1. to[k - 1] = at[k - 1]
                    BY <4>2, <2>1, <1>10
                <5> QED
                    BY <4>2, <5>1, <2>2 DEF Starts
            <4> QED
                BY <4>1, <4>2
        <3>2. upto = Ends(to, k, t + l)
            <4>1. CASE k = n + 1
                <5>1. upto = t - 1 /\ to[k] = t /\ k # Len(to) + 1
                    BY <4>1, <2>3, <1>8, <1>10 DEF Ends
                <5> QED
                    BY <5>1 DEF Ends
            <4>2. CASE k # n + 1
                <5>1. upto = at[k] - 1 /\ to[k] = at[k] /\ k # Len(to) + 1
                    BY <4>2, <2>1, <2>3, <1>8, <1>10 DEF Ends
                <5> QED
                    BY <5>1 DEF Ends
            <4> QED
                BY <4>1, <4>2
        <3> QED
            BY <3>1, <3>2, <2>1, <1>11
    <2>6. from \in Nat /\ from > 0
        <3>1. CASE k = 1
            BY <3>1, <2>2 DEF Starts
        <3>2. CASE k # 1
            <4>1. at[k - 1] \in 1 .. (t - 1) /\ from = at[k - 1] + 1
                BY <3>2, <2>1, <2>2, <1>10 DEF Starts
            <4> QED
                BY <4>1
        <3> QED
            BY <3>1, <3>2
    <2>7. upto \in Nat /\ upto <= t - 1
        <3>1. CASE k = n + 1
            <4>1. upto = t - 1
                BY <3>1, <2>3, <1>8 DEF Ends
            <4> QED
                BY <4>1, <1>1
        <3>2. CASE k # n + 1
            <4>1. at[k] \in 1 .. (t - 1) /\ upto = at[k] - 1
                BY <3>2, <2>1, <2>3, <1>8, <1>10 DEF Ends
            <4> QED
                BY <4>1
        <3> QED
            BY <3>1, <3>2
    <2>8. /\ \A i \in from .. upto : text[i] = whole[i + 0]
          /\ upto + 0 <= Len(whole) /\ upto <= Len(text) /\ 0 \in Nat
        BY SMTT(30), <2>6, <2>7, <1>3, <1>1
    <2>9. SubSeq(text, from, upto) = SubSeq(whole, from + 0, upto + 0)
        BY <2>6, <2>7, <2>8, <1>3, SubSeqAgrees
    <2>10. from + 0 = from /\ upto + 0 = upto
        BY <2>6, <2>7
    <2> QED
        BY <2>4, <2>5, <2>9, <2>10
<1>14. n + 1 + 1 = n + 2
    OBVIOUS
<1> QED
    BY <1>3, <1>9, <1>11, <1>12, <1>13, <1>14

\* Types of texts that are put together.
LEMMA AppendConcat ==
    ASSUME NEW a \in Seq(Nat), NEW mark \in Nat, NEW b \in Seq(Nat)
    PROVE  Append(a, mark) \o b \in Seq(Nat)
OBVIOUS

(* How a text is joined: the parts one after the other.                     *)
JoinedUpTo(f, parts, mark) ==
    /\ f \in [1 .. Len(parts) -> Seq(Nat)]
    /\ f[1] = parts[1]
    /\ \A i \in 1 .. Len(parts) : i # 1 => f[i] = Append(f[i - 1], mark) \o parts[i]

\* Joined is the last of the texts that grow part by part.
LEMMA JoinedText ==
    ASSUME NEW parts \in Seq(Seq(Nat)), parts # <<>>, NEW mark \in Nat
    PROVE  \E f : JoinedUpTo(f, parts, mark) /\ Joined(parts, mark) = f[Len(parts)]
<1>1. PICK n \in Nat : n = Len(parts) /\ n > 0
    OBVIOUS
<1> DEFINE D == 1 .. n
           V == Seq(Nat)
           next == [df \in D \X [D -> V] |->
                       IF df[1] = 1 THEN parts[1] ELSE
                       IF df[1] - 1 \in D THEN Append(df[2][df[1] - 1], mark) \o parts[df[1]] ELSE <<>>]
           rank == [d \in D |-> d]
<1>2. \A d \in D : parts[d] \in V
    BY <1>1
<1>3. next \in [D \X [D -> V] -> V]
    <2> SUFFICES ASSUME NEW d \in D, NEW f \in [D -> V]
                 PROVE  (IF d = 1 THEN parts[1] ELSE
                         IF d - 1 \in D THEN Append(f[d - 1], mark) \o parts[d] ELSE <<>>) \in V
        OBVIOUS
    <2>1. 1 \in D
        BY <1>1
    <2>2. ASSUME d - 1 \in D
          PROVE  Append(f[d - 1], mark) \o parts[d] \in V
        <3>1. f[d - 1] \in V /\ parts[d] \in V
            BY <1>2, <2>2
        <3> QED
            BY <3>1
    <2>3. <<>> \in V
        OBVIOUS
    <2> HIDE DEF D, V
    <2> QED
        BY <1>2, <2>1, <2>2, <2>3
<1>4. \A d \in D, f \in [D -> V] :
          next[<<d, f>>] = IF d = 1 THEN parts[1] ELSE
                           IF d - 1 \in D THEN Append(f[d - 1], mark) \o parts[d] ELSE <<>>
    OBVIOUS
<1>5. ASSUME NEW d \in D, NEW f \in [D -> V], NEW g \in [D -> V],
             \A e \in D : rank[e] < rank[d] => f[e] = g[e]
      PROVE  next[<<d, f>>] = next[<<d, g>>]
    <2>1. d - 1 \in D => f[d - 1] = g[d - 1]
        BY <1>5
    <2>2. next[<<d, f>>] = IF d = 1 THEN parts[1] ELSE
                           IF d - 1 \in D THEN Append(f[d - 1], mark) \o parts[d] ELSE <<>>
        BY <1>4
    <2>3. next[<<d, g>>] = IF d = 1 THEN parts[1] ELSE
                           IF d - 1 \in D THEN Append(g[d - 1], mark) \o parts[d] ELSE <<>>
        BY <1>4
    <2> HIDE DEF D, V, next
    <2>4. CASE d - 1 \in D
        <3>1. f[d - 1] = g[d - 1]
            BY <2>1, <2>4
        <3> QED
            BY <3>1, <2>2, <2>3
    <2>5. CASE d - 1 \notin D
        BY <2>2, <2>3, <2>5
    <2> QED
        BY <2>4, <2>5
<1>6. rank \in [D -> Nat] /\ \A d \in D : rank[d] < n + 1
    BY <1>1
<1>7. <<>> \in V /\ n + 1 \in Nat
    BY <1>1
<1>71. PICK k \in Nat : k = n + 1
    BY <1>7
<1> HIDE DEF V, next, rank, D
<1>8. PICK f : Solution(f, next, D, V)
    <2>1. LooksBack(next, D, V, rank)
        BY <1>5 DEF LooksBack
    <2>2. Recursive(next, D, V, rank, k)
        BY <2>1, <1>3, <1>6, <1>7, <1>71 DEF Recursive
    <2> QED
        BY <2>2, RecursionHasASolution, Zenon
<1>9. \A d \in D : f[d] = IF d = 1 THEN parts[1] ELSE Append(f[d - 1], mark) \o parts[d]
    <2>1. \A d \in D : d # 1 => d - 1 \in D
        BY <1>1 DEF D
    <2> QED
        BY <1>4, <1>8, <2>1 DEF Solution
<1>10. f = [i \in 1 .. Len(parts) |-> IF i = 1 THEN parts[1] ELSE Append(f[i - 1], mark) \o parts[i]]
    <2>1. f \in [1 .. n -> V]
        BY <1>8 DEF Solution, D
    <2> QED
        BY <2>1, <1>1, <1>9 DEF D
<1> DEFINE Solves(h) == h = [i \in 1 .. Len(parts) |->
                               IF i = 1 THEN parts[1] ELSE Append(h[i - 1], mark) \o parts[i]]
           text == CHOOSE h : Solves(h)
<1>11. Joined(parts, mark) = text[Len(parts)]
    BY DEF Joined
<1>12. Solves(text)
    <2>1. Solves(f)
        BY <1>10
    <2> HIDE DEF Solves
    <2> QED
        BY <2>1
<1> HIDE DEF text
<1>13. \A i \in D : text[i] = IF i = 1 THEN parts[1] ELSE Append(text[i - 1], mark) \o parts[i]
    BY <1>12, <1>1 DEF D
<1>14. DOMAIN text = D
    BY <1>12, <1>1 DEF D
<1> HIDE DEF Solves
<1>15. \A i \in D : text[i] \in V
    <2> DEFINE Right == {i \in D : text[i] \in V}
    <2>1. ASSUME NEW d \in D, \A e \in D : rank[e] < rank[d] => e \in Right
          PROVE  d \in Right
        <3>1. CASE d = 1
            BY <3>1, <1>2, <1>13 DEF D
        <3>2. CASE d # 1
            <4>1. d - 1 \in D /\ rank[d - 1] < rank[d]
                BY <3>2, <1>1 DEF D, rank
            <4>2. text[d - 1] \in V /\ parts[d] \in V
                BY <4>1, <2>1, <1>2
            <4>3. text[d] = Append(text[d - 1], mark) \o parts[d]
                BY <3>2, <1>13
            <4> QED
                BY <4>2, <4>3, AppendConcat DEF V
        <3> QED
            BY <3>1, <3>2
    <2>2. Hereditary(Right, D, rank)
        BY <2>1, <1>6 DEF Hereditary
    <2> QED
        BY <2>2, ByRank
<1>16. text = [i \in D |-> text[i]]
    BY <1>12, <1>1 DEF D, Solves
<1>17. JoinedUpTo(text, parts, mark)
    <2>1. text \in [D -> V]
        BY <1>15, <1>16
    <2> QED
        <3>1. 1 \in D
            BY <1>1 DEF D
        <3>2. text[1] = parts[1]
            BY <3>1, <1>13
        <3>3. \A i \in D : i # 1 => text[i] = Append(text[i - 1], mark) \o parts[i]
            BY <1>13
        <3> QED
            BY <2>1, <3>2, <3>3, <1>1 DEF JoinedUpTo, D, V
<1> QED
    BY <1>11, <1>17

(* The parts of joined parts are the parts.                                 *)
LEMMA SplitJoined ==
    ASSUME NEW parts \in Seq(Seq(Nat)), parts # <<>>, NEW mark \in Nat,
           \A i \in 1 .. Len(parts) : mark \notin ToSet(parts[i])
    PROVE  Joined(parts, mark) \in Seq(Nat) /\ Split(Joined(parts, mark), mark) = parts
<1>1. PICK f : JoinedUpTo(f, parts, mark) /\ Joined(parts, mark) = f[Len(parts)]
    BY JoinedText
<1>2. PICK n \in Nat : n = Len(parts) /\ n > 0
    OBVIOUS
<1>3. /\ \A i \in 1 .. n : f[i] \in Seq(Nat) /\ parts[i] \in Seq(Nat)
      /\ f[1] = parts[1]
      /\ \A i \in 1 .. n : i # 1 => f[i] = Append(f[i - 1], mark) \o parts[i]
    <2>1. \A i \in 1 .. n : parts[i] \in Seq(Nat)
        BY <1>2, ElementOfSeq
    <2> QED
        BY <2>1, <1>1, <1>2, Zenon DEF JoinedUpTo
<1> DEFINE Parted(i) == /\ Len(Split(f[i], mark)) = i
                        /\ \A k \in 1 .. i : Split(f[i], mark)[k] = parts[k]
           rank == [i \in 1 .. n |-> i]
           Right == {i \in 1 .. n : Parted(i)}
<1>4. ASSUME NEW d \in 1 .. n, \A e \in 1 .. n : rank[e] < rank[d] => e \in Right
      PROVE  d \in Right
    <2>1. CASE d = 1
        <3>1. Split(f[1], mark) = <<parts[1]>>
            <4>1. f[1] \in Seq(Nat) /\ mark \notin ToSet(f[1])
                BY <1>2, <1>3
            <4> QED
                BY <4>1, <1>3, SplitPlain
        <3>2. Parted(1)
            BY <3>1
        <3> QED
            BY <3>2, <2>1
    <2>2. CASE d # 1
        <3>1. d - 1 \in 1 .. n /\ Parted(d - 1)
            <4>1. d - 1 \in 1 .. n /\ rank[d - 1] < rank[d]
                BY <2>2
            <4> QED
                BY <4>1, <1>4
        <3>2. PICK g : g = f[d - 1]
            OBVIOUS
        <3>3. PICK part : part = parts[d]
            OBVIOUS
        <3>4. PICK w : w = f[d]
            OBVIOUS
        <3>5. /\ Len(Split(f[d], mark)) = Len(Split(f[d - 1], mark)) + 1
              /\ Split(f[d], mark)[Len(Split(f[d - 1], mark)) + 1] = parts[d]
              /\ \A k \in 1 .. Len(Split(f[d - 1], mark)) : Split(f[d], mark)[k] = Split(f[d - 1], mark)[k]
            <4>1. f[d - 1] \in Seq(Nat) /\ parts[d] \in Seq(Nat) /\ mark \notin ToSet(parts[d])
                  /\ f[d] = Append(f[d - 1], mark) \o parts[d]
                BY <3>1, <2>2, <1>2, <1>3
            <4>2. g \in Seq(Nat) /\ part \in Seq(Nat) /\ mark \notin ToSet(part) /\ Follows(w, g, mark, part)
                BY <4>1, <3>2, <3>3, <3>4 DEF Follows
            <4>3. /\ Len(Split(w, mark)) = Len(Split(g, mark)) + 1
                  /\ Split(w, mark)[Len(Split(g, mark)) + 1] = part
                  /\ \A k \in 1 .. Len(Split(g, mark)) : Split(w, mark)[k] = Split(g, mark)[k]
                BY <4>2, SplitStep
            <4> QED
                BY <4>3, <3>2, <3>3, <3>4
        <3>6. Len(Split(f[d], mark)) = d
            BY <3>1, <3>5
        <3>7. ASSUME NEW k \in 1 .. d
              PROVE  Split(f[d], mark)[k] = parts[k]
            <4>1. CASE k = d
                BY <4>1, <3>1, <3>5
            <4>2. CASE k # d
                <5>1. k \in 1 .. (d - 1)
                    BY <4>2
                <5> QED
                    BY <5>1, <3>1, <3>5
            <4> QED
                BY <4>1, <4>2
        <3> QED
            BY <3>6, <3>7
    <2> QED
        BY <2>1, <2>2
<1>5. \A d \in 1 .. n : d \in Right
    <2>1. rank \in [1 .. n -> Nat]
        OBVIOUS
    <2> HIDE DEF rank, Right
    <2>2. Hereditary(Right, 1 .. n, rank)
        BY <1>4, <2>1 DEF Hereditary
    <2> QED
        BY <2>2, ByRank
<1>6. Parted(n)
    BY <1>2, <1>5
<1>7. f[n] \in Seq(Nat) /\ Split(f[n], mark) \in Seq(Seq(Nat))
    BY <1>2, <1>3, SplitOf
<1>8. Split(f[n], mark) = parts
    BY <1>2, <1>6, <1>7, SeqEqual
<1> QED
    BY <1>1, <1>2, <1>7, <1>8

(* Two fields with a tab between them.                                      *)
LEMMA JoinedPair ==
    ASSUME NEW a \in Seq(Nat), NEW b \in Seq(Nat), NEW mark \in Nat
    PROVE  Follows(Joined(<<a, b>>, mark), a, mark, b)
<1> DEFINE parts == <<a, b>>
<1>1. parts \in Seq(Seq(Nat)) /\ parts # <<>> /\ Len(parts) = 2 /\ parts[1] = a /\ parts[2] = b
    OBVIOUS
<1> HIDE DEF parts
<1>2. PICK f : JoinedUpTo(f, parts, mark) /\ Joined(parts, mark) = f[2]
    BY <1>1, JoinedText
<1>3. f[1] = parts[1] /\ f[2] = Append(f[1], mark) \o parts[2]
    <2>1. 2 \in 1 .. Len(parts) /\ 2 # 1 /\ 2 - 1 = 1
        BY <1>1
    <2> QED
        BY <2>1, <1>2 DEF JoinedUpTo
<1> QED
    BY <1>1, <1>2, <1>3 DEF parts, Follows

(* What splits in two at its marks has one, between the two.                *)
LEMMA SplitInTwo ==
    ASSUME NEW a \in Seq(Nat), NEW b \in Seq(Nat), NEW mark \in Nat,
           NEW text, Follows(text, a, mark, b), Len(Split(text, mark)) = 2
    PROVE  Split(text, mark) = <<a, b>>
<1>1. PICK t \in Nat : t = Len(a) + 1
    OBVIOUS
<1>2. PICK l \in Nat : l = Len(b)
    OBVIOUS
<1>3. /\ text \in Seq(Nat) /\ Len(text) = t + l /\ text[t] = mark
      /\ \A i \in 1 .. (t - 1) : text[i] = a[i]
      /\ \A i \in 1 .. l : text[t + i] = b[i]
      /\ t \in DOMAIN text
    BY <1>1, <1>2 DEF Follows
<1>4. PICK at : at = Rising(MarksOf(text, mark))
    OBVIOUS
<1>5. /\ at \in Seq(1 .. Len(text)) /\ Lists(at, MarksOf(text, mark), LessThan)
      /\ Split(text, mark) \in Seq(Seq(Nat)) /\ Len(Split(text, mark)) = Len(at) + 1
      /\ \A k \in 1 .. (Len(at) + 1) : Split(text, mark)[k] = SubSeq(text, Starts(at, k), Ends(at, k, Len(text)))
    BY <1>3, <1>4, SplitOf
<1>6. Len(at) = 1
    <2>1. PICK n \in Nat : n = Len(at)
        BY <1>4, <1>3, SplitOf
    <2>2. n + 1 = 2
        BY <2>1, <1>5
    <2>3. n = 1
        BY <2>2
    <2> QED
        BY <2>1, <2>3
<1>7. at[1] = t
    <2>1. t \in MarksOf(text, mark)
        BY <1>3 DEF MarksOf
    <2>2. PICK i \in 1 .. Len(at) : at[i] = t
        BY <2>1, <1>5 DEF Lists
    <2>3. i = 1
        BY <1>6
    <2> QED
        BY <2>2, <2>3
<1>8. Split(text, mark)[1] = a
    <2>1. Starts(at, 1) = 1 /\ Ends(at, 1, Len(text)) = t - 1
        BY <1>6, <1>7 DEF Starts, Ends
    <2>2. 1 \in 1 .. (Len(at) + 1)
        BY <1>6
    <2>3. Split(text, mark)[1] = SubSeq(text, 1, t - 1)
        BY <2>1, <2>2, <1>5
    <2>4. SubSeq(a, 1, t - 1) = SubSeq(text, 1 + 0, t - 1 + 0)
        <3>1. /\ t - 1 \in Nat /\ 1 \in Nat /\ 0 \in Nat /\ 1 > 0 /\ t - 1 <= Len(a) /\ t - 1 + 0 <= Len(text)
              /\ \A i \in 1 .. (t - 1) : a[i] = text[i + 0]
            BY <1>1, <1>3
        <3> QED
            BY <3>1, <1>3, SubSeqAgrees
    <2>5. t - 1 = Len(a) /\ 1 + 0 = 1 /\ t - 1 + 0 = t - 1
        BY <1>1
    <2> QED
        BY <2>3, <2>4, <2>5, SubSeqFull
<1>9. Split(text, mark)[2] = b
    <2>1. Starts(at, 2) = t + 1 /\ Ends(at, 2, Len(text)) = t + l
        BY <1>3, <1>6, <1>7 DEF Starts, Ends
    <2>2. 2 \in 1 .. (Len(at) + 1)
        BY <1>6
    <2>3. Split(text, mark)[2] = SubSeq(text, t + 1, t + l)
        BY <2>1, <2>2, <1>5
    <2>4. SubSeq(b, 1, l) = SubSeq(text, 1 + t, l + t)
        <3>1. /\ 1 \in Nat /\ 1 > 0 /\ l <= Len(b) /\ l + t <= Len(text)
              /\ \A i \in 1 .. l : b[i] = text[i + t]
            BY <1>2, <1>3
        <3>2. text \in Seq(Nat)
            BY <1>3
        <3> QED
            BY <3>1, <3>2, SubSeqAgrees
    <2>5. 1 + t = t + 1 /\ l + t = t + l
        OBVIOUS
    <2> QED
        BY <2>3, <2>4, <2>5, <1>2, SubSeqFull
<1> QED
    BY <1>5, <1>8, <1>9

-----------------------------------------------------------------------------
(* Id sets *)

\* What a set can hold, and what a blob holds.
Names == Ids \ {<<>>}
Holds(blob, X) == X \subseteq Names /\ Lists(parseSet(blob), X, Bytes)

\* Ids that are not empty.
LEMMA NamesAreTexts ==
    /\ Names \subseteq Seq(Nat)
    /\ \A id \in Names : id # <<>> /\ NL \notin ToSet(id)
BY DEF Names, Ids

(* What has been arranged and has none twice is the list of its items.      *)
LEMMA ArrangedLists ==
    ASSUME NEW T, NEW items \in Seq(T), NEW R, Orders(R, T), NEW sorted, Arranges(sorted, items, R),
           \A i, j \in 1 .. Len(items) : items[i] = items[j] => i = j
    PROVE  Lists(sorted, ToSet(items), R)
<1>1. ToSet(items) \subseteq T /\ IsFiniteSet(ToSet(items))
    BY ItemsOf
<1>2. /\ sorted \in Seq(ToSet(items)) /\ ToSet(sorted) = ToSet(items)
      /\ \A i, j \in 1 .. Len(sorted) :
           i < j => sorted[i] = sorted[j] \/ <<sorted[i], sorted[j]>> \in R
      /\ \A i, j \in 1 .. Len(sorted) : sorted[i] = sorted[j] => i = j
    BY DEF Arranges
<1>3. \A i, j \in 1 .. Len(sorted) : i < j => <<sorted[i], sorted[j]>> \in R
    <2> SUFFICES ASSUME NEW i \in 1 .. Len(sorted), NEW j \in 1 .. Len(sorted), i < j
                 PROVE  <<sorted[i], sorted[j]>> \in R
        OBVIOUS
    <2>1. i # j
        OBVIOUS
    <2> QED
        BY <1>2, <2>1
<1>4. \A x \in ToSet(items) : <<x, x>> \notin R
    BY <1>1 DEF Orders
<1>5. Lists(sorted, ToSet(sorted), R)
    BY <1>2, <1>3, <1>4, WhatRisesLists
<1> QED
    BY <1>2, <1>5

(* What is listed has no element twice, and is a sequence of the elements.  *)
LEMMA ListedItems ==
    ASSUME NEW S, NEW R, \A x \in S : <<x, x>> \notin R, NEW list, Lists(list, S, R)
    PROVE  /\ list \in Seq(S) /\ ToSet(list) = S /\ IsFiniteSet(S) /\ DOMAIN list = 1 .. Len(list)
           /\ \A i, j \in 1 .. Len(list) : i < j => list[i] # list[j]
           /\ \A i, j \in 1 .. Len(list) : list[i] = list[j] => i = j
<1>1. /\ list \in Seq(S) /\ DOMAIN list = 1 .. Len(list)
      /\ \A x \in S : \E i \in 1 .. Len(list) : list[i] = x
      /\ \A i, j \in 1 .. Len(list) : i < j => <<list[i], list[j]>> \in R
    BY DEF Lists
<1>2. ToSet(list) \subseteq S /\ ToSet(list) = {list[i] : i \in 1 .. Len(list)} /\ IsFiniteSet(ToSet(list))
    BY <1>1, ItemsOf
<1>3. ToSet(list) = S
    BY <1>1, <1>2
<1>4. \A i, j \in 1 .. Len(list) : i < j => list[i] # list[j]
    <2>1. \A i \in 1 .. Len(list) : list[i] \in S
        BY <1>1, ElementOfSeq
    <2> QED
        BY <1>1, <2>1
<1>5. \A i, j \in 1 .. Len(list) : list[i] = list[j] => i = j
    <2>1. \A i, j \in 1 .. Len(list) : i = j \/ i < j \/ j < i
        BY <1>1
    <2> QED
        BY <1>4, <2>1
<1> QED
    BY <1>1, <1>2, <1>3, <1>4, <1>5

\* No text is before itself.
LEMMA BytesIrreflexive == \A x \in Seq(Nat) : <<x, x>> \notin Bytes
BY BytesOrder DEF Orders

\* Without items a sequence is empty.
LEMMA NoItems ==
    ASSUME NEW T, NEW s \in Seq(T), ToSet(s) = {}
    PROVE  s = <<>>
<1>1. ToSet(s) = {s[i] : i \in 1 .. Len(s)} /\ Len(s) \in Nat
    BY ItemsOf
<1>2. 1 \notin 1 .. Len(s)
    BY <1>1
<1>3. Len(s) = 0
    BY <1>1, <1>2
<1> QED
    BY <1>3

(* The lines of joined lines, blank ones dropped.                           *)
LEMMA LinesOfJoined ==
    ASSUME NEW lines \in Seq(Names)
    PROVE  Joined(lines, NL) \in Seq(Nat) /\ Nonblank(Split(Joined(lines, NL), NL)) = lines
<1>1. lines \in Seq(Seq(Nat)) /\ \A i \in 1 .. Len(lines) : lines[i] \in Names
    BY NamesAreTexts
<1>2. NL \in Nat
    BY DEF NL
<1>3. CASE lines = <<>>
    <2>1. Joined(lines, NL) = <<>>
        BY <1>3 DEF Joined
    <2>2. <<>> \in Seq(Nat) /\ NL \notin ToSet(<<>>)
        BY DEF ToSet
    <2>3. Split(<<>>, NL) = << <<>> >>
        BY <2>2, SplitPlain
    <2>4. << <<>> >> \in Seq(Seq(Nat)) /\ ToSet(<< <<>> >>) = {<<>>}
        BY DEF ToSet
    <2>5. /\ Nonblank(<< <<>> >>) \in Seq(Seq(Nat))
          /\ ToSet(Nonblank(<< <<>> >>)) = ToSet(<< <<>> >>) \ {<<>>}
        BY <2>4, NonblankItems
    <2>6. PICK kept \in Seq(Seq(Nat)) : kept = Nonblank(<< <<>> >>) /\ ToSet(kept) = {}
        BY <2>4, <2>5
    <2>7. kept = <<>>
        BY <2>6, NoItems
    <2> QED
        BY <1>3, <2>1, <2>2, <2>3, <2>6, <2>7
<1>4. CASE lines # <<>>
    <2>1. \A i \in 1 .. Len(lines) : NL \notin ToSet(lines[i]) /\ lines[i] # <<>>
        BY <1>1, NamesAreTexts
    <2>2. Joined(lines, NL) \in Seq(Nat) /\ Split(Joined(lines, NL), NL) = lines
        BY <1>1, <1>2, <1>4, <2>1, SplitJoined
    <2>3. <<>> \notin ToSet(lines)
        <3>1. ToSet(lines) = {lines[i] : i \in 1 .. Len(lines)}
            BY ItemsOf
        <3> QED
            BY <2>1, <3>1
    <2> QED
        BY <1>1, <2>2, <2>3, NonblankItems
<1> QED
    BY <1>3, <1>4

(* A written list of ids is read as that list.                              *)
LEMMA WrittenIsRead ==
    ASSUME NEW X, X \subseteq Names, NEW ids, Lists(ids, X, Bytes)
    PROVE  /\ parseSet(appendSetText(ids)) = ids /\ Holds(appendSetText(ids), X)
           /\ appendSetText(ids) \in Seq(Nat)
<1>1. X \subseteq Seq(Nat)
    BY NamesAreTexts
<1>2. /\ ids \in Seq(X) /\ ToSet(ids) = X
      /\ \A i, j \in 1 .. Len(ids) : i < j => ids[i] # ids[j]
      /\ \A i, j \in 1 .. Len(ids) : ids[i] = ids[j] => i = j
    BY <1>1, ListedItems, BytesIrreflexive
<1>3. ids \in Seq(Names) /\ ids \in Seq(Seq(Nat))
    BY <1>1, <1>2
<1>4. appendSetText(ids) \in Seq(Nat) /\ Nonblank(Split(appendSetText(ids), NL)) = ids
    BY <1>3, LinesOfJoined DEF appendSetText
<1>5. Sorted(appendSetText(ids)) = Ordered(ids, lessLexicographic)
    BY <1>4 DEF Sorted
<1>6. Arranges(Ordered(ids, lessLexicographic), ids, Bytes)
    BY <1>3, OrderedByBytes
<1> DEFINE sorted == Ordered(ids, lessLexicographic)
<1> HIDE DEF sorted
<1>7. Lists(sorted, X, Bytes)
    <2>1. Arranges(sorted, ids, Bytes)
        BY <1>6 DEF sorted
    <2> QED
        BY <2>1, <1>2, <1>3, BytesOrder, ArrangedLists
<1>8. Orders(Bytes, X)
    BY <1>1, BytesOrder DEF Orders
<1>9. sorted = ids
    BY <1>7, <1>8, ListsAreUnique
<1>10. withoutFreed(ids) = ids
    BY <1>2, <1>3, NothingIsFreed
<1>11. parseSet(appendSetText(ids)) = ids
    BY <1>5, <1>9, <1>10 DEF parseSet, sorted
<1> QED
    BY <1>4, <1>11 DEF Holds

(* What a blob holds, as sequences of texts.                                *)
LEMMA WhatIsHeld ==
    ASSUME NEW blob, NEW X, Holds(blob, X)
    PROVE  /\ parseSet(blob) \in Seq(X) /\ parseSet(blob) \in Seq(Seq(Nat)) /\ ToSet(parseSet(blob)) = X
           /\ X \subseteq Names /\ IsFiniteSet(X) /\ Lists(parseSet(blob), X, Bytes)
<1>1. X \subseteq Names /\ X \subseteq Seq(Nat) /\ Lists(parseSet(blob), X, Bytes)
    BY NamesAreTexts DEF Holds
<1>2. parseSet(blob) \in Seq(X) /\ ToSet(parseSet(blob)) = X /\ IsFiniteSet(X)
    BY <1>1, ListedItems, BytesIrreflexive
<1> QED
    BY <1>1, <1>2

\* extension.zig 244-248: the empty blob holds nothing.
LEMMA HoldsNothing == Holds(idset_empty, {})
<1>1. Lists(<<>>, {}, Bytes)
    BY FS_EmptySet DEF Lists
<1>2. appendSetText(<<>>) = idset_empty
    BY DEF appendSetText, Joined, idset_empty
<1> QED
    BY <1>1, <1>2, WrittenIsRead

\* extension.zig 250-293: idset_add makes a set hold one id more.
LEMMA HoldsOneMore ==
    ASSUME NEW blob, NEW X, Holds(blob, X), NEW id \in Names
    PROVE  Holds(idset_add(blob, id), X \cup {id})
<1>1. parseSet(blob) \in Seq(X) /\ ToSet(parseSet(blob)) = X /\ X \subseteq Names
    BY WhatIsHeld
<1> DEFINE ids == parseSet(blob)
           more == Append(ids, id)
<1> HIDE DEF ids
<1>2. ids \in Seq(X) /\ ToSet(ids) = X /\ X \cup {id} \subseteq Names
    BY <1>1 DEF ids
<1>3. more \in Seq(Names) /\ more \in Seq(Seq(Nat))
    BY <1>2, NamesAreTexts
<1>4. ToSet(more) = X \cup {id}
    <2>1. Len(more) = Len(ids) + 1 /\ Len(ids) \in Nat /\ more[Len(ids) + 1] = id
          /\ \A i \in 1 .. Len(ids) : more[i] = ids[i]
        BY <1>2
    <2>2. ToSet(more) = {more[i] : i \in 1 .. Len(more)} /\ ToSet(ids) = {ids[i] : i \in 1 .. Len(ids)}
        BY <1>2, <1>3, ItemsOf
    <2>3. \A i \in 1 .. Len(more) : i \in 1 .. Len(ids) \/ i = Len(ids) + 1
        BY <2>1
    <2>4. Len(ids) + 1 \in 1 .. Len(more) /\ \A i \in 1 .. Len(ids) : i \in 1 .. Len(more)
        BY <2>1
    <2> HIDE DEF more
    <2>5. ASSUME NEW x \in ToSet(more) PROVE x \in X \cup {id}
        BY <2>1, <2>2, <2>3, <1>2
    <2>6. ASSUME NEW x \in X \cup {id} PROVE x \in ToSet(more)
        BY <2>1, <2>2, <2>4, <1>2
    <2> QED
        BY <2>5, <2>6
<1> HIDE DEF more
<1>5. Lists(Canonical(more), X \cup {id}, Bytes)
    BY <1>3, <1>4, CanonicalLists
<1>6. Holds(appendSetText(Canonical(more)), X \cup {id})
    BY <1>2, <1>5, WrittenIsRead
<1> QED
    BY <1>6 DEF idset_add, more, ids

(* A recursion that looks back one place.                                   *)
ValueAfter(f, n, start, step) ==
    /\ f[0] = start
    /\ \A i \in 1 .. n : f[i] = step[<<i, f[i - 1]>>]

LEMMA OneAfterTheOther ==
    ASSUME NEW n \in Nat, NEW V, NEW start \in V, NEW step \in [(1 .. n) \X V -> V]
    PROVE  \E f \in [0 .. n -> V] : ValueAfter(f, n, start, step)
<1> DEFINE D == 0 .. n
           value == [df \in D \X [D -> V] |->
                        IF df[1] = 0 THEN start ELSE step[<<df[1], df[2][df[1] - 1]>>]]
           rank == [d \in D |-> d]
<1>1. \A d \in D : d # 0 => d \in 1 .. n /\ d - 1 \in D /\ rank[d - 1] < rank[d]
    OBVIOUS
<1>2. \A d \in D, f \in [D -> V] :
          value[<<d, f>>] = IF d = 0 THEN start ELSE step[<<d, f[d - 1]>>]
    OBVIOUS
<1>3. rank \in [D -> Nat] /\ \A d \in D : rank[d] <= n
    OBVIOUS
<1>4. value \in [D \X [D -> V] -> V]
    <2> SUFFICES ASSUME NEW d \in D, NEW f \in [D -> V]
                 PROVE  (IF d = 0 THEN start ELSE step[<<d, f[d - 1]>>]) \in V
        OBVIOUS
    <2>1. d # 0 => f[d - 1] \in V
        BY <1>1
    <2>2. d # 0 => step[<<d, f[d - 1]>>] \in V
        BY <1>1, <2>1
    <2> QED
        BY <2>2
<1> HIDE DEF D, value, rank
<1>5. LooksBack(value, D, V, rank)
    <2> SUFFICES ASSUME NEW d \in D, NEW f \in [D -> V], NEW g \in [D -> V],
                        \A e \in D : rank[e] < rank[d] => f[e] = g[e]
                 PROVE  value[<<d, f>>] = value[<<d, g>>]
        BY DEF LooksBack
    <2>1. CASE d = 0
        BY <2>1, <1>2
    <2>2. CASE d # 0
        <3>1. f[d - 1] = g[d - 1]
            BY <2>2, <1>1
        <3>2. value[<<d, f>>] = step[<<d, f[d - 1]>>] /\ value[<<d, g>>] = step[<<d, g[d - 1]>>]
            BY <2>2, <1>2
        <3> QED
            BY <3>1, <3>2
    <2> QED
        BY <2>1, <2>2
<1>6. Recursive(value, D, V, rank, n)
    BY <1>3, <1>4, <1>5 DEF Recursive
<1>7. PICK f : Solution(f, value, D, V)
    BY <1>6, RecursionHasASolution, Zenon
<1>8. f \in [D -> V] /\ \A d \in D : f[d] = value[<<d, f>>]
    BY <1>7 DEF Solution
<1>9. f[0] = start
    <2>1. 0 \in D
        BY DEF D
    <2> QED
        BY <2>1, <1>2, <1>8
<1>10. \A i \in 1 .. n : f[i] = step[<<i, f[i - 1]>>]
    <2>1. \A i \in 1 .. n : i \in D /\ i # 0
        BY DEF D
    <2> QED
        BY <2>1, <1>2, <1>8
<1> QED
    BY <1>8, <1>9, <1>10 DEF ValueAfter, D

(* What starts in a set and stays in it.                                    *)
LEMMA Upwards ==
    ASSUME NEW n \in Nat, NEW S, 0 \in S, \A i \in 1 .. n : i - 1 \in S => i \in S
    PROVE  \A i \in 0 .. n : i \in S
<1> DEFINE Good == {k \in Nat : k <= n => k \in S}
<1>1. 0 \in Good
    OBVIOUS
<1>2. ASSUME NEW k \in Nat, k \in Good
      PROVE  k + 1 \in Good
    <2>1. k + 1 <= n => k \in S /\ k + 1 \in 1 .. n /\ k + 1 - 1 = k
        BY <1>2
    <2> QED
        BY <2>1
<1> HIDE DEF Good
<1>3. \A k \in Nat : k \in Good
    BY <1>1, <1>2, AllNumbers
<1> QED
    BY <1>3 DEF Good

-----------------------------------------------------------------------------
(* A blob built one id after the other *)

Blobs == {blob \in Seq(Nat) : \E X \in SUBSET Names : Holds(blob, X)}

\* What idset_add writes holds ids again.
LEMMA AddedStaysABlob ==
    ASSUME NEW blob \in Blobs, NEW id \in Names
    PROVE  idset_add(blob, id) \in Blobs
<1>1. PICK X \in SUBSET Names : Holds(blob, X)
    BY DEF Blobs
<1>2. Holds(idset_add(blob, id), X \cup {id})
    BY <1>1, HoldsOneMore
<1>3. X \cup {id} \in SUBSET Names
    OBVIOUS
<1>4. parseSet(blob) \in Seq(Seq(Nat)) /\ Append(parseSet(blob), id) \in Seq(Seq(Nat))
    <2>1. parseSet(blob) \in Seq(Seq(Nat))
        BY <1>1, WhatIsHeld
    <2> QED
        BY <2>1, NamesAreTexts
<1>5. idset_add(blob, id) \in Seq(Nat)
    <2> DEFINE more == Append(parseSet(blob), id)
    <2>1. ToSet(more) \subseteq Names
        <3>1. parseSet(blob) \in Seq(X)
            BY <1>1, WhatIsHeld
        <3>2. more \in Seq(Names)
            BY <3>1
        <3> HIDE DEF more
        <3> QED
            BY <3>2, ItemsOf
    <2>2. more \in Seq(Seq(Nat))
        BY <1>4
    <2> HIDE DEF more
    <2>3. Lists(Canonical(more), ToSet(more), Bytes)
        BY <2>2, CanonicalLists
    <2>4. appendSetText(Canonical(more)) \in Seq(Nat)
        BY <2>1, <2>3, WrittenIsRead
    <2> QED
        BY <2>4 DEF idset_add, more
<1> QED
    BY <1>2, <1>3, <1>5 DEF Blobs

\* idset.ts 39-50: the set the client builds of values holds those of them that
\* are not empty, and no others, however many there are.
THEOREM FromValuesHolds ==
    ASSUME NEW values \in Seq(Ids)
    PROVE  Holds(idsetFromValues(values), ToSet(values) \ {<<>>})
<1> DEFINE ids == uniqueSorted(values)
           n == Len(ids)
           X == ToSet(values) \ {<<>>}
           step == [iv \in (1 .. n) \X Blobs |-> idset_add(iv[2], ids[iv[1]])]
           Solves(h) == h = [i \in 0 .. Len(ids) |->
                               IF i = 0 THEN idset_empty ELSE idset_add(h[i - 1], ids[i])]
           blob == CHOOSE h : Solves(h)
<1>1. values \in Seq(Seq(Nat)) /\ X \subseteq Names /\ X \subseteq Seq(Nat)
    <2>1. values \in Seq(Seq(Nat))
        BY DEF Ids
    <2>2. ToSet(values) \subseteq Ids
        BY ItemsOf
    <2> QED
        BY <2>1, <2>2 DEF Names, Ids
<1>2. idsetFromValues(values) = blob[Len(ids)]
    BY DEF idsetFromValues
<1>3. ids \in Seq(X) /\ Lists(ids, X, Locale) /\ ToSet(ids) = X
    <2>1. Lists(ids, X, Locale)
        BY <1>1, UniqueSortedLists
    <2>2. \A x \in X : <<x, x>> \notin Locale
        BY <1>1, LocaleOrder DEF Orders
    <2> HIDE DEF ids, X
    <2> QED
        BY <2>1, <2>2, ListedItems
<1> HIDE DEF ids, X
<1>4. n \in Nat /\ \A i \in 1 .. n : ids[i] \in Names
    BY <1>1, <1>3
<1>5. idset_empty \in Blobs
    BY HoldsNothing DEF Blobs, idset_empty
<1>6. step \in [(1 .. n) \X Blobs -> Blobs]
    <2>1. \A i \in 1 .. n, b \in Blobs : idset_add(b, ids[i]) \in Blobs
        BY <1>4, AddedStaysABlob
    <2> HIDE DEF n
    <2> QED
        BY <2>1
<1>7. \A i \in 1 .. n, b \in Blobs : step[<<i, b>>] = idset_add(b, ids[i])
    OBVIOUS
<1> HIDE DEF step
<1>8. PICK f \in [0 .. n -> Blobs] : ValueAfter(f, n, idset_empty, step)
    BY <1>4, <1>5, <1>6, OneAfterTheOther
<1>9. Solves(f)
    <2>1. \A i \in 1 .. n : f[i] = idset_add(f[i - 1], ids[i])
        <3>1. \A i \in 1 .. n : i - 1 \in 0 .. n
            BY <1>4
        <3> QED
            BY <3>1, <1>7, <1>8 DEF ValueAfter
    <2>2. \A i \in 0 .. n : i = 0 \/ i \in 1 .. n
        BY <1>4
    <2>3. f[0] = idset_empty
        BY <1>8 DEF ValueAfter
    <2>4. \A i \in 0 .. n : f[i] = IF i = 0 THEN idset_empty ELSE idset_add(f[i - 1], ids[i])
        BY <2>1, <2>2, <2>3
    <2>5. f = [i \in 0 .. n |-> f[i]]
        OBVIOUS
    <2> QED
        BY <2>4, <2>5
<1>10. Solves(blob)
    <2> HIDE DEF Solves
    <2> QED
        BY <1>9
<1> HIDE DEF blob
<1>11. blob[0] = idset_empty /\ \A i \in 1 .. n : blob[i] = idset_add(blob[i - 1], ids[i])
    BY <1>4, <1>10
<1> HIDE DEF Solves
<1> DEFINE Begun(i) == {ids[k] : k \in 1 .. i}
           Right(i) == Holds(blob[i], Begun(i))
           S == {i \in 0 .. n : Right(i)}
<1>12. Right(0)
    <2>1. Begun(0) = {}
        OBVIOUS
    <2>2. Holds(blob[0], {})
        BY <1>11, HoldsNothing DEF idset_empty
    <2> HIDE DEF Begun
    <2> QED
        BY <2>1, <2>2
<1>13. ASSUME NEW i \in 1 .. n, Right(i - 1)
       PROVE  Right(i)
    <2>1. Begun(i) = Begun(i - 1) \cup {ids[i]}
        <3>1. \A k \in 1 .. i : k \in 1 .. (i - 1) \/ k = i
            BY <1>4
        <3>2. i \in 1 .. i /\ \A k \in 1 .. (i - 1) : k \in 1 .. i
            BY <1>4
        <3> QED
            BY <3>1, <3>2
    <2>2. Holds(blob[i - 1], Begun(i - 1))
        BY <1>13
    <2> HIDE DEF Begun
    <2>3. Holds(idset_add(blob[i - 1], ids[i]), Begun(i - 1) \cup {ids[i]})
        BY <2>2, <1>4, HoldsOneMore
    <2> QED
        BY <2>1, <2>3, <1>11
<1> HIDE DEF Right
<1>14. \A i \in 0 .. n : i \in S
    <2>1. 0 \in S
        BY <1>4, <1>12
    <2>2. \A i \in 1 .. n : i - 1 \in S => i \in S
        <3>1. \A i \in 1 .. n : i \in 0 .. n
            BY <1>4
        <3> QED
            BY <3>1, <1>13
    <2> HIDE DEF S, n
    <2> QED
        BY <1>4, <2>1, <2>2, Upwards
<1>15. Right(n)
    <2>1. n \in 0 .. n
        BY <1>4
    <2> QED
        BY <2>1, <1>14
<1>16. Begun(n) = X
    BY <1>3, ItemsOf
<1> QED
    <2>1. Holds(blob[n], Begun(n))
        BY <1>15 DEF Right
    <2> HIDE DEF Begun, blob
    <2> QED
        BY <1>2, <2>1, <1>16 DEF X

-----------------------------------------------------------------------------
(* Walks of two lists at once *)

(* What a list has from a place on.                                         *)
From(list, i) == {list[k] : k \in i .. Len(list)}

LEMMA FromOn ==
    ASSUME NEW T, NEW list \in Seq(T), NEW R, \A i, j \in 1 .. Len(list) : i < j => <<list[i], list[j]>> \in R,
           NEW i \in 1 .. (Len(list) + 1)
    PROVE  /\ From(list, i) \subseteq T
           /\ i > Len(list) => From(list, i) = {}
           /\ i <= Len(list) => /\ From(list, i) = {list[i]} \cup From(list, i + 1)
                                /\ \A x \in From(list, i + 1) : <<list[i], x>> \in R
<1>1. Len(list) \in Nat /\ \A k \in 1 .. Len(list) : list[k] \in T
    BY ElementOfSeq
<1>2. \A k \in i .. Len(list) : k \in 1 .. Len(list)
    BY <1>1
<1>3. From(list, i) \subseteq T
    BY <1>1, <1>2 DEF From
<1>4. i > Len(list) => From(list, i) = {}
    BY <1>1 DEF From
<1>5. ASSUME i <= Len(list)
      PROVE  /\ From(list, i) = {list[i]} \cup From(list, i + 1)
             /\ \A x \in From(list, i + 1) : <<list[i], x>> \in R
    <2>1. i \in i .. Len(list) /\ i \in 1 .. Len(list) /\ \A k \in (i + 1) .. Len(list) : k \in i .. Len(list)
        BY <1>1, <1>5
    <2>2. \A k \in i .. Len(list) : k = i \/ k \in (i + 1) .. Len(list)
        BY <1>1
    <2>3. From(list, i) = {list[i]} \cup From(list, i + 1)
        BY <2>1, <2>2 DEF From
    <2>4. ASSUME NEW x \in From(list, i + 1)
          PROVE  <<list[i], x>> \in R
        <3>1. PICK k \in (i + 1) .. Len(list) : x = list[k]
            BY DEF From
        <3>2. k \in 1 .. Len(list) /\ i < k
            BY <1>1
        <3> QED
            BY <3>1, <3>2, <2>1
    <2> QED
        BY <2>3, <2>4
<1> QED
    BY <1>3, <1>4, <1>5

\* An id before all others, in front of their list.
LEMMA ListsOneBefore ==
    ASSUME NEW X, X \subseteq Seq(Nat), NEW list, Lists(list, X, Bytes), NEW x \in Seq(Nat),
           \A y \in X : <<x, y>> \in Bytes
    PROVE  Lists(<<x>> \o list, {x} \cup X, Bytes)
<1>1. list \in Seq(X) /\ ToSet(list) = X /\ list \in Seq(Seq(Nat))
      /\ \A i, j \in 1 .. Len(list) : i < j => <<list[i], list[j]>> \in Bytes
    <2>1. list \in Seq(X) /\ ToSet(list) = X
        BY ListedItems, BytesIrreflexive
    <2>2. \A i, j \in 1 .. Len(list) : i < j => <<list[i], list[j]>> \in Bytes
        BY DEF Lists
    <2>3. list \in Seq(Seq(Nat))
        BY <2>1
    <2> QED
        BY <2>1, <2>2, <2>3
<1>2. PICK more : more = <<x>> \o list
    OBVIOUS
<1>3. more \in Seq(Seq(Nat)) /\ Len(more) = Len(list) + 1 /\ more[1] = x
      /\ \A i \in 2 .. Len(more) : more[i] = list[i - 1]
    BY <1>1, <1>2
<1>4. Len(list) \in Nat /\ \A i \in 1 .. Len(more) : i = 1 \/ (i \in 2 .. Len(more) /\ i - 1 \in 1 .. Len(list))
    BY <1>1, <1>3
<1>5. \A i \in 1 .. Len(list) : list[i] \in X
    BY <1>1, ElementOfSeq
<1>6. ASSUME NEW i \in 1 .. Len(more), NEW j \in 1 .. Len(more), i < j
      PROVE  <<more[i], more[j]>> \in Bytes
    <2>1. j \in 2 .. Len(more) /\ j - 1 \in 1 .. Len(list) /\ more[j] = list[j - 1]
        <3>1. j # 1
            BY <1>6
        <3> QED
            BY <3>1, <1>3, <1>4
    <2>2. CASE i = 1
        BY <2>1, <2>2, <1>3, <1>5
    <2>3. CASE i # 1
        <3>1. i \in 2 .. Len(more) /\ i - 1 \in 1 .. Len(list) /\ more[i] = list[i - 1] /\ i - 1 < j - 1
            BY <1>3, <1>4, <1>6, <2>3
        <3> QED
            BY <2>1, <3>1, <1>1
    <2> QED
        BY <2>2, <2>3
<1>7. ToSet(more) = {x} \cup X
    <2>1. ToSet(more) = {more[i] : i \in 1 .. Len(more)} /\ X = {list[i] : i \in 1 .. Len(list)}
        BY <1>1, <1>3, ItemsOf
    <2>2. 1 \in 1 .. Len(more) /\ \A i \in 1 .. Len(list) : i + 1 \in 1 .. Len(more) /\ more[i + 1] = list[i]
        BY <1>3, <1>4
    <2>3. \A i \in 1 .. Len(more) : more[i] = x \/ more[i] \in X
        BY <1>3, <1>4, <1>5
    <2>4. ToSet(more) \subseteq {x} \cup X
        BY <2>1, <2>3
    <2>5. x \in ToSet(more) /\ X \subseteq ToSet(more)
        BY <2>1, <2>2, <1>3
    <2> QED
        BY <2>4, <2>5
<1>8. Lists(more, ToSet(more), Bytes)
    BY <1>3, <1>6, BytesIrreflexive, WhatRisesLists
<1> QED
    BY <1>2, <1>7, <1>8

(* The walk of a difference.                                                *)
DiffWalk(h, l, r) ==
    h = [at \in Steps(l, r) |->
            LET i == at[1] j == at[2] IN
            IF i > Len(l) THEN <<>>
            ELSE IF j > Len(r) THEN <<l[i]>> \o h[<<i + 1, j>>]
            ELSE IF l[i] = r[j] THEN h[<<i + 1, j + 1>>]
            ELSE IF lessLexicographic(l[i], r[j]) THEN <<l[i]>> \o h[<<i + 1, j>>]
            ELSE h[<<i, j + 1>>]]

\* idset_diff is the walk from the first ids on.
LEMMA DiffWalks ==
    ASSUME NEW left, NEW right
    PROVE  idset_diff(left, right)
             = appendSetText((CHOOSE h : DiffWalk(h, parseSet(left), parseSet(right)))[<<1, 1>>])
BY DEF idset_diff, DiffWalk

(* Where a walk can be, and where it goes from there.                       *)
Ahead(rank, l, r) ==
    rank = [at \in Steps(l, r) |-> (Len(l) + 1 - at[1]) + (Len(r) + 1 - at[2])]

LEMMA StepsGoOn ==
    ASSUME NEW l \in Seq(Seq(Nat)), NEW r \in Seq(Seq(Nat)),
           NEW rank, Ahead(rank, l, r)
    PROVE  /\ Len(l) \in Nat /\ Len(r) \in Nat
           /\ rank \in [Steps(l, r) -> Nat] /\ \A at \in Steps(l, r) : rank[at] <= Len(l) + Len(r)
           /\ \A at \in Steps(l, r) :
                /\ at[1] \in 1 .. (Len(l) + 1) /\ at[2] \in 1 .. (Len(r) + 1)
                /\ at[1] <= Len(l) => /\ <<at[1] + 1, at[2]>> \in Steps(l, r)
                                      /\ rank[<<at[1] + 1, at[2]>>] < rank[at]
                /\ at[2] <= Len(r) => /\ <<at[1], at[2] + 1>> \in Steps(l, r)
                                      /\ rank[<<at[1], at[2] + 1>>] < rank[at]
                /\ at[1] <= Len(l) /\ at[2] <= Len(r)
                     => /\ <<at[1] + 1, at[2] + 1>> \in Steps(l, r)
                        /\ rank[<<at[1] + 1, at[2] + 1>>] < rank[at]
<1> DEFINE m == Len(l)
           n == Len(r)
           D == Steps(l, r)
<1>1. m \in Nat /\ n \in Nat
    OBVIOUS
<1>2. \A at \in D : at[1] \in 1 .. (m + 1) /\ at[2] \in 1 .. (n + 1)
    BY DEF Steps
<1>3. \A i \in 1 .. (m + 1), j \in 1 .. (n + 1) : <<i, j>> \in D
    BY DEF Steps
<1>4. rank = [at \in D |-> (m + 1 - at[1]) + (n + 1 - at[2])]
    BY DEF Ahead
<1>44. \A at \in D : rank[at] = (m + 1 - at[1]) + (n + 1 - at[2])
    BY <1>4
<1>5. rank \in [D -> Nat]
    <2>1. \A at \in D : (m + 1 - at[1]) + (n + 1 - at[2]) \in Nat
        BY <1>1, <1>2
    <2> QED
        BY <2>1, <1>4
<1> HIDE DEF m, n, D
<1>45. \A i \in 1 .. (m + 1), j \in 1 .. (n + 1) : rank[<<i, j>>] = (m + 1 - i) + (n + 1 - j)
    BY <1>3, <1>44
<1>6. \A at \in D : rank[at] <= m + n
    <2> TAKE at \in D
    <2>1. PICK i \in 1 .. (m + 1) : i = at[1]
        BY <1>2
    <2>2. PICK j \in 1 .. (n + 1) : j = at[2]
        BY <1>2
    <2>3. rank[at] = (m + 1 - i) + (n + 1 - j)
        BY <2>1, <2>2, <1>44
    <2>4. m + 1 - i <= m /\ n + 1 - j <= n /\ m + 1 - i \in Int /\ n + 1 - j \in Int
        BY <1>1
    <2> QED
        BY <2>3, <2>4, <1>1
<1>7. ASSUME NEW at \in D, at[1] <= m
      PROVE  <<at[1] + 1, at[2]>> \in D /\ rank[<<at[1] + 1, at[2]>>] < rank[at]
    <2>1. at[1] + 1 \in 1 .. (m + 1) /\ at[2] \in 1 .. (n + 1)
        BY <1>1, <1>2, <1>7
    <2>2. <<at[1] + 1, at[2]>> \in D
        BY <2>1, <1>3
    <2>3. rank[<<at[1] + 1, at[2]>>] = (m + 1 - (at[1] + 1)) + (n + 1 - (at[2]))
        BY <2>1, <1>45
    <2>4. rank[at] = (m + 1 - at[1]) + (n + 1 - at[2]) /\ at[1] \in Nat /\ at[2] \in Nat
        BY <1>2, <1>44
    <2>5. \A i, j, a, b \in Nat : (a + 1 - (i + 1)) + (b + 1 - j) < (a + 1 - i) + (b + 1 - j)
        OBVIOUS
    <2> QED
        BY <2>2, <2>3, <2>4, <2>5, <1>1
<1>8. ASSUME NEW at \in D, at[2] <= n
      PROVE  <<at[1], at[2] + 1>> \in D /\ rank[<<at[1], at[2] + 1>>] < rank[at]
    <2>1. at[1] \in 1 .. (m + 1) /\ at[2] + 1 \in 1 .. (n + 1)
        BY <1>1, <1>2, <1>8
    <2>2. <<at[1], at[2] + 1>> \in D
        BY <2>1, <1>3
    <2>3. rank[<<at[1], at[2] + 1>>] = (m + 1 - (at[1])) + (n + 1 - (at[2] + 1))
        BY <2>1, <1>45
    <2>4. rank[at] = (m + 1 - at[1]) + (n + 1 - at[2]) /\ at[1] \in Nat /\ at[2] \in Nat
        BY <1>2, <1>44
    <2>5. \A i, j, a, b \in Nat : (a + 1 - i) + (b + 1 - (j + 1)) < (a + 1 - i) + (b + 1 - j)
        OBVIOUS
    <2> QED
        BY <2>2, <2>3, <2>4, <2>5, <1>1
<1>9. ASSUME NEW at \in D, at[1] <= m, at[2] <= n
      PROVE  <<at[1] + 1, at[2] + 1>> \in D /\ rank[<<at[1] + 1, at[2] + 1>>] < rank[at]
    <2>1. at[1] + 1 \in 1 .. (m + 1) /\ at[2] + 1 \in 1 .. (n + 1)
        BY <1>1, <1>2, <1>9
    <2>2. <<at[1] + 1, at[2] + 1>> \in D
        BY <2>1, <1>3
    <2>3. rank[<<at[1] + 1, at[2] + 1>>] = (m + 1 - (at[1] + 1)) + (n + 1 - (at[2] + 1))
        BY <2>1, <1>45
    <2>4. rank[at] = (m + 1 - at[1]) + (n + 1 - at[2]) /\ at[1] \in Nat /\ at[2] \in Nat
        BY <1>2, <1>44
    <2>5. rank[<<at[1] + 1, at[2] + 1>>] < rank[at]
        <3>1. PICK i \in Nat : i = at[1]
            BY <2>4
        <3>2. PICK j \in Nat : j = at[2]
            BY <2>4
        <3>3. (m + 1 - (i + 1)) + (n + 1 - (j + 1)) < (m + 1 - i) + (n + 1 - j)
            BY <1>1
        <3> QED
            BY <2>3, <2>4, <3>1, <3>2, <3>3
    <2> QED
        BY <2>2, <2>5
<1> QED
    BY <1>1, <1>2, <1>5, <1>6, <1>7, <1>8, <1>9 DEF m, n, D

\* The walk, a definition by recursion, has the values it says.
LEMMA DiffIsWalked ==
    ASSUME NEW l \in Seq(Seq(Nat)), NEW r \in Seq(Seq(Nat))
    PROVE  \E h : DiffWalk(h, l, r)
<1> DEFINE D == Steps(l, r)
           V == Seq(Seq(Nat))
           Next(at, f) ==
               IF at[1] > Len(l) THEN <<>>
               ELSE IF at[2] > Len(r) THEN <<l[at[1]]>> \o f[<<at[1] + 1, at[2]>>]
               ELSE IF l[at[1]] = r[at[2]] THEN f[<<at[1] + 1, at[2] + 1>>]
               ELSE IF lessLexicographic(l[at[1]], r[at[2]])
                    THEN <<l[at[1]]>> \o f[<<at[1] + 1, at[2]>>]
               ELSE f[<<at[1], at[2] + 1>>]
           next == [df \in D \X [D -> V] |-> Next(df[1], df[2])]
<1>1. PICK rank : Ahead(rank, l, r)
    BY DEF Ahead
<1>2. /\ Len(l) \in Nat /\ Len(r) \in Nat
      /\ rank \in [D -> Nat] /\ \A at \in D : rank[at] <= Len(l) + Len(r)
      /\ \A at \in D :
           /\ at[1] \in 1 .. (Len(l) + 1) /\ at[2] \in 1 .. (Len(r) + 1)
           /\ at[1] <= Len(l) => /\ <<at[1] + 1, at[2]>> \in D
                                 /\ rank[<<at[1] + 1, at[2]>>] < rank[at]
           /\ at[2] <= Len(r) => /\ <<at[1], at[2] + 1>> \in D
                                 /\ rank[<<at[1], at[2] + 1>>] < rank[at]
           /\ at[1] <= Len(l) /\ at[2] <= Len(r)
                => /\ <<at[1] + 1, at[2] + 1>> \in D
                   /\ rank[<<at[1] + 1, at[2] + 1>>] < rank[at]
    BY <1>1, StepsGoOn
<1>3. \A d \in D, f \in [D -> V] : next[<<d, f>>] = Next(d, f)
    BY Zenon
<1>4. \A i \in 1 .. Len(l), s \in V : <<l[i]>> \o s \in V
    <2>1. \A i \in 1 .. Len(l) : l[i] \in Seq(Nat)
        BY ElementOfSeq
    <2> QED
        BY <2>1
<1> HIDE DEF D, V
<1>5. \A d \in D : /\ ~(d[1] > Len(l)) => d[1] \in 1 .. Len(l) /\ d[1] <= Len(l)
                   /\ ~(d[2] > Len(r)) => d[2] \in 1 .. Len(r) /\ d[2] <= Len(r)
    <2>1. \A m \in Nat : \A i \in 1 .. (m + 1) : ~(i > m) => i \in 1 .. m /\ i <= m
        OBVIOUS
    <2> QED
        BY <1>2, <2>1
<1>6. ASSUME NEW d \in D, NEW f \in [D -> V]
      PROVE  Next(d, f) \in V
    <2>1. <<>> \in V
        BY DEF V
    <2>2. d[1] <= Len(l) => f[<<d[1] + 1, d[2]>>] \in V
        BY <1>2
    <2>3. d[2] <= Len(r) => f[<<d[1], d[2] + 1>>] \in V
        BY <1>2
    <2>4. d[1] <= Len(l) /\ d[2] <= Len(r) => f[<<d[1] + 1, d[2] + 1>>] \in V
        BY <1>2
    <2> QED
        BY <2>1, <2>2, <2>3, <2>4, <1>4, <1>5
<1>7. ASSUME NEW d \in D, NEW f \in [D -> V], NEW g \in [D -> V],
             \A e \in D : rank[e] < rank[d] => f[e] = g[e]
      PROVE  Next(d, f) = Next(d, g)
    <2>1. d[1] <= Len(l) => f[<<d[1] + 1, d[2]>>] = g[<<d[1] + 1, d[2]>>]
        BY <1>2, <1>7
    <2>2. d[2] <= Len(r) => f[<<d[1], d[2] + 1>>] = g[<<d[1], d[2] + 1>>]
        BY <1>2, <1>7
    <2>3. d[1] <= Len(l) /\ d[2] <= Len(r) => f[<<d[1] + 1, d[2] + 1>>] = g[<<d[1] + 1, d[2] + 1>>]
        BY <1>2, <1>7
    <2> QED
        BY <2>1, <2>2, <2>3, <1>5
<1>8. next \in [D \X [D -> V] -> V]
    <2> HIDE DEF Next
    <2> QED
        BY <1>6
<1> HIDE DEF Next, next
<1>9. Recursive(next, D, V, rank, Len(l) + Len(r))
    <2>1. V # {} /\ Len(l) + Len(r) \in Nat
        BY <1>2 DEF V
    <2>2. LooksBack(next, D, V, rank)
        BY <1>3, <1>7 DEF LooksBack
    <2> QED
        BY <2>1, <2>2, <1>2, <1>8 DEF Recursive
<1>10. PICK h : Solution(h, next, D, V)
    BY <1>9, RecursionHasASolution, Zenon
<1>11. h \in [D -> V] /\ \A d \in D : h[d] = Next(d, h)
    BY <1>10, <1>3 DEF Solution
<1>12. h = [d \in D |-> Next(d, h)]
    BY <1>11
<1>13. DiffWalk(h, l, r)
    BY <1>12, Zenon DEF DiffWalk, Next, D
<1> QED
    BY <1>13

(* From each place on the walk lists what the first has and the second has not. *)
LEMMA DiffWalkLists ==
    ASSUME NEW L, L \subseteq Seq(Nat), NEW l, Lists(l, L, Bytes),
           NEW R, R \subseteq Seq(Nat), NEW r, Lists(r, R, Bytes),
           NEW h, DiffWalk(h, l, r)
    PROVE  Lists(h[<<1, 1>>], L \ R, Bytes)
<1>1. l \in Seq(L) /\ ToSet(l) = L /\ r \in Seq(R) /\ ToSet(r) = R
    BY ListedItems, BytesIrreflexive
<1>2. l \in Seq(Seq(Nat)) /\ r \in Seq(Seq(Nat))
    BY <1>1
<1>3. /\ \A i, j \in 1 .. Len(l) : i < j => <<l[i], l[j]>> \in Bytes
      /\ \A i, j \in 1 .. Len(r) : i < j => <<r[i], r[j]>> \in Bytes
    BY DEF Lists
<1> DEFINE D == Steps(l, r)
           Rest(at) == From(l, at[1]) \ From(r, at[2])
           Right(at) == Lists(h[at], Rest(at), Bytes)
           S == {at \in D : Right(at)}
<1>4. PICK rank : Ahead(rank, l, r)
    BY DEF Ahead
<1>5. /\ Len(l) \in Nat /\ Len(r) \in Nat
      /\ rank \in [D -> Nat]
      /\ \A at \in D :
           /\ at[1] \in 1 .. (Len(l) + 1) /\ at[2] \in 1 .. (Len(r) + 1)
           /\ at[1] <= Len(l) => /\ <<at[1] + 1, at[2]>> \in D
                                 /\ rank[<<at[1] + 1, at[2]>>] < rank[at]
           /\ at[2] <= Len(r) => /\ <<at[1], at[2] + 1>> \in D
                                 /\ rank[<<at[1], at[2] + 1>>] < rank[at]
           /\ at[1] <= Len(l) /\ at[2] <= Len(r)
                => /\ <<at[1] + 1, at[2] + 1>> \in D
                   /\ rank[<<at[1] + 1, at[2] + 1>>] < rank[at]
    BY <1>2, <1>4, StepsGoOn
<1>6. \A i \in 1 .. (Len(l) + 1) :
          /\ From(l, i) \subseteq L
          /\ i > Len(l) => From(l, i) = {}
          /\ i <= Len(l) => /\ From(l, i) = {l[i]} \cup From(l, i + 1)
                            /\ \A x \in From(l, i + 1) : <<l[i], x>> \in Bytes
    BY <1>1, <1>3, FromOn
<1>7. \A i \in 1 .. (Len(r) + 1) :
          /\ From(r, i) \subseteq R
          /\ i > Len(r) => From(r, i) = {}
          /\ i <= Len(r) => /\ From(r, i) = {r[i]} \cup From(r, i + 1)
                            /\ \A x \in From(r, i + 1) : <<r[i], x>> \in Bytes
    BY <1>1, <1>3, FromOn
<1>8. \A at \in D :
          h[at] = IF at[1] > Len(l) THEN <<>>
                  ELSE IF at[2] > Len(r) THEN <<l[at[1]]>> \o h[<<at[1] + 1, at[2]>>]
                  ELSE IF l[at[1]] = r[at[2]] THEN h[<<at[1] + 1, at[2] + 1>>]
                  ELSE IF lessLexicographic(l[at[1]], r[at[2]])
                       THEN <<l[at[1]]>> \o h[<<at[1] + 1, at[2]>>]
                  ELSE h[<<at[1], at[2] + 1>>]
    BY Zenon DEF DiffWalk
<1>9. ASSUME NEW d \in D, \A e \in D : rank[e] < rank[d] => e \in S
      PROVE  d \in S
    <2> DEFINE i == d[1]
               j == d[2]
    <2>1. i \in 1 .. (Len(l) + 1) /\ j \in 1 .. (Len(r) + 1)
        BY <1>5
    <2>2. /\ i <= Len(l) => Right(<<i + 1, j>>)
          /\ j <= Len(r) => Right(<<i, j + 1>>)
          /\ i <= Len(l) /\ j <= Len(r) => Right(<<i + 1, j + 1>>)
        <3> HIDE DEF Right
        <3> QED
            BY <1>5, <1>9
    <2>3. /\ i <= Len(l) => Lists(h[<<i + 1, j>>], From(l, i + 1) \ From(r, j), Bytes)
          /\ j <= Len(r) => Lists(h[<<i, j + 1>>], From(l, i) \ From(r, j + 1), Bytes)
          /\ i <= Len(l) /\ j <= Len(r)
               => Lists(h[<<i + 1, j + 1>>], From(l, i + 1) \ From(r, j + 1), Bytes)
        BY <2>2, Zenon
    <2> HIDE DEF i, j
    <2>4. Lists(h[d], From(l, i) \ From(r, j), Bytes)
        <3>1. CASE i > Len(l)
            <4>1. h[d] = <<>>
                BY <3>1, <1>8 DEF i
            <4>2. From(l, i) \ From(r, j) = {}
                BY <3>1, <2>1, <1>6
            <4>3. Lists(<<>>, {}, Bytes)
                BY FS_EmptySet DEF Lists
            <4> QED
                BY <4>1, <4>2, <4>3
        <3>2. ASSUME ~(i > Len(l))
              PROVE  /\ i <= Len(l) /\ i \in 1 .. Len(l) /\ l[i] \in Seq(Nat) /\ i + 1 \in 1 .. (Len(l) + 1)
                     /\ From(l, i) = {l[i]} \cup From(l, i + 1) /\ From(l, i + 1) \subseteq Seq(Nat)
                     /\ \A x \in From(l, i + 1) : <<l[i], x>> \in Bytes
                     /\ l[i] \notin From(l, i + 1)
            <4>1. i <= Len(l) /\ i \in 1 .. Len(l) /\ i + 1 \in 1 .. (Len(l) + 1)
                BY <3>2, <2>1, <1>5
            <4>2. l[i] \in Seq(Nat)
                BY <4>1, <1>2, ElementOfSeq
            <4>3. /\ From(l, i) = {l[i]} \cup From(l, i + 1) /\ From(l, i + 1) \subseteq L
                  /\ \A x \in From(l, i + 1) : <<l[i], x>> \in Bytes
                BY <4>1, <2>1, <1>6
            <4>4. l[i] \notin From(l, i + 1)
                BY <4>2, <4>3, BytesIrreflexive
            <4> QED
                BY <4>1, <4>2, <4>3, <4>4
        <3>3. ASSUME ~(j > Len(r))
              PROVE  /\ j <= Len(r) /\ j \in 1 .. Len(r) /\ r[j] \in Seq(Nat) /\ j + 1 \in 1 .. (Len(r) + 1)
                     /\ From(r, j) = {r[j]} \cup From(r, j + 1) /\ From(r, j + 1) \subseteq Seq(Nat)
                     /\ \A x \in From(r, j + 1) : <<r[j], x>> \in Bytes
                     /\ r[j] \notin From(r, j + 1)
            <4>1. j <= Len(r) /\ j \in 1 .. Len(r) /\ j + 1 \in 1 .. (Len(r) + 1)
                BY <3>3, <2>1, <1>5
            <4>2. r[j] \in Seq(Nat)
                BY <4>1, <1>2, ElementOfSeq
            <4>3. /\ From(r, j) = {r[j]} \cup From(r, j + 1) /\ From(r, j + 1) \subseteq R
                  /\ \A x \in From(r, j + 1) : <<r[j], x>> \in Bytes
                BY <4>1, <2>1, <1>7
            <4>4. r[j] \notin From(r, j + 1)
                BY <4>2, <4>3, BytesIrreflexive
            <4> QED
                BY <4>1, <4>2, <4>3, <4>4
        <3>4. ASSUME ~(i > Len(l)), l[i] \notin From(r, j), h[d] = <<l[i]>> \o h[<<i + 1, j>>]
              PROVE  Lists(h[d], From(l, i) \ From(r, j), Bytes)
            <4> DEFINE X == From(l, i + 1) \ From(r, j)
            <4>1. X \subseteq Seq(Nat) /\ l[i] \in Seq(Nat) /\ \A y \in X : <<l[i], y>> \in Bytes
                BY <3>2, <3>4
            <4>2. Lists(h[<<i + 1, j>>], X, Bytes)
                BY <2>3, <3>2, <3>4
            <4>3. {l[i]} \cup X = From(l, i) \ From(r, j)
                BY <3>2, <3>4
            <4> HIDE DEF X
            <4>4. Lists(<<l[i]>> \o h[<<i + 1, j>>], {l[i]} \cup X, Bytes)
                BY <4>1, <4>2, ListsOneBefore
            <4> QED
                BY <4>3, <4>4, <3>4
        <3>5. CASE ~(i > Len(l)) /\ j > Len(r)
            <4>1. h[d] = <<l[i]>> \o h[<<i + 1, j>>]
                BY <3>5, <1>8, Zenon DEF i, j
            <4>2. l[i] \notin From(r, j)
                BY <3>5, <2>1, <1>7
            <4> QED
                BY <3>4, <3>5, <4>1, <4>2
        <3>6. CASE ~(i > Len(l)) /\ ~(j > Len(r)) /\ l[i] = r[j]
            <4>1. h[d] = h[<<i + 1, j + 1>>]
                BY <3>6, <1>8, Zenon DEF i, j
            <4>2. From(l, i) \ From(r, j) = From(l, i + 1) \ From(r, j + 1)
                BY <3>2, <3>3, <3>6
            <4> QED
                BY <4>1, <4>2, <3>2, <3>3, <3>6, <2>3
        <3>7. CASE ~(i > Len(l)) /\ ~(j > Len(r)) /\ l[i] # r[j] /\ lessLexicographic(l[i], r[j])
            <4>1. h[d] = <<l[i]>> \o h[<<i + 1, j>>]
                BY <3>7, <1>8, Zenon DEF i, j
            <4>2. <<l[i], r[j]>> \in Bytes
                BY <3>2, <3>3, <3>7 DEF Bytes
            <4>3. l[i] \notin From(r, j)
                BY <4>2, <3>2, <3>3, <3>7, BytesOrder DEF Orders
            <4> QED
                BY <3>4, <3>7, <4>1, <4>3
        <3>8. CASE ~(i > Len(l)) /\ ~(j > Len(r)) /\ l[i] # r[j] /\ ~lessLexicographic(l[i], r[j])
            <4>1. h[d] = h[<<i, j + 1>>]
                BY <3>8, <1>8, Zenon DEF i, j
            <4>2. <<r[j], l[i]>> \in Bytes
                <5>1. <<l[i], r[j]>> \notin Bytes
                    BY <3>2, <3>3, <3>8 DEF Bytes
                <5> QED
                    BY <5>1, <3>2, <3>3, <3>8, BytesOrder DEF Orders
            <4>3. r[j] \notin From(l, i)
                BY <4>2, <3>2, <3>3, <3>8, BytesOrder DEF Orders
            <4>4. From(l, i) \ From(r, j) = From(l, i) \ From(r, j + 1)
                BY <4>3, <3>3, <3>8
            <4> QED
                BY <4>1, <4>4, <3>3, <3>8, <2>3
        <3> QED
            BY <3>1, <3>5, <3>6, <3>7, <3>8
    <2>5. Right(d)
        BY <2>4 DEF i, j
    <2> HIDE DEF Right
    <2> QED
        BY <2>5
<1>10. Hereditary(S, D, rank)
    <2> HIDE DEF S, D
    <2> QED
        BY <1>5, <1>9 DEF Hereditary
<1>11. \A d \in D : d \in S
    BY <1>10, ByRank, Zenon
<1>12. <<1, 1>> \in D
    BY <1>5 DEF Steps
<1>13. Lists(h[<<1, 1>>], From(l, 1) \ From(r, 1), Bytes)
    <2>1. Right(<<1, 1>>)
        <3> HIDE DEF Right, D
        <3> QED
            BY <1>11, <1>12
    <2> QED
        BY <2>1, Zenon
<1>14. From(l, 1) = L /\ From(r, 1) = R
    BY <1>1, ItemsOf DEF From
<1> QED
    BY <1>13, <1>14

(* What a function writes: ids one to a line, each once, in byte order.     *)
Writes(blob, X) == X \subseteq Names /\ \E ids : Lists(ids, X, Bytes) /\ blob = appendSetText(ids)

\* extension.zig 383-435: idset_diff writes what only the first holds.
LEMMA WritesDifference ==
    ASSUME NEW left, NEW X, Holds(left, X), NEW right, NEW Y, Holds(right, Y)
    PROVE  Writes(idset_diff(left, right), X \ Y)
<1>1. PICK l \in Seq(Seq(Nat)) : l = parseSet(left)
    BY WhatIsHeld
<1>2. PICK r \in Seq(Seq(Nat)) : r = parseSet(right)
    BY WhatIsHeld
<1>3. /\ X \subseteq Names /\ Lists(l, X, Bytes) /\ X \subseteq Seq(Nat)
      /\ Y \subseteq Names /\ Lists(r, Y, Bytes) /\ Y \subseteq Seq(Nat)
    BY <1>1, <1>2, NamesAreTexts DEF Holds
<1>4. PICK h : h = CHOOSE g : DiffWalk(g, l, r)
    OBVIOUS
<1>5. DiffWalk(h, l, r)
    BY <1>4, DiffIsWalked, Zenon
<1>6. Lists(h[<<1, 1>>], X \ Y, Bytes)
    BY <1>3, <1>5, DiffWalkLists, Zenon
<1>7. idset_diff(left, right) = appendSetText(h[<<1, 1>>])
    BY <1>1, <1>2, <1>4, DiffWalks
<1> QED
    BY <1>3, <1>6, <1>7 DEF Writes

\* extension.zig 383-435: idset_diff, which walks two arrays at once, holds the
\* ids of the first set that are not in the second.
THEOREM HoldsDifference ==
    ASSUME NEW left, NEW X, Holds(left, X), NEW right, NEW Y, Holds(right, Y)
    PROVE  Holds(idset_diff(left, right), X \ Y)
BY WritesDifference, WrittenIsRead DEF Writes

-----------------------------------------------------------------------------
(* Rows *)

\* Rows of two fields.
Pairs == Ids \X Ids

\* Ids hold no newline.
LEMMA IdsAreTexts == Ids \subseteq Seq(Nat) /\ \A id \in Ids : NL \notin ToSet(id)
BY DEF Ids

\* The two fields of a row.
LEMMA PairsOfIds ==
    \A pair \in Pairs : pair[1] \in Ids /\ pair[2] \in Ids /\ pair = <<pair[1], pair[2]>>
BY DEF Pairs

(* A row is a line: it is not empty and holds no newline.                   *)
LEMMA RowsMakeLines ==
    ASSUME NEW a \in Ids, NEW b \in Ids, NEW line, Follows(line, a, TAB, b)
    PROVE  line \in Names
<1>1. a \in Seq(Nat) /\ NL \notin ToSet(a) /\ b \in Seq(Nat) /\ NL \notin ToSet(b)
    BY IdsAreTexts
<1>2. TAB \in Nat /\ TAB # NL
    BY DEF TAB, NL
<1>3. PICK start \in Seq(Nat) : /\ start = Append(a, TAB) /\ Len(start) = Len(a) + 1
                                /\ \A i \in 1 .. Len(a) : start[i] = a[i]
                                /\ start[Len(a) + 1] = TAB
    BY <1>1, <1>2, AppendProperties
<1>4. PICK s \in Nat : s = Len(start)
    OBVIOUS
<1>5. line = start \o b
    BY <1>3 DEF Follows
<1>6. PICK l \in Nat : l = Len(b)
    BY <1>1
<1>7. /\ line \in Seq(Nat) /\ Len(line) = s + l
      /\ \A i \in 1 .. s : line[i] = start[i]
      /\ \A i \in 1 .. l : line[s + i] = b[i]
    BY <1>1, <1>4, <1>5, <1>6
<1>8. s = Len(a) + 1 /\ Len(a) \in Nat
    BY <1>1, <1>3, <1>4
<1>9. \A i \in 1 .. s : line[i] # NL
    <2>1. \A i \in 1 .. s : i \in 1 .. Len(a) \/ i = Len(a) + 1
        BY <1>8
    <2>2. \A i \in 1 .. Len(a) : a[i] # NL
        BY <1>1, ItemsOf
    <2> QED
        BY <2>1, <2>2, <1>2, <1>3, <1>7
<1>10. \A i \in 1 .. l : line[s + i] # NL
    <2>1. \A i \in 1 .. Len(b) : b[i] # NL
        BY <1>1, ItemsOf
    <2> QED
        BY <2>1, <1>6, <1>7
<1>11. \A i \in 1 .. (s + l) : i \in 1 .. s \/ (i - s \in 1 .. l /\ s + (i - s) = i)
    OBVIOUS
<1>12. \A i \in 1 .. Len(line) : line[i] # NL
    BY <1>7, <1>9, <1>10, <1>11
<1>13. NL \notin ToSet(line)
    <2>1. ToSet(line) = {line[i] : i \in 1 .. Len(line)}
        BY <1>7, ItemsOf
    <2> QED
        BY <1>12, <2>1
<1>14. line # <<>>
    BY <1>7, <1>8
<1> QED
    BY <1>7, <1>13, <1>14 DEF Names, Ids

\* Rows of two fields, written, are lines, each a row's fields with a tab between.
LEMMA LinesOfPairs ==
    ASSUME NEW rows \in Seq(Pairs)
    PROVE  \E lines \in Seq(Names) :
             /\ Len(lines) = Len(rows) /\ Lines(rows) = Joined(lines, NL)
             /\ Lines(rows) \in Seq(Nat)
             /\ Nonblank(Split(Lines(rows), NL)) = lines
             /\ \A i \in 1 .. Len(rows) : Follows(lines[i], rows[i][1], TAB, rows[i][2])
<1> DEFINE lines == [i \in DOMAIN rows |-> Line(rows[i])]
<1>1. DOMAIN rows = 1 .. Len(rows) /\ Len(rows) \in Nat /\ \A i \in 1 .. Len(rows) : rows[i] \in Pairs
    BY ElementOfSeq
<1>2. \A i \in 1 .. Len(rows) : Follows(Line(rows[i]), rows[i][1], TAB, rows[i][2])
    <2> TAKE i \in 1 .. Len(rows)
    <2>1. /\ rows[i][1] \in Seq(Nat) /\ rows[i][2] \in Seq(Nat) /\ rows[i] = <<rows[i][1], rows[i][2]>>
          /\ TAB \in Nat
        BY <1>1, PairsOfIds, IdsAreTexts DEF TAB
    <2>2. Follows(Joined(<<rows[i][1], rows[i][2]>>, TAB), rows[i][1], TAB, rows[i][2])
        BY <2>1, JoinedPair
    <2> QED
        BY <2>1, <2>2 DEF Line
<1>3. \A i \in 1 .. Len(rows) : Line(rows[i]) \in Names
    BY <1>1, <1>2, PairsOfIds, RowsMakeLines
<1>4. lines \in Seq(Names) /\ Len(lines) = Len(rows)
      /\ \A i \in 1 .. Len(rows) : lines[i] = Line(rows[i])
    BY <1>1, <1>3
<1>5. Lines(rows) = Joined(lines, NL)
    BY DEF Lines
<1> HIDE DEF lines
<1>6. Joined(lines, NL) \in Seq(Nat) /\ Nonblank(Split(Joined(lines, NL), NL)) = lines
    BY <1>4, LinesOfJoined
<1>7. \A i \in 1 .. Len(rows) : Follows(lines[i], rows[i][1], TAB, rows[i][2])
    BY <1>2, <1>4
<1> QED
    BY <1>4, <1>5, <1>6, <1>7

\* extension.zig 665-709 with schema.ts 18-112: a payload of rows that decodes is
\* decoded as the rows that were written, whatever their ids hold but newlines.
THEOREM DecodedAsWritten ==
    ASSUME NEW rows \in Seq(Pairs), NEW schema, Len(schema) = 2,
           DecodedRows(Lines(rows), schema).ok
    PROVE  DecodedRows(Lines(rows), schema).rows = rows
<1>1. PICK lines \in Seq(Names) :
             /\ Len(lines) = Len(rows)
             /\ Nonblank(Split(Lines(rows), NL)) = lines
             /\ \A i \in 1 .. Len(rows) : Follows(lines[i], rows[i][1], TAB, rows[i][2])
    BY LinesOfPairs
<1>2. PICK parsed : parsed = parseTsvRows(Lines(rows))
    OBVIOUS
<1>3. parsed = [i \in DOMAIN lines |-> Split(lines[i], TAB)]
    BY <1>1, <1>2 DEF parseTsvRows
<1>4. DOMAIN lines = 1 .. Len(rows) /\ DOMAIN rows = 1 .. Len(rows) /\ Len(rows) \in Nat
    BY <1>1
<1>5. /\ \A i \in DOMAIN parsed : Len(parsed[i]) = 2
      /\ DecodedRows(Lines(rows), schema).rows = parsed
    <2>1. DecodedRows(Lines(rows), schema) =
            IF \A i \in DOMAIN parsed : /\ Len(parsed[i]) = Len(schema)
                                        /\ \A k \in DOMAIN schema : Admits(schema[k], parsed[i][k])
            THEN Decoded(parsed) ELSE GraphExtDecodeError
        BY <1>2 DEF DecodedRows
    <2>2. /\ Decoded(parsed).rows = parsed /\ GraphExtDecodeError.ok = FALSE
        BY DEF Decoded, GraphExtDecodeError
    <2> QED
        BY <2>1, <2>2
<1>6. ASSUME NEW i \in 1 .. Len(rows)
      PROVE  Split(lines[i], TAB) = rows[i]
    <2>1. Len(Split(lines[i], TAB)) = 2
        BY <1>3, <1>4, <1>5
    <2>2. rows[i] \in Pairs
        BY ElementOfSeq
    <2>3. /\ rows[i][1] \in Seq(Nat) /\ rows[i][2] \in Seq(Nat) /\ rows[i] = <<rows[i][1], rows[i][2]>>
          /\ TAB \in Nat
        BY <2>2, PairsOfIds, IdsAreTexts DEF TAB
    <2>4. Split(lines[i], TAB) = <<rows[i][1], rows[i][2]>>
        BY <1>1, <2>1, <2>3, SplitInTwo
    <2> QED
        BY <2>3, <2>4
<1>7. parsed = rows
    BY <1>3, <1>4, <1>6
<1> QED
    BY <1>5, <1>7

-----------------------------------------------------------------------------
(* Decimal texts *)

DigitTexts == Seq(48 .. 57) \ {<<>>}

\* What a text of digits says, digit after digit.
Says(g, text, n) ==
    /\ g \in [0 .. Len(text) -> Nat] /\ g[0] = 0 /\ g[Len(text)] = n
    /\ \A i \in 1 .. Len(text) : g[i] = 10 * g[i - 1] + text[i] - 48

\* A digit is a decimal text.
LEMMA OneDigit ==
    ASSUME NEW d \in 0 .. 9
    PROVE  <<48 + d>> \in DigitTexts /\ \E g : Says(g, <<48 + d>>, d)
<1> DEFINE text == <<48 + d>>
           g == [i \in 0 .. 1 |-> IF i = 0 THEN 0 ELSE d]
<1>1. text \in Seq(48 .. 57) /\ Len(text) = 1 /\ text # <<>> /\ text[1] = 48 + d
    OBVIOUS
<1>2. g \in [0 .. 1 -> Nat] /\ g[0] = 0 /\ g[1] = d
    OBVIOUS
<1> HIDE DEF text, g
<1>3. \A i \in 1 .. 1 : g[i] = 10 * g[i - 1] + text[i] - 48
    <2>1. g[1] = 10 * g[0] + text[1] - 48
        BY <1>1, <1>2
    <2>2. \A i \in 1 .. 1 : i = 1 /\ i - 1 = 0
        OBVIOUS
    <2> QED
        BY <2>1, <2>2
<1>4. Says(g, text, d)
    BY <1>1, <1>2, <1>3 DEF Says
<1>5. text \in DigitTexts
    BY <1>1 DEF DigitTexts
<1> QED
    BY <1>4, <1>5 DEF text

\* So is a decimal text with a digit behind it.
LEMMA OneDigitMore ==
    ASSUME NEW text \in DigitTexts, NEW n \in Nat, NEW g, Says(g, text, n), NEW d \in 0 .. 9
    PROVE  Append(text, 48 + d) \in DigitTexts /\ \E h : Says(h, Append(text, 48 + d), 10 * n + d)
<1>1. text \in Seq(48 .. 57) /\ 48 + d \in 48 .. 57
    BY DEF DigitTexts
<1>2. PICK more : more = Append(text, 48 + d)
    OBVIOUS
<1>3. /\ more \in Seq(48 .. 57) /\ more # <<>> /\ Len(more) = Len(text) + 1
      /\ \A i \in 1 .. Len(text) : more[i] = text[i]
      /\ more[Len(text) + 1] = 48 + d
    BY <1>1, <1>2, AppendProperties
<1>4. PICK m \in Nat : m = Len(text)
    BY <1>1
<1> DEFINE h == [i \in 0 .. (m + 1) |-> IF i = m + 1 THEN 10 * n + d ELSE g[i]]
<1>5. g \in [0 .. m -> Nat] /\ g[0] = 0 /\ g[m] = n /\ \A i \in 1 .. m : g[i] = 10 * g[i - 1] + text[i] - 48
    BY <1>4 DEF Says
<1>6. /\ h \in [0 .. (m + 1) -> Nat] /\ h[m + 1] = 10 * n + d
      /\ \A i \in 0 .. m : h[i] = g[i]
    <2>1. \A i \in 0 .. (m + 1) : i = m + 1 \/ i \in 0 .. m
        OBVIOUS
    <2>2. \A i \in 0 .. m : g[i] \in Nat /\ i # m + 1 /\ i \in 0 .. (m + 1)
        BY <1>5
    <2>3. 10 * n + d \in Nat /\ m + 1 \in 0 .. (m + 1)
        OBVIOUS
    <2> QED
        BY <2>1, <2>2, <2>3
<1> HIDE DEF h
<1>7. \A i \in 1 .. (m + 1) : h[i] = 10 * h[i - 1] + more[i] - 48
    <2> TAKE i \in 1 .. (m + 1)
    <2>1. CASE i = m + 1
        <3>1. h[i] = 10 * n + d /\ h[i - 1] = n /\ more[i] = 48 + d
            <4>1. i - 1 = m /\ m \in 0 .. m
                BY <2>1
            <4> QED
                BY <4>1, <2>1, <1>3, <1>4, <1>5, <1>6
        <3> QED
            BY <3>1
    <2>2. CASE i # m + 1
        <3>1. i \in 1 .. m /\ i \in 0 .. m /\ i - 1 \in 0 .. m
            BY <2>2
        <3> QED
            BY <3>1, <1>3, <1>4, <1>5, <1>6
    <2> QED
        BY <2>1, <2>2
<1>8. Len(more) = m + 1 /\ 0 \in 0 .. m
    BY <1>3, <1>4
<1>9. Says(h, more, 10 * n + d)
    BY <1>5, <1>6, <1>7, <1>8 DEF Says
<1> QED
    BY <1>2, <1>3, <1>9 DEF DigitTexts

(* What a definition of a text by recursion is.                             *)
DigitsUpTo(h, n) ==
    h = [k \in 0 .. n |-> IF k < 10 THEN <<48 + k>> ELSE Append(h[k \div 10], 48 + (k % 10))]

\* Numbers and their digits.
LEMMA Tenth == \A k \in Nat : /\ k \div 10 \in Nat /\ k % 10 \in 0 .. 9 /\ k = 10 * (k \div 10) + (k % 10)
                              /\ k >= 10 => k \div 10 < k
OBVIOUS

\* The definition of a number's text has a solution,
LEMMA DigitsExist ==
    ASSUME NEW n \in Nat
    PROVE  \E h : DigitsUpTo(h, n)
<1> DEFINE D == 0 .. n
           V == Seq(48 .. 57)
           Next(k, f) == IF k < 10 THEN <<48 + k>> ELSE Append(f[k \div 10], 48 + (k % 10))
           next == [kf \in D \X [D -> V] |-> Next(kf[1], kf[2])]
           rank == [k \in D |-> k]
<1>1. rank \in [D -> Nat] /\ (\A k \in D : rank[k] <= n) /\ \A k \in D : rank[k] = k
    OBVIOUS
<1>2. \A k \in D, f \in [D -> V] : next[<<k, f>>] = Next(k, f)
    BY Zenon
<1>3. \A k \in D : ~(k < 10) => k \div 10 \in D /\ k \div 10 < k /\ k % 10 \in 0 .. 9
    BY Tenth
<1>4. \A k \in D : k < 10 => k \in 0 .. 9
    OBVIOUS
<1>5. (\A d \in 0 .. 9 : <<48 + d>> \in V) /\ \A s \in V, d \in 0 .. 9 : Append(s, 48 + d) \in V
    <2>1. \A d \in 0 .. 9 : 48 + d \in 48 .. 57
        OBVIOUS
    <2>2. \A s \in V, d \in 0 .. 9 : Append(s, 48 + d) \in V
        BY <2>1, AppendProperties
    <2> QED
        BY <2>1, <2>2
<1> HIDE DEF D, V, rank
<1>6. ASSUME NEW k \in D, NEW f \in [D -> V]
      PROVE  Next(k, f) \in V
    BY <1>3, <1>4, <1>5
<1>7. ASSUME NEW k \in D, NEW f \in [D -> V], NEW g \in [D -> V],
             \A e \in D : rank[e] < rank[k] => f[e] = g[e]
      PROVE  Next(k, f) = Next(k, g)
    <2>1. ~(k < 10) => f[k \div 10] = g[k \div 10]
        BY <1>1, <1>3, <1>7
    <2> QED
        BY <2>1
<1>8. next \in [D \X [D -> V] -> V]
    <2> HIDE DEF Next
    <2> QED
        BY <1>6
<1> HIDE DEF Next, next
<1>9. Recursive(next, D, V, rank, n)
    <2>1. LooksBack(next, D, V, rank)
        BY <1>2, <1>7 DEF LooksBack
    <2>2. V # {}
        <3>1. <<>> \in V
            BY DEF V
        <3> QED
            BY <3>1
    <2> QED
        BY <2>1, <2>2, <1>1, <1>8 DEF Recursive
<1>10. PICK h : Solution(h, next, D, V)
    BY <1>9, RecursionHasASolution, Zenon
<1>11. h \in [D -> V] /\ \A k \in D : h[k] = Next(k, h)
    BY <1>10, <1>2 DEF Solution
<1>12. h = [k \in D |-> Next(k, h)]
    BY <1>11
<1>13. DigitsUpTo(h, n)
    BY <1>12, Zenon DEF DigitsUpTo, Next, D
<1> QED
    BY <1>13

\* and the text says the number.
LEMMA DigitsSay ==
    ASSUME NEW n \in Nat
    PROVE  DecimalText(n) \in DigitTexts /\ \E g : Says(g, DecimalText(n), n)
<1>1. PICK h : h = CHOOSE f : DigitsUpTo(f, n)
    OBVIOUS
<1>2. DigitsUpTo(h, n)
    BY <1>1, DigitsExist, Zenon
<1>3. DecimalText(n) = h[n]
    BY <1>1 DEF DecimalText, DigitsUpTo
<1> DEFINE D == 0 .. n
           rank == [k \in D |-> k]
           Right(k) == h[k] \in DigitTexts /\ \E g : Says(g, h[k], k)
           S == {k \in D : Right(k)}
<1>4. rank \in [D -> Nat] /\ \A k \in D : rank[k] = k
    OBVIOUS
<1>5. \A k \in D : h[k] = IF k < 10 THEN <<48 + k>> ELSE Append(h[k \div 10], 48 + (k % 10))
    BY <1>2, Zenon DEF DigitsUpTo
<1>6. ASSUME NEW k \in D, \A e \in D : rank[e] < rank[k] => e \in S
      PROVE  k \in S
    <2>1. CASE k < 10
        <3>1. k \in 0 .. 9
            BY <2>1
        <3>2. h[k] = <<48 + k>>
            BY <2>1, <1>5
        <3>3. Right(k)
            BY <3>1, <3>2, OneDigit
        <3> QED
            BY <3>3
    <2>2. CASE ~(k < 10)
        <3>1. /\ k \div 10 \in D /\ k \div 10 < k /\ k % 10 \in 0 .. 9 /\ k = 10 * (k \div 10) + (k % 10)
              /\ k \div 10 \in Nat
            BY <2>2, Tenth
        <3>2. k \div 10 \in S
            <4> HIDE DEF S, rank, D
            <4> QED
                BY <3>1, <1>4, <1>6
        <3>3. PICK g : h[k \div 10] \in DigitTexts /\ Says(g, h[k \div 10], k \div 10)
            BY <3>2
        <3>4. h[k] = Append(h[k \div 10], 48 + (k % 10))
            BY <2>2, <1>5
        <3>5. /\ Append(h[k \div 10], 48 + (k % 10)) \in DigitTexts
              /\ \E f : Says(f, Append(h[k \div 10], 48 + (k % 10)), 10 * (k \div 10) + (k % 10))
            BY <3>1, <3>3, OneDigitMore
        <3>6. Right(k)
            BY <3>1, <3>4, <3>5
        <3> QED
            BY <3>6
    <2> QED
        BY <2>1, <2>2
<1>7. Hereditary(S, D, rank)
    <2> HIDE DEF S, D, rank
    <2> QED
        BY <1>4, <1>6 DEF Hereditary
<1>8. \A k \in D : k \in S
    BY <1>7, ByRank, Zenon
<1>9. Right(n)
    <2>1. n \in D
        OBVIOUS
    <2> HIDE DEF D, Right
    <2> QED
        BY <2>1, <1>8
<1> QED
    BY <1>3, <1>9

(* What is read is what was said.                                           *)
ValueUpTo(h, text) ==
    h = [i \in 0 .. Len(text) |->
            IF i = 0 \/ text[i] = 45 THEN 0 ELSE 10 * h[i - 1] + text[i] - 48]

LEMMA SaidIsRead ==
    ASSUME NEW text \in DigitTexts, NEW n \in Nat, NEW g, Says(g, text, n)
    PROVE  NumberOf(text) = n
<1>1. text \in Seq(48 .. 57) /\ text # <<>>
    BY DEF DigitTexts
<1>2. PICK m \in Nat : m = Len(text)
    BY <1>1
<1>3. \A i \in 1 .. m : text[i] \in 48 .. 57 /\ text[i] # 45
    <2>1. \A i \in 1 .. m : text[i] \in 48 .. 57
        BY <1>1, <1>2, ElementOfSeq
    <2> QED
        BY <2>1
<1>4. m # 0 /\ text[1] # 45
    <2>1. m # 0
        BY <1>1, <1>2
    <2> QED
        BY <2>1, <1>3
<1>5. PICK h : h = CHOOSE f : ValueUpTo(f, text)
    OBVIOUS
<1>6. NumberOf(text) = h[m]
    BY <1>2, <1>4, <1>5 DEF NumberOf, ValueUpTo
<1>7. g \in [0 .. m -> Nat] /\ g[0] = 0 /\ g[m] = n /\ \A i \in 1 .. m : g[i] = 10 * g[i - 1] + text[i] - 48
    BY <1>2 DEF Says
<1>8. \A i \in 0 .. m : i = 0 \/ i \in 1 .. m
    OBVIOUS
<1>9. ValueUpTo(g, text)
    <2>1. \A i \in 0 .. m : g[i] = IF i = 0 \/ text[i] = 45 THEN 0 ELSE 10 * g[i - 1] + text[i] - 48
        BY <1>3, <1>7, <1>8
    <2>2. g = [i \in 0 .. m |-> g[i]]
        BY <1>7
    <2>3. g = [i \in 0 .. m |-> IF i = 0 \/ text[i] = 45 THEN 0 ELSE 10 * g[i - 1] + text[i] - 48]
        BY <2>1, <2>2
    <2> QED
        BY <2>3, <1>2, Zenon DEF ValueUpTo
<1>10. ValueUpTo(h, text)
    BY <1>5, <1>9, Zenon
<1>11. \A i \in 0 .. m : h[i] = IF i = 0 \/ text[i] = 45 THEN 0 ELSE 10 * h[i - 1] + text[i] - 48
    BY <1>2, <1>10, Zenon DEF ValueUpTo
<1> DEFINE S == {i \in 0 .. m : h[i] = g[i]}
<1>12. 0 \in S
    BY <1>7, <1>11
<1>13. \A i \in 1 .. m : i - 1 \in S => i \in S
    <2> SUFFICES ASSUME NEW i \in 1 .. m, h[i - 1] = g[i - 1]
                 PROVE  i \in 0 .. m /\ h[i] = g[i]
        OBVIOUS
    <2>1. i \in 0 .. m /\ i # 0
        OBVIOUS
    <2>2. h[i] = 10 * h[i - 1] + text[i] - 48
        BY <2>1, <1>3, <1>11
    <2>3. g[i] = 10 * g[i - 1] + text[i] - 48
        BY <1>7
    <2> QED
        BY <2>1, <2>2, <2>3
<1>14. \A i \in 0 .. m : i \in S
    <2> HIDE DEF S
    <2> QED
        BY <1>12, <1>13, Upwards
<1>15. m \in 0 .. m
    OBVIOUS
<1> QED
    BY <1>6, <1>7, <1>14, <1>15

\* extension.zig 504-548 and schema.ts 149-162: a count or an ord, written in
\* decimal digits and read by Schema.NumberFromString, is the number it was.
THEOREM NumbersSurvive ==
    ASSUME NEW n \in Nat
    PROVE  /\ NumberText(n) \in Names /\ TAB \notin ToSet(NumberText(n)) /\ NumberOf(NumberText(n)) = n
           /\ IsNumber(NumberText(n))
<1>1. NumberText(n) = DecimalText(n)
    BY DEF NumberText
<1>2. PICK text : text = DecimalText(n)
    OBVIOUS
<1>3. text \in DigitTexts /\ \E g : Says(g, text, n)
    BY <1>2, DigitsSay
<1>4. NumberOf(text) = n
    BY <1>3, SaidIsRead
<1>5. text \in Seq(48 .. 57) /\ text # <<>>
    BY <1>3 DEF DigitTexts
<1>6. ToSet(text) \subseteq 48 .. 57 /\ \A i \in 1 .. Len(text) : text[i] \in 48 .. 57
    BY <1>5, ItemsOf, ElementOfSeq
<1>7. NL \notin ToSet(text) /\ TAB \notin ToSet(text)
    <2>1. NL \notin 48 .. 57 /\ TAB \notin 48 .. 57
        BY DEF NL, TAB
    <2> QED
        BY <2>1, <1>6
<1>8. text \in Seq(Nat)
    BY <1>5
<1>9. IsNumber(text)
    <2>1. Len(text) \in Nat /\ Len(text) # 0
        BY <1>5
    <2>2. 1 <= Len(text) /\ text[1] # 45
        BY <2>1, <1>6
    <2> QED
        BY <2>2, <1>5, <1>6 DEF IsNumber, NonEmpty
<1> QED
    BY <1>1, <1>2, <1>4, <1>5, <1>7, <1>8, <1>9 DEF Names, Ids

-----------------------------------------------------------------------------
(* The ids of a blob *)

\* A part of a text that is not empty: from m to n, from mark to mark.
Part(text, mark, m, n) ==
    /\ m \in 1 .. Len(text) /\ n \in m .. Len(text)
    /\ \A i \in m .. n : text[i] # mark
    /\ m = 1 \/ text[m - 1] = mark
    /\ n = Len(text) \/ text[n + 1] = mark

\* The places of the marks, one after the other.
LEMMA MarksListed ==
    ASSUME NEW text \in Seq(Nat), NEW mark, NEW at, at \in Seq(1 .. Len(text)),
           Lists(at, MarksOf(text, mark), LessThan)
    PROVE  /\ \A i \in 1 .. Len(at) : at[i] \in 1 .. Len(text) /\ text[at[i]] = mark
           /\ \A i, j \in 1 .. Len(at) : i < j => at[i] < at[j]
           /\ \A p \in 1 .. Len(text) : text[p] = mark => \E i \in 1 .. Len(at) : at[i] = p
           /\ \A i \in 1 .. Len(at) : at[i] \in Nat
           /\ \A i, j \in 1 .. Len(at) : i <= j => at[i] <= at[j]
<1>1. DOMAIN text = 1 .. Len(text)
    OBVIOUS
<1>2. /\ at \in Seq(MarksOf(text, mark))
      /\ \A i, j \in 1 .. Len(at) : i < j => <<at[i], at[j]>> \in LessThan
      /\ \A p \in MarksOf(text, mark) : \E i \in 1 .. Len(at) : at[i] = p
    BY DEF Lists
<1>3. \A i \in 1 .. Len(at) : at[i] \in MarksOf(text, mark)
    BY <1>2, ElementOfSeq
<1>4. \A i \in 1 .. Len(at) : at[i] \in 1 .. Len(text) /\ text[at[i]] = mark
    BY <1>1, <1>3 DEF MarksOf
<1>5. \A a, b : <<a, b>> \in LessThan => a < b
    BY DEF LessThan
<1>6. \A p \in 1 .. Len(text) : text[p] = mark => p \in MarksOf(text, mark)
    BY <1>1 DEF MarksOf
<1>7. \A i \in 1 .. Len(at) : at[i] \in Nat
    BY <1>4
<1>8. ASSUME NEW i \in 1 .. Len(at), NEW j \in 1 .. Len(at), i <= j
      PROVE  at[i] <= at[j]
    <2>1. i = j \/ i < j
        BY <1>8
    <2>2. at[i] \in Nat /\ at[j] \in Nat /\ (i < j => at[i] < at[j])
        BY <1>2, <1>5, <1>7
    <2> QED
        BY SMTT(30), <2>1, <2>2
<1> QED
    BY <1>2, <1>4, <1>5, <1>6, <1>7, <1>8

\* Between two marks that follow each other there is none.
LEMMA BetweenMarks ==
    ASSUME NEW text \in Seq(Nat), NEW mark, NEW at, at \in Seq(1 .. Len(text)),
           Lists(at, MarksOf(text, mark), LessThan), NEW k \in 1 .. (Len(at) + 1),
           Starts(at, k) <= Ends(at, k, Len(text))
    PROVE  Part(text, mark, Starts(at, k), Ends(at, k, Len(text)))
<1> DEFINE s == Starts(at, k)
           e == Ends(at, k, Len(text))
<1>1. Len(text) \in Nat /\ Len(at) \in Nat /\ DOMAIN text = 1 .. Len(text)
    OBVIOUS
<1>2. /\ \A i \in 1 .. Len(at) : at[i] \in 1 .. Len(text) /\ text[at[i]] = mark
      /\ \A i, j \in 1 .. Len(at) : i < j => at[i] < at[j]
      /\ \A p \in 1 .. Len(text) : text[p] = mark => \E i \in 1 .. Len(at) : at[i] = p
      /\ \A i \in 1 .. Len(at) : at[i] \in Nat
      /\ \A i, j \in 1 .. Len(at) : i <= j => at[i] <= at[j]
    BY MarksListed
<1>22. \A i \in 1 .. Len(at) : at[i] \in Nat
    BY <1>2
<1>3. /\ k = 1 => s = 1
      /\ k # 1 => k - 1 \in 1 .. Len(at) /\ s = at[k - 1] + 1 /\ at[k - 1] \in 1 .. Len(text)
    BY <1>1, <1>2 DEF Starts
<1>4. /\ k = Len(at) + 1 => e = Len(text)
      /\ k # Len(at) + 1 => k \in 1 .. Len(at) /\ e = at[k] - 1 /\ at[k] \in 1 .. Len(text)
    BY <1>1, <1>2 DEF Ends
<1>5. s \in 1 .. Len(text) /\ e \in s .. Len(text)
    <2>1. s \in Nat /\ s >= 1
        BY <1>3, <1>1
    <2>2. e \in Int /\ e <= Len(text)
        BY <1>4, <1>1
    <2>3. s <= e
        OBVIOUS
    <2> HIDE DEF s, e
    <2> QED
        BY <2>1, <2>2, <2>3, <1>1
<1>6. s = 1 \/ text[s - 1] = mark
    <2>1. CASE k = 1
        BY <2>1, <1>3
    <2>2. CASE k # 1
        <3>1. s - 1 = at[k - 1]
            BY <2>2, <1>3
        <3> QED
            BY <3>1, <2>2, <1>2, <1>3
    <2> QED
        BY <2>1, <2>2
<1>7. e = Len(text) \/ text[e + 1] = mark
    <2>1. CASE k = Len(at) + 1
        BY <2>1, <1>4
    <2>2. CASE k # Len(at) + 1
        <3>1. e + 1 = at[k]
            BY <2>2, <1>4
        <3> QED
            BY <3>1, <2>2, <1>2, <1>4
    <2> QED
        BY <2>1, <2>2
<1> HIDE DEF s, e
<1>8. ASSUME NEW i \in s .. e, text[i] = mark
      PROVE  FALSE
    <2>1. i \in 1 .. Len(text)
        BY <1>5
    <2>2. PICK j \in 1 .. Len(at) : at[j] = i
        BY <2>1, <1>2, <1>8
    <2>0. s \in Nat /\ e \in Nat /\ s <= i /\ i <= e
        BY <1>5
    <2>3. ASSUME k # 1
          PROVE  at[k - 1] < at[j] /\ k - 1 \in 1 .. Len(at)
        <3>1. \A p, q \in Nat : p + 1 <= q => p < q
            OBVIOUS
        <3>2. k - 1 \in 1 .. Len(at) /\ s = at[k - 1] + 1
            BY <2>3, <1>3
        <3>3. at[k - 1] \in Nat /\ i \in Nat
            BY <2>1, <3>2, <1>22
        <3>4. at[k - 1] + 1 <= i
            BY <2>0, <3>2
        <3> QED
            BY <2>2, <3>1, <3>2, <3>3, <3>4
    <2>4. ASSUME k # Len(at) + 1
          PROVE  at[j] < at[k] /\ k \in 1 .. Len(at)
        <3>1. \A p, q \in Nat : q <= p - 1 => q < p
            OBVIOUS
        <3>2. k \in 1 .. Len(at) /\ e = at[k] - 1
            BY <2>4, <1>4
        <3>3. at[k] \in Nat /\ i \in Nat /\ i <= at[k] - 1
            BY <2>0, <2>1, <3>2, <1>22
        <3> QED
            BY <2>2, <3>1, <3>2, <3>3
    <2>5. j >= k
        <3>1. CASE k = 1
            BY <3>1
        <3>2. CASE k # 1 /\ j < k
            <4>1. j <= k - 1
                BY <3>2
            <4>2. at[j] <= at[k - 1]
                BY <4>1, <2>3, <3>2, <1>2
            <4>3. at[k - 1] < at[j] /\ at[j] \in Nat /\ at[k - 1] \in Nat
                BY <2>3, <3>2, <1>2
            <4>4. \A p, q \in Nat : ~(q <= p /\ p < q)
                OBVIOUS
            <4> QED
                BY <4>2, <4>3, <4>4
        <3> QED
            BY <3>1, <3>2
    <2>6. k # Len(at) + 1
        BY <2>5, <1>1
    <2>7. at[k] <= at[j] /\ at[k] \in Nat /\ at[j] \in Nat
        BY <2>4, <2>5, <2>6, <1>2
    <2>8. at[j] < at[k]
        BY <2>4, <2>6
    <2>9. \A p, q \in Nat : ~(q <= p /\ p < q)
        OBVIOUS
    <2> QED
        BY <2>7, <2>8, <2>9
<1> QED
    BY <1>5, <1>6, <1>7, <1>8 DEF Part, s, e

\* The other way round, each part is one between two marks.
LEMMA PartsAreBetween ==
    ASSUME NEW text \in Seq(Nat), NEW mark, NEW at, at \in Seq(1 .. Len(text)),
           Lists(at, MarksOf(text, mark), LessThan), NEW m, NEW n, Part(text, mark, m, n)
    PROVE  \E k \in 1 .. (Len(at) + 1) : Starts(at, k) = m /\ Ends(at, k, Len(text)) = n
<1>1. Len(text) \in Nat /\ Len(at) \in Nat /\ DOMAIN text = 1 .. Len(text)
    OBVIOUS
<1>2. /\ \A i \in 1 .. Len(at) : at[i] \in 1 .. Len(text) /\ text[at[i]] = mark
      /\ \A i, j \in 1 .. Len(at) : i < j => at[i] < at[j]
      /\ \A p \in 1 .. Len(text) : text[p] = mark => \E i \in 1 .. Len(at) : at[i] = p
      /\ \A i \in 1 .. Len(at) : at[i] \in Nat
      /\ \A i, j \in 1 .. Len(at) : i <= j => at[i] <= at[j]
    BY MarksListed
<1>3. /\ m \in 1 .. Len(text) /\ n \in m .. Len(text) /\ \A i \in m .. n : text[i] # mark
      /\ m = 1 \/ text[m - 1] = mark
      /\ n = Len(text) \/ text[n + 1] = mark
    BY DEF Part
<1>33. m \in Nat /\ n \in Nat
    <2>1. m \in 1 .. Len(text) /\ n \in m .. Len(text)
        BY <1>3
    <2>2. \A l \in Nat : \A x \in 1 .. l : x \in Nat /\ \A y \in x .. l : y \in Nat
        OBVIOUS
    <2> QED
        BY <1>1, <2>1, <2>2
<1>4. \E k \in 1 .. (Len(at) + 1) : /\ Starts(at, k) = m
                                    /\ \A j \in 1 .. Len(at) : j < k <=> at[j] < m
    <2>1. CASE m = 1
        <3>1. 1 \in 1 .. (Len(at) + 1) /\ Starts(at, 1) = m
            BY <2>1, <1>1 DEF Starts
        <3>2. \A j \in 1 .. Len(at) : ~(j < 1) /\ ~(at[j] < m)
            BY <2>1, <1>2
        <3> QED
            BY <3>1, <3>2
    <2>2. CASE m # 1
        <3>1. m - 1 \in 1 .. Len(text) /\ text[m - 1] = mark
            BY <2>2, <1>3
        <3>2. PICK i \in 1 .. Len(at) : at[i] = m - 1
            BY <3>1, <1>2
        <3>3. i + 1 \in 1 .. (Len(at) + 1) /\ Starts(at, i + 1) = m
            <4>1. i + 1 \in 1 .. (Len(at) + 1) /\ i + 1 # 1 /\ i + 1 - 1 = i
                BY <1>1
            <4>2. at[i] + 1 = m
                BY <3>2, <1>33
            <4> QED
                BY <4>1, <4>2 DEF Starts
        <3>4. ASSUME NEW j \in 1 .. Len(at)
              PROVE  j < i + 1 <=> at[j] < m
            <4>1. j < i => at[j] < at[i]
                BY <1>2
            <4>2. i < j => at[i] < at[j]
                BY <1>2
            <4>3. at[j] \in Nat /\ at[i] \in Nat /\ m \in Nat
                BY <1>2, <1>33
            <4>4. j < i \/ j = i \/ i < j
                OBVIOUS
            <4>5. at[i] < m /\ (at[i] < at[j] => ~(at[j] < m))
                <5>1. \A p, q, t \in Nat : p + 1 = t => p < t /\ (p < q => ~(q < t))
                    OBVIOUS
                <5>2. at[i] + 1 = m
                    BY <3>2, <4>3
                <5> QED
                    BY <4>3, <5>1, <5>2
            <4>6. j < i => at[j] < m
                <5>1. \A p, q, t \in Nat : p < q /\ q < t => p < t
                    OBVIOUS
                <5> QED
                    BY <4>1, <4>3, <4>5, <5>1
            <4>7. i < j => ~(at[j] < m)
                BY <4>2, <4>5
            <4>8. j = i => at[j] < m
                BY <4>5
            <4>9. (j < i + 1) <=> (j < i \/ j = i)
                OBVIOUS
            <4> QED
                BY <4>4, <4>6, <4>7, <4>8, <4>9
        <3> QED
            BY <3>3, <3>4
    <2> QED
        BY <2>1, <2>2
<1>5. PICK k \in 1 .. (Len(at) + 1) : /\ Starts(at, k) = m
                                      /\ \A j \in 1 .. Len(at) : j < k <=> at[j] < m
    BY <1>4
<1>6. \A j \in 1 .. Len(at) : ~(j < k) => at[j] > n
    <2> SUFFICES ASSUME NEW j \in 1 .. Len(at), ~(j < k)
                 PROVE  at[j] > n
        OBVIOUS
    <2>1. ~(at[j] < m) /\ at[j] \in 1 .. Len(text) /\ text[at[j]] = mark
        BY <1>2, <1>5
    <2>2. at[j] \notin m .. n
        BY <2>1, <1>3
    <2>3. \A p, a, b \in Nat : ~(p < a) /\ p \notin a .. b => p > b
        OBVIOUS
    <2>4. at[j] \in Nat /\ m \in Nat /\ n \in Nat
        BY <1>2, <1>33
    <2> QED
        BY <2>1, <2>2, <2>3, <2>4
<1>7. Ends(at, k, Len(text)) = n
    <2>1. CASE n = Len(text)
        <3>1. k = Len(at) + 1
            <4>1. ASSUME k # Len(at) + 1
                  PROVE  FALSE
                <5>1. k \in 1 .. Len(at) /\ ~(k < k)
                    BY <4>1, <1>1
                <5>2. at[k] > n /\ at[k] \in 1 .. Len(text)
                    BY <5>1, <1>2, <1>6
                <5>3. \A l \in Nat : \A p \in 1 .. l : ~(p > l)
                    OBVIOUS
                <5> QED
                    BY <5>2, <5>3, <2>1, <1>1
            <4> QED
                BY <4>1
        <3> QED
            BY <2>1, <3>1 DEF Ends
    <2>2. CASE n # Len(text)
        <3>1. n + 1 \in 1 .. Len(text) /\ text[n + 1] = mark
            BY <2>2, <1>3
        <3>2. PICK j \in 1 .. Len(at) : at[j] = n + 1
            BY <3>1, <1>2
        <3>3. ~(at[j] < m)
            BY <3>2, <1>3
        <3>4. k <= j /\ k \in 1 .. Len(at) /\ k # Len(at) + 1
            BY <3>3, <1>1, <1>5
        <3>5. at[k] > n /\ at[k] \in Nat
            BY <3>4, <1>2, <1>6
        <3>6. at[k] <= at[j]
            BY <3>4, <1>2
        <3>7. at[k] = n + 1 /\ n \in Nat
            <4>1. \A p, q \in Nat : p > q /\ p <= q + 1 => p = q + 1
                OBVIOUS
            <4>2. at[k] <= n + 1
                BY <3>2, <3>6
            <4> QED
                BY <3>5, <4>1, <4>2, <1>33
        <3>8. Ends(at, k, Len(text)) = at[k] - 1
            BY <3>4 DEF Ends
        <3> QED
            BY <3>7, <3>8
    <2> QED
        BY <2>1, <2>2
<1> QED
    BY <1>5, <1>7

\* The ids of a blob are its parts.
LEMMA IdsAreParts ==
    ASSUME NEW text \in Seq(Nat)
    PROVE  \A id : id \in IdsOf(text) <=>
               \E m, n \in 1 .. Len(text) : Part(text, NL, m, n) /\ id = SubSeq(text, m, n)
<1>1. PICK at : /\ at \in Seq(1 .. Len(text)) /\ Lists(at, MarksOf(text, NL), LessThan)
                /\ Split(text, NL) \in Seq(Seq(Nat)) /\ Len(Split(text, NL)) = Len(at) + 1
                /\ \A k \in 1 .. (Len(at) + 1) :
                     Split(text, NL)[k] = SubSeq(text, Starts(at, k), Ends(at, k, Len(text)))
    BY SplitOf
<1>2. ToSet(Split(text, NL)) = {Split(text, NL)[k] : k \in 1 .. (Len(at) + 1)}
    BY <1>1, ItemsOf
<1>3. \A k \in 1 .. (Len(at) + 1) : Starts(at, k) \in Nat \ {0} /\ Ends(at, k, Len(text)) \in Int
    <2> SUFFICES ASSUME NEW k \in 1 .. (Len(at) + 1)
                 PROVE  Starts(at, k) \in Nat \ {0} /\ Ends(at, k, Len(text)) \in Int
        OBVIOUS
    <2>1. \A i \in 1 .. Len(at) : at[i] \in 1 .. Len(text)
        BY <1>1, ElementOfSeq
    <2>2. Starts(at, k) \in Nat \ {0}
        <3>1. k # 1 => k - 1 \in 1 .. Len(at)
            BY <1>1
        <3>2. k # 1 => at[k - 1] \in 1 .. Len(text)
            BY <2>1, <3>1
        <3> QED
            BY <3>2 DEF Starts
    <2>3. Ends(at, k, Len(text)) \in Int
        <3>1. k # Len(at) + 1 => k \in 1 .. Len(at)
            BY <1>1
        <3> QED
            BY <2>1, <3>1 DEF Ends
    <2> QED
        BY <2>2, <2>3
<1>4. ASSUME NEW id \in IdsOf(text)
      PROVE  \E m, n \in 1 .. Len(text) : Part(text, NL, m, n) /\ id = SubSeq(text, m, n)
    <2>1. PICK k \in 1 .. (Len(at) + 1) : id = Split(text, NL)[k] /\ id # <<>>
        BY <1>2 DEF IdsOf, NonEmpty
    <2>2. PICK m \in Nat \ {0} : m = Starts(at, k)
        BY <1>3
    <2>3. PICK n \in Int : n = Ends(at, k, Len(text))
        BY <1>3
    <2>4. id = SubSeq(text, m, n)
        BY <1>1, <2>1, <2>2, <2>3
    <2>5. m <= n
        <3>1. ASSUME ~(m <= n)
              PROVE  FALSE
            <4>1. SubSeq(text, m, n) = <<>>
                BY <3>1
            <4> QED
                BY <4>1, <2>1, <2>4
        <3> QED
            BY <3>1
    <2>6. Part(text, NL, m, n)
        BY <1>1, <2>2, <2>3, <2>5, BetweenMarks
    <2>7. m \in 1 .. Len(text) /\ n \in 1 .. Len(text)
        BY <2>6 DEF Part
    <2> QED
        BY <2>4, <2>6, <2>7
<1>5. ASSUME NEW m \in 1 .. Len(text), NEW n \in 1 .. Len(text), Part(text, NL, m, n)
      PROVE  SubSeq(text, m, n) \in IdsOf(text)
    <2>1. PICK k \in 1 .. (Len(at) + 1) : Starts(at, k) = m /\ Ends(at, k, Len(text)) = n
        BY <1>1, <1>5, PartsAreBetween
    <2>2. Split(text, NL)[k] = SubSeq(text, m, n)
        BY <1>1, <2>1
    <2>3. m <= n
        BY <1>5 DEF Part
    <2>4. SubSeq(text, m, n) # <<>>
        <3>1. Len(SubSeq(text, m, n)) = n - m + 1
            BY <2>3
        <3> QED
            BY <3>1, <2>3
    <2> QED
        BY <1>2, <2>2, <2>4 DEF IdsOf, NonEmpty
<1> QED
    BY <1>4, <1>5

\* Ids have no newline and are not empty.
LEMMA IdsAreNames ==
    ASSUME NEW text \in Seq(Nat)
    PROVE  IdsOf(text) \subseteq Names
<1> SUFFICES ASSUME NEW id \in IdsOf(text)
             PROVE  id \in Names
    OBVIOUS
<1>1. PICK m, n \in 1 .. Len(text) : Part(text, NL, m, n) /\ id = SubSeq(text, m, n)
    BY IdsAreParts
<1>2. m \in Nat /\ n \in Nat /\ m > 0 /\ n <= Len(text) /\ Len(text) \in Nat
    OBVIOUS
<1>3. m <= n /\ \A i \in m .. n : text[i] # NL
    BY <1>1, <1>2 DEF Part
<1>4. \A i \in m .. n : text[i] \in Nat
    BY <1>2
<1>5. /\ id \in Seq(Nat) /\ Len(id) = n - m + 1
      /\ \A i \in 1 .. Len(id) : id[i] = text[m + i - 1]
    BY <1>1, <1>2, <1>3, <1>4, SubSeqProperties
<1>6. \A i \in 1 .. Len(id) : id[i] # NL
    <2>1. \A i \in 1 .. Len(id) : m + i - 1 \in m .. n
        BY <1>2, <1>5
    <2> QED
        BY <2>1, <1>3, <1>5
<1>7. NL \notin ToSet(id)
    <2>1. ToSet(id) = {id[i] : i \in 1 .. Len(id)}
        BY <1>5, ItemsOf
    <2> QED
        BY <2>1, <1>6
<1>8. id # <<>>
    BY <1>2, <1>3, <1>5
<1> QED
    BY <1>5, <1>7, <1>8 DEF Names, Ids

\* Two texts with a newline between them.
LEMMA FollowsTexts ==
    ASSUME NEW a \in Seq(Nat), NEW b \in Seq(Nat), NEW mark \in Nat, NEW whole, Follows(whole, a, mark, b)
    PROVE  /\ whole \in Seq(Nat) /\ Len(whole) = Len(a) + 1 + Len(b)
           /\ whole[Len(a) + 1] = mark
           /\ \A i \in 1 .. Len(a) : whole[i] = a[i]
           /\ \A i \in 1 .. Len(b) : whole[i + Len(a) + 1] = b[i]
<1>1. PICK front : front = Append(a, mark)
    OBVIOUS
<1>2. /\ front \in Seq(Nat) /\ Len(front) = Len(a) + 1 /\ front[Len(a) + 1] = mark
      /\ \A i \in 1 .. Len(a) : front[i] = a[i]
    BY <1>1
<1>3. whole = front \o b
    BY <1>1 DEF Follows
<1>4. /\ whole \in Seq(Nat) /\ Len(whole) = Len(front) + Len(b)
      /\ \A i \in 1 .. Len(front) : whole[i] = front[i]
      /\ \A i \in 1 .. Len(b) : whole[i + Len(front)] = b[i]
    <2>0. front \in Seq(Nat) /\ b \in Seq(Nat)
        BY <1>2
    <2>1. whole \in Seq(Nat) /\ Len(whole) = Len(front) + Len(b)
        BY <2>0, <1>3
    <2>2. \A i \in 1 .. Len(front) : whole[i] = front[i]
        BY <1>2, <1>3
    <2>3. ASSUME NEW i \in 1 .. Len(b) PROVE whole[i + Len(front)] = b[i]
        <3>1. i + Len(front) \in 1 .. (Len(front) + Len(b)) /\ i + Len(front) > Len(front)
              /\ i + Len(front) - Len(front) = i
            BY <1>2
        <3>2. i + Len(front) \in 1 .. Len(whole)
            BY <2>1, <3>1
        <3> QED
            BY <2>0, <3>1, <3>2, <1>3
    <2> QED
        BY <2>1, <2>2, <2>3
<1>5. Len(a) \in Nat /\ Len(b) \in Nat
    OBVIOUS
<1>6. Len(a) + 1 \in 1 .. Len(front) /\ \A i \in 1 .. Len(a) : i \in 1 .. Len(front)
    BY <1>2, <1>5
<1>7. \A i \in 1 .. Len(b) : i + Len(a) + 1 = i + Len(front)
    BY <1>2, <1>5
<1> QED
    BY <1>2, <1>4, <1>6, <1>7

\* The parts of the first text,
LEMMA PartsOfFirst ==
    ASSUME NEW a \in Seq(Nat), NEW b \in Seq(Nat), NEW mark \in Nat, NEW whole, Follows(whole, a, mark, b),
           NEW m \in Nat, NEW n \in Nat, n <= Len(a)
    PROVE  Part(whole, mark, m, n) <=> Part(a, mark, m, n)
<1>1. /\ whole \in Seq(Nat) /\ Len(whole) = Len(a) + 1 + Len(b)
      /\ whole[Len(a) + 1] = mark
      /\ \A i \in 1 .. Len(a) : whole[i] = a[i]
    BY FollowsTexts
<1>2. Len(a) \in Nat /\ Len(b) \in Nat /\ Len(whole) \in Nat
    BY <1>1
<1>3. m \in 1 .. Len(whole) /\ n \in m .. Len(whole) <=> m \in 1 .. Len(a) /\ n \in m .. Len(a)
    BY <1>1, <1>2
<1>4. ASSUME m \in 1 .. Len(a), n \in m .. Len(a)
      PROVE  /\ \A i \in m .. n : whole[i] = a[i]
             /\ m # 1 => whole[m - 1] = a[m - 1]
             /\ n = Len(a) => whole[n + 1] = mark
             /\ n # Len(a) => whole[n + 1] = a[n + 1]
             /\ n # Len(whole)
    <2>1. \A i \in m .. n : i \in 1 .. Len(a)
        BY <1>2, <1>4
    <2>2. m # 1 => m - 1 \in 1 .. Len(a)
        BY <1>2, <1>4
    <2>3. n # Len(a) => n + 1 \in 1 .. Len(a)
        BY <1>2, <1>4
    <2>4. n # Len(whole)
        BY <1>1, <1>2
    <2> QED
        BY <2>1, <2>2, <2>3, <2>4, <1>1
<1>5. CASE m \in 1 .. Len(a) /\ n \in m .. Len(a)
    <2>1. /\ \A i \in m .. n : whole[i] = a[i]
          /\ m # 1 => whole[m - 1] = a[m - 1]
          /\ n = Len(a) => whole[n + 1] = mark
          /\ n # Len(a) => whole[n + 1] = a[n + 1]
          /\ n # Len(whole)
        BY <1>4, <1>5
    <2>2. m \in 1 .. Len(whole) /\ n \in m .. Len(whole)
        BY <1>3, <1>5
    <2>3. (\A i \in m .. n : whole[i] # mark) <=> (\A i \in m .. n : a[i] # mark)
        BY <2>1
    <2>4. (n = Len(whole) \/ whole[n + 1] = mark) <=> (n = Len(a) \/ a[n + 1] = mark)
        BY <2>1
    <2>5. (m = 1 \/ whole[m - 1] = mark) <=> (m = 1 \/ a[m - 1] = mark)
        BY <2>1
    <2> QED
        BY <1>5, <2>2, <2>3, <2>4, <2>5 DEF Part
<1>6. CASE ~(m \in 1 .. Len(a) /\ n \in m .. Len(a))
    BY <1>3, <1>6 DEF Part
<1> QED
    BY <1>5, <1>6

\* and those of the second, which is behind a mark.
BehindMark(whole, d, mark, b) ==
    /\ whole \in Seq(Nat) /\ Len(whole) = d + Len(b) /\ whole[d] = mark
    /\ \A i \in 1 .. Len(b) : whole[i + d] = b[i]

LEMMA PartsOfSecond ==
    ASSUME NEW b \in Seq(Nat), NEW mark, NEW whole, NEW d \in Nat, BehindMark(whole, d, mark, b),
           NEW m \in Nat, NEW n \in Nat, m > 0
    PROVE  Part(whole, mark, m + d, n + d) <=> Part(b, mark, m, n)
<1>1. /\ whole \in Seq(Nat) /\ Len(whole) = d + Len(b)
      /\ whole[d] = mark
      /\ \A i \in 1 .. Len(b) : whole[i + d] = b[i]
    BY DEF BehindMark
<1>2. Len(b) \in Nat /\ Len(whole) \in Nat
    BY <1>1
<1>3. (m + d \in 1 .. Len(whole) /\ n + d \in (m + d) .. Len(whole)) <=> (m \in 1 .. Len(b) /\ n \in m .. Len(b))
    BY <1>1, <1>2
<1>4. ASSUME m \in 1 .. Len(b), n \in m .. Len(b)
      PROVE  /\ (\A i \in (m + d) .. (n + d) : whole[i] # mark) <=> (\A i \in m .. n : b[i] # mark)
             /\ (m + d = 1 \/ whole[m + d - 1] = mark) <=> (m = 1 \/ b[m - 1] = mark)
             /\ (n + d = Len(whole) \/ whole[n + d + 1] = mark) <=> (n = Len(b) \/ b[n + 1] = mark)
    <2>1. \A i \in m .. n : i \in 1 .. Len(b) /\ i + d \in (m + d) .. (n + d)
        BY <1>2, <1>4
    <2>2. \A i \in (m + d) .. (n + d) : i - d \in m .. n /\ i - d + d = i
        OBVIOUS
    <2>3. (\A i \in (m + d) .. (n + d) : whole[i] # mark) <=> (\A i \in m .. n : b[i] # mark)
        <3>1. ASSUME \A i \in (m + d) .. (n + d) : whole[i] # mark
              PROVE  \A i \in m .. n : b[i] # mark
            BY <3>1, <2>1, <1>1
        <3>2. ASSUME \A i \in m .. n : b[i] # mark
              PROVE  \A i \in (m + d) .. (n + d) : whole[i] # mark
            <4> TAKE i \in (m + d) .. (n + d)
            <4>1. PICK k \in m .. n : k + d = i
                BY <2>2
            <4>2. whole[k + d] = b[k] /\ b[k] # mark
                BY <2>1, <1>1, <3>2
            <4> QED
                BY <4>1, <4>2
        <3> QED
            BY <3>1, <3>2
    <2>4. (m + d = 1 \/ whole[m + d - 1] = mark) <=> (m = 1 \/ b[m - 1] = mark)
        <3>1. CASE m = 1
            <4>1. m + d - 1 = d
                BY <3>1
            <4> QED
                BY <4>1, <3>1, <1>1
        <3>2. CASE m # 1
            <4>1. m - 1 \in 1 .. Len(b) /\ m + d - 1 = m - 1 + d /\ m + d # 1
                BY <3>2, <1>2, <1>4
            <4>2. whole[m - 1 + d] = b[m - 1]
                BY <4>1, <1>1
            <4> QED
                BY <3>2, <4>1, <4>2
        <3> QED
            BY <3>1, <3>2
    <2>5. (n + d = Len(whole) \/ whole[n + d + 1] = mark) <=> (n = Len(b) \/ b[n + 1] = mark)
        <3>1. CASE n = Len(b)
            <4>1. n + d = Len(whole)
                BY <3>1, <1>1, <1>2
            <4> QED
                BY <3>1, <4>1
        <3>2. CASE n # Len(b)
            <4>0. PICK l \in Nat : l = Len(b) /\ Len(whole) = d + l
                BY <1>1, <1>2
            <4>1. n + 1 \in 1 .. Len(b) /\ n + d + 1 = n + 1 + d /\ n + d # Len(whole)
                <5>1. n <= l /\ n # l
                    BY <3>2, <1>4, <4>0
                <5>2. n + 1 \in 1 .. l /\ n + d + 1 = n + 1 + d /\ n + d # d + l
                    BY <5>1
                <5> QED
                    BY <4>0, <5>2
            <4>2. whole[n + 1 + d] = b[n + 1]
                BY <4>1, <1>1
            <4> QED
                BY <3>2, <4>1, <4>2
        <3> QED
            BY <3>1, <3>2
    <2> QED
        BY <2>3, <2>4, <2>5
<1>5. CASE m \in 1 .. Len(b) /\ n \in m .. Len(b)
    BY <1>3, <1>4, <1>5 DEF Part
<1>6. CASE ~(m \in 1 .. Len(b) /\ n \in m .. Len(b))
    BY <1>3, <1>6 DEF Part
<1> QED
    BY <1>5, <1>6

\* The ids of two texts with a newline between them.
LEMMA FollowingIds ==
    ASSUME NEW a \in Seq(Nat), NEW b \in Seq(Nat), NEW whole, Follows(whole, a, NL, b)
    PROVE  whole \in Seq(Nat) /\ IdsOf(whole) = IdsOf(a) \cup IdsOf(b)
<1>1. PICK d \in Nat : d = Len(a) + 1
    OBVIOUS
<1>2. NL \in Nat
    BY DEF NL
<1>3. /\ whole \in Seq(Nat) /\ Len(whole) = d + Len(b) /\ whole[d] = NL
      /\ \A i \in 1 .. Len(a) : whole[i] = a[i]
      /\ \A i \in 1 .. Len(b) : whole[i + d] = b[i]
    <2>1. /\ whole \in Seq(Nat) /\ Len(whole) = Len(a) + 1 + Len(b)
          /\ whole[Len(a) + 1] = NL
          /\ \A i \in 1 .. Len(a) : whole[i] = a[i]
          /\ \A i \in 1 .. Len(b) : whole[i + Len(a) + 1] = b[i]
        BY <1>2, FollowsTexts
    <2>2. \A i \in 1 .. Len(b) : i + d = i + Len(a) + 1
        BY <1>1
    <2> QED
        BY <1>1, <2>1, <2>2
<1>4. Len(a) \in Nat /\ Len(b) \in Nat /\ Len(whole) \in Nat
    BY <1>3
<1>5. ASSUME NEW m \in Nat, NEW n \in Nat, m > 0, n <= Len(a)
      PROVE  SubSeq(whole, m, n) = SubSeq(a, m, n)
    <2>1. n <= Len(whole) /\ \A i \in m .. n : i \in 1 .. Len(a) /\ i + 0 = i
        BY <1>1, <1>3, <1>4, <1>5
    <2>2. m + 0 = m /\ n + 0 = n /\ 0 \in Nat
        OBVIOUS
    <2>3. \A i \in m .. n : a[i] = whole[i + 0]
        BY <2>1, <1>3
    <2>4. SubSeq(a, m, n) = SubSeq(whole, m + 0, n + 0)
        BY <1>3, <1>5, <2>1, <2>2, <2>3, SubSeqAgrees
    <2> QED
        BY <2>2, <2>4
<1>6. ASSUME NEW m \in Nat, NEW n \in Nat, m > 0, n <= Len(b)
      PROVE  SubSeq(whole, m + d, n + d) = SubSeq(b, m, n)
    <2>1. n + d <= Len(whole) /\ \A i \in m .. n : i \in 1 .. Len(b)
        BY <1>3, <1>4, <1>6
    <2>2. \A i \in m .. n : b[i] = whole[i + d]
        BY <2>1, <1>3
    <2> QED
        BY <1>3, <1>6, <2>1, <2>2, SubSeqAgrees
<1>66. ASSUME NEW m \in Nat, NEW n \in Nat, m > 0
       PROVE  Part(whole, NL, m + d, n + d) <=> Part(b, NL, m, n)
    <2>1. BehindMark(whole, d, NL, b)
        BY <1>3 DEF BehindMark
    <2> QED
        BY <2>1, <1>66, PartsOfSecond
<1>7. ASSUME NEW id \in IdsOf(whole)
      PROVE  id \in IdsOf(a) \cup IdsOf(b)
    <2>1. PICK m, n \in 1 .. Len(whole) : Part(whole, NL, m, n) /\ id = SubSeq(whole, m, n)
        BY <1>3, <1>7, IdsAreParts
    <2>2. m \in Nat /\ n \in Nat /\ m > 0 /\ n <= Len(whole) /\ m <= n
        <3>1. n \in m .. Len(whole)
            BY <2>1 DEF Part
        <3> QED
            BY <3>1, <1>4
    <2>3. d \notin m .. n
        <3>1. \A i \in m .. n : whole[i] # NL
            BY <2>1 DEF Part
        <3> QED
            BY <3>1, <1>3
    <2>4. CASE n < d
        <3>1. n <= Len(a)
            BY <2>2, <2>4, <1>1, <1>4
        <3>2. Part(a, NL, m, n) /\ id = SubSeq(a, m, n)
            BY <2>1, <2>2, <3>1, <1>2, <1>5, PartsOfFirst
        <3>3. m \in 1 .. Len(a) /\ n \in 1 .. Len(a)
            BY <2>2, <3>1, <1>4
        <3> QED
            BY <3>2, <3>3, IdsAreParts
    <2>5. CASE ~(n < d)
        <3>1. m > d
            BY <2>2, <2>3, <2>5
        <3>2. PICK k \in Nat : k = m - d
            BY <2>2, <3>1
        <3>3. PICK l \in Nat : l = n - d
            BY <2>2, <2>5
        <3>4. k > 0 /\ l <= Len(b) /\ k + d = m /\ l + d = n /\ k <= l
            BY <3>1, <3>2, <3>3, <2>2, <1>3, <1>4
        <3>5. Part(b, NL, k, l)
            <4>1. Part(whole, NL, k + d, l + d)
                BY <2>1, <3>4
            <4> QED
                BY <4>1, <3>4, <1>66
        <3>6. id = SubSeq(b, k, l)
            BY <2>1, <3>4, <1>6
        <3>7. k \in 1 .. Len(b) /\ l \in 1 .. Len(b)
            BY <3>4, <1>4
        <3> QED
            BY <3>5, <3>6, <3>7, IdsAreParts
    <2> QED
        BY <2>4, <2>5
<1>8. ASSUME NEW id \in IdsOf(a)
      PROVE  id \in IdsOf(whole)
    <2>1. PICK m, n \in 1 .. Len(a) : Part(a, NL, m, n) /\ id = SubSeq(a, m, n)
        BY <1>8, IdsAreParts
    <2>2. m \in Nat /\ n \in Nat /\ m > 0 /\ n <= Len(a) /\ m \in 1 .. Len(whole) /\ n \in 1 .. Len(whole)
        <3>1. \A p, q, t \in Nat : \A l \in 1 .. p : p + 1 = q => l \in 1 .. (q + t)
            OBVIOUS
        <3>2. Len(whole) = d + Len(b) /\ Len(a) + 1 = d
            BY <1>1, <1>3
        <3> QED
            BY <1>4, <3>1, <3>2
    <2>3. Part(whole, NL, m, n) /\ id = SubSeq(whole, m, n)
        BY <2>1, <2>2, <1>2, <1>5, PartsOfFirst
    <2> QED
        BY <2>2, <2>3, <1>3, IdsAreParts
<1>9. ASSUME NEW id \in IdsOf(b)
      PROVE  id \in IdsOf(whole)
    <2>1. PICK m, n \in 1 .. Len(b) : Part(b, NL, m, n) /\ id = SubSeq(b, m, n)
        BY <1>9, IdsAreParts
    <2>2. m \in Nat /\ n \in Nat /\ m > 0 /\ n <= Len(b) /\ m + d \in 1 .. Len(whole) /\ n + d \in 1 .. Len(whole)
        <3>1. \A l \in Nat : \A i \in 1 .. l : i \in Nat /\ i > 0 /\ i <= l /\ i + d \in 1 .. (d + l)
            OBVIOUS
        <3> QED
            BY <3>1, <1>3, <1>4
    <2>3. Part(whole, NL, m + d, n + d)
        BY <2>1, <2>2, <1>66
    <2>4. id = SubSeq(whole, m + d, n + d)
        BY <2>1, <2>2, <1>6
    <2> QED
        BY <2>2, <2>3, <2>4, <1>3, IdsAreParts
<1> QED
    BY <1>3, <1>7, <1>8, <1>9

\* An id is its own only one.
LEMMA IdsOfId ==
    /\ IdsOf(<<>>) = {}
    /\ \A id \in Names : IdsOf(id) = {id}
<1>1. ASSUME NEW id \in Seq(Nat), NL \notin ToSet(id)
      PROVE  IdsOf(id) = {id} \ {<<>>}
    <2>1. Split(id, NL) = <<id>>
        BY <1>1, SplitPlain
    <2>2. ToSet(<<id>>) = {id}
        BY DEF ToSet
    <2> QED
        BY <2>1, <2>2 DEF IdsOf, NonEmpty
<1>2. <<>> \in Seq(Nat) /\ NL \notin ToSet(<<>>)
    BY DEF ToSet
<1> QED
    BY <1>1, <1>2, NamesAreTexts

\* The ids of texts that are joined.
LEMMA JoinedIds ==
    ASSUME NEW parts \in Seq(Seq(Nat))
    PROVE  /\ Joined(parts, NL) \in Seq(Nat)
           /\ \A id : id \in IdsOf(Joined(parts, NL)) <=> \E i \in 1 .. Len(parts) : id \in IdsOf(parts[i])
<1>1. NL \in Nat /\ Len(parts) \in Nat
    BY DEF NL
<1>2. CASE parts = <<>>
    <2>1. Joined(parts, NL) = <<>> /\ <<>> \in Seq(Nat)
        BY <1>2 DEF Joined
    <2>2. \A i \in 1 .. Len(parts) : FALSE
        BY <1>2
    <2>3. \A id : id \notin IdsOf(Joined(parts, NL))
        BY <2>1, IdsOfId
    <2> QED
        BY <2>1, <2>2, <2>3
<1>3. CASE parts # <<>>
    <2>1. PICK f : JoinedUpTo(f, parts, NL) /\ Joined(parts, NL) = f[Len(parts)]
        BY <1>1, <1>3, JoinedText
    <2>2. /\ f \in [1 .. Len(parts) -> Seq(Nat)] /\ f[1] = parts[1]
          /\ \A i \in 1 .. Len(parts) : i # 1 => f[i] = Append(f[i - 1], NL) \o parts[i]
        BY <2>1 DEF JoinedUpTo
    <2> DEFINE Right(i) == \A id : id \in IdsOf(f[i]) <=> \E k \in 1 .. i : id \in IdsOf(parts[k])
               S == {i \in Nat : i \in 1 .. Len(parts) => Right(i)}
    <2>3. 0 \in S
        BY <1>1
    <2>4. ASSUME NEW n \in Nat, n \in S
          PROVE  n + 1 \in S
        <3>0. PICK k \in Nat : k = n + 1
            OBVIOUS
        <3> HIDE DEF Right
        <3> SUFFICES ASSUME k \in 1 .. Len(parts)
                     PROVE  Right(k)
            BY <3>0
        <3> USE DEF Right
        <3>1. CASE n = 0
            <4>1. f[k] = parts[1] /\ k = 1
                BY <3>0, <3>1, <2>2
            <4>2. \A j : j \in 1 .. k <=> j = 1
                BY <4>1
            <4> QED
                BY <4>1, <4>2
        <3>2. CASE n # 0
            <4>1. n \in 1 .. Len(parts) /\ k # 1 /\ k - 1 = n
                BY <3>0, <3>2, <1>1
            <4>2. f[k] = Append(f[n], NL) \o parts[k]
                BY <4>1, <2>2
            <4>3. f[n] \in Seq(Nat)
                BY <4>1, <2>2
            <4>4. parts[k] \in Seq(Nat)
                BY ElementOfSeq
            <4>5. Follows(f[k], f[n], NL, parts[k])
                BY <4>2 DEF Follows
            <4>6. IdsOf(f[k]) = IdsOf(f[n]) \cup IdsOf(parts[k])
                BY <4>3, <4>4, <4>5, FollowingIds
            <4>7. Right(n)
                BY <2>4, <4>1
            <4>8. \A j : j \in 1 .. k <=> j \in 1 .. n \/ j = k
                BY <3>0
            <4> QED
                BY <4>6, <4>7, <4>8
        <3> QED
            BY <3>1, <3>2
    <2> HIDE DEF S
    <2>5. \A n \in Nat : n \in S
        BY <2>3, <2>4, AllNumbers
    <2>6. Len(parts) \in 1 .. Len(parts)
        BY <1>1, <1>3
    <2>7. Right(Len(parts))
        BY <2>5, <2>6, <1>1 DEF S
    <2> QED
        BY <2>1, <2>2, <2>6, <2>7
<1> QED
    BY <1>2, <1>3

\* What a function writes holds those ids, and is in the one form there is.
LEMMA WrittenIds ==
    ASSUME NEW blob, NEW X, Writes(blob, X)
    PROVE  blob \in Seq(Nat) /\ Holds(blob, X) /\ IdsOf(blob) = X /\ IsCanonical(blob)
<1>1. PICK ids : X \subseteq Names /\ Lists(ids, X, Bytes) /\ blob = appendSetText(ids)
    BY DEF Writes
<1>2. blob \in Seq(Nat) /\ Holds(blob, X)
    BY <1>1, WrittenIsRead
<1>3. X \subseteq Seq(Nat) /\ \A id \in X : id # <<>> /\ NL \notin ToSet(id)
    BY <1>1, NamesAreTexts
<1>4. ids \in Seq(X) /\ ToSet(ids) = X /\ \A i, j \in 1 .. Len(ids) : i < j => <<ids[i], ids[j]>> \in Bytes
    <2>1. ids \in Seq(X) /\ ToSet(ids) = X
        BY <1>1, <1>3, ListedItems, BytesIrreflexive
    <2> QED
        BY <1>1, <2>1 DEF Lists
<1>5. \A i \in 1 .. Len(ids) : ids[i] \in X
    BY <1>4, ElementOfSeq
<1>6. CASE ids = <<>>
    <2>1. blob = <<>>
        BY <1>1, <1>6 DEF appendSetText, Joined
    <2>2. X = {}
        BY <1>4, <1>6 DEF ToSet
    <2>3. Split(<<>>, NL) = <<<<>>>>
        <3>1. <<>> \in Seq(Nat) /\ NL \notin ToSet(<<>>)
            BY DEF ToSet
        <3> QED
            BY <3>1, SplitPlain
    <2>4. \A i, j \in 1 .. Len(<<<<>>>>) : ~(i < j)
        OBVIOUS
    <2>5. IsCanonical(<<>>)
        BY <2>3, <2>4 DEF IsCanonical
    <2> QED
        BY <1>2, <2>1, <2>2, <2>5, IdsOfId
<1>7. CASE ids # <<>>
    <2>1. ids \in Seq(Seq(Nat)) /\ NL \in Nat
        BY <1>3, <1>4 DEF NL
    <2>2. Split(blob, NL) = ids
        BY <1>1, <1>3, <1>5, <1>7, <2>1, SplitJoined DEF appendSetText
    <2>3. IdsOf(blob) = X
        BY <2>2, <1>3, <1>4 DEF IdsOf, NonEmpty
    <2>4. \A i, j \in 1 .. Len(ids) : i < j => lessLexicographic(ids[i], ids[j])
        BY <1>4 DEF Bytes
    <2>5. IsCanonical(blob)
        BY <2>2, <2>4, <1>3, <1>4 DEF IsCanonical, NonEmpty
    <2> QED
        BY <1>2, <2>3, <2>5
<1> QED
    BY <1>6, <1>7

\* A set is written in one way.
LEMMA WrittenInOneWay ==
    ASSUME NEW X, NEW a, Writes(a, X), NEW b, Writes(b, X)
    PROVE  a = b
<1>1. X \subseteq Seq(Nat)
    BY NamesAreTexts DEF Writes
<1>2. Orders(Bytes, X)
    BY <1>1, BytesOrder DEF Orders
<1>3. PICK l : Lists(l, X, Bytes) /\ a = appendSetText(l)
    BY DEF Writes
<1>4. PICK r : Lists(r, X, Bytes) /\ b = appendSetText(r)
    BY DEF Writes
<1>5. l = r
    BY <1>2, <1>3, <1>4, ListsAreUnique, Zenon
<1> QED
    BY <1>3, <1>4, <1>5

-----------------------------------------------------------------------------
(* Blobs that somebody else wrote *)

\* extension.zig 93-107: of two equal ids the first is left, also though the
\* second has been freed where it stands.
LEMMA TheFirstIsLeft ==
    ASSUME NEW T, NEW R, Orders(R, T), NEW sorted \in Seq(T),
           \A i, j \in 1 .. Len(sorted) : i < j => sorted[i] = sorted[j] \/ <<sorted[i], sorted[j]>> \in R,
           \A i, j, k \in 1 .. Len(sorted) : i < j /\ j < k => sorted[i] # sorted[k]
    PROVE  Lists(withoutFreed(sorted), ToSet(sorted), R)
<1> DEFINE n == Len(sorted)
           Earlier(i) == {j \in 1 .. (i - 1) : sorted[j] = sorted[i]}
           P == {i \in DOMAIN sorted : Cardinality(Earlier(i)) % 2 = 0}
           at == Rising(P)
           kept == Kept(sorted, at)
<1>1. n \in Nat /\ DOMAIN sorted = 1 .. n /\ ToSet(sorted) = {sorted[i] : i \in 1 .. n}
    BY ItemsOf
<1>2. withoutFreed(sorted) = kept
    BY DEF withoutFreed
<1>3. \A i \in P : i \in 1 .. n /\ \A j \in 1 .. n : j < i => sorted[j] # sorted[i]
    <2> SUFFICES ASSUME NEW i \in P, NEW j \in 1 .. n, j < i, sorted[j] = sorted[i]
                 PROVE  FALSE
        BY <1>1
    <2>1. i \in 1 .. n /\ j \in Earlier(i)
        BY <1>1
    <2>2. ASSUME NEW k \in Earlier(i), k # j
          PROVE  FALSE
        <3>1. k \in 1 .. n /\ k < i /\ sorted[k] = sorted[i]
            BY <2>1, <1>1
        <3>2. k < j \/ j < k
            BY <2>2, <3>1, <1>1
        <3> QED
            BY <2>1, <3>1, <3>2
    <2>3. Earlier(i) = {j}
        BY <2>1, <2>2
    <2>4. Cardinality(Earlier(i)) = 1
        BY <2>3, FS_Singleton
    <2> QED
        BY <2>4
<1>4. \A i \in 1 .. n : (\A j \in 1 .. n : j < i => sorted[j] # sorted[i]) => i \in P
    <2> SUFFICES ASSUME NEW i \in 1 .. n, \A j \in 1 .. n : j < i => sorted[j] # sorted[i]
                 PROVE  i \in P
        OBVIOUS
    <2>1. Earlier(i) = {}
        BY <1>1
    <2>2. Cardinality(Earlier(i)) % 2 = 0
        <3>1. Cardinality({}) = 0 /\ 0 % 2 = 0
            BY FS_EmptySet
        <3> QED
            BY <2>1, <3>1
    <2> QED
        BY <1>1, <2>2
<1>5. /\ at \in Seq(DOMAIN sorted) /\ kept \in Seq(T) /\ Len(kept) = Len(at)
      /\ \A k \in 1 .. Len(at) : at[k] \in P /\ kept[k] = sorted[at[k]]
      /\ \A i, j \in 1 .. Len(at) : i < j => at[i] < at[j]
      /\ ToSet(kept) = {sorted[i] : i \in P}
    <2>1. P \subseteq DOMAIN sorted
        OBVIOUS
    <2> HIDE DEF P
    <2> QED
        BY <2>1, KeptRising
<1> HIDE DEF at, kept, P
<1>6. ASSUME NEW i \in 1 .. Len(kept), NEW j \in 1 .. Len(kept), i < j
      PROVE  <<kept[i], kept[j]>> \in R
    <2>1. i \in 1 .. Len(at) /\ j \in 1 .. Len(at)
        BY <1>5
    <2>2. /\ at[i] \in P /\ at[j] \in P /\ at[i] < at[j]
          /\ kept[i] = sorted[at[i]] /\ kept[j] = sorted[at[j]]
        BY <1>5, <1>6, <2>1
    <2>3. at[i] \in 1 .. n /\ at[j] \in 1 .. n /\ sorted[at[i]] # sorted[at[j]]
        BY <1>3, <2>2
    <2>4. <<sorted[at[i]], sorted[at[j]]>> \in R
        BY <2>2, <2>3
    <2> QED
        BY <2>2, <2>4
<1>7. ToSet(kept) = ToSet(sorted)
    <2>1. ASSUME NEW i \in 1 .. n
          PROVE  \E k \in P : sorted[k] = sorted[i]
        <3> DEFINE Same == {k \in 1 .. n : sorted[k] = sorted[i]}
        <3>1. PICK k \in Same : \A j \in Same : k <= j
            <4>1. Same \subseteq Nat /\ Same # {}
                OBVIOUS
            <4> QED
                BY <4>1, SomeNumberIsLeast
        <3>2. \A j \in 1 .. n : j < k => sorted[j] # sorted[k]
            <4> SUFFICES ASSUME NEW j \in 1 .. n, j < k, sorted[j] = sorted[k]
                         PROVE  FALSE
                OBVIOUS
            <4>1. j \in Same /\ k \in 1 .. n
                OBVIOUS
            <4>2. k <= j
                BY <3>1, <4>1
            <4> QED
                BY <4>1, <4>2, <1>1
        <3> QED
            BY <3>2, <1>4
    <2>2. P \subseteq 1 .. n
        BY <1>3
    <2> HIDE DEF n
    <2>3. ASSUME NEW x \in ToSet(kept)
          PROVE  x \in ToSet(sorted)
        BY <1>1, <1>5, <2>2
    <2>4. ASSUME NEW x \in ToSet(sorted)
          PROVE  x \in ToSet(kept)
        <3>1. PICK i \in 1 .. n : x = sorted[i]
            BY <1>1
        <3>2. PICK k \in P : sorted[k] = sorted[i]
            BY <2>1
        <3> QED
            BY <3>1, <3>2, <1>5
    <2> QED
        BY <2>3, <2>4
<1>8. \A x \in T : <<x, x>> \notin R
    BY DEF Orders
<1>9. Lists(kept, ToSet(kept), R)
    BY <1>5, <1>6, <1>8, WhatRisesLists
<1> QED
    BY <1>2, <1>7, <1>9

\* A blob that repeats no id three times holds the ids it shows.
LEMMA BlobsHoldTheirIds ==
    ASSUME NEW blob \in Seq(Nat), TwiceAtMost(blob)
    PROVE  Holds(blob, IdsOf(blob))
<1> DEFINE parts == Split(blob, NL)
           ids == Nonblank(parts)
           sorted == Ordered(ids, lessLexicographic)
<1>1. parts \in Seq(Seq(Nat))
    BY SplitOf
<1>2. ids \in Seq(Seq(Nat)) /\ ToSet(ids) = ToSet(parts) \ {<<>>}
    BY <1>1, NonblankItems
<1>3. ToSet(ids) = IdsOf(blob)
    BY <1>2 DEF IdsOf, NonEmpty
<1>4. Sorted(blob) = sorted
    BY DEF Sorted
<1> HIDE DEF ids
<1>5. Arranges(sorted, ids, Bytes)
    BY <1>2, OrderedByBytes
<1>6. ToSet(ids) \subseteq Seq(Nat)
    BY <1>2, ItemsOf
<1> HIDE DEF sorted
<1>7. sorted \in Seq(Seq(Nat)) /\ ToSet(sorted) = ToSet(ids)
      /\ \A i, j \in 1 .. Len(sorted) : i < j => sorted[i] = sorted[j] \/ <<sorted[i], sorted[j]>> \in Bytes
    BY <1>5, <1>6 DEF Arranges
<1>8. \A i, j, k \in 1 .. Len(sorted) : i < j /\ j < k => sorted[i] # sorted[k]
    BY <1>4 DEF TwiceAtMost
<1>9. Lists(withoutFreed(sorted), ToSet(sorted), Bytes)
    BY <1>7, <1>8, BytesOrder, TheFirstIsLeft
<1>10. parseSet(blob) = withoutFreed(sorted)
    BY <1>4 DEF parseSet
<1> QED
    BY <1>3, <1>7, <1>9, <1>10, IdsAreNames DEF Holds

-----------------------------------------------------------------------------
(* Intersection *)

\* The other walk of two arrays at once.
IntersectWalk(h, l, r) ==
    h = [at \in Steps(l, r) |->
            LET i == at[1] j == at[2] IN
            IF i > Len(l) \/ j > Len(r) THEN <<>>
            ELSE IF l[i] = r[j] THEN <<l[i]>> \o h[<<i + 1, j + 1>>]
            ELSE IF lessLexicographic(l[i], r[j]) THEN h[<<i + 1, j>>]
            ELSE h[<<i, j + 1>>]]

\* idset_intersect is that walk from the first ids on.
LEMMA IntersectWalks ==
    ASSUME NEW left, NEW right
    PROVE  idset_intersect(left, right)
             = appendSetText((CHOOSE h : IntersectWalk(h, parseSet(left), parseSet(right)))[<<1, 1>>])
BY DEF idset_intersect, IntersectWalk

\* This walk, a definition by recursion, has the values it says.
LEMMA IntersectionIsWalked ==
    ASSUME NEW l \in Seq(Seq(Nat)), NEW r \in Seq(Seq(Nat))
    PROVE  \E h : IntersectWalk(h, l, r)
<1> DEFINE D == Steps(l, r)
           V == Seq(Seq(Nat))
           Next(at, f) ==
               IF at[1] > Len(l) \/ at[2] > Len(r) THEN <<>>
               ELSE IF l[at[1]] = r[at[2]] THEN <<l[at[1]]>> \o f[<<at[1] + 1, at[2] + 1>>]
               ELSE IF lessLexicographic(l[at[1]], r[at[2]]) THEN f[<<at[1] + 1, at[2]>>]
               ELSE f[<<at[1], at[2] + 1>>]
           next == [df \in D \X [D -> V] |-> Next(df[1], df[2])]
<1>1. PICK rank : Ahead(rank, l, r)
    BY DEF Ahead
<1>2. /\ Len(l) \in Nat /\ Len(r) \in Nat
      /\ rank \in [D -> Nat] /\ \A at \in D : rank[at] <= Len(l) + Len(r)
      /\ \A at \in D :
           /\ at[1] \in 1 .. (Len(l) + 1) /\ at[2] \in 1 .. (Len(r) + 1)
           /\ at[1] <= Len(l) => /\ <<at[1] + 1, at[2]>> \in D
                                 /\ rank[<<at[1] + 1, at[2]>>] < rank[at]
           /\ at[2] <= Len(r) => /\ <<at[1], at[2] + 1>> \in D
                                 /\ rank[<<at[1], at[2] + 1>>] < rank[at]
           /\ at[1] <= Len(l) /\ at[2] <= Len(r)
                => /\ <<at[1] + 1, at[2] + 1>> \in D
                   /\ rank[<<at[1] + 1, at[2] + 1>>] < rank[at]
    BY <1>1, StepsGoOn
<1>3. \A d \in D, f \in [D -> V] : next[<<d, f>>] = Next(d, f)
    BY Zenon
<1>4. \A i \in 1 .. Len(l), s \in V : <<l[i]>> \o s \in V
    <2>1. \A i \in 1 .. Len(l) : l[i] \in Seq(Nat)
        BY ElementOfSeq
    <2> QED
        BY <2>1
<1> HIDE DEF D, V
<1>5. \A d \in D : /\ ~(d[1] > Len(l)) => d[1] \in 1 .. Len(l) /\ d[1] <= Len(l)
                   /\ ~(d[2] > Len(r)) => d[2] \in 1 .. Len(r) /\ d[2] <= Len(r)
    <2>1. \A m \in Nat : \A i \in 1 .. (m + 1) : ~(i > m) => i \in 1 .. m /\ i <= m
        OBVIOUS
    <2> QED
        BY <1>2, <2>1
<1>6. ASSUME NEW d \in D, NEW f \in [D -> V]
      PROVE  Next(d, f) \in V
    <2>1. <<>> \in V
        BY DEF V
    <2>2. d[1] <= Len(l) => f[<<d[1] + 1, d[2]>>] \in V
        BY <1>2
    <2>3. d[2] <= Len(r) => f[<<d[1], d[2] + 1>>] \in V
        BY <1>2
    <2>4. d[1] <= Len(l) /\ d[2] <= Len(r) => f[<<d[1] + 1, d[2] + 1>>] \in V
        BY <1>2
    <2> QED
        BY <2>1, <2>2, <2>3, <2>4, <1>4, <1>5
<1>7. ASSUME NEW d \in D, NEW f \in [D -> V], NEW g \in [D -> V],
             \A e \in D : rank[e] < rank[d] => f[e] = g[e]
      PROVE  Next(d, f) = Next(d, g)
    <2>1. d[1] <= Len(l) => f[<<d[1] + 1, d[2]>>] = g[<<d[1] + 1, d[2]>>]
        BY <1>2, <1>7
    <2>2. d[2] <= Len(r) => f[<<d[1], d[2] + 1>>] = g[<<d[1], d[2] + 1>>]
        BY <1>2, <1>7
    <2>3. d[1] <= Len(l) /\ d[2] <= Len(r) => f[<<d[1] + 1, d[2] + 1>>] = g[<<d[1] + 1, d[2] + 1>>]
        BY <1>2, <1>7
    <2> QED
        BY <2>1, <2>2, <2>3, <1>5
<1>8. next \in [D \X [D -> V] -> V]
    <2> HIDE DEF Next
    <2> QED
        BY <1>6
<1> HIDE DEF Next, next
<1>9. Recursive(next, D, V, rank, Len(l) + Len(r))
    <2>1. V # {} /\ Len(l) + Len(r) \in Nat
        BY <1>2 DEF V
    <2>2. LooksBack(next, D, V, rank)
        BY <1>3, <1>7 DEF LooksBack
    <2> QED
        BY <2>1, <2>2, <1>2, <1>8 DEF Recursive
<1>10. PICK h : Solution(h, next, D, V)
    BY <1>9, RecursionHasASolution, Zenon
<1>11. h \in [D -> V] /\ \A d \in D : h[d] = Next(d, h)
    BY <1>10, <1>3 DEF Solution
<1>12. h = [d \in D |-> Next(d, h)]
    BY <1>11
<1>13. IntersectWalk(h, l, r)
    BY <1>12, Zenon DEF IntersectWalk, Next, D
<1> QED
    BY <1>13

(* From each place on this walk lists what both have.                      *)
LEMMA IntersectWalkLists ==
    ASSUME NEW L, L \subseteq Seq(Nat), NEW l, Lists(l, L, Bytes),
           NEW R, R \subseteq Seq(Nat), NEW r, Lists(r, R, Bytes),
           NEW h, IntersectWalk(h, l, r)
    PROVE  Lists(h[<<1, 1>>], L \cap R, Bytes)
<1>1. l \in Seq(L) /\ ToSet(l) = L /\ r \in Seq(R) /\ ToSet(r) = R
    BY ListedItems, BytesIrreflexive
<1>2. l \in Seq(Seq(Nat)) /\ r \in Seq(Seq(Nat))
    BY <1>1
<1>3. /\ \A i, j \in 1 .. Len(l) : i < j => <<l[i], l[j]>> \in Bytes
      /\ \A i, j \in 1 .. Len(r) : i < j => <<r[i], r[j]>> \in Bytes
    BY DEF Lists
<1> DEFINE D == Steps(l, r)
           Rest(at) == From(l, at[1]) \cap From(r, at[2])
           Right(at) == Lists(h[at], Rest(at), Bytes)
           S == {at \in D : Right(at)}
<1>4. PICK rank : Ahead(rank, l, r)
    BY DEF Ahead
<1>5. /\ Len(l) \in Nat /\ Len(r) \in Nat
      /\ rank \in [D -> Nat]
      /\ \A at \in D :
           /\ at[1] \in 1 .. (Len(l) + 1) /\ at[2] \in 1 .. (Len(r) + 1)
           /\ at[1] <= Len(l) => /\ <<at[1] + 1, at[2]>> \in D
                                 /\ rank[<<at[1] + 1, at[2]>>] < rank[at]
           /\ at[2] <= Len(r) => /\ <<at[1], at[2] + 1>> \in D
                                 /\ rank[<<at[1], at[2] + 1>>] < rank[at]
           /\ at[1] <= Len(l) /\ at[2] <= Len(r)
                => /\ <<at[1] + 1, at[2] + 1>> \in D
                   /\ rank[<<at[1] + 1, at[2] + 1>>] < rank[at]
    BY <1>2, <1>4, StepsGoOn
<1>6. \A i \in 1 .. (Len(l) + 1) :
          /\ From(l, i) \subseteq L
          /\ i > Len(l) => From(l, i) = {}
          /\ i <= Len(l) => /\ From(l, i) = {l[i]} \cup From(l, i + 1)
                            /\ \A x \in From(l, i + 1) : <<l[i], x>> \in Bytes
    BY <1>1, <1>3, FromOn
<1>7. \A i \in 1 .. (Len(r) + 1) :
          /\ From(r, i) \subseteq R
          /\ i > Len(r) => From(r, i) = {}
          /\ i <= Len(r) => /\ From(r, i) = {r[i]} \cup From(r, i + 1)
                            /\ \A x \in From(r, i + 1) : <<r[i], x>> \in Bytes
    BY <1>1, <1>3, FromOn
<1>8. \A at \in D :
          h[at] = IF at[1] > Len(l) \/ at[2] > Len(r) THEN <<>>
                  ELSE IF l[at[1]] = r[at[2]] THEN <<l[at[1]]>> \o h[<<at[1] + 1, at[2] + 1>>]
                  ELSE IF lessLexicographic(l[at[1]], r[at[2]]) THEN h[<<at[1] + 1, at[2]>>]
                  ELSE h[<<at[1], at[2] + 1>>]
    BY Zenon DEF IntersectWalk
<1>9. ASSUME NEW d \in D, \A e \in D : rank[e] < rank[d] => e \in S
      PROVE  d \in S
    <2> DEFINE i == d[1]
               j == d[2]
    <2>1. i \in 1 .. (Len(l) + 1) /\ j \in 1 .. (Len(r) + 1)
        BY <1>5
    <2>2. /\ i <= Len(l) => Right(<<i + 1, j>>)
          /\ j <= Len(r) => Right(<<i, j + 1>>)
          /\ i <= Len(l) /\ j <= Len(r) => Right(<<i + 1, j + 1>>)
        <3> HIDE DEF Right
        <3> QED
            BY <1>5, <1>9
    <2>3. /\ i <= Len(l) => Lists(h[<<i + 1, j>>], From(l, i + 1) \cap From(r, j), Bytes)
          /\ j <= Len(r) => Lists(h[<<i, j + 1>>], From(l, i) \cap From(r, j + 1), Bytes)
          /\ i <= Len(l) /\ j <= Len(r)
               => Lists(h[<<i + 1, j + 1>>], From(l, i + 1) \cap From(r, j + 1), Bytes)
        BY <2>2, Zenon
    <2> HIDE DEF i, j
    <2>4. Lists(h[d], From(l, i) \cap From(r, j), Bytes)
        <3>1. CASE i > Len(l) \/ j > Len(r)
            <4>1. h[d] = <<>>
                BY <3>1, <1>8, Zenon DEF i, j
            <4>2. From(l, i) \cap From(r, j) = {}
                BY <3>1, <2>1, <1>6, <1>7
            <4>3. Lists(<<>>, {}, Bytes)
                BY FS_EmptySet DEF Lists
            <4> QED
                BY <4>1, <4>2, <4>3
        <3>2. ASSUME ~(i > Len(l))
              PROVE  /\ i <= Len(l) /\ i \in 1 .. Len(l) /\ l[i] \in Seq(Nat) /\ i + 1 \in 1 .. (Len(l) + 1)
                     /\ From(l, i) = {l[i]} \cup From(l, i + 1) /\ From(l, i + 1) \subseteq Seq(Nat)
                     /\ \A x \in From(l, i + 1) : <<l[i], x>> \in Bytes
                     /\ l[i] \notin From(l, i + 1)
            <4>1. i <= Len(l) /\ i \in 1 .. Len(l) /\ i + 1 \in 1 .. (Len(l) + 1)
                BY <3>2, <2>1, <1>5
            <4>2. l[i] \in Seq(Nat)
                BY <4>1, <1>2, ElementOfSeq
            <4>3. /\ From(l, i) = {l[i]} \cup From(l, i + 1) /\ From(l, i + 1) \subseteq L
                  /\ \A x \in From(l, i + 1) : <<l[i], x>> \in Bytes
                BY <4>1, <2>1, <1>6
            <4>4. l[i] \notin From(l, i + 1)
                BY <4>2, <4>3, BytesIrreflexive
            <4> QED
                BY <4>1, <4>2, <4>3, <4>4
        <3>3. ASSUME ~(j > Len(r))
              PROVE  /\ j <= Len(r) /\ j \in 1 .. Len(r) /\ r[j] \in Seq(Nat) /\ j + 1 \in 1 .. (Len(r) + 1)
                     /\ From(r, j) = {r[j]} \cup From(r, j + 1) /\ From(r, j + 1) \subseteq Seq(Nat)
                     /\ \A x \in From(r, j + 1) : <<r[j], x>> \in Bytes
                     /\ r[j] \notin From(r, j + 1)
            <4>1. j <= Len(r) /\ j \in 1 .. Len(r) /\ j + 1 \in 1 .. (Len(r) + 1)
                BY <3>3, <2>1, <1>5
            <4>2. r[j] \in Seq(Nat)
                BY <4>1, <1>2, ElementOfSeq
            <4>3. /\ From(r, j) = {r[j]} \cup From(r, j + 1) /\ From(r, j + 1) \subseteq R
                  /\ \A x \in From(r, j + 1) : <<r[j], x>> \in Bytes
                BY <4>1, <2>1, <1>7
            <4>4. r[j] \notin From(r, j + 1)
                BY <4>2, <4>3, BytesIrreflexive
            <4> QED
                BY <4>1, <4>2, <4>3, <4>4
        <3>6. CASE ~(i > Len(l)) /\ ~(j > Len(r)) /\ l[i] = r[j]
            <4> DEFINE X == From(l, i + 1) \cap From(r, j + 1)
            <4>1. h[d] = <<l[i]>> \o h[<<i + 1, j + 1>>]
                BY <3>6, <1>8, Zenon DEF i, j
            <4>2. X \subseteq Seq(Nat) /\ l[i] \in Seq(Nat) /\ \A y \in X : <<l[i], y>> \in Bytes
                BY <3>2, <3>6
            <4>3. Lists(h[<<i + 1, j + 1>>], X, Bytes)
                BY <2>3, <3>2, <3>3, <3>6
            <4>4. {l[i]} \cup X = From(l, i) \cap From(r, j)
                BY <3>2, <3>3, <3>6
            <4> HIDE DEF X
            <4>5. Lists(<<l[i]>> \o h[<<i + 1, j + 1>>], {l[i]} \cup X, Bytes)
                BY <4>2, <4>3, ListsOneBefore
            <4> QED
                BY <4>1, <4>4, <4>5
        <3>7. CASE ~(i > Len(l)) /\ ~(j > Len(r)) /\ l[i] # r[j] /\ lessLexicographic(l[i], r[j])
            <4>1. h[d] = h[<<i + 1, j>>]
                BY <3>7, <1>8, Zenon DEF i, j
            <4>2. <<l[i], r[j]>> \in Bytes
                BY <3>2, <3>3, <3>7 DEF Bytes
            <4>3. l[i] \notin From(r, j)
                BY <4>2, <3>2, <3>3, <3>7, BytesOrder DEF Orders
            <4>4. From(l, i) \cap From(r, j) = From(l, i + 1) \cap From(r, j)
                BY <4>3, <3>2, <3>7
            <4> QED
                BY <4>1, <4>4, <3>2, <3>7, <2>3
        <3>8. CASE ~(i > Len(l)) /\ ~(j > Len(r)) /\ l[i] # r[j] /\ ~lessLexicographic(l[i], r[j])
            <4>1. h[d] = h[<<i, j + 1>>]
                BY <3>8, <1>8, Zenon DEF i, j
            <4>2. <<r[j], l[i]>> \in Bytes
                <5>1. <<l[i], r[j]>> \notin Bytes
                    BY <3>2, <3>3, <3>8 DEF Bytes
                <5> QED
                    BY <5>1, <3>2, <3>3, <3>8, BytesOrder DEF Orders
            <4>3. r[j] \notin From(l, i)
                BY <4>2, <3>2, <3>3, <3>8, BytesOrder DEF Orders
            <4>4. From(l, i) \cap From(r, j) = From(l, i) \cap From(r, j + 1)
                BY <4>3, <3>3, <3>8
            <4> QED
                BY <4>1, <4>4, <3>3, <3>8, <2>3
        <3> QED
            BY <3>1, <3>6, <3>7, <3>8
    <2>5. Right(d)
        BY <2>4 DEF i, j
    <2> HIDE DEF Right
    <2> QED
        BY <2>5
<1>10. Hereditary(S, D, rank)
    <2> HIDE DEF S, D
    <2> QED
        BY <1>5, <1>9 DEF Hereditary
<1>11. \A d \in D : d \in S
    BY <1>10, ByRank, Zenon
<1>12. <<1, 1>> \in D
    BY <1>5 DEF Steps
<1>13. Lists(h[<<1, 1>>], From(l, 1) \cap From(r, 1), Bytes)
    <2>1. Right(<<1, 1>>)
        <3> HIDE DEF Right, D
        <3> QED
            BY <1>11, <1>12
    <2> QED
        BY <2>1, Zenon
<1>14. From(l, 1) = L /\ From(r, 1) = R
    BY <1>1, ItemsOf DEF From
<1> QED
    BY <1>13, <1>14

\* extension.zig 343-381: idset_intersect writes what both sets hold.
LEMMA WritesIntersection ==
    ASSUME NEW left, NEW X, Holds(left, X), NEW right, NEW Y, Holds(right, Y)
    PROVE  Writes(idset_intersect(left, right), X \cap Y)
<1>1. PICK l \in Seq(Seq(Nat)) : l = parseSet(left)
    BY WhatIsHeld
<1>2. PICK r \in Seq(Seq(Nat)) : r = parseSet(right)
    BY WhatIsHeld
<1>3. /\ X \subseteq Names /\ Lists(l, X, Bytes) /\ X \subseteq Seq(Nat)
      /\ Y \subseteq Names /\ Lists(r, Y, Bytes) /\ Y \subseteq Seq(Nat)
    BY <1>1, <1>2, NamesAreTexts DEF Holds
<1>4. PICK h : h = CHOOSE g : IntersectWalk(g, l, r)
    OBVIOUS
<1>5. IntersectWalk(h, l, r)
    BY <1>4, IntersectionIsWalked, Zenon
<1>6. Lists(h[<<1, 1>>], X \cap Y, Bytes)
    BY <1>3, <1>5, IntersectWalkLists, Zenon
<1>7. idset_intersect(left, right) = appendSetText(h[<<1, 1>>])
    BY <1>1, <1>2, <1>4, IntersectWalks
<1> QED
    BY <1>3, <1>6, <1>7 DEF Writes

-----------------------------------------------------------------------------
(* Binary search *)

\* The ranges that a search in so many ids can look at, and the middle of one.
Ranges(n) == (0 .. n) \X (0 .. n)
Middle(range) == (range[1] + range[2]) \div 2

\* containsId, as a definition by recursion.
SearchIn(h, items, id) ==
    h = [range \in Ranges(Len(items)) |->
            LET lo == range[1] hi == range[2] mid == (lo + hi) \div 2 IN
            /\ lo < hi
            /\ \/ items[mid + 1] = id
               \/ IF lessLexicographic(items[mid + 1], id)
                  THEN h[<<mid + 1, hi>>] ELSE h[<<lo, mid>>]]

\* idset_contains is the search in all ids.
LEMMA ContainsSearches ==
    ASSUME NEW blob, NEW id
    PROVE  idset_contains(blob, id)
             = (CHOOSE h : SearchIn(h, parseSet(blob), id))[<<0, Len(parseSet(blob))>>]
BY DEF idset_contains, SearchIn, Ranges

(* How long a range is.                                                     *)
Widths(rank, n) == rank = [range \in Ranges(n) |-> IF range[1] < range[2] THEN range[2] - range[1] ELSE 0]

\* The half that is searched on is shorter.
LEMMA HalvesAreShorter ==
    ASSUME NEW n \in Nat, NEW rank, Widths(rank, n)
    PROVE  /\ rank \in [Ranges(n) -> Nat] /\ \A d \in Ranges(n) : rank[d] <= n
           /\ \A d \in Ranges(n) :
                /\ d[1] \in 0 .. n /\ d[2] \in 0 .. n
                /\ d[1] < d[2] => /\ Middle(d) \in 0 .. n /\ Middle(d) + 1 \in 1 .. n
                                  /\ d[1] <= Middle(d) /\ Middle(d) < d[2]
                                  /\ <<Middle(d) + 1, d[2]>> \in Ranges(n)
                                  /\ <<d[1], Middle(d)>> \in Ranges(n)
                                  /\ rank[<<Middle(d) + 1, d[2]>>] < rank[d]
                                  /\ rank[<<d[1], Middle(d)>>] < rank[d]
<1> DEFINE D == Ranges(n)
           Width(lo, hi) == IF lo < hi THEN hi - lo ELSE 0
<1>1. \A d \in D : d[1] \in 0 .. n /\ d[2] \in 0 .. n
    BY DEF Ranges
<1>2. \A lo \in 0 .. n, hi \in 0 .. n : <<lo, hi>> \in D
    BY DEF Ranges
<1>3. rank = [d \in D |-> Width(d[1], d[2])]
    BY DEF Widths
<1>4. \A d \in D : rank[d] = Width(d[1], d[2])
    BY <1>3
<1>5. \A lo \in 0 .. n, hi \in 0 .. n : Width(lo, hi) \in Nat /\ Width(lo, hi) <= n
    OBVIOUS
<1>6. \A lo \in 0 .. n, hi \in 0 .. n, mid \in 0 .. n :
          lo <= mid /\ mid < hi
            => /\ mid + 1 \in 0 .. n /\ Width(mid + 1, hi) < Width(lo, hi) /\ Width(lo, mid) < Width(lo, hi)
    OBVIOUS
<1> HIDE DEF Width, D
<1>7. rank \in [D -> Nat] /\ \A d \in D : rank[d] <= n
    BY <1>1, <1>3, <1>4, <1>5
<1>8. \A lo \in 0 .. n, hi \in 0 .. n : rank[<<lo, hi>>] = Width(lo, hi)
    BY <1>2, <1>4
<1>9. ASSUME NEW d \in D, d[1] < d[2]
      PROVE  /\ Middle(d) \in 0 .. n /\ Middle(d) + 1 \in 1 .. n
             /\ d[1] <= Middle(d) /\ Middle(d) < d[2]
             /\ <<Middle(d) + 1, d[2]>> \in D /\ <<d[1], Middle(d)>> \in D
             /\ rank[<<Middle(d) + 1, d[2]>>] < rank[d]
             /\ rank[<<d[1], Middle(d)>>] < rank[d]
    <2>1. PICK lo \in 0 .. n : lo = d[1]
        BY <1>1
    <2>2. PICK hi \in 0 .. n : hi = d[2]
        BY <1>1
    <2>3. lo < hi
        BY <1>9, <2>1, <2>2
    <2>4. (lo + hi) \div 2 \in 0 .. n /\ lo <= (lo + hi) \div 2 /\ (lo + hi) \div 2 < hi
        BY <2>3
    <2>5. PICK mid \in 0 .. n : mid = Middle(d) /\ lo <= mid /\ mid < hi
        BY <2>1, <2>2, <2>4 DEF Middle
    <2>6. mid + 1 \in 1 .. n /\ mid + 1 \in 0 .. n
        BY <2>5
    <2>7. /\ <<mid + 1, hi>> \in D /\ <<lo, mid>> \in D
          /\ rank[<<mid + 1, hi>>] = Width(mid + 1, hi) /\ rank[<<lo, mid>>] = Width(lo, mid)
          /\ rank[d] = Width(lo, hi)
        BY <2>1, <2>2, <2>6, <1>2, <1>4, <1>8
    <2>8. Width(mid + 1, hi) < Width(lo, hi) /\ Width(lo, mid) < Width(lo, hi)
        BY <2>5, <1>6
    <2> QED
        BY <2>1, <2>2, <2>5, <2>6, <2>7, <2>8
<1> QED
    BY <1>1, <1>7, <1>9 DEF D

\* The search, a definition by recursion, has the values it says.
LEMMA SearchEnds ==
    ASSUME NEW items \in Seq(Seq(Nat)), NEW id
    PROVE  \E h : SearchIn(h, items, id) /\ h \in [Ranges(Len(items)) -> BOOLEAN]
<1> DEFINE D == Ranges(Len(items))
           V == BOOLEAN
           Next(d, f) ==
               /\ d[1] < d[2]
               /\ \/ items[Middle(d) + 1] = id
                  \/ IF lessLexicographic(items[Middle(d) + 1], id)
                     THEN f[<<Middle(d) + 1, d[2]>>] ELSE f[<<d[1], Middle(d)>>]
           next == [df \in D \X [D -> V] |-> Next(df[1], df[2])]
<1>1. Len(items) \in Nat
    OBVIOUS
<1>2. PICK rank : Widths(rank, Len(items))
    BY DEF Widths
<1>3. /\ rank \in [D -> Nat] /\ \A d \in D : rank[d] <= Len(items)
      /\ \A d \in D : d[1] < d[2] => /\ <<Middle(d) + 1, d[2]>> \in D /\ <<d[1], Middle(d)>> \in D
                                     /\ rank[<<Middle(d) + 1, d[2]>>] < rank[d]
                                     /\ rank[<<d[1], Middle(d)>>] < rank[d]
    BY <1>1, <1>2, HalvesAreShorter
<1>4. \A d \in D, f \in [D -> V] : next[<<d, f>>] = Next(d, f)
    BY Zenon
<1>5. \A d \in D, f \in [D -> V] : Next(d, f) \in V
    BY Zenon
<1> HIDE DEF D, V
<1>6. ASSUME NEW d \in D, NEW f \in [D -> V], NEW g \in [D -> V],
             \A e \in D : rank[e] < rank[d] => f[e] = g[e]
      PROVE  Next(d, f) = Next(d, g)
    <2>1. CASE d[1] < d[2]
        <3>1. f[<<Middle(d) + 1, d[2]>>] = g[<<Middle(d) + 1, d[2]>>]
            BY <1>3, <1>6, <2>1
        <3>2. f[<<d[1], Middle(d)>>] = g[<<d[1], Middle(d)>>]
            BY <1>3, <1>6, <2>1
        <3> QED
            BY <3>1, <3>2, Zenon
    <2>2. CASE ~(d[1] < d[2])
        BY <2>2, Zenon
    <2> QED
        BY <2>1, <2>2
<1>7. next \in [D \X [D -> V] -> V]
    <2> HIDE DEF Next
    <2> QED
        BY <1>5
<1> HIDE DEF Next, next
<1>8. Recursive(next, D, V, rank, Len(items))
    <2>1. V # {}
        BY DEF V
    <2>2. LooksBack(next, D, V, rank)
        BY <1>4, <1>6 DEF LooksBack
    <2> QED
        BY <2>1, <2>2, <1>1, <1>3, <1>7 DEF Recursive
<1>9. PICK h : Solution(h, next, D, V)
    BY <1>8, RecursionHasASolution, Zenon
<1>10. h \in [D -> V] /\ \A d \in D : h[d] = Next(d, h)
    BY <1>9, <1>4 DEF Solution
<1>11. h = [d \in D |-> Next(d, h)]
    BY <1>10
<1>12. SearchIn(h, items, id)
    BY <1>11, Zenon DEF SearchIn, Next, D, Middle
<1> QED
    BY <1>10, <1>12 DEF D, V

\* It finds an id in a range exactly if it is there.
LEMMA SearchFinds ==
    ASSUME NEW items \in Seq(Seq(Nat)), NEW id \in Seq(Nat),
           \A i, j \in 1 .. Len(items) : i < j => <<items[i], items[j]>> \in Bytes,
           NEW h, SearchIn(h, items, id)
    PROVE  h[<<0, Len(items)>>] <=> \E k \in 1 .. Len(items) : items[k] = id
<1> DEFINE n == Len(items)
           D == Ranges(n)
           There(lo, hi) == \E k \in 1 .. n : lo < k /\ k <= hi /\ items[k] = id
           Right(d) == h[d] <=> There(d[1], d[2])
           S == {d \in D : Right(d)}
<1>1. n \in Nat /\ \A k \in 1 .. n : items[k] \in Seq(Nat)
    BY ElementOfSeq
<1>2. PICK rank : Widths(rank, n)
    BY DEF Widths
<1>3. /\ rank \in [D -> Nat]
      /\ \A d \in D :
           /\ d[1] \in 0 .. n /\ d[2] \in 0 .. n
           /\ d[1] < d[2] => /\ Middle(d) \in 0 .. n /\ Middle(d) + 1 \in 1 .. n
                             /\ d[1] <= Middle(d) /\ Middle(d) < d[2]
                             /\ <<Middle(d) + 1, d[2]>> \in D /\ <<d[1], Middle(d)>> \in D
                             /\ rank[<<Middle(d) + 1, d[2]>>] < rank[d]
                             /\ rank[<<d[1], Middle(d)>>] < rank[d]
    BY <1>1, <1>2, HalvesAreShorter
<1>4. \A d \in D :
          h[d] = (/\ d[1] < d[2]
                  /\ \/ items[Middle(d) + 1] = id
                     \/ IF lessLexicographic(items[Middle(d) + 1], id)
                        THEN h[<<Middle(d) + 1, d[2]>>] ELSE h[<<d[1], Middle(d)>>])
    BY Zenon DEF SearchIn, Middle
<1> HIDE DEF n, D
<1>5. ASSUME NEW k \in 1 .. n, NEW m \in 1 .. n, k < m
      PROVE  <<items[k], items[m]>> \in Bytes
    BY <1>5 DEF n
<1>6. ASSUME NEW d \in D, \A e \in D : rank[e] < rank[d] => e \in S
      PROVE  d \in S
    <2>1. d[1] \in 0 .. n /\ d[2] \in 0 .. n
        BY <1>3
    <2>2. CASE ~(d[1] < d[2])
        <3>1. h[d] <=> FALSE
            BY <1>4, <2>2, Zenon
        <3>2. ~There(d[1], d[2])
            BY <1>1, <2>1, <2>2
        <3> HIDE DEF There
        <3>3. Right(d)
            BY <3>1, <3>2, Zenon
        <3> HIDE DEF Right
        <3> QED
            BY <3>3
    <2>3. CASE d[1] < d[2]
        <3>1. PICK lo \in 0 .. n : lo = d[1]
            BY <2>1
        <3>2. PICK hi \in 0 .. n : hi = d[2]
            BY <2>1
        <3>3. PICK mid \in 0 .. n : /\ mid = Middle(d) /\ mid + 1 \in 1 .. n /\ lo <= mid /\ mid < hi
                                    /\ <<mid + 1, hi>> \in D /\ <<lo, mid>> \in D
                                    /\ rank[<<mid + 1, hi>>] < rank[d] /\ rank[<<lo, mid>>] < rank[d]
            BY <1>3, <2>3, <3>1, <3>2
        <3>4. PICK here \in Seq(Nat) : here = items[mid + 1]
            BY <1>1, <3>3
        <3>5. h[d] <=> \/ here = id
                       \/ IF lessLexicographic(here, id) THEN h[<<mid + 1, hi>>] ELSE h[<<lo, mid>>]
            BY <1>4, <2>3, <3>1, <3>2, <3>3, <3>4, Zenon
        <3>6. Right(<<mid + 1, hi>>) /\ Right(<<lo, mid>>)
            <4> HIDE DEF Right
            <4> QED
                BY <1>6, <3>3
        <3>7. (h[<<mid + 1, hi>>] <=> There(mid + 1, hi)) /\ (h[<<lo, mid>>] <=> There(lo, mid))
            <4> HIDE DEF There
            <4> QED
                BY <3>6, Zenon
        <3>8. There(lo, hi) <=> \/ here = id \/ There(mid + 1, hi) \/ There(lo, mid)
            <4>1. \A a, m, b, k \in Nat :
                      a <= m /\ m < b => (a < k /\ k <= b <=> \/ k = m + 1
                                                             \/ (m + 1 < k /\ k <= b)
                                                             \/ (a < k /\ k <= m))
                OBVIOUS
            <4>2. lo \in Nat /\ mid \in Nat /\ hi \in Nat /\ \A k \in 1 .. n : k \in Nat
                OBVIOUS
            <4>3. \A k \in 1 .. n : (lo < k /\ k <= hi) <=> \/ k = mid + 1
                                                            \/ (mid + 1 < k /\ k <= hi)
                                                            \/ (lo < k /\ k <= mid)
                BY <3>3, <4>1, <4>2
            <4> QED
                BY <4>3, <3>3, <3>4
        <3>9. here # id /\ lessLexicographic(here, id) => ~There(lo, mid)
            <4> SUFFICES ASSUME here # id, lessLexicographic(here, id),
                                NEW k \in 1 .. n, k <= mid, items[k] = id
                         PROVE  FALSE
                OBVIOUS
            <4>1. k < mid + 1
                BY <1>1
            <4>2. <<id, here>> \in Bytes
                BY <4>1, <1>5, <3>3, <3>4
            <4>3. <<here, id>> \in Bytes
                BY DEF Bytes
            <4> QED
                BY <4>2, <4>3, BytesOrder DEF Orders
        <3>10. here # id /\ ~lessLexicographic(here, id) => ~There(mid + 1, hi)
            <4> SUFFICES ASSUME here # id, ~lessLexicographic(here, id),
                                NEW k \in 1 .. n, mid + 1 < k, items[k] = id
                         PROVE  FALSE
                OBVIOUS
            <4>1. <<here, id>> \in Bytes
                BY <1>5, <3>3, <3>4
            <4> QED
                BY <4>1 DEF Bytes
        <3> HIDE DEF There
        <3>11. h[d] <=> There(lo, hi)
            BY <3>5, <3>7, <3>8, <3>9, <3>10, Zenon
        <3>12. Right(d)
            BY <3>1, <3>2, <3>11, Zenon
        <3> HIDE DEF Right
        <3> QED
            BY <3>12
    <2> QED
        BY <2>2, <2>3
<1>7. Hereditary(S, D, rank)
    <2> HIDE DEF S
    <2> QED
        BY <1>3, <1>6 DEF Hereditary
<1>8. \A d \in D : d \in S
    BY <1>7, ByRank, Zenon
<1>9. <<0, n>> \in D
    BY <1>1 DEF D, Ranges
<1>10. h[<<0, n>>] <=> There(0, n)
    <2> HIDE DEF There
    <2>1. Right(<<0, n>>)
        <3> HIDE DEF Right
        <3> QED
            BY <1>8, <1>9
    <2> QED
        BY <2>1, Zenon
<1>11. There(0, n) <=> \E k \in 1 .. n : items[k] = id
    BY <1>1
<1> QED
    BY <1>10, <1>11, Zenon DEF n

\* extension.zig 57-71: containsId finds what the set holds.
LEMMA ContainsTells ==
    ASSUME NEW blob, NEW X, Holds(blob, X), NEW id \in Seq(Nat)
    PROVE  idset_contains(blob, id) <=> id \in X
<1>1. PICK items \in Seq(Seq(Nat)) : items = parseSet(blob)
    BY WhatIsHeld
<1>2. ToSet(items) = X /\ Lists(items, X, Bytes)
    BY <1>1, WhatIsHeld
<1>3. ToSet(items) = {items[k] : k \in 1 .. Len(items)}
    BY ItemsOf
<1>4. \A i, j \in 1 .. Len(items) : i < j => <<items[i], items[j]>> \in Bytes
    BY <1>2 DEF Lists
<1>5. PICK h : h = CHOOSE g : SearchIn(g, items, id)
    OBVIOUS
<1>6. SearchIn(h, items, id)
    BY <1>5, SearchEnds, Zenon
<1>7. h[<<0, Len(items)>>] <=> \E k \in 1 .. Len(items) : items[k] = id
    BY <1>4, <1>6, SearchFinds, Zenon
<1>8. idset_contains(blob, id) = h[<<0, Len(items)>>]
    BY <1>1, <1>5, ContainsSearches, Zenon
<1>9. id \in X <=> \E k \in 1 .. Len(items) : items[k] = id
    BY <1>2, <1>3
<1> QED
    BY <1>7, <1>8, <1>9, Zenon

-----------------------------------------------------------------------------
(* Sets *)

\* extension.zig 295-341: idset_union writes what one of the sets holds.
LEMMA WritesUnion ==
    ASSUME NEW left, NEW X, Holds(left, X), NEW right, NEW Y, Holds(right, Y)
    PROVE  Writes(idset_union(left, right), X \cup Y)
<1>1. PICK l \in Seq(Seq(Nat)) : l = parseSet(left)
    BY WhatIsHeld
<1>2. PICK r \in Seq(Seq(Nat)) : r = parseSet(right)
    BY WhatIsHeld
<1>3. ToSet(l) = X /\ ToSet(r) = Y /\ X \cup Y \subseteq Names
    BY <1>1, <1>2, WhatIsHeld
<1>4. PICK both : both = r \o l
    OBVIOUS
<1>5. both \in Seq(Seq(Nat)) /\ ToSet(both) = X \cup Y
    BY <1>3, <1>4, ConcatItems
<1>6. Lists(Canonical(both), X \cup Y, Bytes)
    BY <1>5, CanonicalLists
<1>7. idset_union(left, right) = appendSetText(Canonical(both))
    BY <1>1, <1>2, <1>4 DEF idset_union
<1> QED
    BY <1>3, <1>6, <1>7 DEF Writes

\* extension.zig 250-293: idset_add writes the set and one id more; what has
\* newlines in it is more than one.
LEMMA WritesOneMore ==
    ASSUME NEW blob, NEW X, Holds(blob, X), NEW id \in Seq(Nat)
    PROVE  /\ id \in Names => Writes(idset_add(blob, id), X \cup {id})
           /\ IdsOf(idset_add(blob, id)) = X \cup IdsOf(id)
<1>1. PICK items \in Seq(Seq(Nat)) : items = parseSet(blob)
    BY WhatIsHeld
<1>2. ToSet(items) = X /\ X \subseteq Names
    BY <1>1, WhatIsHeld
<1>3. PICK more : more = Append(items, id)
    OBVIOUS
<1>4. more \in Seq(Seq(Nat)) /\ ToSet(more) = X \cup {id}
    <2>1. PICK one : one = <<id>>
        OBVIOUS
    <2>2. one \in Seq(Seq(Nat)) /\ ToSet(one) = {id} /\ more = items \o one
        BY <1>3, <2>1 DEF ToSet
    <2>3. items \o one \in Seq(Seq(Nat)) /\ ToSet(items \o one) = ToSet(items) \cup ToSet(one)
        BY <2>2, ConcatItems
    <2> QED
        BY <1>2, <2>2, <2>3
<1>5. PICK parts : parts = Canonical(more)
    OBVIOUS
<1>6. parts \in Seq(Seq(Nat)) /\ Lists(parts, X \cup {id}, Bytes)
    BY <1>4, <1>5, CanonicalLists
<1>7. idset_add(blob, id) = Joined(parts, NL)
    BY <1>1, <1>3, <1>5 DEF idset_add, appendSetText
<1>8. id \in Names => Writes(idset_add(blob, id), X \cup {id})
    BY <1>2, <1>6, <1>7 DEF Writes, appendSetText
<1>9. ToSet(parts) = X \cup {id} /\ ToSet(parts) = {parts[i] : i \in 1 .. Len(parts)}
    <2>1. X \cup {id} \subseteq Seq(Nat)
        BY <1>2, NamesAreTexts
    <2>2. ToSet(parts) = X \cup {id}
        BY <1>6, <2>1, ListedItems, BytesIrreflexive
    <2> QED
        BY <1>6, <2>2, ItemsOf
<1>10. \A y : y \in IdsOf(Joined(parts, NL)) <=> \E i \in 1 .. Len(parts) : y \in IdsOf(parts[i])
    BY <1>6, JoinedIds
<1>11. \A x \in X : IdsOf(x) = {x}
    BY <1>2, IdsOfId
<1>12. \A y : (\E i \in 1 .. Len(parts) : y \in IdsOf(parts[i])) <=> \E x \in X \cup {id} : y \in IdsOf(x)
    BY <1>9
<1>13. \A y : y \in IdsOf(Joined(parts, NL)) <=> y \in X \/ y \in IdsOf(id)
    <2>1. ASSUME NEW y, NEW x \in X \cup {id}, y \in IdsOf(x)
          PROVE  y \in X \/ y \in IdsOf(id)
        BY <1>11, <2>1
    <2>2. ASSUME NEW y, y \in X \/ y \in IdsOf(id)
          PROVE  \E x \in X \cup {id} : y \in IdsOf(x)
        BY <1>11, <2>2
    <2>3. \A y : (\E x \in X \cup {id} : y \in IdsOf(x)) <=> y \in X \/ y \in IdsOf(id)
        BY <2>1, <2>2, Zenon
    <2> QED
        BY <1>10, <1>12, <2>3, Zenon
<1> QED
    BY <1>7, <1>8, <1>13

\* extension.zig 437-450: idset_count tells how many ids a set holds.
LEMMA CountTells ==
    ASSUME NEW blob, NEW X, Holds(blob, X)
    PROVE  idset_count(blob) = Cardinality(X)
BY WhatIsHeld DEF idset_count, Lists

\* extension.zig 473-502: two sets have the same hash exactly if they hold the same.
LEMMA HashTells ==
    ASSUME NEW left, NEW X, Holds(left, X), NEW right, NEW Y, Holds(right, Y)
    PROVE  idset_hash(left) = idset_hash(right) <=> X = Y
<1>1. ToSet(parseSet(left)) = X /\ ToSet(parseSet(right)) = Y
    BY WhatIsHeld
<1>2. ASSUME X = Y
      PROVE  parseSet(left) = parseSet(right)
    <2>1. Lists(parseSet(left), X, Bytes) /\ Lists(parseSet(right), X, Bytes) /\ X \subseteq Seq(Nat)
        BY <1>2, WhatIsHeld, NamesAreTexts
    <2>2. Orders(Bytes, X)
        BY <2>1, BytesOrder DEF Orders
    <2> QED
        BY <2>1, <2>2, ListsAreUnique, Zenon
<1> QED
    BY <1>1, <1>2 DEF idset_hash

\* extension.zig 250-545: on any blobs that repeat no id three times, whoever
\* wrote them, the functions are the algebra of sets, and they write sorted ids
\* without duplicates or blank lines (but idset_add of an empty id, which is
\* left out here, writes a blank line).
THEOREM IdSetsAreSets ==
    ASSUME NEW left \in Seq(Nat), NEW right \in Seq(Nat), NEW id \in Seq(Nat), id # <<>>
    PROVE  AlgebraOfSets(left, right, id)
<1> SUFFICES ASSUME TwiceAtMost(left), TwiceAtMost(right)
             PROVE  AlgebraOfSets(left, right, id)
    BY DEF AlgebraOfSets
<1> DEFINE X == IdsOf(left)
           Y == IdsOf(right)
<1>1. Holds(left, X) /\ Holds(right, Y)
    BY BlobsHoldTheirIds
<1> HIDE DEF X, Y
<1>2. Writes(idset_union(left, right), X \cup Y)
    BY <1>1, WritesUnion
<1>3. Writes(idset_intersect(left, right), X \cap Y)
    BY <1>1, WritesIntersection
<1>4. Writes(idset_diff(left, right), X \ Y)
    BY <1>1, WritesDifference
<1>5. idset_intersect(left, right) = idset_diff(left, idset_diff(left, right))
    <2>1. Holds(idset_diff(left, right), X \ Y)
        BY <1>4, WrittenIds
    <2>2. Writes(idset_diff(left, idset_diff(left, right)), X \ (X \ Y))
        BY <1>1, <2>1, WritesDifference
    <2>3. X \ (X \ Y) = X \cap Y
        OBVIOUS
    <2> QED
        BY <1>3, <2>2, <2>3, WrittenInOneWay
<1>6. /\ IdsOf(idset_union(left, right)) = X \cup Y /\ IsCanonical(idset_union(left, right))
      /\ IdsOf(idset_intersect(left, right)) = X \cap Y /\ IsCanonical(idset_intersect(left, right))
      /\ IdsOf(idset_diff(left, right)) = X \ Y /\ IsCanonical(idset_diff(left, right))
    BY <1>2, <1>3, <1>4, WrittenIds
<1>7. IdsOf(idset_add(left, id)) = X \cup IdsOf(id)
    BY <1>1, WritesOneMore
<1>8. NL \notin ToSet(id) => IsCanonical(idset_add(left, id))
    <2>1. NL \notin ToSet(id) => id \in Names
        BY DEF Names, Ids
    <2> QED
        BY <1>1, <2>1, WritesOneMore, WrittenIds
<1>9. idset_count(left) = Cardinality(X)
    BY <1>1, CountTells
<1>10. idset_contains(left, id) <=> id \in X
    BY <1>1, ContainsTells
<1>11. idset_hash(left) = idset_hash(right) <=> X = Y
    BY <1>1, HashTells
<1> QED
    BY <1>5, <1>6, <1>7, <1>8, <1>9, <1>10, <1>11, Zenon DEF AlgebraOfSets, X, Y

=============================================================================
