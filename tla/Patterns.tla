------------------------------ MODULE Patterns ------------------------------
(***************************************************************************)
(* The immutable data of packages/patterns/src/internal: linked lists      *)
(* (list.ts), trees (tree.ts) and tagged things (thing.ts), each with its  *)
(* size or tags kept beside the data, an equality and a hash that must     *)
(* agree, and a walk by effects of which one may fail.                     *)
(***************************************************************************)
EXTENDS Naturals, Sequences, SequencesExt

(* Hash.combine mixes two hashes; here it keeps both. *)
combine(b, a) == <<a, b>>

-----------------------------------------------------------------------------
(* list.ts: a list is empty, or a head before a list. *)
Empty == [isEmpty |-> TRUE, size |-> 0]
makeNode(value, tail) == [isEmpty |-> FALSE, size |-> tail.size + 1, head |-> value, tail |-> tail]

(* The loops over a list, which go on with the tail until it is empty. *)
Walked(f(_, _), initial, self) ==
    LET RECURSIVE Walk(_, _)
        Walk(acc, current) ==
            IF current.isEmpty THEN acc ELSE Walk(f(acc, current.head), current.tail)
    IN  Walk(initial, self)

toArray(self) == Walked(Append, <<>>, self)
reverse(self) == Walked(LAMBDA result, value : makeNode(value, result), Empty, self)
fromIterable(values) == reverse(FoldLeft(LAMBDA result, value : makeNode(value, result), Empty, values))
append(self, value) ==
    IF self.isEmpty THEN makeNode(value, Empty) ELSE fromIterable(Append(toArray(self), value))
map(self, f(_, _)) ==
    LET values == toArray(self) IN fromIterable([i \in DOMAIN values |-> f(values[i], i - 1)])
hashList(self) == Walked(LAMBDA hash, value : combine(value, hash), self.size, self)

RECURSIVE SameCells(_, _)
SameCells(left, right) ==
    IF left.isEmpty \/ right.isEmpty THEN left.isEmpty = right.isEmpty
    ELSE left.head = right.head /\ SameCells(left.tail, right.tail)
equalsList(self, that) == self.size = that.size /\ SameCells(self, that)

(* forEachEffect: the calls of f, up to the first that fails *)
RECURSIVE Calls(_, _, _)
Calls(self, index, fails) ==
    IF self.isEmpty THEN <<>>
    ELSE <<<<self.head, index>>>> \o (IF self.head \in fails THEN <<>> ELSE Calls(self.tail, index + 1, fails))

(* list.ts: a list is the sequence it was made from, whichever of the      *)
(* functions made it; lists are equal just when their sequences are, and   *)
(* have then the same hash; and an effect that fails is the last one run.  *)
ListsAreSequences(a, b, fails) ==
    LET list == fromIterable(a)
        calls == Calls(list, 0, fails)
        Is(l, s) == toArray(l) = s /\ l.size = Len(s) /\ equalsList(l, fromIterable(s))
    IN  /\ Is(list, a) /\ Is(reverse(list), Reverse(a))
        /\ \A i \in DOMAIN b : Is(append(list, b[i]), Append(a, b[i])) /\ Is(makeNode(b[i], list), <<b[i]>> \o a)
        /\ Is(map(list, LAMBDA value, index : <<value, index>>), [i \in DOMAIN a |-> <<a[i], i - 1>>])
        /\ equalsList(list, fromIterable(b)) <=> a = b
        /\ equalsList(list, fromIterable(b)) => hashList(list) = hashList(fromIterable(b))
        /\ \A i \in DOMAIN calls :
               calls[i] = <<a[i], i - 1>> /\ (i < Len(calls) => a[i] \notin fails)
        /\ Len(calls) < Len(a) => calls # <<>> /\ a[Len(calls)] \in fails

-----------------------------------------------------------------------------
(* tree.ts *)
instantiate(value, children) ==
    [value |-> value, children |-> children,
     size |-> FoldLeft(LAMBDA size, child : size + child.size, 1, children)]
appendChild(self, child) == instantiate(self.value, Append(self.children, child))

RECURSIVE iterator(_), equalsTree(_, _), hashTree(_)
iterator(self) == FoldLeft(LAMBDA out, child : out \o iterator(child), <<self.value>>, self.children)
mapTree(self, f(_)) ==
    LET RECURSIVE Mapped(_)
        Mapped(t) == instantiate(f(t.value), [i \in DOMAIN t.children |-> Mapped(t.children[i])])
    IN  Mapped(self)
reduce(self, initial, f(_, _)) ==
    LET RECURSIVE Reduced(_, _)
        Reduced(acc, t) == FoldLeft(Reduced, f(acc, t.value), t.children)
    IN  Reduced(initial, self)
equalsTree(self, that) ==
    /\ self.size = that.size /\ Len(self.children) = Len(that.children) /\ self.value = that.value
    /\ \A i \in DOMAIN self.children : equalsTree(self.children[i], that.children[i])
hashTree(self) ==
    FoldLeft(LAMBDA hash, child : combine(hashTree(child), hash), combine(self.value, self.size), self.children)

(* Mutant: a child's path is that of its parent's first child. *)
FirstPath(path, i) == Append(path, 0)

ChildPath(path, i) == Append(path, i - 1)

(* traverseEffect: the calls of f until one fails, each with its path *)
RECURSIVE traverse(_, _, _)
traverse(self, path, fails) ==
    LET Stopped(calls) == Last(calls)[1] \in fails
        Next(calls, i) == IF Stopped(calls) THEN calls
                          ELSE calls \o traverse(self.children[i], ChildPath(path, i), fails)
    IN  FoldLeftDomain(Next, <<<<self.value, path>>>>, self.children)

RECURSIVE NodeAt(_, _)
NodeAt(self, path) == IF path = <<>> THEN self ELSE NodeAt(self.children[Head(path) + 1], Tail(path))

(* tree.ts: the size counts what the iterator yields; map and reduce meet  *)
(* the same values in the same order; trees are equal just when they are   *)
(* the same, and have then the same hash; every effect is told the path    *)
(* that leads to its node, no two the same, and one that fails is the last.*)
TreesAreTheirNodes(tree, other, fails) ==
    LET calls == traverse(tree, <<0>>, fails)
        values == iterator(tree)
    IN  /\ tree.size = Len(values) /\ appendChild(tree, other).size = tree.size + other.size
        /\ iterator(appendChild(tree, other)) = values \o iterator(other)
        /\ reduce(tree, <<>>, Append) = values
        /\ iterator(mapTree(tree, LAMBDA v : <<v>>)) = [i \in DOMAIN values |-> <<values[i]>>]
        /\ equalsTree(mapTree(tree, LAMBDA v : v), tree)
        /\ equalsTree(tree, other) <=> tree = other
        /\ equalsTree(tree, other) => hashTree(tree) = hashTree(other)
        /\ \A i \in DOMAIN calls :
               /\ calls[i][1] = values[i] /\ NodeAt(tree, Tail(calls[i][2])).value = values[i]
               /\ \A j \in 1..(i - 1) : calls[j][2] # calls[i][2] /\ values[j] \notin fails
        /\ Len(calls) < Len(values) => values[Len(calls)] \in fails

-----------------------------------------------------------------------------
(* thing.ts *)
normalizeTags(tags) == SetToSortSeq(Range(tags), <)
makeThing(id, value, tags) == [id |-> id, value |-> value, tags |-> normalizeTags(tags)]
addTag(self, tag) ==
    IF tag \in Range(self.tags) THEN self ELSE makeThing(self.id, self.value, Append(self.tags, tag))
hashThing(self) == combine(self.tags, combine(self.value, self.id))

(* thing.ts: things are equal, and have the same hash, whatever the order  *)
(* in which they got their tags and however often each.                    *)
TagsAreASet(tags, added) ==
    LET made == makeThing(1, 1, tags \o added)
        grown == FoldLeft(addTag, makeThing(1, 1, tags), added)
    IN  /\ grown = made /\ hashThing(grown) = hashThing(made)
        /\ FoldLeft(addTag, makeThing(1, 1, added), Reverse(tags)) = made
=============================================================================
