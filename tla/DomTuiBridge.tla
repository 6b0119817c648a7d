--------------------------- MODULE DomTuiBridge ---------------------------
(***************************************************************************)
(* createDOMToTUIBridge of packages/opentui-dom: a MutationObserver on a   *)
(* DOM container, and the handler that turns the records it collects into  *)
(* operations on a tree of terminal renderables ("boxes" here).            *)
(*                                                                         *)
(* Scripts and the handler share one JavaScript thread.  A script changes  *)
(* the document in any number of steps while records pile up; the whole    *)
(* batch is then handled before any script runs again, so the handler      *)
(* reads the tree as it is when the batch is handled, not as it was when   *)
(* each record was made.  That gap is what this module is about.           *)
(*                                                                         *)
(* Left out: the order of siblings, and node kinds the bridge ignores.     *)
(***************************************************************************)
EXTENDS FiniteSets, Naturals, Sequences

CONSTANTS
    Elements,      \* element nodes
    Texts,         \* text nodes
    Container,     \* the element observe() and processExistingChildren() get
    None,          \* no parent
    Root,          \* the root TUI container
    Nowhere,       \* the place of a box taken out of its container
    Values,        \* text contents, or values of the one style key of a class
    Blank,         \* whitespace only, or a class that gives no style
    Trim,          \* String.prototype.trim on the contents of texts
    InitialData,   \* bound on the texts and classes of the first page
    MaxChanges     \* bound on the changes scripts make to the document

ASSUME DistinctNodes ==
    /\ IsFiniteSet(Elements) /\ IsFiniteSet(Texts)
    /\ Elements \cap Texts = {}
    /\ (Elements \cup Texts) \cap {Container, None, Root, Nowhere} = {}
    /\ Container # None /\ Root # Nowhere
    /\ Blank \notin Values
    /\ Trim \in [Values \cup {Blank} -> Values \cup {Blank}]
    /\ InitialData \subseteq [Elements \cup Texts -> Values \cup {Blank}]
    /\ MaxChanges \in Nat

Nodes   == Elements \cup Texts
Parents == Elements \cup {Container}
Data    == Values \cup {Blank}

VARIABLES
    parent,      \* node -> parentNode
    data,        \* node -> its textContent, or the style its class gives
    observer,    \* whether an observer is connected to the container
    queue,       \* the records it has collected
    delivering,  \* whether handleMutations is going through them
    map,         \* node -> number of the box it is mapped to, 0 when unmapped
    inside,      \* box -> the container it was added to
    shown,       \* box -> what it displays
    changes,     \* number of changes so far
    synced,      \* history: the bridge has been told of every change it needs
    blanked      \* history: the texts that were blank at some time

dom    == <<parent, data>>
tui    == <<map, inside, shown>>
vars   == <<dom, observer, queue, delivering, tui, changes, synced, blanked>>

----------------------------------------------------------------------------
(* The document.                                                           *)

\* The documents there may be, and what is above a node of one, the container
\* included: the smallest set with the node's parent and its members' parents.
Trees == [Nodes -> Parents \cup {None}]
Upward(tree, S) == \A m \in S \cap Nodes : tree[m] \in S \cup {None}
Above ==
    [tree \in Trees |-> [n \in Nodes |->
        {a \in Parents :
            \A S \in SUBSET Parents :
                tree[n] \in S \cup {None} /\ Upward(tree, S) => a \in S}]]

Ancestors(n)  == Above[parent][n]
Subtree(n)    == {k \in Nodes : k = n \/ n \in Ancestors(k)}
InDocument(t) == t = Container \/ Container \in Ancestors(t)

IsForest == \A n \in Nodes : n \notin Ancestors(n)

----------------------------------------------------------------------------
(* The map and the boxes.                                                  *)

\* A box is a node and a number: the first box made for it, the second...
Box(n)  == <<n, map[n]>>
Boxes   == DOMAIN inside
Mapped  == {n \in Nodes : map[n] # 0}
Made(n) == Cardinality({b \in Boxes : b[1] = n})

\* findParentRenderable: the nearest ancestor of n that M holds.
Nearest(n, M) ==
    LET above == Ancestors(n) \cap M \cap Elements
    IN  IF above = {} THEN Root
        ELSE CHOOSE a \in above : above \ {a} \subseteq Ancestors(a)

Holder(n) == LET a == Nearest(n, Mapped) IN IF a = Root THEN Root ELSE Box(a)

\* addTextNode skips a text with nothing in it, and trims the others.
Shows(n) == n \in Elements \/ data[n] # Blank
Content(n, d) == IF n \in Texts THEN Trim[d] ELSE d
Contents == [n \in Nodes |-> Content(n, data[n])]

\* The nodes addElementNode and addTextNode reach below n: they stop at a
\* node that is mapped already, whatever is below it.
Fresh(n) ==
    {k \in Subtree(n) :
        /\ Shows(k)
        /\ Mapped \cap ({k} \cup (Ancestors(k) \cap Subtree(n))) = {}}

\* What f says of the boxes, with g's word on a new one for each of the nodes.
WithBoxes(new, f, g) ==
    [b \in Boxes \cup {<<k, Made(k) + 1>> : k \in new} |->
        IF b \in Boxes THEN f[b] ELSE g[b[1]]]

\* Mutant: a node looks for its container before its parent is mapped.
AddNodesEarly(new) ==
    /\ map' = [k \in Nodes |-> IF k \in new THEN Made(k) + 1 ELSE map[k]]
    /\ inside' = WithBoxes(new, inside, [k \in new |-> Holder(k)])
    /\ shown' = WithBoxes(new, shown, Contents)

AddNodes(new) ==
    LET place(k) == LET a == Nearest(k, Mapped \cup new)
                    IN  IF a = Root THEN Root ELSE <<a, map'[a]>>
    IN  /\ map' = [k \in Nodes |-> IF k \in new THEN Made(k) + 1 ELSE map[k]]
        /\ inside' = WithBoxes(new, inside, [k \in new |-> place(k)])
        /\ shown' = WithBoxes(new, shown, Contents)

AddNode(n) == AddNodes(Fresh(n))

\* Mutant: removeNode does not go on to the children.
RemoveNodeOnly(n) ==
    /\ map' = [map EXCEPT ![n] = 0]
    /\ inside' = IF n \in Mapped /\ inside[Box(n)] = Holder(n)
                 THEN [inside EXCEPT ![Box(n)] = Nowhere] ELSE inside
    /\ UNCHANGED shown

\* removeNode(n) and, through it, every node below n now.  By then the nodes
\* between n and k are unmapped, so the container asked to remove k's box is
\* the one n's parent leads to; it ignores a box it does not hold.
RemoveNode(n) ==
    LET gone == Mapped \cap Subtree(n)
        out  == {b \in {Box(k) : k \in gone} : inside[b] = Holder(n)}
    IN  /\ map' = [k \in Nodes |-> IF k \in gone THEN 0 ELSE map[k]]
        /\ inside' = [b \in Boxes |-> IF b \in out THEN Nowhere ELSE inside[b]]
        /\ UNCHANGED shown

----------------------------------------------------------------------------
\* What the variables hold.
TypeOK ==
    /\ parent \in [Nodes -> Parents \cup {None}]
    /\ IsForest
    /\ data \in [Nodes -> Data]
    /\ observer \in BOOLEAN /\ delivering \in BOOLEAN
    /\ observer \/ queue = <<>>
    /\ delivering => queue # <<>>
    /\ queue \in Seq([kind : {"removed", "added", "data"}, node : Nodes])
    /\ map \in [Nodes -> Nat]
    /\ \A n \in Mapped : Box(n) \in Boxes
    /\ DOMAIN shown = Boxes
    /\ \A b \in Boxes : /\ b[1] \in Nodes /\ b[2] \in 1 .. Made(b[1])
                        /\ inside[b] \in Boxes \cup {Root, Nowhere}
                        /\ shown[b] \in Data
    /\ changes \in 0 .. MaxChanges
    /\ synced \in BOOLEAN /\ blanked \subseteq Texts

\* The page before the bridge is made: any document, nothing mapped.
Init ==
    /\ parent \in [Nodes -> Parents \cup {None}] /\ IsForest
    /\ data \in InitialData
    /\ observer = FALSE /\ queue = <<>> /\ delivering = FALSE
    /\ map = [n \in Nodes |-> 0]
    /\ inside = <<>> /\ shown = <<>>
    /\ changes = 0
    /\ synced = ~ \E n \in Nodes : InDocument(n)
    /\ blanked = {t \in Texts : data[t] = Blank}

----------------------------------------------------------------------------
(* Scripts.                                                                *)

Script == ~delivering

Record(kind, n) == [kind |-> kind, node |-> n]

\* The observer records a change at t while t is in its container's tree.
Reports(t, r) == IF observer /\ InDocument(t) THEN <<r>> ELSE <<>>
Misses(t)     == ~observer /\ InDocument(t)

\* A change inside a tree out of the document, while the records that took it
\* out are not handled yet: the bridge will not see how the tree looked.
Unheard(t) == ~InDocument(t) /\ queue # <<>>

Change == Script /\ changes < MaxChanges /\ changes' = changes + 1

\* removeChild
Remove(n) ==
    /\ Change
    /\ parent[n] # None
    /\ parent' = [parent EXCEPT ![n] = None]
    /\ queue' = queue \o Reports(parent[n], Record("removed", n))
    /\ synced' = (synced /\ ~Misses(parent[n]) /\ ~Unheard(parent[n]))
    /\ UNCHANGED <<data, observer, delivering, tui, blanked>>

\* appendChild, insertBefore: a node that has a parent leaves it first.
InsertNode(n, p) ==
    LET from == parent[n]
        left == from # None
    IN  /\ Change
        /\ p \notin Subtree(n)
        /\ parent' = [parent EXCEPT ![n] = p]
        /\ queue' = queue
                    \o (IF left THEN Reports(from, Record("removed", n)) ELSE <<>>)
                    \o Reports(p, Record("added", n))
        /\ synced' = (/\ synced
                      /\ left => ~Misses(from) /\ ~Unheard(from)
                      /\ ~Misses(p) /\ ~Unheard(p))
        /\ UNCHANGED <<data, observer, delivering, tui, blanked>>

\* A text's characterData, or an element's class.
SetData(n, v) ==
    /\ Change
    /\ data[n] # v
    /\ data' = [data EXCEPT ![n] = v]
    /\ queue' = queue \o Reports(n, Record("data", n))
    /\ synced' = (synced /\ ~Misses(n))
    /\ blanked' = blanked \cup ({n} \cap (IF v = Blank THEN Texts ELSE {}))
    /\ UNCHANGED <<parent, observer, delivering, tui>>

----------------------------------------------------------------------------
(* The bridge's interface, called by scripts.                              *)

\* observe(container): the records of an earlier observer go with it.
Observe ==
    /\ Script
    /\ observer' = TRUE
    /\ queue' = <<>>
    /\ synced' = (synced /\ queue = <<>>)
    /\ UNCHANGED <<dom, delivering, tui, changes, blanked>>

\* disconnect(): so do they here, and the map and the boxes stay.
Disconnect ==
    /\ Script
    /\ observer
    /\ observer' = FALSE
    /\ queue' = <<>>
    /\ synced' = (synced /\ queue = <<>>)
    /\ UNCHANGED <<dom, delivering, tui, changes, blanked>>

\* processExistingChildren(container), meant for the first synchronisation: a
\* record of an earlier change, handled afterwards, can undo a part of it.
ProcessExistingChildren ==
    /\ Script
    /\ AddNodes(UNION {Fresh(n) : n \in {k \in Nodes : parent[k] = Container}})
    /\ synced' = (queue = <<>> /\ (synced \/ Mapped = {}))
    /\ UNCHANGED <<dom, observer, queue, delivering, changes, blanked>>

----------------------------------------------------------------------------
(* handleMutations.                                                        *)

Deliver ==
    /\ ~delivering /\ queue # <<>>
    /\ delivering' = TRUE
    /\ UNCHANGED <<dom, observer, queue, tui, changes, synced, blanked>>

Handling(kind) ==
    /\ delivering
    /\ Head(queue).kind = kind
    /\ queue' = Tail(queue)
    /\ delivering' = (Tail(queue) # <<>>)
    /\ UNCHANGED <<dom, observer, changes, synced, blanked>>

HandleRemoved == Handling("removed") /\ RemoveNode(Head(queue).node)
HandleAdded   == Handling("added") /\ AddNode(Head(queue).node)

\* Mutant: an element that has other styles already is left alone.
HandleTextOnly ==
    LET n == Head(queue).node
    IN  /\ Handling("data")
        /\ shown' = IF n \in Mapped \cap Texts
                    THEN [shown EXCEPT ![Box(n)] = data[n]] ELSE shown
        /\ UNCHANGED <<map, inside>>

\* handleCharacterData sets the content, as it is and not trimmed;
\* handleAttributes sets the styles the class gives now, and leaves those an
\* earlier class gave.
HandleData ==
    LET n == Head(queue).node
        b == Box(n)
    IN  /\ Handling("data")
        /\ shown' = IF n \in Mapped /\ (n \in Texts \/ data[n] # Blank)
                    THEN [shown EXCEPT ![b] = data[n]] ELSE shown
        /\ UNCHANGED <<map, inside>>

Next ==
    \/ \E n \in Nodes : Remove(n)
    \/ \E n \in Nodes, p \in Parents : InsertNode(n, p)
    \/ \E n \in Nodes, v \in Data : SetData(n, v)
    \/ Observe \/ Disconnect \/ ProcessExistingChildren
    \/ Deliver \/ HandleRemoved \/ HandleAdded \/ HandleData

Spec == Init /\ [][Next]_vars

----------------------------------------------------------------------------
(* Properties.  At rest, every record is handled, and no change that the   *)
(* bridge needed went unrecorded.                                          *)

AtRest == synced /\ queue = <<>>

\* What the box of a node with this data may show.  A text is trimmed when its
\* box is made and not when its content changes later, so of a content with
\* blanks around it either form may be on the screen.
MayShow(n, d) == {d, Content(n, d)}

\* When the records are handled the map holds the nodes of the document and no
\* other: whatever a script added, moved and took out before the batch, no
\* element is left undrawn, no removed node keeps its entry, and only a text
\* that was once blank can be missing (addElementNode, addTextNode, removeNode).
\* A mapped node's box is in the box of its parent, however often both moved
\* (findParentRenderable, which looks at the tree of the time).  A mapped text
\* shows its content of now, up to the blanks around it: trimmed, or as it is
\* (addTextNode trims, handleCharacterData does not; a content without blanks
\* around it is shown exactly).  A mapped element shows the style its class
\* gives, when it gives one (handleAttributes).
MirrorsTheDocument ==
    AtRest =>
        /\ Mapped \subseteq {n \in Nodes : InDocument(n)}
        /\ {n \in Nodes \ blanked : InDocument(n)} \subseteq Mapped
        /\ \A n \in Mapped :
              /\ inside[Box(n)] = IF parent[n] = Container THEN Root ELSE Box(parent[n])
              /\ n \in Texts \/ data[n] # Blank => shown[Box(n)] \in MayShow(n, data[n])
=============================================================================
