----------------------------- MODULE EventRelay -----------------------------
(***************************************************************************)
(* The event relay of packages/opentui-dom: keys of the terminal become    *)
(* events of the page, and what a browser would do after them: moving the  *)
(* focus, radio groups, focus traps, clicks, text editing.                 *)
(*                                                                         *)
(* A key is handled in two steps.  Keypress dispatches keydown; the page's *)
(* listeners then run, as script steps, and may prevent the key or change  *)
(* anything; what is left of handleKeypress is one step after them.        *)
(***************************************************************************)
EXTENDS TextField, LineEditor

CONSTANTS
    Pages,         \* pages to start from
    Keys,          \* the keys pressed on each page, [name, mods]
    Height,        \* rows of the viewport
    MaxDepth,      \* boxes that scrollIntoView climbs (20 in the code)
    MaxScripts,    \* bound on the steps of scripts
    MaxLength      \* bound on the text of a field

VARIABLES
    page,          \* elements in document order; number i is page[i]
    removed,       \* elements taken out of where they were, with all below them
    hidden,        \* elements with display: none
    disabled,
    checked,       \* radios and checkboxes
    tabIndex0,     \* radios with tabIndex 0
    field,         \* [element -> text field]
    focus,         \* document.activeElement
    attached,      \* the relay listens to the renderer
    trap,          \* trapContainer
    preTrap,       \* preTrapFocus
    scrolling,     \* a scroll container is set
    scrollTop,
    key, target,   \* the key whose keydown is being dispatched, and to what
    scripts        \* history: steps that scripts took

vars == <<page, removed, hidden, disabled, checked, tabIndex0, field, focus, attached,
          trap, preTrap, scrolling, scrollTop, key, target, scripts>>

relay == <<attached, trap, preTrap, scrolling>>
document == <<page, removed, hidden, disabled>>
radios == <<checked, tabIndex0>>

Body == 0
Nothing == -1
NoKey == [name |-> "none", mods |-> {}]

Kinds == {"container", "button", "link", "select", "checkbox", "radio", "text", "label"}

\* Parents come before their children.  An element is drawn if the node map has a
\* renderable of it; y is the row within the box that holds it.
ASSUME PagesAreDocuments ==
    \A p \in Pages :
        /\ p \in Seq([kind : Kinds, parent : Nat, drawn : BOOLEAN, y : Nat, rows : Nat,
                      group : STRING, access : STRING, for : Nat])
        /\ \A e \in DOMAIN p : p[e].parent < e /\ p[e].for <= Len(p)
ASSUME BoundsAreNumbers == {Height, MaxDepth, MaxScripts, MaxLength} \subseteq Nat

Elements == DOMAIN page
Are(kinds) == {e \in Elements : page[e].kind \in kinds}

Above[e \in 0..Len(page)] == IF e = Body THEN {} ELSE {e} \cup Above[page[e].parent]
Below(e) == {d \in Elements : e \in Above[d]}
Connected(e) == e = Body \/ (e \in Elements /\ Above[e] \cap removed = {})

Focused(e) == IF Connected(e) THEN e ELSE focus

InGroup(r) == {s \in Are({"radio"}) :
                  s = r \/ (page[r].group # "" /\ page[s].group = page[r].group)}
CheckedWith(r) == (checked \ InGroup(r)) \cup {r}

Clicked(e) ==
    IF e \in Are({"radio"}) THEN CheckedWith(e)
    ELSE IF e \notin Are({"checkbox"}) THEN checked
    ELSE IF e \in checked THEN checked \ {e} ELSE checked \cup {e}

-----------------------------------------------------------------------------
(* What Tab goes through. *)

isElementVisible(e) == Above[e] \cap hidden = {}

\* The descendants of the trap, or the whole document.
SearchRoot ==
    IF trap = Nothing THEN {e \in Elements : Connected(e)}
    ELSE {e \in Below(trap) \ {trap} : (Above[e] \ Above[trap]) \cap removed = {}}

Selected == {e \in SearchRoot \cap Are(Kinds \ {"container", "label"}) :
                e \notin disabled /\ isElementVisible(e)}

\* Mutant: the first radio, whichever is checked.
firstOfGroup(group) == Min(group)

getRadioGroupTabTarget(group) ==
    IF group \cap checked # {} THEN Min(group \cap checked)
    ELSE IF group \cap tabIndex0 # {} THEN Min(group \cap tabIndex0)
    ELSE Min(group)

getFocusableElements ==
    {e \in Selected : attached /\ (e \in Are({"radio"}) =>
                          e = getRadioGroupTabTarget(Selected \cap InGroup(e)))}

\* From an element to the next one of some, in document order, or the one before
\* it; at the end, and from an element that is none of them, one starts again.
MovedAmong(some, from, back) ==
    LET ahead == {e \in some : from \in some /\ IF back THEN e < from ELSE e > from}
        among == IF ahead = {} THEN some ELSE ahead
    IN IF some = {} THEN from ELSE IF back THEN Max(among) ELSE Min(among)

Moved(from, back) == MovedAmong(getFocusableElements, from, back)

\* Boxes are placed in the box around them: rows from the top of the scroll content,
\* and how many boxes down from it.
Holder(e) == Max({Body} \cup {a \in 1..page[e].parent : a \in Above[e] /\ page[a].drawn})
Top[e \in 0..Len(page)] == IF e = Body THEN 0 ELSE page[e].y + Top[Holder(e)]
Depth[e \in 0..Len(page)] == IF e = Body THEN 0 ELSE 1 + Depth[Holder(e)]

\* The rows of MaxDepth boxes are added up, and what is around those left out.
Reached(e) ==
    Max({Body} \cup {a \in Elements : a \in Above[e] /\ page[a].drawn /\ Depth[a] + MaxDepth = Depth[e]})
elementTop(e) == Top[e] - Top[Reached(e)]
elementBottom(e) == elementTop(e) + page[e].rows

Scrolls(e) == scrolling /\ Connected(e) /\ page[e].drawn /\ Height > 0

\* Mutant: an element that ends below the viewport is brought to its top.
scrolledPast(e) ==
    IF Scrolls(e) /\ elementBottom(e) > scrollTop + Height THEN elementBottom(e) ELSE scrollTop

scrolledIntoView(e) ==
    IF ~ Scrolls(e) THEN scrollTop
    ELSE IF elementBottom(e) > scrollTop + Height THEN elementBottom(e) - Height
    ELSE IF elementTop(e) < scrollTop THEN elementTop(e)
    ELSE scrollTop

-----------------------------------------------------------------------------
(* The relay's interface. *)

Init ==
    /\ page \in Pages
    /\ removed = {} /\ hidden = {} /\ disabled = {}
    /\ checked \in {{}} \cup {{r} : r \in Are({"radio"})}
    /\ tabIndex0 = {}
    /\ field \in [Are({"text"}) -> [value : {<<>>}, start : {0}, end : {0}, selects : BOOLEAN]]
    /\ focus = Body
    /\ attached = FALSE /\ trap = Nothing /\ preTrap = Nothing
    /\ scrolling = FALSE /\ scrollTop = 0
    /\ key = NoKey /\ target = Body
    /\ scripts = 0

Call == UNCHANGED <<page, key, target>>
Script == Call /\ scripts < MaxScripts /\ scripts' = scripts + 1

Detached ==
    /\ trap' = Nothing /\ preTrap' = Nothing
    /\ scrolling' = FALSE

\* Attaching again detaches first; a trap set before the first time stays.
Attach ==
    /\ IF attached THEN Script ELSE Call /\ UNCHANGED scripts
    /\ attached' = TRUE
    /\ IF attached THEN Detached ELSE UNCHANGED <<trap, preTrap, scrolling>>
    /\ UNCHANGED <<document, radios, field, focus, scrollTop>>

Detach ==
    /\ Script /\ attached
    /\ attached' = FALSE /\ Detached
    /\ UNCHANGED <<document, radios, field, focus, scrollTop>>

\* Without a document there is no focused element to remember; inside another trap
\* the one to return to is lost.
ActivateFocusTrap(e) ==
    /\ Script
    /\ preTrap' = IF attached THEN focus ELSE Nothing
    /\ trap' = e
    /\ UNCHANGED <<document, radios, field, focus, attached, scrolling, scrollTop>>

deactivateTrap ==
    /\ trap' = Nothing /\ preTrap' = Nothing
    /\ focus' = IF preTrap = Nothing THEN focus ELSE Focused(preTrap)

DeactivateFocusTrap ==
    /\ Script
    /\ deactivateTrap
    /\ UNCHANGED <<document, radios, field, attached, scrolling, scrollTop>>

SetScrollContainer ==
    /\ Script /\ ~ scrolling
    /\ scrolling' = TRUE
    /\ UNCHANGED <<document, radios, field, focus, attached, trap, preTrap, scrollTop>>

-----------------------------------------------------------------------------
(* Keys. *)

\* handleKeypress up to the dispatch of keydown.
Keypress ==
    /\ attached /\ key = NoKey
    /\ key' \in Keys[page]
    /\ target' = focus
    /\ UNCHANGED <<document, radios, field, focus, relay, scrollTop, scripts>>

Default == key # NoKey /\ key' = NoKey /\ target' = Body /\ UNCHANGED <<document, scripts>>

\* A listener prevented the key.
Prevented == Default /\ UNCHANGED <<radios, field, focus, relay, scrollTop>>

ReleasesTrap == key.name = "escape" /\ trap # Nothing

ReleaseTrap ==
    /\ Default /\ ReleasesTrap
    /\ deactivateTrap
    /\ UNCHANGED <<radios, field, attached, scrolling, scrollTop>>

Keyed == {e \in Elements : Connected(e) /\ page[e].access = key.name}
UsesAccesskey == attached /\ WithAlt(key) /\ key.name \in Letters /\ Keyed # {}

\* A label passes the focus on; what an accesskey clicks does not take it.
handleAccesskey ==
    LET e == Min(Keyed)
        labelled == page[e].kind = "label" /\ page[e].for # 0 /\ Connected(page[e].for)
    IN
    /\ Default /\ UsesAccesskey
    /\ IF labelled THEN focus' = page[e].for
       ELSE IF page[e].kind \in {"button", "link"} THEN UNCHANGED focus
       ELSE focus' = Focused(e)
    /\ UNCHANGED <<radios, field, relay, scrollTop>>

moveFocus ==
    LET e == Moved(focus, "shift" \in key.mods)
    IN
    /\ Default /\ key.name = "tab"
    /\ focus' = Focused(e)
    /\ scrollTop' = IF getFocusableElements = {} THEN scrollTop ELSE scrolledIntoView(e)
    /\ UNCHANGED <<radios, field, relay>>

Arrows == {"up", "down", "left", "right"}
Group(r) == {s \in InGroup(r) : Connected(s)}

\* The whole group takes part, in the trap or not, disabled, hidden or not.
MovesRadio == target \in Are({"radio"}) /\ key.name \in Arrows

moveRadioFocus ==
    LET radio == target
        next == MovedAmong(Group(radio), radio, key.name \in {"up", "left"})
    IN
    /\ Default /\ MovesRadio
    /\ IF ~ attached \/ ~ Connected(radio) \/ Group(radio) = {radio} THEN UNCHANGED <<radios, focus>>
       ELSE /\ tabIndex0' = (tabIndex0 \ {radio}) \cup {next}
            /\ checked' = CheckedWith(next)
            /\ focus' = next
    /\ UNCHANGED <<field, relay, scrollTop>>

IsText == target \in Are({"text"})

Clicks ==
    \/ key.name = "enter" /\ ~ IsText
    \/ key.name = "space" /\ target \in Are({"select", "button", "checkbox"})

dispatchClick ==
    /\ Default /\ Clicks
    /\ checked' = IF attached /\ target # Body THEN Clicked(target) ELSE checked
    /\ UNCHANGED <<tabIndex0, field, focus, relay, scrollTop>>

\* The field the key went to is edited, even if the listeners moved the focus,
\* took the field out or detached the relay.
Edits == IsText /\ ~ UsesAccesskey /\ (IsReadline(key) \/ IsCharacter(key) \/ key.name = "backspace")

Edit ==
    /\ Default /\ Edits
    /\ field' = [field EXCEPT ![target] =
           IF IsReadline(key) THEN Readline(key, @)
           ELSE IF IsCharacter(key) THEN Inserted(key, @) ELSE Backspaced(@)]
    /\ Len(field'[target].value) <= MaxLength
    /\ UNCHANGED <<radios, focus, relay, scrollTop>>

Ignored ==
    /\ Default
    /\ ~ ReleasesTrap /\ ~ UsesAccesskey /\ key.name # "tab" /\ ~ MovesRadio /\ ~ Clicks /\ ~ Edits
    /\ UNCHANGED <<radios, field, focus, relay, scrollTop>>

-----------------------------------------------------------------------------
(* Scripts of the page, and its user's mouse wheel. *)

FocusElement(e) ==
    /\ Script /\ Connected(e) /\ focus' = e
    /\ UNCHANGED <<document, radios, field, relay, scrollTop>>

RemoveElement(e) ==
    /\ Script /\ Connected(e)
    /\ removed' = removed \cup {e}
    /\ focus' = IF e \in Above[focus] THEN Body ELSE focus
    /\ UNCHANGED <<hidden, disabled, radios, field, relay, scrollTop>>

HideElement(e) ==
    /\ Script /\ hidden' = hidden \cup {e}
    /\ UNCHANGED <<removed, disabled, radios, field, focus, relay, scrollTop>>

DisableElement(e) ==
    /\ Script /\ disabled' = disabled \cup {e}
    /\ UNCHANGED <<removed, hidden, radios, field, focus, relay, scrollTop>>

SelectText(e) ==
    /\ Script /\ field[e].selects
    /\ \E range \in {r \in (0..Len(field[e].value)) \X (0..Len(field[e].value)) : r[1] <= r[2]} :
           field' = [field EXCEPT ![e].start = range[1], ![e].end = range[2]]
    /\ UNCHANGED <<document, radios, focus, relay, scrollTop>>

Scroll(e) ==
    /\ Script /\ scrolling
    /\ scrollTop' = Top[e]
    /\ UNCHANGED <<document, radios, field, focus, relay>>

-----------------------------------------------------------------------------
Next ==
    \/ Attach \/ Detach \/ DeactivateFocusTrap \/ SetScrollContainer
    \/ Keypress \/ Prevented \/ ReleaseTrap \/ handleAccesskey \/ moveFocus
    \/ moveRadioFocus \/ dispatchClick \/ Edit \/ Ignored
    \/ \E e \in Are({"container"}) : ActivateFocusTrap(e) \/ RemoveElement(e) \/ HideElement(e)
    \/ \E e \in Elements \ Are({"container"}) :
           FocusElement(e) \/ RemoveElement(e) \/ DisableElement(e) \/ Scroll(e)
    \/ \E e \in Are({"text"}) : SelectText(e)

Spec == Init /\ [][Next]_vars

-----------------------------------------------------------------------------
(* Properties. *)

\* What the variables hold.
TypeOK ==
    /\ page \in Pages
    /\ removed \subseteq Elements /\ hidden \subseteq Elements /\ disabled \subseteq Elements
    /\ checked \subseteq Are({"radio", "checkbox"})
    /\ tabIndex0 \subseteq Are({"radio"})
    /\ DOMAIN field = Are({"text"})
    /\ \A e \in DOMAIN field :
           /\ Len(field[e].value) <= MaxLength
           /\ 0 <= field[e].start /\ field[e].start <= field[e].end
           /\ field[e].end <= Len(field[e].value)
    /\ focus \in {Body} \cup {e \in Elements : Connected(e)}
    /\ attached \in BOOLEAN /\ scrolling \in BOOLEAN
    /\ trap \in {Nothing} \cup Elements
    /\ preTrap \in {Nothing, Body} \cup Elements
    /\ scrollTop \in Nat
    /\ key \in Keys[page] \cup {NoKey} /\ target \in {Body} \cup Elements
    /\ scripts \in 0..MaxScripts

\* getFocusableElements and moveFocus (193, 372): whatever is hidden, disabled,
\* removed or trapped, going on with Tab comes by every stop, wherever it began,
\* and Shift+Tab goes back; a radio group is entered once, at its checked radio if
\* that one can take part.
TabVisitsEverything ==
    LET stops == getFocusableElements
    IN
    /\ \A visited \in SUBSET stops :
           /\ stops # {} => MovedAmong(stops, focus, FALSE) \in visited
           /\ \A e \in visited : MovedAmong(stops, e, FALSE) \in visited
           => visited = stops
    /\ \A e \in stops : MovedAmong(stops, MovedAmong(stops, e, FALSE), TRUE) = e
    /\ \A r \in Selected \cap Are({"radio"}) : attached =>
           LET entered == stops \cap InGroup(r)
           IN /\ Cardinality(entered) = 1
              /\ Selected \cap InGroup(r) \cap checked # {} => entered \subseteq checked

\* .specs/tui-dom/requirements.md 33 and .specs/opentui-base/requirements.md 447:
\* Tab stays in the trap's container while that is in the document, and never
\* stops at what is hidden or disabled.  What it stops at can be seen if it has a
\* box, at most MaxDepth boxes down, that fits into the viewport; the code misplaces
\* what is deeper (448) and does not look for what has no box (424).
TabLandsInSight ==
    [][(key.name = "tab" /\ key' = NoKey /\ focus' # focus) =>
          /\ focus' \in Elements \ disabled /\ isElementVisible(focus')
          /\ trap # Nothing => focus' \in Below(trap)
          /\ (scrolling /\ page[focus'].drawn /\ Depth[focus'] <= MaxDepth
                  /\ page[focus'].rows <= Height /\ Height > 0) =>
                 (scrollTop' <= Top[focus'] /\ Top[focus'] + page[focus'].rows <= scrollTop' + Height)]_vars

\* Text before the cursor of a field, text behind it, and how much of that is selected.
Line(f) ==
    LET range == getSelectionPosition(f)
    IN [before |-> Slice(f.value, 0, range[1]),
        after |-> Slice(f.value, range[1], Len(f.value)),
        marked |-> range[2] - range[1]]

\* handleKeypress 912-1046: a text field is a line editor with readline keys
\* (LineEditor); one without a selection is such a line as far as its text goes.
EditsLikeALine ==
    [][\A e \in DOMAIN field :
          (key # NoKey /\ key' = NoKey /\ field'[e] # field[e]
              /\ (field[e].selects \/ field'[e].value # field[e].value)) =>
          LET line == Line(field[e])
              next == Line(field'[e])
          IN \/ "ctrl" \in key.mods /\ Control(key.name, line, next)
             \/ WithAlt(key) /\ Alternate(key.name, line, next)
             \/ IsCharacter(key) /\ ~ IsReadline(key) /\ Type(charToInsert(key), line, next)
             \/ key.name = "backspace" /\ Backspace(line, next)]_vars
=============================================================================
