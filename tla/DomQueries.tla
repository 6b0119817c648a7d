----------------------------- MODULE DomQueries -----------------------------
(***************************************************************************)
(* The queries of opentui-dom-testing-library (queries.ts): elements of a  *)
(* document by text, role, test id and label, and the waits for them.      *)
(*                                                                         *)
(* A document is [up, elements]: its elements in document order, 1 the     *)
(* root, and the parent of each.  An element has a tag, a type, the text   *)
(* before its children, its attributes, and the states that hold of it.    *)
(* A text is a sequence of characters, and a matcher is a text; those that *)
(* are functions or regular expressions are left out.                      *)
(***************************************************************************)
EXTENDS Integers, SequencesExt

Upward(doc) ==
    LET line[e \in DOMAIN doc.elements] == IF e = 1 THEN {1} ELSE {e} \cup line[doc.up[e]]
    IN  line
Under(doc, e) == {d \in DOMAIN doc.elements : e \in Upward(doc)[d]}
Inside(doc, e) == Under(doc, e) \ {e}
InOrder(elements) == SetToSortSeq(elements, <)

Tagged(doc, e, tags) == doc.elements[e].tag \in tags
getAttribute(doc, e, name) ==
    IF name \in DOMAIN doc.elements[e].attrs THEN doc.elements[e].attrs[name] ELSE <<>>
Having(doc, elements, name) == {e \in elements : name \in DOMAIN doc.elements[e].attrs}
With(doc, elements, name, value) == {e \in Having(doc, elements, name) : getAttribute(doc, e, name) = value}
First(elements) == IF elements = {} THEN {} ELSE {CHOOSE e \in elements : \A d \in elements : e <= d}

TextsOf(doc, elements) == FlattenSeq([i \in 1..Cardinality(elements) |-> doc.elements[InOrder(elements)[i]].text])
textContent(doc, e) == TextsOf(doc, Under(doc, e))

-----------------------------------------------------------------------------
(* Matching. *)

normalizer(text) ==
    LET keeps(i) == text[i] # " " \/ /\ i > 1 /\ text[i - 1] # " "
                                      /\ \E j \in i..Len(text) : text[j] # " "
    IN  FlattenSeq([i \in DOMAIN text |-> IF keeps(i) THEN <<text[i]>> ELSE <<>>])

toLowerCase(text) ==
    [i \in DOMAIN text |-> IF text[i] = "A" THEN "a" ELSE IF text[i] = "B" THEN "b" ELSE text[i]]

includes(text, part) == \E i \in 0..(Len(text) - Len(part)) : SubSeq(text, i + 1, i + Len(part)) = part

matches(text, matcher, exact) ==
    IF exact THEN normalizer(text) = normalizer(matcher)
    ELSE includes(toLowerCase(normalizer(text)), toLowerCase(normalizer(matcher)))

-----------------------------------------------------------------------------
(* By text. *)

IGNORED_TAGS == {"SCRIPT", "STYLE"}
Ignored(doc) == {e \in DOMAIN doc.elements : Tagged(doc, e, IGNORED_TAGS)}

getTextContent(doc, e) ==
    TextsOf(doc, {d \in Under(doc, e) : Upward(doc)[d] \cap Inside(doc, e) \cap Ignored(doc) = {}} \ Ignored(doc))

hasDirectTextContent(doc, e) == normalizer(doc.elements[e].text) # <<>> \/ Inside(doc, e) = {}

queryAllByText(doc, container, matcher, exact) ==
    InOrder({e \in Under(doc, container) :
                /\ Upward(doc)[e] \cap Under(doc, container) \cap Ignored(doc) = {}
                /\ hasDirectTextContent(doc, e)
                /\ getTextContent(doc, e) # <<>>
                /\ matches(getTextContent(doc, e), matcher, exact)})

-----------------------------------------------------------------------------
(* By role. *)

IMPLICIT_ROLES ==
    "button" :> {<<"BUTTON", "">>, <<"INPUT", "button">>, <<"INPUT", "submit">>}
    @@ "checkbox" :> {<<"INPUT", "checkbox">>}
    @@ "radio" :> {<<"INPUT", "radio">>}
    @@ "textbox" :> {<<"INPUT", "">>, <<"INPUT", "text">>, <<"INPUT", "email">>, <<"TEXTAREA", "">>}
    @@ "heading" :> {<<h, "">> : h \in {"H1", "H2", "H3", "H4", "H5", "H6"}}
    @@ "listitem" :> {<<"LI", "">>} @@ "list" :> {<<"UL", "">>, <<"OL", "">>}
    @@ "option" :> {<<"OPTION", "">>} @@ "combobox" :> {<<"SELECT", "">>}
    @@ "navigation" :> {<<"NAV", "">>} @@ "main" :> {<<"MAIN", "">>}

elementMatchesRole(doc, e, role) ==
    \/ getAttribute(doc, e, "role") = <<role>>
    \/ role \in DOMAIN IMPLICIT_ROLES /\ <<doc.elements[e].tag, doc.elements[e].type>> \in IMPLICIT_ROLES[role]

Headings == "H1" :> 1 @@ "H2" :> 2 @@ "H3" :> 3 @@ "H4" :> 4 @@ "H5" :> 5 @@ "H6" :> 6
getHeadingLevel(doc, e) ==
    IF doc.elements[e].tag \in DOMAIN Headings THEN <<Headings[doc.elements[e].tag]>>
    ELSE getAttribute(doc, e, "aria-level")

Fields == {"INPUT", "SELECT", "TEXTAREA"}

\* Mutant: the label is looked for in the field.
nameOfWrapped(doc, e) ==
    LET labels == {l \in Under(doc, e) : Tagged(doc, l, {"LABEL"})}
    IN  IF getAttribute(doc, e, "aria-label") # <<>> THEN getAttribute(doc, e, "aria-label")
        ELSE IF labels # {} THEN textContent(doc, CHOOSE l \in First(labels) : TRUE)
        ELSE textContent(doc, e)

\* The first that there is: aria-label, the element of aria-labelledby, the first
\* label for a field's id, title, the text.
getAccessibleName(doc, e) ==
    LET all == DOMAIN doc.elements
        by == First(With(doc, all, "id", getAttribute(doc, e, "aria-labelledby")))
        labels == {l \in With(doc, all, "for", getAttribute(doc, e, "id")) : Tagged(doc, l, {"LABEL"})}
        label == IF Tagged(doc, e, Fields) /\ getAttribute(doc, e, "id") # <<>> THEN First(labels) ELSE {}
    IN  IF getAttribute(doc, e, "aria-label") # <<>> THEN getAttribute(doc, e, "aria-label")
        ELSE IF getAttribute(doc, e, "aria-labelledby") # <<>> /\ by # {}
        THEN textContent(doc, CHOOSE l \in by : TRUE)
        ELSE IF label # {} THEN textContent(doc, CHOOSE l \in label : TRUE)
        ELSE IF getAttribute(doc, e, "title") # <<>> THEN getAttribute(doc, e, "title")
        ELSE textContent(doc, e)

States == {"checked", "selected", "pressed", "expanded"}

\* A state holds by itself (checked and selected only) or by its aria attribute.
stateOf(doc, e, state) ==
    \/ state \in {"checked", "selected"} /\ state \in doc.elements[e].states
    \/ getAttribute(doc, e, state) = <<"true">>

\* options: what of name, level and the states is asked for.
elementMatchesState(doc, e, options) ==
    /\ \A s \in States \cap DOMAIN options : stateOf(doc, e, s) = options[s]
    /\ "level" \in DOMAIN options => getHeadingLevel(doc, e) = options["level"]

queryAllByRole(doc, container, role, options, exact) ==
    InOrder({e \in Inside(doc, container) :
                /\ elementMatchesRole(doc, e, role)
                /\ elementMatchesState(doc, e, options)
                /\ "name" \in DOMAIN options => matches(getAccessibleName(doc, e), options["name"], exact)})

-----------------------------------------------------------------------------
(* By test id and by label. *)

\* Without the normalizer when the match is exact.
queryAllByTestId(doc, container, testId, exact) ==
    LET having == Having(doc, Inside(doc, container), "data-testid")
        value(e) == getAttribute(doc, e, "data-testid")
    IN  InOrder({e \in having : IF exact THEN value(e) = testId ELSE matches(value(e), testId, FALSE)})

queryAllByLabelText(doc, container, matcher, exact) ==
    LET scope == Inside(doc, container)
        labels == InOrder({l \in scope : Tagged(doc, l, {"LABEL"}) /\ matches(textContent(doc, l), matcher, exact)})
        field(l) == IF getAttribute(doc, l, "for") # <<>>
                    THEN First(With(doc, scope, "id", getAttribute(doc, l, "for")))
                    ELSE First({e \in Inside(doc, l) : Tagged(doc, e, Fields)})
        labelled == FlattenSeq([i \in DOMAIN labels |-> SetToSeq(field(labels[i]))])
        aria == {e \in Having(doc, scope, "aria-label") : matches(getAttribute(doc, e, "aria-label"), matcher, exact)}
    IN  labelled \o InOrder(aria \ Range(labelled))

-----------------------------------------------------------------------------
(* One, all, and the waits for them. *)

Unable == [ok |-> FALSE, error |-> "Unable to find"]
Multiple == [ok |-> FALSE, error |-> "Found multiple"]
Returns(value) == [ok |-> TRUE, value |-> value]

getBy(results) ==
    IF results = <<>> THEN Unable ELSE IF Len(results) > 1 THEN Multiple ELSE Returns(results)
queryBy(results) == IF Len(results) > 1 THEN Multiple ELSE Returns(results)
getAllBy(results) == IF results = <<>> THEN Unable ELSE Returns(results)

\* When the callback is called: at once, and after each timer, which is late by
\* late[k], as long as the time is not over.
LooksAt(interval, late, timeout) ==
    LET at[k \in 0..Len(late)] == IF k = 0 THEN 0 ELSE at[k - 1] + interval + late[k]
    IN  SelectSeq([k \in 1..(Len(late) + 1) |-> at[k - 1]], LAMBDA t : t < timeout)

\* answer[k]: what the callback does at its k-th call.
waitFor(answer) ==
    LET good == {k \in DOMAIN answer : answer[k].ok}
    IN  IF good # {} THEN answer[CHOOSE k \in good : \A j \in good : k <= j]
        ELSE IF answer # <<>> THEN Last(answer) ELSE [ok |-> FALSE, error |-> "Timed out"]

\* The list that a query gives at time t is page[t].
findBy(page, looks) == waitFor([k \in DOMAIN looks |-> getBy(page[looks[k]])])
findAllBy(page, looks) == waitFor([k \in DOMAIN looks |-> getAllBy(page[looks[k]])])

-----------------------------------------------------------------------------
(* Properties. *)

UniqueIds(doc) ==
    \A d, e \in Having(doc, DOMAIN doc.elements, "id") :
        getAttribute(doc, d, "id") = getAttribute(doc, e, "id") => d = e

\* queries.ts 99-131 and the selectors of the others: what a part of a document
\* answers is what the whole answers of that part; a label may lead out of it.
ScopeNarrows(doc, matcher, exact) ==
    \A part \in {e \in DOMAIN doc.elements : Upward(doc)[e] \cap Ignored(doc) = {}} :
        /\ Range(queryAllByText(doc, part, matcher, exact)) =
               Range(queryAllByText(doc, 1, matcher, exact)) \cap Under(doc, part)
        /\ Range(queryAllByTestId(doc, part, matcher, exact)) =
               Range(queryAllByTestId(doc, 1, matcher, exact)) \cap Inside(doc, part)
        /\ UniqueIds(doc) =>
               Range(queryAllByLabelText(doc, part, matcher, exact)) \subseteq
                   Range(queryAllByLabelText(doc, 1, matcher, exact)) \cap Inside(doc, part)

\* queries.ts 40-63: whatever an exact match finds, the other one finds too.
ExactIsStricter(doc, matcher) ==
    /\ Range(queryAllByText(doc, 1, matcher, TRUE)) \subseteq Range(queryAllByText(doc, 1, matcher, FALSE))
    /\ Range(queryAllByTestId(doc, 1, matcher, TRUE)) \subseteq Range(queryAllByTestId(doc, 1, matcher, FALSE))
    /\ Range(queryAllByLabelText(doc, 1, matcher, TRUE)) \subseteq Range(queryAllByLabelText(doc, 1, matcher, FALSE))

\* queries.ts 67-120: what is written in scripts and styles changes no answer.
ScriptsAreUnseen(doc, matcher, exact) ==
    LET silent == [doc EXCEPT !.elements = [e \in DOMAIN @ |->
                       IF Upward(doc)[e] \cap Ignored(doc) # {} THEN [@[e] EXCEPT !.text = <<>>] ELSE @[e]]]
    IN  queryAllByText(doc, 1, matcher, exact) = queryAllByText(silent, 1, matcher, exact)

\* queries.ts 169-193 and 296-330: a field with one label, by its id, is found by
\* that label's text and by its role with that name, or by neither.  (A field
\* inside its label is found by the label only.)
FieldsHaveOneName(doc, matcher, exact) ==
    \A f \in Having(doc, DOMAIN doc.elements, "id"), role \in DOMAIN IMPLICIT_ROLES :
        /\ UniqueIds(doc) /\ Tagged(doc, f, Fields) /\ elementMatchesRole(doc, f, role)
        /\ {"aria-label", "aria-labelledby"} \cap DOMAIN doc.elements[f].attrs = {}
        /\ Cardinality({l \in With(doc, DOMAIN doc.elements, "for", getAttribute(doc, f, "id")) :
                            Tagged(doc, l, {"LABEL"})}) = 1
        /\ \A l \in DOMAIN doc.elements : Tagged(doc, l, {"LABEL"}) => f \notin Inside(doc, l)
        => (f \in Range(queryAllByLabelText(doc, 1, matcher, exact))
            <=> f \in Range(queryAllByRole(doc, 1, role, "name" :> matcher, exact)))

\* queries.ts 212-239: each state divides the elements of a role in two.
StatesDivide(doc) ==
    \A role \in DOMAIN IMPLICIT_ROLES, state \in States :
        LET found(options) == Range(queryAllByRole(doc, 1, role, options, TRUE))
        IN  /\ found(state :> TRUE) \cup found(state :> FALSE) = found(<<>>)
            /\ found(state :> TRUE) \cap found(state :> FALSE) = {}

\* queries.ts 304-327: an element is listed twice only for two of its labels.
ListedTwiceByTwoLabels(doc, matcher, exact) ==
    LET list == queryAllByLabelText(doc, 1, matcher, exact)
    IN  \A i, j \in DOMAIN list : i < j /\ list[i] = list[j] =>
            Cardinality({l \in DOMAIN doc.elements : Tagged(doc, l, {"LABEL"})}) > 1

\* queries.ts 339-408: what one look finds is what a wait returns, and a wait finds
\* what is there for an interval, and a timer's lateness, before its time is over;
\* only a wait that never looks gives no reason of the query's.
WaitsFind(page, interval, late, timeout) ==
    LET looks == LooksAt(interval, late, timeout)
        slack == interval + Max({late[k] : k \in DOMAIN late})
    IN  \A find \in {findBy(page, looks), findAllBy(page, looks)} :
            /\ find.ok => \E t \in DOMAIN page : t < timeout /\ find \in {getBy(page[t]), getAllBy(page[t])}
            /\ (\E from \in DOMAIN page : /\ from + slack < timeout
                                          /\ \A t \in from..(timeout - 1) : getBy(page[t]).ok) => find.ok
            /\ ~ find.ok => (find \in {Unable, Multiple} <=> timeout > 0)
=============================================================================
