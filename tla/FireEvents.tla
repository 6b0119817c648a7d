----------------------------- MODULE FireEvents -----------------------------
(***************************************************************************)
(* fireEvent of packages/opentui-dom-testing-library (events.ts): keys,    *)
(* clicks, typed text and tabs of a test, as events on a page.             *)
(*                                                                         *)
(* A page is [elements, active, log]: elements in document order, records  *)
(* [tag, href, disabled, tabindex, value], tabindex "" without the         *)
(* attribute; the focused element, 0 for the body; the events dispatched   *)
(* so far.  Text is a sequence of characters, of which the name of a key   *)
(* is one.  Listeners of the page change nothing.                          *)
(***************************************************************************)
EXTENDS Integers, SequencesExt

Lowered(char) == IF char = "Enter" THEN "enter" ELSE IF char = "BACKSPACE" THEN "backspace" ELSE char

KEY_CODES == [k \in {"Enter", "Tab", "Escape", "Backspace"} |-> k]
             @@ " " :> "Space" @@ "a" :> "KeyA" @@ "A" :> "KeyA" @@ "7" :> "Digit7"
keyToCode(key) == IF key \in DOMAIN KEY_CODES THEN KEY_CODES[key] ELSE key

SPECIAL_KEYS == "enter" :> "Enter" @@ "backspace" :> "Backspace" @@ "tab" :> "Tab" @@ "space" :> " "

Event(type, target, key, mods) ==
    [type |-> type, target |-> target, key |-> key, code |-> keyToCode(key), mods |-> mods]
Dispatched(page, event) == [page EXCEPT !.log = Append(@, event)]

keyDown(page, e, key, mods) == Dispatched(page, Event("keydown", e, key, mods))
keyUp(page, e, key, mods) == Dispatched(page, Event("keyup", e, key, mods))
keyPress(page, e, key, mods) == keyUp(keyDown(page, e, key, mods), e, key, mods)

click(page, e) == Dispatched(keyPress(page, e, "Enter", {}), Event("click", e, "", {}))

-----------------------------------------------------------------------------
(* type, called typeText here, and change *)

isInputElement(element) == element.tag \in {"INPUT", "TEXTAREA", "BUTTON", "SELECT"}

Valued(page, e, value, inputType) ==
    IF ~ isInputElement(page.elements[e]) THEN page
    ELSE Dispatched([page EXCEPT !.elements[e].value = value], Event("input", e, inputType, {}))

\* The text as keys: a name in braces that is known, or the character.
Ends(text, i) == {j \in i..Len(text) : text[j] = "}"}
Braced(text, i) ==
    IF text[i] # "{" \/ Ends(text, i) = {} THEN <<>>
    ELSE SubSeq(text, i + 1, (CHOOSE j \in Ends(text, i) : \A k \in Ends(text, i) : j <= k) - 1)
Special(text, i) == Len(Braced(text, i)) = 1 /\ Lowered(Braced(text, i)[1]) \in DOMAIN SPECIAL_KEYS

Keys(text) ==
    LET from[i \in 1..(Len(text) + 1)] ==
            IF i > Len(text) THEN <<>>
            ELSE IF Special(text, i)
            THEN <<[special |-> TRUE, key |-> SPECIAL_KEYS[Lowered(text[i + 1])]]>> \o from[i + 3]
            ELSE <<[special |-> FALSE, key |-> text[i]]>> \o from[i + 1]
    IN  from[1]

typeText(page, e, text) ==
    LET typed(p, k) ==
            LET value == p.elements[e].value
            IN  IF k.special /\ k.key # "Backspace" THEN keyPress(p, e, k.key, {})
                ELSE IF k.special
                THEN keyUp(Valued(keyDown(p, e, k.key, {}), e, IF value = <<>> THEN value ELSE Front(value),
                                  "deleteContentBackward"), e, k.key, {})
                ELSE keyUp(Valued(keyDown(p, e, k.key, {}), e, Append(value, k.key), "insertText"), e, k.key, {})
    IN  FoldLeft(typed, page, Keys(text))

change(page, e, value) ==
    IF ~ isInputElement(page.elements[e]) THEN page
    ELSE Dispatched(Valued(page, e, value, "insertText"), Event("change", e, "", {}))

-----------------------------------------------------------------------------
(* tab *)

\* parseInt(tabindex ?? "0") || 0
Index(element) == IF element.tabindex = "1" THEN 1 ELSE IF element.tabindex = "2" THEN 2
                  ELSE IF element.tabindex = "-2" THEN -2 ELSE 0

FOCUSABLE_SELECTOR(element) ==
    \/ element.tag = "A" /\ element.href
    \/ element.tag \in {"BUTTON", "INPUT", "SELECT", "TEXTAREA"} /\ ~ element.disabled
    \/ element.tabindex # ""

getFocusableElements(page) ==
    LET with(Test(_)) ==
            SelectSeq([e \in DOMAIN page.elements |-> e],
                      LAMBDA e : /\ FOCUSABLE_SELECTOR(page.elements[e])
                                 /\ page.elements[e].tabindex # "-1"
                                 /\ Test(Index(page.elements[e])))
    IN  with(LAMBDA i : i = 1) \o with(LAMBDA i : i = 2) \o with(LAMBDA i : i <= 0)

\* Mutant: the first element is not followed by the last.
NextIndexUnwrapped(stops, at, shift) ==
    IF at = 0 THEN (IF shift THEN Len(stops) ELSE 1)
    ELSE IF shift THEN (IF at = 1 THEN 1 ELSE at - 1) ELSE (IF at = Len(stops) THEN 1 ELSE at + 1)

\* at is 0 for an element that is no stop.
NextIndex(stops, at, shift) ==
    IF at = 0 THEN (IF shift THEN Len(stops) ELSE 1)
    ELSE IF shift THEN (IF at = 1 THEN Len(stops) ELSE at - 1) ELSE (IF at = Len(stops) THEN 1 ELSE at + 1)

focus(page, e) == [page EXCEPT !.active = e]

tab(page, shift) ==
    LET pressed == keyPress(page, page.active, "Tab", IF shift THEN {"shift"} ELSE {})
        stops == getFocusableElements(page)
        at == SelectInSeq(stops, LAMBDA e : e = page.active)
    IN  IF stops = <<>> THEN pressed ELSE focus(pressed, stops[NextIndex(stops, at, shift)])

-----------------------------------------------------------------------------
(* Properties. *)

\* events.ts 313-368: a text is typed as the characters that are not part of a
\* known name in braces, each known name as one key and nothing else; every key
\* goes down, edits the value at most once, and comes up, in order.
TextIsTyped(page, e, text) ==
    LET after == typeText(page, e, text)
        names == {i \in DOMAIN text : /\ text[i] = "{" /\ i + 2 <= Len(text) /\ text[i + 2] = "}"
                                      /\ Lowered(text[i + 1]) \in DOMAIN SPECIAL_KEYS}
        shown == [i \in DOMAIN text |->
                     IF i \in names THEN <<SPECIAL_KEYS[Lowered(text[i + 1])]>>
                     ELSE IF i - 1 \in names \/ i - 2 \in names THEN <<>> ELSE <<text[i]>>]
        edit(value, i) == IF i \in names
                          THEN IF shown[i] = <<"Backspace">> /\ value # <<>> THEN Front(value) ELSE value
                          ELSE value \o shown[i]
        of(name) == SelectSeq(after.log, LAMBDA event : event.type = name)
        keysOf(events) == [i \in DOMAIN events |-> events[i].key]
    IN  /\ keysOf(of("keydown")) = FlattenSeq(shown)
        /\ keysOf(of("keyup")) = FlattenSeq(shown)
        /\ after.elements[e].value =
               IF isInputElement(page.elements[e])
               THEN FoldLeft(edit, page.elements[e].value, [i \in DOMAIN text |-> i])
               ELSE page.elements[e].value
        /\ \A i \in DOMAIN after.log : after.log[i].type = "input" =>
               /\ i > 1 /\ after.log[i - 1].type = "keydown"
               /\ i < Len(after.log) /\ after.log[i + 1].type = "keyup"
               /\ after.log[i - 1].key = after.log[i + 1].key
        /\ after.active = page.active

\* events.ts 212-458: acts of a test on several elements do not get mixed up: an
\* element has what was set last and typed after that, a key comes up before the
\* next goes down, a change follows the input of its own value.
ActsKeepApart(page, acts) ==
    LET do(p, act) == CASE act.act = "click" -> click(p, act.on)
                        [] act.act = "change" -> change(p, act.on, act.text)
                        [] act.act = "type" -> typeText(p, act.on, act.text)
        after == FoldLeft(do, page, acts)
        on(e, act) == IF act.on # e \/ act.act = "click" THEN <<>> ELSE <<act>>
        value(old, act) ==
            IF act.act = "change" THEN act.text
            ELSE typeText([page EXCEPT !.elements[act.on].value = old], act.on, act.text).elements[act.on].value
        pair(i, first, second) ==
            after.log[i].type = first =>
                \E j \in (i + 1)..Len(after.log) :
                    /\ after.log[j].type = second /\ after.log[j].target = after.log[i].target
                    /\ second = "keyup" => after.log[j].key = after.log[i].key
                    /\ \A k \in (i + 1)..(j - 1) : after.log[k].type = "input"
    IN  /\ \A e \in DOMAIN page.elements :
               after.elements[e].value =
                   IF ~ isInputElement(page.elements[e]) THEN page.elements[e].value
                   ELSE FoldLeft(value, page.elements[e].value,
                                 FlattenSeq([i \in DOMAIN acts |-> on(e, acts[i])]))
        /\ \A i \in DOMAIN after.log : pair(i, "keydown", "keyup")
        /\ \A i \in DOMAIN after.log : after.log[i].type = "change" =>
               after.log[i - 1].type = "input" /\ after.log[i - 1].target = after.log[i].target
        /\ Len(SelectSeq(after.log, LAMBDA event : event.type = "click")) =
               Len(SelectSeq(acts, LAMBDA act : act.act = "click"))

\* events.ts 60-92 and 373-403: as many tabs as there are stops visit every stop
\* once, those with a positive index first and in its order, and a tab backwards
\* takes each one back.  Passed over are what has the tabindex -1, and what is
\* disabled and has no tabindex; a disabled element with another tabindex is a stop
\* (the selector's last alternative, "[tabindex]", does not look at disabled).
TabGoesRound(page) ==
    LET stops == getFocusableElements(page)
        n == Len(stops)
        round[i \in 0..n] == IF i = 0 THEN page ELSE tab(round[i - 1], FALSE)
        seen == [i \in 1..n |-> round[i].active]
        rank(e) == LET i == Index(page.elements[e]) IN IF i > 0 THEN i ELSE 3
    IN  /\ Range(seen) = {e \in DOMAIN page.elements :
               /\ FOCUSABLE_SELECTOR(page.elements[e]) /\ page.elements[e].tabindex # "-1"}
        /\ page.active \in Range(stops) => round[n].active = page.active
        /\ page.active \notin Range(stops) =>
               \A i, j \in 1..n : i < j =>
                   \/ rank(seen[i]) < rank(seen[j])
                   \/ rank(seen[i]) = rank(seen[j]) /\ seen[i] < seen[j]
        /\ \A i \in 1..n : i > 1 \/ page.active \in Range(stops) =>
               tab(round[i], TRUE).active = round[i - 1].active
=============================================================================
