------------------------------- MODULE Styles -------------------------------
(***************************************************************************)
(* From the classes and attributes of an element to the style of a box:    *)
(* tailwindToTui (tailwind-mapper.ts) and createStyleBridge                *)
(* (style-bridge.ts) of opentui-dom.                                       *)
(*                                                                         *)
(* A class is [variant, parts]: its prefix ("md", "hover", "dark", or ""   *)
(* for none) and what its dashes separate, so border-red-500 is <<"border", *)
(* "red", "500">>.  A colour is the name it has in the tables, for the hex *)
(* code there; a number is in tenths.  Of the tables of words one row of   *)
(* each shape is kept.  The names every JavaScript object has, such as     *)
(* constructor, are no classes here.                                       *)
(***************************************************************************)
EXTENDS Integers, SequencesExt

Tenths(tenths) == <<"number", tenths>>
Percent(n) == <<"percent", n>>
Flag(b) == <<IF b THEN "TRUE" ELSE "FALSE">>

All(props, value) == [p \in props |-> value]

\* Object.assign
Assign(styles, more) == more @@ styles

-----------------------------------------------------------------------------
(* Values. *)

\* parseFloat
parseFloat ==
    "0" :> 0 @@ "0.5" :> 5 @@ "1" :> 10 @@ "1.5" :> 15 @@ "2" :> 20 @@ "2xl" :> 20 @@ "2.5" :> 25
    @@ "3" :> 30 @@ "3.5" :> 35 @@ "4" :> 40 @@ "5" :> 50 @@ "6" :> 60 @@ "7" :> 70 @@ "8" :> 80
    @@ "9" :> 90 @@ "10" :> 100 @@ "11" :> 110 @@ "12" :> 120 @@ "14" :> 140 @@ "16" :> 160
    @@ "20" :> 200 @@ "36" :> 360 @@ "50" :> 500 @@ "60" :> 600 @@ "72" :> 720 @@ "96" :> 960
    @@ "50%" :> 500

spacingScale ==
    [v \in {"0", "0.5", "1", "1.5", "px"} |-> 0] @@ [v \in {"2", "2.5", "3", "3.5", "4", "5"} |-> 1]
    @@ [v \in {"6", "7", "8", "9"} |-> 2] @@ [v \in {"10", "11", "12"} |-> 3] @@ [v \in {"14", "16"} |-> 4]
    @@ "20" :> 5 @@ "36" :> 9 @@ "60" :> 15 @@ "72" :> 18 @@ "96" :> 24

fractionToPercent ==
    [v \in {"full", "screen"} |-> Percent(100)] @@ [v \in {"min", "max", "fit"} |-> <<"auto">>]
    @@ "1/2" :> Percent(50) @@ "1/3" :> Percent(33) @@ "2/3" :> Percent(67) @@ "11/12" :> Percent(92)

Hues == {"slate", "gray", "zinc", "red", "orange", "yellow", "green", "blue", "purple", "pink", "cyan"}
Shades == {"50", "100", "200", "300", "400", "500", "600", "700", "800", "900", "950"}

colorPalette == {<<h, s>> : h \in Hues, s \in Shades}
simpleColors == {<<"white">>, <<"black">>, <<"transparent">>, <<"inherit">>, <<"current">>}
terminalColors == {<<c>> : c \in {"red", "green", "blue", "yellow", "cyan", "magenta", "gray", "grey"}}

\* What the functions below find: at most one value.

parseSpacing(rest) ==
    IF Len(rest) = 1 /\ rest[1] \in DOMAIN spacingScale
    THEN {Tenths(10 * spacingScale[rest[1]])} ELSE {}

parseColor(rest) == {rest} \cap (simpleColors \cup colorPalette \cup terminalColors)

\* Math.round of a fourth, a half rounded up.
Fourth(tenths) == Tenths(10 * ((tenths + 20) \div 40))

parseSizeValue(rest) ==
    IF Len(rest) # 1 THEN {}
    ELSE IF rest[1] = "auto" THEN {rest}
    ELSE IF rest[1] \in DOMAIN fractionToPercent THEN {fractionToPercent[rest[1]]}
    ELSE IF rest[1] \in DOMAIN parseFloat THEN {Fourth(parseFloat[rest[1]])} ELSE {}

Digits(rest, unit) ==
    IF Len(rest) = 1 /\ rest[1] \in DOMAIN parseFloat \ {"0.5", "1.5", "2.5", "3.5", "2xl", "50%"}
    THEN {Tenths(parseFloat[rest[1]] \div unit)} ELSE {}

parse(kind, rest) ==
    CASE kind = "spacing" -> parseSpacing(rest)
      [] kind = "place" -> parseSpacing(rest) \cup ({rest} \cap {<<"auto">>})
      [] kind = "size" -> parseSizeValue(rest)
      [] kind = "color" -> parseColor(rest)
      [] kind = "opacity" -> Digits(rest, 100)
      [] kind = "digits" -> Digits(rest, 1)
      [] OTHER -> {<<kind>>}

-----------------------------------------------------------------------------
(* tailwind-mapper.ts *)

classMappers ==
    <<"flex">> :> <<>>
    @@ <<"flex", "row">> :> All({"flexDirection"}, <<"row">>)
    @@ <<"flex", "col", "reverse">> :> All({"flexDirection"}, <<"column-reverse">>)
    @@ <<"flex", "1">> :> (All({"flexGrow", "flexShrink"}, Tenths(10)) @@ All({"flexBasis"}, Tenths(0)))
    @@ <<"flex", "none">> :> (All({"flexGrow", "flexShrink"}, Tenths(0)) @@ All({"flexBasis"}, <<"auto">>))
    @@ <<"grow">> :> All({"flexGrow"}, Tenths(10))
    @@ <<"shrink", "0">> :> All({"flexShrink"}, Tenths(0))
    @@ <<"items", "center">> :> All({"alignItems"}, <<"center">>)
    @@ <<"font", "bold">> :> All({"bold"}, Flag(TRUE))
    @@ <<"font", "normal">> :> All({"bold"}, Flag(FALSE))
    @@ <<"border">> :> (All({"border"}, Flag(TRUE)) @@ All({"borderStyle"}, <<"single">>))
    @@ <<"border", "0">> :> All({"border"}, Flag(FALSE))
    @@ <<"border", "2">> :> (All({"border"}, Flag(TRUE)) @@ All({"borderStyle"}, <<"double">>))
    @@ <<"border", "t">> :> All({"border"}, <<"top">>)
    @@ <<"rounded">> :> All({"borderStyle"}, <<"rounded">>)
    @@ <<"hidden">> :> All({"visible"}, Flag(FALSE))
    @@ <<"overflow", "auto">> :> All({"overflow"}, <<"scroll">>)
    @@ <<"absolute">> :> All({"position"}, <<"absolute">>)
    @@ <<"inset", "0">> :> All({"top", "right", "bottom", "left"}, Tenths(0))

\* ^head-(.+)$ of the given kind gives props; without a kind, head is the class.
Row(head, kind, props) == [head |-> head, kind |-> kind, props |-> props]

\* Paddings, margins and gaps.
spacePatterns == <<
    Row(<<"p">>, "spacing", {"padding"}),
    Row(<<"px">>, "spacing", {"paddingLeft", "paddingRight"}),
    Row(<<"py">>, "spacing", {"paddingTop", "paddingBottom"}),
    Row(<<"pt">>, "spacing", {"paddingTop"}), Row(<<"pr">>, "spacing", {"paddingRight"}),
    Row(<<"pb">>, "spacing", {"paddingBottom"}), Row(<<"pl">>, "spacing", {"paddingLeft"}),
    Row(<<"m", "auto">>, "auto", {"margin"}),
    Row(<<"mx", "auto">>, "auto", {"marginLeft", "marginRight"}),
    Row(<<"my", "auto">>, "auto", {"marginTop", "marginBottom"}),
    Row(<<"m">>, "spacing", {"margin"}),
    Row(<<"mx">>, "spacing", {"marginLeft", "marginRight"}),
    Row(<<"my">>, "spacing", {"marginTop", "marginBottom"}),
    Row(<<"mt">>, "spacing", {"marginTop"}), Row(<<"mr">>, "spacing", {"marginRight"}),
    Row(<<"mb">>, "spacing", {"marginBottom"}), Row(<<"ml">>, "spacing", {"marginLeft"}),
    Row(<<"gap", "x">>, "spacing", {"columnGap"}), Row(<<"gap", "y">>, "spacing", {"rowGap"}),
    Row(<<"gap">>, "spacing", {"gap"}) >>

\* Sizes, colours and places.
valuePatterns == <<
    Row(<<"w">>, "size", {"width"}), Row(<<"min", "w">>, "size", {"minWidth"}),
    Row(<<"max", "w">>, "size", {"maxWidth"}), Row(<<"h">>, "size", {"height"}),
    Row(<<"min", "h">>, "size", {"minHeight"}), Row(<<"max", "h">>, "size", {"maxHeight"}),
    Row(<<"bg">>, "color", {"backgroundColor", "bg"}), Row(<<"text">>, "color", {"fg"}),
    Row(<<"border">>, "color", {"borderColor"}),
    Row(<<"opacity">>, "opacity", {"opacity"}), Row(<<"z">>, "digits", {"zIndex"}),
    Row(<<"top">>, "place", {"top"}), Row(<<"right">>, "place", {"right"}),
    Row(<<"bottom">>, "place", {"bottom"}), Row(<<"left">>, "place", {"left"}) >>

patternMappers == spacePatterns \o valuePatterns

Matches(row, parts) ==
    IF row.kind = "auto" THEN parts = row.head
    ELSE IsStrictPrefix(row.head, parts)

\* The first pattern that matches decides, even if it finds no value.
mapSingleClass(parts) ==
    LET matching == SelectSeq(patternMappers, LAMBDA row : Matches(row, parts))
    IN  IF parts \in DOMAIN classMappers THEN {classMappers[parts]}
        ELSE IF matching = <<>> THEN {}
        ELSE {All(matching[1].props, v) :
                 v \in parse(matching[1].kind, SubSeq(parts, Len(matching[1].head) + 1, Len(parts)))}

\* Mutant: what an earlier class gave stays.
tailwindToTuiFirst(classes) ==
    LET step(result, cls) ==
            LET mapped == IF cls.variant = "" THEN mapSingleClass(cls.parts) ELSE {}
            IN  IF mapped = {} THEN [result EXCEPT !.unmapped = Append(@, cls)]
                ELSE [result EXCEPT !.styles = @ @@ CHOOSE s \in mapped : TRUE]
    IN  FoldLeft(step, [styles |-> <<>>, unmapped |-> <<>>], classes)

\* The style of the classes and those that give none.
tailwindToTui(classes) ==
    LET step(result, cls) ==
            LET mapped == IF cls.variant = "" THEN mapSingleClass(cls.parts) ELSE {}
            IN  IF mapped = {} THEN [result EXCEPT !.unmapped = Append(@, cls)]
                ELSE [result EXCEPT !.styles = Assign(@, CHOOSE s \in mapped : TRUE)]
    IN  FoldLeft(step, [styles |-> <<>>, unmapped |-> <<>>], classes)
-----------------------------------------------------------------------------
(* style-bridge.ts *)

Foreground(base) == <<base, "foreground">>

CSS_VAR_DEFAULTS ==
    [v \in {<<"background">>, <<"card">>, <<"popover">>} |-> <<"zinc", "950">>]
    @@ [v \in {<<"foreground">>, <<"primary">>} \cup
              {Foreground(b) : b \in {"card", "popover", "secondary", "accent", "destructive"}} |-> <<"zinc", "50">>]
    @@ Foreground("primary") :> <<"zinc", "900">>
    @@ [v \in {<<"secondary">>, <<"muted">>, <<"accent">>, <<"border">>, <<"input">>} |-> <<"zinc", "800">>]
    @@ Foreground("muted") :> <<"zinc", "400">>
    @@ <<"destructive">> :> <<"red", "900">>
    @@ <<"ring">> :> <<"zinc", "300">>

Themed == {"background", "foreground", "card", "popover", "primary", "secondary",
           "muted", "accent", "destructive"}
ThemedBorders == Themed \cup {"border", "input", "ring"}

mapThemeClass(cls, cssVarMap) ==
    LET var == Tail(cls.parts)
        isVariable(bases) ==
            /\ var # <<>> /\ var[1] \in bases
            /\ Tail(var) \in {<<>>, <<"foreground">>}
            /\ var \in DOMAIN cssVarMap
    IN  IF cls.variant # "" THEN {}
        ELSE IF cls.parts[1] = "bg" /\ isVariable(Themed)
        THEN {All({"bg", "backgroundColor"}, cssVarMap[var])}
        ELSE IF cls.parts[1] = "text" /\ isVariable(Themed) THEN {All({"fg"}, cssVarMap[var])}
        ELSE IF cls.parts[1] = "border" /\ isVariable(ThemedBorders)
        THEN {All({"borderColor"}, cssVarMap[var])} ELSE {}

\* What a property written as data-tui-... accepts.  The writings of a name
\* (padding-top, paddingTop, which a page makes paddingtop) are one here.
Enums == "borderStyle" :> {"single", "double", "rounded", "heavy"}
         @@ "flexDirection" :> {"row", "column", "row-reverse", "column-reverse"}
         @@ "flexWrap" :> {"no-wrap", "wrap", "wrap-reverse"}
         @@ "alignItems" :> {"auto", "flex-start", "center", "flex-end", "stretch", "baseline"}
         @@ "position" :> {"static", "relative", "absolute"}
         @@ "overflow" :> {"visible", "hidden", "scroll"}
Numeric == {"padding", "paddingTop", "margin", "gap", "rowGap", "width", "minWidth",
            "top", "left", "flexGrow", "opacity"}
Booleans == {"border", "bold", "italic", "underline", "dim"}

\* The value of an attribute is a word, a number, or for a colour a reference
\* [var, fallback] to a variable; the style is given as far as it is one.
dataStyle(attr) ==
    CASE attr.name \in {"bg", "backgroundColor"} -> {All({"bg", "backgroundColor"}, attr.value)}
      [] attr.name \in {"fg", "borderColor"} -> {All({attr.name}, attr.value)}
      [] attr.name \in Booleans -> {All({attr.name}, Flag(attr.value = <<"true">>))}
      [] attr.name = "visible" -> {All({attr.name}, Flag(attr.value # <<"false">>))}
      [] attr.name \in Numeric ->
            IF attr.value[1] \in DOMAIN parseFloat THEN {All({attr.name}, Tenths(parseFloat[attr.value[1]]))}
            ELSE IF attr.value = <<"auto">> THEN {All({attr.name}, attr.value)} ELSE {}
      [] attr.name \in DOMAIN Enums ->
            IF attr.value[1] \in Enums[attr.name] THEN {All({attr.name}, attr.value)} ELSE {}
      [] OTHER -> {}

\* Object.assign of a list of what was given, if anything.
Merged(given) ==
    LET Step(styles, s) == IF s = {} THEN styles ELSE Assign(styles, CHOOSE t \in s : TRUE)
    IN  FoldLeft(Step, <<>>, given)

getDataAttributes(attrs) == Merged([i \in DOMAIN attrs |-> dataStyle(attrs[i])])

\* A reference is its variable's value, or its fallback, or stays when both
\* give nothing.
resolveCssVars(value, cssVarMap) ==
    IF Len(value) # 3 \/ value[1] # "var" THEN value
    ELSE IF value[2] \in DOMAIN cssVarMap THEN cssVarMap[value[2]]
    ELSE IF value[3] # <<>> THEN value[3] ELSE value

Colors == {"fg", "bg", "backgroundColor", "borderColor"}

getStyleProps(element, cssVarMap) ==
    LET tailwind == tailwindToTui(element.classes)
        theme == Merged([i \in DOMAIN tailwind.unmapped |->
                             mapThemeClass(tailwind.unmapped[i], cssVarMap)])
        combined == Assign(Assign(tailwind.styles, theme), getDataAttributes(element.attrs))
    IN  [p \in DOMAIN combined |->
            IF p \in Colors THEN resolveCssVars(combined[p], cssVarMap) ELSE combined[p]]

\* Only what the element gives now is assigned.
applyStyles(element, target, cssVarMap) == Assign(target, getStyleProps(element, cssVarMap))
-----------------------------------------------------------------------------
(* Properties. *)

\* tailwind-mapper.ts 452-722: a class that some table can read is read, whatever
\* other pattern it looks like ("more specific patterns first", 562).
NoClassIsLost(cls) ==
    LET readable == \/ cls.parts \in DOMAIN classMappers
                    \/ \E i \in DOMAIN patternMappers :
                          LET row == patternMappers[i]
                              rest == SubSeq(cls.parts, Len(row.head) + 1, Len(cls.parts))
                          IN  Matches(row, cls.parts) /\ parse(row.kind, rest) # {}
    IN  (cls \in Range(tailwindToTui(<<cls>>).unmapped)) <=> (cls.variant # "" \/ ~ readable)

\* tailwind-mapper.ts 93-129 and 353-364: a space and a size of the same number are
\* as many cells.
SpacesAreSizes ==
    \A v \in DOMAIN spacingScale \ {"px"} : parseSpacing(<<v>>) = parseSizeValue(<<v>>)

\* What each property of a style comes from: see LayersCascade.
Cascades(element, cssVarMap, props) ==
    LET utility == SelectSeq(element.classes, LAMBDA cls : cls.variant = "" /\ mapSingleClass(cls.parts) # {})
        themed == SelectSeq(element.classes, LAMBDA cls : cls \notin Range(utility))
        one(p, styles) == {s[p] : s \in {t \in styles : p \in DOMAIN t}}
        given(p) == [i \in DOMAIN utility |-> one(p, mapSingleClass(utility[i].parts))]
                    \o [i \in DOMAIN themed |-> one(p, mapThemeClass(themed[i], cssVarMap))]
                    \o [i \in DOMAIN element.attrs |-> one(p, dataStyle(element.attrs[i]))]
        agrees(p, values) ==
            /\ p \in DOMAIN props <=> values # <<>>
            /\ values # <<>> => \A v \in values[Len(values)] :
                  props[p] = IF p \in Colors THEN resolveCssVars(v, cssVarMap) ELSE v
    IN  \A p \in DOMAIN props \cup Colors \cup {"padding", "border", "borderStyle", "width", "flexGrow"} :
            agrees(p, SelectSeq(given(p), LAMBDA values : values # {}))

\* style-bridge.ts 376-419: a property is what the last utility class that gives it
\* says, over that the last theme class, and over that the last attribute; and the
\* two names of the background always agree.
LayersCascade(element, cssVarMap) ==
    LET props == getStyleProps(element, cssVarMap)
    IN  /\ Cascades(element, cssVarMap, props)
        /\ "bg" \in DOMAIN props <=> "backgroundColor" \in DOMAIN props
        /\ "bg" \in DOMAIN props => props["bg"] = props["backgroundColor"]
=============================================================================
