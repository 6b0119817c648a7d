---------------------------- MODULE MCFunctions ----------------------------
(***************************************************************************)
(* The functions that keep no state, on every small argument: args is the  *)
(* call that was made, and a property speaks of the calls of its family.   *)
(* And the two libraries whose calls take several steps: a recommendation  *)
(* with others that write the table, and suites that share layers. They    *)
(* share nothing, so that a behaviour is of one of the three.              *)
(***************************************************************************)
EXTENDS GraphExt, Styles, ThemeMap, TerminalScreen, SseCodec, DomQueries, FileStorage, GraphRepos, FireEvents,
        TwoHopClient, SharedLayers

Codex == INSTANCE CodexSession
Slugs == INSTANCE Slug
P == INSTANCE Patterns

VARIABLES
    of,    \* "functions", "client" or "layers"
    args

NoCall == [family |-> "none"]

-----------------------------------------------------------------------------
(* Arguments. *)

Blobs(n) == UNION {[1..k -> {97, 98, NL}] : k \in 0..n}

SetCalls ==
    [family : {"sets"}, right : Blobs(3),
     left : Blobs(4) \cup [1..5 -> {97, NL}] \cup {<<a, NL, b, NL, c>> : a, b, c \in {97, 98}},
     id : {<<97>>, <<97, 97>>, <<98, NL, 97>>}]

Follows == <<102>>
Rows == [src : {<<97>>, <<98>>, <<97, 97>>}, dst : {<<97>>, <<98>>, <<97, 97>>},
         type : {Follows, <<108>>}]

EdgeCalls ==
    [family : {"edges"}, edges : UNION {[1..k -> Rows] : k \in 0..3},
     type : {<<>>, Follows}, set : {<<97>>, <<98, NL, 97>>}]

\* Snapshots: items with their ranks, 0 for an item that is not in one.
Snapshots == [{<<97>>, <<98>>, <<99>>} -> 0..3]

Ranking(old, new) ==
    LET rows == {[serp |-> "old", rank |-> old[item], item |-> item] :
                    item \in {x \in DOMAIN old : old[x] # 0}} \cup
                {[serp |-> "new", rank |-> new[item], item |-> item] :
                    item \in {x \in DOMAIN new : new[x] # 0}}
        Before(a, b) == \/ lessLexicographic(a.item, b.item)
                        \/ a.item = b.item /\ a.serp = "old" /\ b.serp = "new"
    IN  Along(rows, Before)

DiffCalls == [family : {"diff"}, old : Snapshots, new : Snapshots]

\* Classes of every kind, some of them in each other's way, and attributes.
Class(variant, parts) == [variant |-> variant, parts |-> parts]
Classes ==
    {Class("", parts) :
        parts \in {<<"flex">>, <<"flex", "1">>, <<"grow">>, <<"border">>, <<"border", "2">>, <<"border", "t">>,
                   <<"border", "red", "500">>, <<"border", "border">>, <<"rounded">>, <<"p", "4">>, <<"px", "0.5">>,
                   <<"m", "auto">>, <<"m", "2">>, <<"gap", "4">>, <<"gap", "x", "4">>, <<"min", "w", "1/2">>,
                   <<"w", "2xl">>, <<"w", "4">>, <<"top", "auto">>, <<"bg", "red", "500">>, <<"bg", "muted">>,
                   <<"bg", "gray">>, <<"text", "white">>, <<"text", "muted", "foreground">>, <<"text", "border">>,
                   <<"opacity", "50">>}} \cup
    {Class("md", <<"p", "4">>), Class("hover", <<"bg", "muted">>), Class("", <<"bg", "ring">>)}
Attr(name, value) == [name |-> name, value |-> value]
Attrs ==
    {Attr("bg", <<"red", "500">>), Attr("backgroundColor", <<"var", <<"muted">>, <<>>>>),
     Attr("fg", <<"var", <<"chart">>, <<"white">>>>), Attr("borderColor", <<"var", <<"chart">>, <<>>>>),
     Attr("padding", <<"2.5">>), Attr("width", <<"50%">>), Attr("width", <<"wide">>),
     Attr("borderStyle", <<"heavy">>), Attr("borderStyle", <<"dotted">>), Attr("border", <<"yes">>)}

StyleCalls ==
    [family : {"styles"}, classes : SeqOf(Classes, 2), attrs : SeqOf(Attrs, 1)] \cup
    [family : {"styles"}, classes : SeqOf(Classes, 1), attrs : SeqOf(Attrs, 2)]

ColorCalls ==
    [family : {"colors"}, h : {15 * k - 360 : k \in 0..48} \cup {61, 299}, s : {-5, 0, 7, 50, 81, 100, 120},
     l : {-1, 0, 1, 25, 33, 50, 51, 80, 100, 101}]

\* Cells of every kind of colour and flag, with the last character that is
\* written (U+EFFF) and the first that is not; a wide one takes two cells.
Cell(char, width, fg, bg, flags) ==
    [char |-> char, width |-> width, fg |-> fg, bg |-> bg, flags |-> flags]
NarrowCells ==
    {NullCell, Cell(97, 1, Default, Default, {}), Cell(0, 1, Default, Default, {"underline"}),
     Cell(0, 1, Default, <<"palette", 4>>, {}), Cell(61440, 1, <<"palette", 2>>, Default, {"bold"}),
     Cell(97, 1, <<"palette", 1>>, Default, {"bold"}), Cell(98, 1, <<"palette", 9>>, <<"palette", 4>>, {}),
     Cell(98, 1, <<"palette", 200>>, <<"palette", 12>>, {"faint"}), Cell(61439, 1, Default, Default, {"inverse", "italic"}),
     Cell(98, 1, <<"rgb", 1, 5, 38>>, Default, {"bold", "blink"}), Cell(97, 1, Default, <<"rgb", 48, 2, 0>>, {"strikethrough"})}
TwoCells(char, bg) == <<Cell(char, 2, Default, bg, {"underline"}), Cell(0, 0, Default, bg, {"underline"})>>
Wides == {TwoCells(19990, <<"palette", 4>>), TwoCells(128512, Default)}
RowsOf(n) == [1..n -> NarrowCells] \cup (IF n = 2 THEN Wides ELSE {}) \cup
             (IF n = 3 THEN {<<c>> \o w : c \in NarrowCells, w \in Wides} \cup {w \o <<c>> : c \in NarrowCells, w \in Wides}
                       ELSE {})

ScreenCalls ==
    [family : {"screens"}, rows : [1..1 -> RowsOf(4)] \cup [1..2 -> RowsOf(2)] \cup
                                  {<<r, s>> : r \in RowsOf(3), s \in {<<c, NullCell, NullCell>> : c \in NarrowCells}}]

\* Streams of up to three chunks, of events that are whole or not.
EventTexts == SeqOf({Blank, SseLine("data", <<"a">>), SseLine("comment", <<"c">>), SseLine("field", <<"id">>)}, 3) \cup
         {<<SseLine("data", <<"a">>), Blank, SseLine("comment", <<"c">>), Blank, SseLine("data", <<"b">>), Blank>>,
          <<SseLine("data", <<"b">>), Blank, SseLine("data", <<"a">>), Blank>>, <<SseLine("comment", <<"d">>), Blank, SseLine("data", <<"b">>), Blank>>}

StreamCalls ==
    [family : {"streams"}, chunks : [1..2 -> [data : EventTexts, delay_ms : {0, 7, Cap + 1}]] \cup
         [1..3 -> [data : {t \in EventTexts : Len(t) % 2 = 0}, delay_ms : {5}]]]

\* Documents of a root and up to three elements of every kind.
Node(tag, type, text, attrs, states) ==
    [tag |-> tag, type |-> type, text |-> text, attrs |-> attrs, states |-> states]
Roots == {Node("DIV", "", text, <<>>, {}) : text \in {<<>>, <<" ", "b">>}}
Nodes ==
    {Node("DIV", "", <<"a", " ">>, <<>>, {}), Node("DIV", "", <<>>, <<>>, {}), Node("SCRIPT", "", <<"a">>, <<>>, {}),
     Node("LABEL", "", <<" ", "a">>, "for" :> <<"i">>, {}), Node("LABEL", "", <<"a">>, <<>>, {}),
     Node("INPUT", "", <<>>, "id" :> <<"i">>, {}), Node("INPUT", "text", <<>>, "id" :> <<"i">> @@ "aria-label" :> <<"A">>, {}),
     Node("INPUT", "checkbox", <<>>, "id" :> <<"i">> @@ "title" :> <<"b">>, {"checked"}),
     Node("INPUT", "checkbox", <<>>, "checked" :> <<"true">>, {}),
     Node("BUTTON", "", <<"A">>, "aria-labelledby" :> <<"i">> @@ "pressed" :> <<"true">>, {}),
     Node("H2", "", <<"a", " ", " ", "b">>, "data-testid" :> <<"A">>, {}),
     Node("SPAN", "", <<" ">>, "data-testid" :> <<"a", " ">> @@ "role" :> <<"button">>, {})}
Parents(n) == {up \in [1..n -> 1..n] : up[1] = 1 /\ \A e \in 2..n : up[e] < e /\
                   (\A d \in 2..(e - 1) : d > up[e] => up[d] >= up[e])}

DocumentCalls ==
    UNION {[family : {"documents"}, matcher : {<<"a">>, <<"A">>, <<" ", "b">>, <<>>}, exact : BOOLEAN,
            doc : {[up |-> up, elements |-> <<root>> \o nodes] :
                      up \in Parents(n + 1), root \in Roots, nodes \in [1..n -> Nodes]}] : n \in 1..2}
    \cup [family : {"documents"}, matcher : {<<"a">>}, exact : BOOLEAN,
          doc : {[up |-> up, elements |-> <<root>> \o nodes] :
                    up \in Parents(4), root \in {r \in Roots : r.text # <<>>},
                    nodes \in [1..3 -> {node \in Nodes : /\ node.tag \notin {"SCRIPT", "H2"} /\ node.states = {}
                                                     /\ {"aria-label", "aria-labelledby"} \cap DOMAIN node.attrs = {}}]}]

\* Pages that show none, one or two such elements over time.
FindCalls ==
    [family : {"finds"}, page : [0..6 -> {<<>>, <<1>>, <<1, 2>>}], interval : {2}, late : [1..3 -> 0..1], timeout : {0, 1, 5, 6}]

\* Requests that differ in one thing, and writes of texts with images.
Asks(path, search, method, headers, body) ==
    [origin |-> "https://host", path |-> path, search |-> search, method |-> method, headers |-> headers, body |-> body]
Requests ==
    {Asks(<<"v">>, <<>>, "GET", <<>>, <<>>), Asks(<<"v", "">>, <<>>, "get", <<>>, <<>>), Asks(<<"">>, <<>>, "GET", <<>>, <<>>),
     Asks(<<"v">>, <<>>, "GET", <<<<"Authorization", "me">>, <<"COOKIE", "c">>>>, <<>>),
     Asks(<<"v">>, <<<<"q", "1">>, <<"p", "1">>>>, "GET", <<>>, <<>>), Asks(<<"v">>, <<<<"p", "1">>, <<"q", "1">>>>, "GET", <<>>, <<>>),
     Asks(<<"v">>, <<<<"p", "1">>, <<"p", "2">>>>, "GET", <<>>, <<>>), Asks(<<"v">>, <<<<"p", "2">>, <<"p", "1">>>>, "GET", <<>>, <<>>),
     Asks(<<"v">>, <<>>, "POST", <<<<"X-Mode", "1">>, <<"accept", "2">>>>, <<<<"text">>>>),
     Asks(<<"v">>, <<>>, "post", <<<<"Accept", "2">>, <<"accept", "2">>, <<"x-mode", "1">>>>, <<<<"text">>>>),
     Asks(<<"v">>, <<>>, "POST", <<<<"accept", "2">>>>, <<<<"text">>>>), Asks(<<"v">>, <<>>, "POST", <<<<"accept", "2">>>>, <<>>),
     Asks(<<"v">>, <<>>, "POST", <<>>, <<<<"accept", ":", "2">>>>)}
Words == Token("plain", "", <<>>)
Tokens ==
    {Words, Token("tail", "", <<>>), Token("url", "image/png", <<"A", "exact">>), Token("url", "image/png", <<"B", "exact">>),
     Token("url", "audio/x", <<"A", "exact">>), Token("url", "image/png", <<"A", "loose">>),
     Token("ref", "image/png", <<"0001", ".png">>)}
Recordings == {<<>>} \cup [1..1 -> [data : {<<SseLine("data", <<"a">>), Blank>>, <<SseLine("comment", <<"c">>), Blank>>}, delay_ms : {3}]]
Write(request, name, value) == [request |-> request, name |-> name, value |-> value]
SomeRequest == Asks(<<"v">>, <<>>, "GET", <<>>, <<>>)

WriteCalls ==
    [family : {"writes"}, flat : BOOLEAN, request : Requests,
     writes : [1..2 -> {Write(r, name, <<Words>>) : r \in Requests, name \in {"request.json", "response.bin"}}]]
    \cup [family : {"writes"}, flat : BOOLEAN, request : {SomeRequest},
          writes : SeqOf({Write(SomeRequest, name, value) : name \in Sidecars, value \in SeqOf(Tokens, 2)}, 2)
                   \cup [1..3 -> {Write(SomeRequest, name, value) : name \in Sidecars, value \in SeqOf(Tokens, 1)}
                                 \cup {Write(SomeRequest, "response.jsonl", value) : value \in Recordings}]]

\* Pages of up to three elements, and texts with names in braces.
Widget(tag, href, disabled, tabindex) ==
    [tag |-> tag, href |-> href, disabled |-> disabled, tabindex |-> tabindex, value |-> <<"a">>]
Widgets ==
    {Widget("A", FALSE, FALSE, ""), Widget("A", TRUE, FALSE, "-1"), Widget("A", TRUE, FALSE, "1"), Widget("BUTTON", FALSE, FALSE, ""),
     Widget("BUTTON", FALSE, TRUE, ""), Widget("INPUT", FALSE, TRUE, "0"), Widget("INPUT", FALSE, FALSE, "2"),
     Widget("INPUT", FALSE, FALSE, "x"), Widget("DIV", FALSE, FALSE, "1"), Widget("DIV", FALSE, FALSE, "-2")}
Page(elements, active) == [elements |-> elements, active |-> active, log |-> <<>>]
TabCalls == [family : {"tabs"}, page : UNION {{Page(elements, active) : elements \in [1..n -> Widgets], active \in 0..n} : n \in 0..3}]
TypeCalls ==
    [family : {"types"}, page : {Page(<<w>>, 0) : w \in {Widget("INPUT", FALSE, FALSE, ""), Widget("DIV", FALSE, FALSE, "0")}},
     text : SeqOf({"a", "{", "}", "Enter", "BACKSPACE", "backspace", "7"}, 4)
            \cup {t \in [1..6 -> {"a", "{", "}", "backspace", "name"}] : t[1] = "{"}]

Act(act, on, text) == [act |-> act, on |-> on, text |-> text]
Acts == {Act(act, on, text) : act \in {"type", "change"}, on \in 1..2, text \in {<<>>, <<"7", "{", "backspace", "}">>, <<"{", "enter", "}">>}}
        \cup {Act("click", on, <<>>) : on \in 1..2}
ActCalls ==
    [family : {"acts"}, acts : SeqOf(Acts, 3), page :
        {Page(<<v, w>>, 0) : v \in {Widget("INPUT", FALSE, FALSE, ""), Widget("A", TRUE, FALSE, "")}, w \in {Widget("INPUT", FALSE, FALSE, "")}}]

\* Edges whose texts run into each other, with properties of every kind.
Put(types, props) == [type : types, src : {<<"a">>, <<"a", "a">>}, dst : {<<"a">>, <<"f", NUL>>}, props : props]
EdgePutCalls ==
    [family : {"edge puts"}, puts :
        SeqOf(Put({<<"f">>, <<"f", "a">>}, {"undefined", "function", "null", "since, until", "until, since", "circular"}), 2)
        \cup [1..3 -> Put({<<"f">>, <<"f", "a">>}, {"undefined", "null", "since, until"})]]

\* Kinds of two versions in one table, and kinds that cannot be put.
NodeDef(kind, table, schema, record) ==
    [kind |-> kind, table |-> table, idColumn |-> "id", schema |-> schema, record |-> record]
Named == [f \in {"id", "name"} |-> "required"]
Kinds ==
    <<NodeDef("user", "users", Named, TRUE), NodeDef("second", "users", "nick" :> "nullable" @@ Named, TRUE),
      NodeDef("member", "users", "nick" :> "optional" @@ Named, TRUE), NodeDef("user", "tags", Named, TRUE),
      NodeDef("tag", "tags", "id" :> "required", TRUE), NodeDef("label", "tags", "name" :> "required", TRUE),
      NodeDef("note", "tags", <<>>, FALSE), NodeDef("void", "tags", <<>>, TRUE)>>
Column(notNull, default) == [notNull |-> notNull, default |-> default]
Users(nick) == "id" :> Column(TRUE, Null) @@ "name" :> Column(TRUE, Null) @@ "nick" :> nick
TableSets == {"users" :> Users(nick) @@ "tags" :> ("id" :> Column(TRUE, Null) @@ "name" :> Column(FALSE, Null)) :
                 nick \in {Column(FALSE, Null), Column(TRUE, "")}}
Nicks == {<<>>, "nick" :> "n", "nick" :> Null}
Persons == {"id" :> "i" @@ "name" :> name @@ nick : name \in {"x", "y"}, nick \in Nicks}
NodePut(kinds, values) == [kind : kinds, value : values]
NodePutCalls ==
    [family : {"node puts"}, tables : TableSets, puts :
        SeqOf(NodePut({"user", "second", "member", "tag", "label", "note", "void", "unknown"},
                      Persons \cup {"name" :> "x", "id" :> "i", "id" :> "j" @@ "name" :> "x"}), 2)
        \cup [1..3 -> NodePut({"user", "second", "member"}, Persons)]]

\* Entries, titles, lists, trees and things.
EntryCalls ==
    UNION {{[family |-> "entries", kind |-> kind, entry |-> entry] : entry \in Codex!Values(Codex!SessionEntry[kind])} :
              kind \in DOMAIN Codex!SessionEntry}

TitleCalls ==
    [family : {"titles"}, title : SeqOf({"a", "B", "1", " ", "-", "!"}, 5)]

ListCalls ==
    [family : {"lists"}, a : SeqOf(1..2, 4), b : SeqOf(1..2, 4), fails : SUBSET (1..2)]

Leaves == {P!instantiate(v, <<>>) : v \in 1..2}
Small == {P!instantiate(v, children) : v \in 1..2, children \in SeqOf(Leaves, 2)}
Trees == {P!instantiate(v, children) : v \in 1..2, children \in SeqOf(Small, 2)}
TreeCalls == [family : {"trees"}, tree : Trees, other : Small, fails : {{}, {1}}]

ThingCalls == [family : {"things"}, tags : SeqOf(1..3, 3), added : SeqOf(1..3, 3)]

\* Small edge tables.  Ids are texts of one byte, of both cases so that byte
\* order and letter order differ; one row has a tab in an id.
seed == <<97>>
friend == <<98>>
middle == <<67>>
far == <<100>>
bot == <<111>>

follows == <<102>>
likes == <<108>>

TableRow(src, dst, type) == [src |-> src, dst |-> dst, type |-> type, deleted |-> FALSE]

Pairs ==
    {<<seed, friend>>, <<seed, middle>>, <<seed, bot>>, <<friend, middle>>, <<friend, far>>,
     <<middle, far>>, <<middle, friend>>, <<middle, bot>>, <<far, seed>>, <<far, middle>>,
     <<bot, far>>}

\* From a target over two nodes to whatever both lead to.
TwoWays == {<<seed, middle>>, <<middle, friend>>, <<middle, bot>>}

SmallTables ==
    {[i \in DOMAIN s |-> TableRow(s[i][1], s[i][2], follows)] :
        s \in {Along(S, PairLess) :
                  S \in {T \in SUBSET Pairs :
                            \/ Cardinality(T) \in 3..4
                            \/ Cardinality(T) = 5 /\ {<<seed, friend>>, <<seed, bot>>} \subseteq T
                            \/ Cardinality(T) = 5 /\ TwoWays \subseteq T}}}
    \cup
    {<<TableRow(seed, friend, follows), TableRow(friend, middle, follows), TableRow(friend, middle, follows),
       TableRow(middle, far, likes), TableRow(far, bot, follows)>>,
     <<TableRow(seed, <<98, TAB>>, follows)>>,
     <<TableRow(seed, friend, follows), TableRow(friend, middle, follows), TableRow(middle, <<98, TAB>>, follows)>>}

Asked ==
    {[seeds |-> <<seed>>, exclude |-> <<>>, hop1 |-> follows, hop2 |-> follows],
     [seeds |-> <<seed, friend, seed>>, exclude |-> <<bot>>, hop1 |-> follows, hop2 |-> follows],
     [seeds |-> <<<<>>>>, exclude |-> <<>>, hop1 |-> follows, hop2 |-> follows],
     [seeds |-> <<seed>>, exclude |-> <<middle>>, hop1 |-> follows, hop2 |-> likes],
     [seeds |-> <<seed>>, exclude |-> <<>>, hop1 |-> <<>>, hop2 |-> follows]}

Late == {TableRow(friend, bot, follows), TableRow(middle, far, follows)}

SomeBots == {bot}

\* A suite "o" with two nested ones, "i" and "k", and "j" nested in "i",
\* with no, one or two tests before, between and after them. A suite
\* without a name has no block of its own: it ends when the file does.
FourSuites == {"o", "i", "j", "k"}
Nesting == [o |-> {"o"}, i |-> {"o", "i"}, j |-> {"o", "i", "j"}, k |-> {"o", "k"}]

Tests(s, n) == [t \in 1..n |-> [suite |-> s, kind |-> "test"]]
End(s) == <<[suite |-> s, kind |-> "end"]>>
Inner(b, c) == Tests("i", b[1]) \o Tests("j", c) \o End("j") \o Tests("i", b[2]) \o End("i")
Closed ==
    {Tests("o", a[1]) \o Inner(b, c) \o Tests("o", a[2]) \o Tests("k", d) \o End("k") \o Tests("o", a[3]) \o End("o") :
        a \in [1..3 -> 0..1], b \in [1..2 -> 0..1], c \in 0..1, d \in 0..1}
Nameless ==
    {Tests("o", a[1]) \o Tests("i", b) \o Tests("o", a[2]) \o ends :
        a \in [1..2 -> 0..2], b \in 0..2, ends \in {End("i") \o End("o"), End("o") \o End("i")}}

Declared == Closed \cup Nameless

-----------------------------------------------------------------------------
FunctionsInit ==
    /\ of \in {"functions", "client", "layers"} /\ args = NoCall
    /\ edges \in IF of = "client" THEN Tables ELSE {<<>>}
    /\ input \in IF of = "client" THEN Inputs ELSE {[seeds |-> <<>>]}
    /\ plan \in IF of = "layers" THEN Plans ELSE {<<>>}
    /\ ClientStarts /\ LayersStart

CallIdSets == args = NoCall /\ args' \in SetCalls
CallQueries == args = NoCall /\ args' \in EdgeCalls
CallRankedDiff == args = NoCall /\ args' \in DiffCalls
CallStyles == args = NoCall /\ args' \in StyleCalls
CallColors == args = NoCall /\ args' \in ColorCalls
CallAnsi == args = NoCall /\ args' \in ScreenCalls
CallSse == args = NoCall /\ args' \in StreamCalls
CallQueriesOfDom == args = NoCall /\ args' \in DocumentCalls
CallFinds == args = NoCall /\ args' \in FindCalls
CallTab == args = NoCall /\ args' \in TabCalls
CallType == args = NoCall /\ args' \in TypeCalls
CallActs == args = NoCall /\ args' \in ActCalls
CallEdgePuts == args = NoCall /\ args' \in EdgePutCalls
CallNodePuts == args = NoCall /\ args' \in NodePutCalls
CallStorage == args = NoCall /\ args' \in WriteCalls

CallDecode == args = NoCall /\ args' \in EntryCalls
CallSlugify == args = NoCall /\ args' \in TitleCalls
CallLists == args = NoCall /\ args' \in ListCalls
CallTrees == args = NoCall /\ args' \in TreeCalls
CallThings == args = NoCall /\ args' \in ThingCalls

FunctionIsCalled ==
    /\ of = "functions" /\ UNCHANGED <<of, clientVars, layersVars>>
    /\ \/ CallIdSets \/ CallQueries \/ CallRankedDiff
       \/ CallStyles \/ CallColors \/ CallAnsi \/ CallSse
       \/ CallQueriesOfDom \/ CallFinds \/ CallStorage \/ CallEdgePuts \/ CallNodePuts
       \/ CallTab \/ CallType \/ CallActs
       \/ CallDecode \/ CallSlugify \/ CallLists \/ CallTrees \/ CallThings
ClientIsCalled == of = "client" /\ ClientNext /\ UNCHANGED <<of, args, layersVars>>
SuitesRun == of = "layers" /\ LayersNext /\ UNCHANGED <<of, args, clientVars>>

FunctionsNext == FunctionIsCalled \/ ClientIsCalled \/ SuitesRun

FunctionsSpec == FunctionsInit /\ [][FunctionsNext]_<<of, args, clientVars, layersVars>>

-----------------------------------------------------------------------------
(* Properties. *)

\* extension.zig 250-545: see AlgebraOfSets; 550-1258, 1261-1588 and schema.ts:
\* see NeighbourhoodsSurvive and SupportIsCounted; 1590-1820: see DiffTellsBoth;
\* graph-db's edgeRepo.ts and nodeRepo.ts: see EdgesAreRead and NodesAreRead.
QueriesTellTheGraph ==
    /\ args.family = "sets" => AlgebraOfSets(args.left, args.right, args.id)
    /\ args.family = "edges" =>
           /\ NeighbourhoodsSurvive(args.edges, args.type, args.set)
           /\ SupportIsCounted(args.edges, args.type, args.set)
    /\ args.family = "diff" => DiffTellsBoth(Ranking(args.old, args.new), "old", "new")
    /\ args.family = "edge puts" => EdgesAreRead(args.puts)
    /\ args.family = "node puts" =>
           \A kind \in {"user", "second", "member", "tag"}, id \in {"i", "j"} :
               NodesAreRead(Kinds, args.tables, args.puts, kind, id)

\* tailwind-mapper.ts, style-bridge.ts and theme-map.ts 52-102: see NoClassIsLost,
\* SpacesAreSizes, LayersCascade and HslIsCss; assertions.ts 205-474: see
\* AnsiRestores.
ScreensFollowTheStyles ==
    /\ args.family = "styles" =>
           /\ \A i \in DOMAIN args.classes : NoClassIsLost(args.classes[i])
           /\ SpacesAreSizes
           /\ LayersCascade(args, CSS_VAR_DEFAULTS)
    /\ args.family = "colors" => HslIsCss(args.h, args.s, args.l)
    /\ args.family = "screens" => AnsiRestores(args.rows)

\* sse-handler.ts 22-281: see StreamSurvives; request-hasher.ts,
\* binary-extractor.ts and the two storages: see LastWriteIsFound;
\* CodexSession.ts 14-250: see EntryIsReadAsWritten and NothingIsReadAsLess;
\* Slug.ts 29-35: see SlugIsClean; list.ts, tree.ts and thing.ts: see
\* ListsAreSequences, TreesAreTheirNodes and TagsAreASet.
DataSurvives ==
    /\ args.family = "streams" => StreamSurvives(args.chunks)
    /\ args.family = "writes" => LastWriteIsFound(args.writes, args.request, args.flat)
    /\ args.family = "entries" =>
           Codex!EntryIsReadAsWritten(args.kind, args.entry) /\ Codex!NothingIsReadAsLess(args.entry)
    /\ args.family = "titles" => Slugs!SlugIsClean(args.title)
    /\ args.family = "lists" => P!ListsAreSequences(args.a, args.b, args.fails)
    /\ args.family = "trees" => P!TreesAreTheirNodes(args.tree, args.other, args.fails)
    /\ args.family = "things" => P!TagsAreASet(args.tags, args.added)

\* queries.ts 40-411: see ScopeNarrows, ExactIsStricter, ScriptsAreUnseen,
\* FieldsHaveOneName, StatesDivide, ListedTwiceByTwoLabels and WaitsFind;
\* events.ts 53-458: see TabGoesRound, TextIsTyped and ActsKeepApart.
DomAgrees ==
    /\ args.family = "documents" =>
           /\ ScopeNarrows(args.doc, args.matcher, args.exact)
           /\ ExactIsStricter(args.doc, args.matcher)
           /\ ScriptsAreUnseen(args.doc, args.matcher, args.exact)
           /\ FieldsHaveOneName(args.doc, args.matcher, args.exact)
           /\ StatesDivide(args.doc)
           /\ ListedTwiceByTwoLabels(args.doc, args.matcher, args.exact)
    /\ args.family = "finds" => WaitsFind(args.page, args.interval, args.late, args.timeout)
    /\ args.family = "tabs" => TabGoesRound(args.page)
    /\ args.family = "types" => TextIsTyped(args.page, 1, args.text)
    /\ args.family = "acts" => ActsKeepApart(args.page, args.acts)
=============================================================================
