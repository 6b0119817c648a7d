---------------------------- MODULE MCEventRelay ----------------------------
\* Three pages for TLC: a dialog with radios of a group that goes on outside of it,
\* a form with a text field, and boxes nested deeper than scrollIntoView climbs, one
\* of them not drawn.
EXTENDS EventRelay

Node(kind, parent, y, rows) ==
    [kind |-> kind, parent |-> parent, drawn |-> TRUE, y |-> y, rows |-> rows,
     group |-> "", access |-> "", for |-> 0]
Radio(group, parent, y) == [Node("radio", parent, y, 1) EXCEPT !.group = group]

Dialog ==
    <<[Node("button", 0, 0, 1) EXCEPT !.access = "x"],
      Node("container", 0, 1, 4),
      Radio("g", 2, 0), Radio("g", 2, 1), Node("checkbox", 2, 2, 2),
      Radio("g", 0, 5)>>

Form ==
    <<[Node("label", 0, 0, 1) EXCEPT !.access = "a", !.for = 3],
      Node("container", 0, 1, 2),
      Node("text", 2, 0, 1)>>

Nested ==
    <<Node("button", 0, 0, 1),
      Node("container", 0, 2, 4),
      [Node("container", 2, 0, 1) EXCEPT !.drawn = FALSE],
      Node("button", 3, 1, 1),
      [Node("button", 2, 0, 1) EXCEPT !.drawn = FALSE],
      Node("container", 2, 2, 2),
      Node("link", 6, 1, 1)>>

SmallPages == {Dialog, Form, Nested}

Plain(name) == [name |-> name, mods |-> {}]
With(mods, names) == {[name |-> name, mods |-> mods] : name \in names}

SomeKeys ==
    (Dialog :> {Plain(name) : name \in {"tab", "escape", "enter", "down", "up", "space"}}
               \cup With({"shift"}, {"tab"}) \cup With({"option"}, {"x"}))
    @@ (Form :> {Plain(name) : name \in {"tab", "escape", "enter", "x", "space", "backspace"}}
               \cup With({"shift"}, {"x"}) \cup With({"meta"}, {"a"})
               \cup With({"ctrl"}, {"a", "b", "d", "e", "f", "k", "u", "w"})
               \cup With({"option"}, {"b", "d", "f"}))
    @@ (Nested :> {Plain("tab"), Plain("escape")} \cup With({"shift"}, {"tab"}))
=============================================================================
