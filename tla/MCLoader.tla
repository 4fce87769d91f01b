------------------------------ MODULE MCLoader ------------------------------
(***************************************************************************)
(* The texts Loader is checked with.                                       *)
(***************************************************************************)
EXTENDS Loader

K(key, node) == [key |-> key, node |-> node]
M(kids) == [Bare EXCEPT !.kids = kids]
S(type) == [Bare EXCEPT !.role = "schema", !.type = type]
R(role, ref) == [Bare EXCEPT !.role = role, !.ref = ref, !.alone = TRUE]
C(bag, name) == <<"#", "components", bag, name>>
Whl(n) == Number(2 * n, "int")
Float(h) == Number(h, "float")

Text(format, version, d) ==
    [size |-> 1, format |-> format, version |-> version, swagger |-> "none", doc |-> d]

\* A document with the given path entries, components and other nodes.
Doc(paths, components, nodes) ==
    nodes @@ [n \in {Root} |-> M(<<K("paths", "paths"), K("components", "components")>>)]
          @@ [n \in {"paths"} |-> M(paths)]
          @@ [n \in {"components"} |-> M(components)]

Schemas(kids, nodes) ==
    Doc(<< >>, <<K("schemas", "schemas")>>, nodes @@ [n \in {"schemas"} |-> M(kids)])

\* Bounds: each a schema with one way to write them.
BoundChoice == {Absent, Flag(TRUE), Whl(1), Whl(9), Whl(0 - 9)} \cup {Float(4), Float(20)}
Bounded(type) ==
    {[S(type) EXCEPT !.min = a, !.xmin = b] : a \in BoundChoice \ {Flag(TRUE)}, b \in BoundChoice}
    \cup {[S(type) EXCEPT !.max = a, !.xmax = b] :
              a \in BoundChoice \ {Flag(TRUE)}, b \in BoundChoice}
    \cup {[S(type) EXCEPT !.min = Float(1)], [S(type) EXCEPT !.xmin = Float(1)]}

Small == {Text(f, "3.1", Schemas(<<K("A", "A")>>, [n \in {"A"} |-> s])) :
            f \in {"yaml", "json"}, s \in Bounded(<<"integer">>) \cup Bounded(<<"number">>)}

\* Types, nullable, items, references that dangle, go deep, or loop.
Others == {Text("yaml", "3.1", Schemas(<<K("A", "A"), K("B", "B")>>,
                ("A" :> a) @@ ("B" :> b) @@ ("p" :> M(<<K("x", "B")>>)))) :
            a \in {[S(<<"object">>) EXCEPT !.kids = <<K("properties", "p")>>],
                   [S(<<"array">>) EXCEPT !.kids = <<K("prefixItems", "p")>>, !.boolItems = TRUE],
                   [S(<<"array">>) EXCEPT !.boolItems = TRUE]},
            b \in {S(<<"string", "null">>), S(<<"null", "string">>), S(<<"null", "null">>),
                   S(<<"string", "integer">>), S(<<"text">>),
                   [S(<<"string", "null">>) EXCEPT !.nullable = "false"],
                   R("schema", C("schemas", "A")), R("schema", C("schemas", "Z")),
                   R("schema", <<"#", "components", "schemas", "A", "properties">>),
                   R("schema", <<"#", "paths", "/z">>), R("schema", <<"file", "z">>)}}

\* Operations.  "r" and "h" are the responses and a header of an operation.
Get(id) == [Bare EXCEPT !.role = "operation", !.opid = id, !.kids = <<K("responses", "r")>>]
Item(op) == [Bare EXCEPT !.role = "pathItem", !.kids = <<K("get", op)>>]
Rest(header) == ("r" :> M(<<K("200", "ok")>>)) @@ ("ok" :> M(<<K("headers", "hs")>>))
                @@ ("hs" :> M(<<K("h", "h")>>)) @@ ("h" :> header) @@ ("t" :> S(<<"text">>))

Headers == {[Bare EXCEPT !.role = "header"],
            [Bare EXCEPT !.role = "header", !.kids = <<K("schema", "t")>>],
            R("header", C("headers", "Z"))}

Paths == {Text("yaml", "3.1",
            Doc(<<K("/a", "a"), K("/b", b)>>, <<K("pathItems", "pis")>>,
                Rest(h) @@ ("a" :> Item("op")) @@ ("op" :> Get(id))
                @@ ("b" :> b1) @@ ("pis" :> M(<<K("I", "i"), K("J", "j")>>))
                @@ ("i" :> Item("op2")) @@ ("op2" :> Get("two")) @@ ("j" :> R("pathItem", C("pathItems", "I"))))) :
            h \in Headers, id \in {"", "two"}, b \in {"b"},
            b1 \in {R("pathItem", C("pathItems", "I")), R("pathItem", C("pathItems", "J")),
                    R("pathItem", C("pathItems", "Z")), R("pathItem", <<"#", "paths", "/a">>),
                    [R("pathItem", C("pathItems", "I")) EXCEPT !.alone = FALSE]}}

\* Callbacks.  The callback On is declared once and used by the operation of /a; the
\* operation it calls has a callback of its own: none, another one, or On again.
Op(cb) == [Bare EXCEPT !.role = "operation", !.kids = IF cb = "" THEN << >> ELSE <<K("callbacks", cb)>>]
Callbacks == {Text("yaml", "3.0",
            Doc(<<K("/a", "a")>>, <<K("callbacks", "cbs")>>,
                ("a" :> Item("op")) @@ ("op" :> Op("uses")) @@ ("uses" :> M(<<K("on", "ref")>>))
                @@ ("ref" :> R("callback", first))
                @@ ("cbs" :> M(<<K("On", "On"), K("Off", "Off")>>))
                @@ ("On" :> [Bare EXCEPT !.role = "callback", !.kids = <<K("{$url}", "i")>>])
                @@ ("i" :> Item("op2")) @@ ("op2" :> Op(IF second = << >> THEN "" ELSE "uses2"))
                @@ ("uses2" :> M(<<K("on", "ref2")>>)) @@ ("ref2" :> R("callback", second))
                @@ ("Off" :> [Bare EXCEPT !.role = "callback"]))) :
            first \in {C("callbacks", "On"), C("callbacks", "Off"), C("callbacks", "Z")},
            second \in {<< >>, C("callbacks", "Off"), C("callbacks", "On")}}

\* Remote references: one URL twice, another, one inside a node that is also a reference.
Remote == {Text("json", "3.0",
            Schemas(<<K("A", "A"), K("B", "B"), K("C", "C"), K("D", "D")>>,
                ("A" :> R("schema", <<"http", "u">>))
                @@ ("B" :> [S(<<"string", "null">>) EXCEPT !.kids = <<K("not", "E")>>])
                @@ ("C" :> [R("schema", <<"http", v>>) EXCEPT !.kids = <<K("x", "F")>>, !.alone = FALSE])
                @@ ("D" :> R("schema", <<"http", "u">>)) @@ ("E" :> R("schema", <<"http", "v">>))
                @@ ("F" :> R("schema", <<"http", "w">>)))) :
            v \in {"u", "v"}}

Odd == {[Text("yaml", "other", Schemas(<< >>, << >>)) EXCEPT !.size = 1],
        [Text("yaml", "none", Schemas(<< >>, << >>)) EXCEPT !.swagger = "2.0"],
        [Text("yaml", "3.0", Schemas(<< >>, << >>)) EXCEPT !.size = 2],
        Text("yaml", "none", Schemas(<< >>, << >>))}

MCTexts == Small \cup Others \cup Paths \cup Callbacks \cup Remote \cup Odd

\* A text that loads, one that does not, one that is too long.
MCEdits == Odd \cup Remote

MCSources == {[entry |-> e, given |-> g, starts |-> s] :
                e \in {"load_spec", "remote"}, g \in {"path", "text"},
                s \in {"{", "openapi", "else"}}
             \ {[entry |-> e, given |-> "path", starts |-> "{"] : e \in {"load_spec", "remote"}}
File == [entry |-> "load_spec", given |-> "path", starts |-> "else"]

MCInputs ==
    {[source |-> s, disk |-> t] : s \in MCSources, t \in Odd \cup Remote}
    \cup {[source |-> [File EXCEPT !.entry = e], disk |-> t] :
            e \in {"load_spec", "remote"}, t \in Others \cup {Missing}}
    \cup {[source |-> File, disk |-> t] : t \in Small \cup Paths \cup Callbacks}

=============================================================================
