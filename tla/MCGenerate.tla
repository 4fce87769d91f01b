----------------------------- MODULE MCGenerate -----------------------------
(***************************************************************************)
(* The schemas, texts and places Generate is checked with.                 *)
(***************************************************************************)
EXTENDS Generate

Ty(type) == [type |-> type]
Ref(name) == [ref |-> name]
One(k, s) == [j \in {k} |-> s]
Object(props, required) == [type |-> "object", properties |-> props, required |-> required]

\* "Chain" needs an integer three references down, "Tree" refers to itself, "Loop" and "Pet"
\* are nothing but choices of references, "Alias" is a reference to a reference.
MCComponents ==
    [Int    |-> Ty("integer"),
     Alias  |-> Ref("Int"),
     Cat    |-> Object([kind |-> Ty("string"), a |-> Ty("integer")], {"kind"}),
     Dog    |-> Object([kind |-> Ty("string"), b |-> Ty("boolean")], {"kind", "b"}),
     Pet    |-> [oneOf |-> <<Ref("Cat"), Ref("Dog")>>],
     Tree   |-> Object([a |-> Ty("boolean"), next |-> Ref("Tree")], {"a"}),
     Loop   |-> [oneOf |-> <<Ref("Loop"), Ref("Tree")>>],
     Chain  |-> Object(One("a", Ref("Chain2")), {"a"}),
     Chain2 |-> Object(One("a", Ref("Chain3")), {"a"}),
     Chain3 |-> Object(One("a", Ty("integer")), {"a"})]

MCPatterns == [ab |-> {"a", "ab", "abb"}, b |-> {"b", "bb", "ab"}]
MCSamples == [ab |-> {"a", "ab"}, b |-> {"b"}]
MCWords == {"a", "b", "ab", "bb", "abb"}
MCFormats == [date |-> {"2020-02-29"}, email |-> {"a@b.io"}, time |-> {"12:30:59"}]
MCCanonical == [date |-> "2020-01-01", email |-> "user@example.com", time |-> "00:00:00Z"]
MCShape ==
    ("12:30:59" :> [time |-> <<12, 30, 59>>]) @@ ("12:30:61" :> [time |-> <<12, 30, 61>>]) @@
    ("2020-02-29" :> [date |-> <<2020, 2, 29>>]) @@ ("2021-02-29" :> [date |-> <<2021, 2, 29>>])
    @@ ("2020-01-01" :> [date |-> <<2020, 1, 1>>]) @@ ("a@b.io" :> [email |-> TRUE])
    @@ ("user@example.com" :> [email |-> TRUE])
MCResembles == {<<"email", "b">>}

MCWhole ==
    ("-2" :> -2) @@ ("-1" :> -1) @@ ("0" :> 0) @@ ("1" :> 1) @@ ("2" :> 2) @@ ("3" :> 3) @@ ("9" :> 9)
MCNumber ==
    ("-2" :> -20) @@ ("-1" :> -10) @@ ("0" :> 0) @@ ("1" :> 10) @@ ("2" :> 20) @@ ("3" :> 30) @@ ("9" :> 90)
    @@ ("-1.5" :> -15) @@ ("-0.5" :> -5) @@ ("0.2" :> 2) @@ ("0.3" :> 3) @@ ("0.4" :> 4) @@ ("0.5" :> 5) @@ ("1.5" :> 15)
    @@ ("1.0" :> 10) @@ ("2.0" :> 20)

\* The tenths up to 2.0 whose quotient by 0.1 is not whole as floats (0.3 / 0.1 is below 3).
\* 9 stands for a number beyond 2 ** 53, where every quotient is whole and the tolerance of
\* float_eq, which grows with the number, is wider than the gap between two of them.
MCMisdivided == {<<h, 1>> : h \in UNION {{0 - n, n} : n \in {3, 6, 7, 12, 14, 19}}} \cup {<<90, 4>>}
MCClose == {<<80, 90>>, <<90, 80>>}

MCKeys == <<"a", "b", "extra_0", "extra_1", "extra_2", "kind", "next", "prop_0", "prop_1", "prop_2", "v", "__chasm_skip">>

-----------------------------------------------------------------------------
(* Schemas.                                                                *)

Plus(s, key, choices) == {s} \cup {s @@ [k \in {key} |-> c] : c \in choices}
All(set, key, choices) == UNION {Plus(s, key, choices) : s \in set}

Scalars == {Null, Bool(TRUE), Bool(FALSE), Str(""), Str("a"), Str("ab"), Str("abb"), Str("1"), Str("true"),
            Str("2020-02-29"), Str("2021-02-29"), Str("12:30:61"), Str("b@b")}
           \cup {Whole(n) : n \in (-2 .. 3) \cup {-10, -6, -5, 4, 5, 9}}
           \cup {Float(h) : h \in {-15, -5, 3, 5, 10, 15, 20}}

Few == {Null, Bool(TRUE), Str("a"), Str("ab"), Str("1"), Str("true"), Whole(0), Whole(1), Whole(2), Whole(3),
        Whole(9), Float(5), Float(10), Float(20)}
NumbersOnly == {v \in Scalars : IsNumber(v)} \cup {Str("1")}

Texts == All(All(All({Ty("string")}, "minLength", {0, 1, 3}), "maxLength", {0, 2}), "pattern", {"ab", "b"})
         \cup All(All({Ty("string")}, "format", {"date", "email", "time", "slug"}), "enum", {{Str("ab"), Str("a@b.io")}})
         \cup {[type |-> "string", enum |-> {Str("a"), Str("ab")}, maxLength |-> 1]}
         \cup {[type |-> "string", format |-> "email", pattern |-> "b"]}

Bounded(set, bound, exclusive, values) ==
    set \cup {s @@ x : s \in set, x \in {One(bound, h) : h \in values}
                                     \cup {One(bound, h) @@ One(exclusive, TRUE) : h \in values}}
\* The bounds of an integer are whole.
Numbers == All(Bounded(Bounded({Ty("number")}, "minimum", "exclusiveMinimum", {-15, 5}),
                       "maximum", "exclusiveMaximum", {5, 20}), "multipleOf", {10, 15})
           \cup All(Bounded(Bounded({Ty("integer")}, "minimum", "exclusiveMinimum", {-10, 10}),
                            "maximum", "exclusiveMaximum", {10, 20}), "multipleOf", {10, 20})
           \cup All(All({[type |-> t, format |-> f] : t \in {"integer", "number"}, f \in NumericFormats},
                       "minimum", {-10, 10}), "maximum", {10})
           \cup {[type |-> "integer", enum |-> {Whole(1), Whole(2)}],
                 [type |-> "number", enum |-> {Whole(1), Float(5)}],
                 [type |-> "number", enum |-> {Whole(8)}],
                 [type |-> "integer", minimum |-> 5, multipleOf |-> 15]}
           \cup Bounded({[type |-> "number", multipleOf |-> m] : m \in {1, 4, 30}}, "minimum", "exclusiveMinimum", {8})
           \cup {[type |-> "number", multipleOf |-> 1, minimum |-> -2, maximum |-> 2]}

ItemTypes == {Ty("boolean"), [type |-> "integer", minimum |-> 0, maximum |-> 10], Ref("Int"), Ty("string")}
Arrays == All(All(All(All({Ty("array")}, "items", ItemTypes), "minItems", {1, 3}), "maxItems", {0, 2}),
              "uniqueItems", {TRUE})

\* Objects and their values.
Pairs == {Object([a |-> Ty("integer"), b |-> Ty("string")], r) : r \in {{}, {"a"}, {"a", "b"}, {"a", "v"}}}
Objects == All(All(All(Pairs, "additionalProperties", {[allowed |-> FALSE], Ty("boolean")}),
               "minProperties", {3}), "maxProperties", {1, 3})
           \cup {Object([a |-> Ty("integer"), b |-> [not |-> [k \in {} |-> 0]]], {"a"})}
Closed(k, type) == Object(One(k, Ty(type)), {k}) @@ [additionalProperties |-> [allowed |-> FALSE]]
Open(k, type) == Object(One(k, Ty(type)), {k})

ObjectValues == {Obj(f) : f \in UNION {[K -> {Whole(1), Str("a"), Bool(TRUE)}] :
                    K \in {{}, {"a"}, {"b"}, {"a", "b"}, {"a", "v"}, {"a", "b", "v"}}}}
NestedValues == {Obj([v |-> Obj(f), b |-> Str("a")]) : f \in {[a |-> Whole(1)], [a |-> Whole(1), b |-> Str("a")]}}
ArrayValues ==
    {Arr(q) : q \in UNION {[1 .. n -> {Whole(1), Whole(3), Str("a"), Bool(TRUE)}] : n \in 0 .. 2}
                   \cup [1 .. 3 -> {Whole(1), Whole(2), Str("a")}] \cup {<<Str("")>>}}

\* What x-json-schema-faker and nullable say of a schema.
Marked ==
    {Object([a |-> Ty("integer") @@ [nullable |-> TRUE], b |-> Ty("string")], r) : r \in {{}, {"a"}}}
    \cup {Object([a |-> Ty("integer"), b |-> Ty("string")], {"a"}) @@ [options |-> o] :
            o \in {[optionals |-> "all"], [optionals |-> "some"], [requiredOnly |-> TRUE], [fakeAll |-> FALSE]}}
    \cup {[type |-> "array", items |-> Ty("boolean"), options |-> o] :
            o \in {[minItems |-> {2}], [maxItems |-> {1}], [optionals |-> "none"], [fakeAll |-> FALSE]}}
    \cup {[arrayElement |-> {Str("a"), Whole(1)}],
          [type |-> "array", items |-> Ty("string"), arrayElement |-> {Str("a"), Str("b")}, minItems |-> 2]}

\* Compositions.
Simple == {Ty("string"), Ty("integer"), Ty("number"), [type |-> "string", maxLength |-> 1], Ref("Int")}
Composed ==
    UNION {{One(c, <<x, y>>) : x, y \in Simple} : c \in {"oneOf", "anyOf", "allOf"}}
    \cup {[not |-> x] : x \in Simple}
    \cup {One(c, <<x, y>>) : c \in {"oneOf", "anyOf", "allOf"},
                             x \in {Closed("a", "integer"), Open("a", "integer")},
                             y \in {Closed("b", "string"), Open("b", "string")}}
    \cup {[allOf |-> <<Ref("Cat"), Open("v", "boolean")>>],
          [allOf |-> <<Object(One("v", Closed("a", "integer")), {"v"}), Open("b", "string")>>]}

\* Compositions beside a type, and what openapiv3 takes for anything.
Mixed ==
    {[type |-> "integer", oneOf |-> <<[minimum |-> 10], [maximum |-> 0]>>],
     [type |-> "integer", not |-> [enum |-> {Whole(1)}], minimum |-> 0, maximum |-> 20],
     Object(One("a", Ty("integer")), {"a"}) @@ [oneOf |-> <<[required |-> {"b"}], [required |-> {"v"}]>>],
     Object(One("a", Ty("integer")), {"a"}) @@ [allOf |-> <<Open("b", "string")>>],
     Object(One("a", Ty("integer")), {"a"}) @@ [allOf |-> <<[oneOf |-> <<Closed("b", "string"), Open("a", "integer")>>]>>],
     Object(One("a", Ty("integer")), {"a"}) @@ [anyOf |-> <<Ref("Cat"), [not |-> [required |-> {"b"}]]>>],
     [allOf |-> <<Open("a", "integer"), Object([a |-> [maximum |-> 5]], {"a"})>>],
     [type |-> "string", format |-> "email", minLength |-> 7], [type |-> "string", pattern |-> "b", example |-> Str("bb"), minLength |-> 3],
     [properties |-> One("a", Ty("integer")), required |-> {"a"}],
     [type |-> "string", enum |-> {Str("a"), Str("ab")}, anyOf |-> <<[minLength |-> 2], [maxLength |-> 0]>>],
     [enum |-> {Str("a"), Whole(1)}], [required |-> {"a"}],
     [type |-> "text"], [default |-> Str("ab")], [default |-> Str("ab"), type |-> "string"],
     [example |-> Whole(1), type |-> "integer"]}

Ways == ("cat" :> "Cat") @@ ("dog" :> "Dog")
ByKind == [property |-> "kind", mapping |-> Ways]
Recursive ==
    {Ref("Int"), Ref("Alias"), Ref("Tree"), Ref("Chain"), Ref("Chain2"), Ref("Loop"),
     [oneOf |-> <<Ref("Cat"), Ref("Dog")>>],
     [oneOf |-> <<Ref("Cat"), Ref("Dog")>>, discriminator |-> ByKind],
     [anyOf |-> <<Ref("Cat"), Ref("Dog")>>], Object(One("next", Ref("remote")), {"next"}),
     Object(One("a", Ref("Alias")), {"a"}), [type |-> "array", items |-> Ref("Tree")]}

\* `s` under n objects.
RECURSIVE Under(_, _)
Under(n, s) == IF n = 0 THEN s ELSE Object([a |-> Under(n - 1, s)], {"a"})
APet == [oneOf |-> <<Ref("Pet")>>, discriminator |-> [property |-> "kind", mapping |-> One("pet", "Pet")]]
CutCat == [allOf |-> <<Ref("Cat")>>]
Deep == {Under(n, s) : n \in 2 .. 5,
            s \in {Ty("boolean"), Open("b", "string"), [type |-> "array", items |-> Ty("string"), minItems |-> 1],
                   [type |-> "string", minLength |-> 2], Ref("Tree"), Ref("Cat"), Ref("Loop"),
                   [oneOf |-> <<Ref("Loop"), Ref("Loop")>>], Ref("Pet"), APet,
                   CutCat, Object([a |-> CutCat, b |-> Ty("boolean")], {"a"}),
                   [type |-> "array", items |-> CutCat, minItems |-> 1],
                   Object([b |-> CutCat], {}) @@ [additionalProperties |-> CutCat, minProperties |-> 2]}}

Kinds == {"cat", "dog", "Cat"}
KindValues == {Obj([kind |-> Str(k)] @@ f) : k \in Kinds,
                 f \in {[a |-> Whole(1)], [a |-> Str("a")], [b |-> Bool(TRUE)], [b |-> Whole(1)]}}

-----------------------------------------------------------------------------
(* Exchanges.                                                              *)

Plain == [fill |-> TRUE]
Body(type) == [in |-> "body", type |-> type, style |-> "none", explode |-> FALSE]
Param(in, explode) == [in |-> in, type |-> NoType, style |-> "form", explode |-> explode]
DeepParam == [in |-> "query", type |-> NoType, style |-> "deepObject", explode |-> TRUE]

Case(s, by, config, values, place) ==
    [schema |-> s, by |-> by, config |-> config, values |-> values, place |-> place]

Generated(set) == {Case(s, by, Plain, {}, Body(Json)) : s \in set, by \in {"dynamic", "static"}}
Made(set, values) == {Case(s, "client", Plain, values, Body(Json)) : s \in set}
Both(set, values) == Generated(set) \cup Made(set, values)

Bodies ==
    Both(Texts, Scalars \ NumbersOnly) \cup Both(Numbers, NumbersOnly)
    \cup Both(Arrays, ArrayValues)
    \cup Both(Objects, ObjectValues)
    \cup Both(Marked, {Null, Obj([a |-> Null]), Obj([a |-> Whole(1), b |-> Null])})
    \cup Both(Composed \cup Mixed, Few \cup ObjectValues \cup NestedValues)
    \cup Both(Recursive, KindValues \cup {Whole(1), Str("a"), Arr(<<Whole(1)>>)})
    \cup Generated(Deep)

Configs == {[fill |-> FALSE], [optionals |-> "all"], [optionals |-> "none"], [requiredOnly |-> TRUE],
            [minItems |-> {2}], [maxItems |-> {1}], [useDefault |-> FALSE], [failTypes |-> FALSE],
            [fakeAll |-> FALSE]}
Configured == {Case(s, "dynamic", c, {}, Body(Json)) : c \in Configs,
                  s \in Pairs \cup Mixed \cup {[type |-> "array", items |-> Ty("boolean")]}}

Flat == {Ty("string"), Ty("integer"), [type |-> "number", multipleOf |-> 5, minimum |-> -5, maximum |-> 15],
         [type |-> "number", multipleOf |-> 1, minimum |-> 2, maximum |-> 4], Ty("boolean"), [type |-> "string", enum |-> {Str("1"), Str("true")}],
         [type |-> "integer", minimum |-> 10], [type |-> "string", minLength |-> 2]}
Lists == {[type |-> "array", items |-> s] : s \in Flat}
         \cup {[type |-> "array", items |-> Ty("integer")] @@ x : x \in {[minItems |-> 2], [uniqueItems |-> TRUE]}}
Maps == {Object([a |-> x, b |-> y], {"a"}) : x \in Flat, y \in {Ty("string"), Ty("integer")}}
        \cup {Object([b |-> Ty("string")], {}) @@ [additionalProperties |-> x] :
                x \in {[allowed |-> FALSE], Ty("string"), [type |-> "string", minLength |-> 2]}}
Unions == {[anyOf |-> <<x, y>>] : x, y \in Flat}

By == {"header", "dynamic header"}
Sent(schemas, values, places) ==
    {Case(s, "client", Plain, values, p) : s \in schemas, p \in places}
    \cup {Case(s, by, Plain, {}, p) : s \in schemas, by \in By, p \in places}

Places == {Param(in, e) : in \in {"path", "query", "header"}, e \in BOOLEAN}
Parameters ==
    Sent(Flat \cup Unions, Few, {Param("query", TRUE), Param("header", FALSE)})
    \cup Sent(Lists, ArrayValues, Places)
    \cup Sent(Maps, ObjectValues, Places \cup {DeepParam})
Forms == {Case(s, by, Plain, v, Body(t)) : s \in Maps, t \in {UrlEncoded, Multipart},
            by \in {"client"}, v \in {ObjectValues}}

MCValues == Scalars \cup ArrayValues \cup ObjectValues
MCCases == Bodies \cup Configured \cup Parameters \cup Forms

\* An integer behind three references.
MCChain == {Case(Ref("Chain"), "dynamic", Plain, {}, Body(Json))}

\* The schemas of the cases, and all that lies below these and the components.
MCInline ==
    LET layer[n \in 0 .. 8] ==
            IF n = 0 THEN Range(MCComponents) \cup {c.schema : c \in MCCases}
            ELSE LET known == layer[n - 1] IN known \cup UNION {Below(s) : s \in known}
    IN  layer[8]

=============================================================================
