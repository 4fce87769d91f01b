---------------------------- MODULE StaticFaker -----------------------------
(***************************************************************************)
(* generate_static: the value the server answers with unless a dynamic one *)
(* is asked for, and generate, the entry of the dynamic one.               *)
(***************************************************************************)
EXTENDS Faker

\* static_terminal
StaticTerminal(s) ==
    LET type == Get(s, "type", "none")
    IN  CASE type = "string" -> Str("")
          [] type \in {"number", "integer"} -> Whole(0)
          [] type = "boolean" -> Bool(FALSE)
          [] type = "array" -> Arr(<< >>)
          [] type = "object" -> Obj(<< >>)
          [] OTHER -> Null

\* infer_static_type: fewer keywords than infer_type.
StaticType(s) ==
    IF Has(s, "type") THEN s.type
    ELSE IF HasAny(s, {"properties", "required"}) THEN "object"
    ELSE IF HasAny(s, {"items", "minItems"}) THEN "array"
    ELSE IF HasAny(s, {"minLength", "maxLength", "pattern"}) THEN "string"
    ELSE IF HasAny(s, {"minimum", "maximum"}) THEN "number"
    ELSE "none"

\* static_string, canonical_format_value: neither lengths nor patterns count.
StaticString(s) ==
    LET known == IF Has(s, "format") THEN s.format \in DOMAIN Canonical ELSE FALSE
    IN  Str(IF known THEN Canonical[s.format] ELSE "")

RECURSIVE WalkStatic(_, _, _, _)

\* static_array: three items where a schema says what they are, fewer if they are null.
StaticArray(s, o, visited, d) ==
    LET least == Get(s, "minItems", 0)
        three == IF o.fakeAll /\ Has(s, "items")
                 THEN Least(Greatest(least, 3), Get(s, "maxItems", Greatest(least, 3)))
                 ELSE least
        item == WalkStatic(Get(s, "items", << >>), o, visited, d + 1)
    IN  Arr([i \in 1 .. (IF item = Null THEN Least(least, three) ELSE three) |-> item])

\* static_object
StaticObject(s, o, visited, d) ==
    LET keys == Required(s) \cup (IF o.fakeAll THEN DOMAIN Properties(s) ELSE {})
    IN  Obj([k \in keys |-> WalkStatic(Get(Properties(s), k, << >>), o, visited, d + 1)])

\* The merge of the branches, and what only the schema itself has.
StaticAllOf(s) ==
    LET merged == MergedOnto(<< >>, s.allOf)
    IN  [k \in (DOMAIN merged \cup DOMAIN s) \ {"allOf"} |-> IF Has(merged, k) THEN merged[k] ELSE s[k]]

\* The first member of an enum is any one here.
WalkStatic(s, o, visited, d) ==
    IF d >= o.maxDepth THEN StaticTerminal(s)
    ELSE IF Has(s, "ref")
         THEN IF s.ref \in visited THEN StaticTerminal(s)
              ELSE IF s.ref \in DOMAIN Components
                   THEN WalkStatic(Components[s.ref], o, visited \cup {s.ref}, d)
                   ELSE Null
    ELSE IF Has(s, "enum") THEN CHOOSE v \in s.enum : TRUE
    ELSE IF o.useExamples /\ Has(s, "example") THEN s.example
    ELSE IF Has(s, "allOf") THEN WalkStatic(StaticAllOf(s), o, visited, d + 1)
    ELSE IF Has(s, "anyOf") THEN WalkStatic(s.anyOf[1], o, visited, d + 1)
    ELSE IF Has(s, "oneOf") THEN WalkStatic(s.oneOf[1], o, visited, d + 1)
    ELSE IF o.useDefault /\ Has(s, "default") THEN s.default
    ELSE LET type == StaticType(s)
         IN  CASE type = "string" -> StaticString(s)
               [] type \in {"number", "integer"} -> Whole(0)
               [] type = "boolean" -> Bool(FALSE)
               [] type = "array" -> StaticArray(s, o, visited, d)
               [] type = "object" -> StaticObject(s, o, visited, d)
               [] OTHER -> Null

\* generate_static.  It has no errors, and looks at references only where it meets them.
GenerateStatic(s, o) == {Out(WalkStatic(s, o, {}, 0), FALSE)}

-----------------------------------------------------------------------------

\* strip_skip_sentinels: markers that are left, of arrays and of the value as a whole.
RECURSIVE Stripped(_)
Stripped(v) ==
    IF v = Skip THEN Obj(<< >>)
    ELSE IF Is(v, "obj") THEN Obj([k \in DOMAIN v.obj |-> Stripped(v.obj[k])])
    ELSE IF Is(v, "arr") THEN Arr([i \in DOMAIN v.arr |-> Stripped(v.arr[i])])
    ELSE v

\* walk_refs: every reference of a schema, wherever it stands.
RECURSIVE RefsIn(_)
RefsIn(s) ==
    LET inside(k) == CASE k \in {"items", "not", "additionalProperties"} -> RefsIn(s[k])
                       [] k = "properties" -> UNION {RefsIn(s[k][p]) : p \in DOMAIN s[k]}
                       [] k \in {"allOf", "anyOf", "oneOf"} -> UNION {RefsIn(s[k][i]) : i \in DOMAIN s[k]}
                       [] k = "ref" -> {s.ref}
                       [] OTHER -> {}
    IN  UNION {inside(k) : k \in DOMAIN s}

\* first_unresolvable_ref.  The components go with a schema that has a reference
\* (schema_has_ref, attach_components), and a remote reference of any of them counts.
Unresolvable(s) ==
    LET attached == IF RefsIn(s) = {} THEN {} ELSE UNION {RefsIn(Components[c]) : c \in DOMAIN Components}
    IN  (RefsIn(s) \cup attached) \cap RemoteRefs # {}

\* generate: an outcome with an error has no value.
GenerateDynamic(s, o) ==
    IF Unresolvable(s) THEN {Out(Null, TRUE)}
    ELSE {IF x.err THEN Out(Null, TRUE) ELSE Out(Stripped(x.v), FALSE) : x \in Walk(s, o, 0, 0, FALSE)}

=============================================================================
