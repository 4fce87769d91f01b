----------------------------- MODULE Validation -----------------------------
(***************************************************************************)
(* validate_value (chasm-engine, validation.rs): the errors of a value     *)
(* against a schema.                                                       *)
(*                                                                         *)
(* An error is where it is and the code of the rule that failed.  The      *)
(* place is a sequence: what was validated ("query", "body"), then the     *)
(* names and keys on the way down; items of an array are all "[]".         *)
(* Messages are left out.                                                  *)
(*                                                                         *)
(* validate_value calls itself.  `nested` is what these calls return:      *)
(* nested[s][v][at] is the set of errors of v against s at a place.        *)
(***************************************************************************)
EXTENDS JsonSchema, Scalars

Locations == Seq(STRING)

\* What the provers do not know of texts that are written out.
ASSUME LiteralAssumption == {"body", "path", "query", "header", "p", "[]", "_"} \subseteq STRING

RequiredErrors(s, o, at) ==
    {Err(Append(at, k), "required") : k \in Required(s) \ DOMAIN o}

\* Nothing is said of a reference that does not resolve.
Check(s, v, at, nested) == UNION {nested[r][v][at] : r \in Resolved(s)}

PropertyErrors(s, o, at, nested) ==
    UNION {Check(s.properties[k], o[k], Append(at, k), nested) : k \in DOMAIN Properties(s) \cap DOMAIN o}

ObjectErrors(s, v, at, nested) ==
    IF ~Is(v, "obj") THEN {Err(at, "type")}
    ELSE LET extra == Get(s, "additionalProperties", [allowed |-> TRUE])
             extras == Outside(s, v.obj)
         IN  RequiredErrors(s, v.obj, at)
             \cup PropertyErrors(s, v.obj, at, nested)
             \cup IF Has(extra, "allowed")
                  THEN {Err(Append(at, k), "additionalProperties") :
                            k \in {x \in extras : ~extra.allowed}}
                  ELSE UNION {Check(extra, v.obj[k], Append(at, k), nested) : k \in extras}

ArrayErrors(s, v, at, nested) ==
    IF ~Is(v, "arr") THEN {Err(at, "type")}
    ELSE Unless(Len(v.arr) >= Get(s, "minItems", 0), at, "minItems")
         \cup Unless(Has(s, "maxItems") => Len(v.arr) <= s.maxItems, at, "maxItems")
         \cup (UNION {Check(s.items, v.arr[i], Append(at, "[]"), nested) :
                        i \in {j \in DOMAIN v.arr : Has(s, "items")}})
         \cup Unless(Flag(s, "uniqueItems") => NoRepeats(v.arr), at, "uniqueItems")

\* validate_value_silently
Accepts(s, v, nested) == nested[s][v][<<"_">>] = {}

\* The branches of a composition that resolve and accept the value.
Matching(schemas, v, nested) ==
    {i \in DOMAIN schemas : \E r \in Resolved(schemas[i]) : Accepts(r, v, nested)}

\* resolve_discriminated_branch: by the mapping, or by the name of the component without
\* regard to case.  A branch that is not a reference has no name.
SameName(a, b) == a = b \/ {a, b} = {"cat", "Cat"}
Discriminated(s, v) ==
    LET key == s.discriminator.property
        mapping == s.discriminator.mapping
        means(text, name) == \/ text \in DOMAIN mapping /\ mapping[text] = name
                             \/ SameName(text, name)
        named == {i \in DOMAIN s.oneOf : Has(s.oneOf[i], "ref") /\ means(v.obj[key].str, s.oneOf[i].ref)}
    IN  IF ~Has(s, "discriminator") \/ ~Is(v, "obj") THEN {}
        ELSE IF key \notin DOMAIN v.obj THEN {}
        ELSE IF ~Is(v.obj[key], "str") \/ named = {} THEN {}
        ELSE Resolved(s.oneOf[CHOOSE i \in named : \A j \in named : i <= j])

\* Mutant of OneOfErrors: one branch or more.
OneOfAsAnyOf(s, v, at, nested) == Unless(Matching(s.oneOf, v, nested) # {}, at, "oneOf")

OneOfErrors(s, v, at, nested) ==
    LET named == Discriminated(s, v)
    IN  IF named # {} THEN UNION {nested[b][v][at] : b \in named}
        ELSE Unless(Cardinality(Matching(s.oneOf, v, nested)) = 1, at, "oneOf")

AnyOfErrors(s, v, at, nested) == Unless(Matching(s.anyOf, v, nested) # {}, at, "anyOf")

\* collect_allof_declared_properties
DeclaredBy(schemas) ==
    UNION {DOMAIN Properties(r) : r \in
        {x \in UNION {Resolved(schemas[i]) : i \in DOMAIN schemas} : Kind(x) \in {"object", "any"}}}

\* validate_allof_branch: the refusal of an additional property is dropped if its last key
\* is a property of any branch, however deep the refusal was met.
AllOfErrors(s, v, at, nested) ==
    LET union == DeclaredBy(s.allOf)
        suppressed(r, e) == /\ Kind(r) \in {"object", "any"}
                            /\ e.code = "additionalProperties"
                            /\ e.at[Len(e.at)] \in union
        branch(r) == {e \in nested[r][v][at] : ~suppressed(r, e)}
    IN  UNION {UNION {branch(r) : r \in Resolved(s.allOf[i])} : i \in DOMAIN s.allOf}

NotErrors(s, v, at, nested) ==
    Unless(\A r \in Resolved(s.not) : ~Accepts(r, v, nested), at, "not")

\* validate_any_schema: the keywords it looks at, and no others.
AnyErrors(s, v, at, nested) ==
    IF Has(s, "type") /\ ~IsA(v, s.type) THEN {Err(at, "type")}
    ELSE Unless(Has(s, "enum") => v \in s.enum, at, "enum")
         \cup Unless((Is(v, "str") /\ Has(s, "pattern")) => MatchesPattern(v.str, s.pattern),
                     at, "pattern")
         \cup Unless((Is(v, "str") /\ Has(s, "format")) => MatchesFormat(v.str, s.format),
                     at, "format")
         \cup (IF Has(s, "not") THEN NotErrors(s, v, at, nested) ELSE {})
         \cup (IF Is(v, "obj") THEN RequiredErrors(s, v.obj, at) \cup PropertyErrors(s, v.obj, at, nested)
                               ELSE {})

ErrorsOf(s, v, at, nested) ==
    LET kind == Kind(s)
    IN  CASE Is(v, "null") /\ Flag(s, "nullable") -> {}
          [] OTHER -> CASE kind \in ScalarKinds -> ScalarErrors(s, v, at)
                        [] kind = "object"  -> ObjectErrors(s, v, at, nested)
                        [] kind = "array"   -> ArrayErrors(s, v, at, nested)
                        [] kind = "oneOf"   -> OneOfErrors(s, v, at, nested)
                        [] kind = "anyOf"   -> AnyOfErrors(s, v, at, nested)
                        [] kind = "allOf"   -> AllOfErrors(s, v, at, nested)
                        [] kind = "not"     -> NotErrors(s, v, at, nested)
                        [] kind = "any"     -> AnyErrors(s, v, at, nested)

\* validate_value, with room for n more calls in errors[n].
ValidateValue(schema, value, place) ==
    LET parts == PartsOf(value, Stack)
        errors[n \in 0 .. Stack] ==
            [s \in Schemas |-> [v \in parts |-> [at \in Locations |->
                IF n = 0 THEN {} ELSE ErrorsOf(s, v, at, errors[n - 1])]]]
    IN  errors[Stack][schema][value][place]

\* The schemas and values validate_value calls itself with.  (An anyOf is taken to look at
\* every branch.)
Calls(s, v) ==
    LET kind == Kind(s)
        held(c, w) == {<<r, w>> : r \in Resolved(c)}
        branches == UNION {held(s[kind][i], v) : i \in DOMAIN s[kind]}
        properties == UNION {held(s.properties[k], v.obj[k]) : k \in DOMAIN Properties(s) \cap DOMAIN v.obj}
        extra == Get(s, "additionalProperties", [allowed |-> TRUE])
    IN  CASE Is(v, "null") /\ Flag(s, "nullable") -> {}
          [] OTHER ->
             CASE kind = "oneOf" /\ Discriminated(s, v) # {} -> {<<b, v>> : b \in Discriminated(s, v)}
               [] kind \in {"anyOf", "allOf"} \/ (kind = "oneOf" /\ Discriminated(s, v) = {}) -> branches
               [] kind = "not" -> held(s.not, v)
               [] kind = "array" /\ Is(v, "arr") /\ Has(s, "items") ->
                    UNION {held(s.items, v.arr[i]) : i \in DOMAIN v.arr}
               [] kind = "object" /\ Is(v, "obj") ->
                    properties \cup IF Has(extra, "allowed") THEN {}
                                    ELSE UNION {held(extra, v.obj[k]) : k \in Outside(s, v.obj)}
               [] kind = "any" /\ (Has(s, "type") => IsA(v, s.type)) ->
                    (IF Has(s, "not") THEN held(s.not, v) ELSE {})
                    \cup (IF Is(v, "obj") THEN properties ELSE {})
               [] OTHER -> {}

\* validate_value has no limit of its own: with a chain of calls that is longer than the
\* stack it takes the process with it.  A composition that leads back to itself, for the
\* same value, is such a chain whatever the stack.
Overflows(schema, value) ==
    LET parts == PartsOf(value, Stack)
        overflows[n \in 0 .. Stack] ==
            [s \in Schemas |-> [v \in parts |->
                n = 0 \/ \E c \in Calls(s, v) : overflows[n - 1][c[1]][c[2]]]]
    IN  overflows[Stack][schema][value]

=============================================================================
