----------------------------- MODULE RoundTrip ------------------------------
(***************************************************************************)
(* A value on its way round: the server makes it for a schema, as the body *)
(* or a header of an answer, or a client makes it up; the client sends it  *)
(* back where an operation wants a value of that schema; the server reads  *)
(* it and judges it.  What the server makes is left to Makes: Generate     *)
(* gives it the faker.                                                     *)
(*                                                                         *)
(* A case is the schema, who makes the value ("dynamic", "static",         *)
(* "header", "dynamic header" or "client"), the x-json-schema-faker        *)
(* configuration, the values a client may make up, and the place the value *)
(* is sent to: [in, type, style, explode].                                 *)
(***************************************************************************)
EXTENDS RequestValidation

CONSTANTS
    Cases,      \* the exchanges that are looked at
    Makes(_)    \* what the server may make for one: outcomes [v, err]

IsJson(v) == \A w \in PartsOf(v, Stack) : JsonValue(w)

\* Where a value can be sent to.
Place(place) ==
    /\ place.in \in {"body", "path", "query", "header"}
    /\ place.in = "body" => place.type \in {Json, UrlEncoded, Multipart}
    /\ place.style = "deepObject" => place.in = "query"
    /\ place.explode \in BOOLEAN

ASSUME CasesAssumption ==
    \A c \in Cases :
        /\ c.schema \in Schemas /\ Place(c.place)
        /\ IF c.by = "client" THEN \A v \in c.values : IsJson(v)
                              ELSE \A x \in Makes(c) : IsJson(x.v)

VARIABLES
    phase,    \* "asked", "made", "failed", "sent", "read", "judged" or "crashed"
    case,
    value,    \* the value on its way
    wire,     \* what is sent: a body, or the fields of a parameter
    request,  \* what the server made of it
    errors    \* what it says of it

vars == <<phase, case, value, wire, request, errors>>

Silence == [path |-> {}, query |-> {}, header |-> {}, type |-> NoType, body |-> {}]

Init ==
    /\ case \in Cases
    /\ phase = "asked"
    /\ value = Null
    /\ wire = {}
    /\ request = Silence
    /\ errors = {}

-----------------------------------------------------------------------------
(* Someone makes a value.                                                  *)

\* An error makes the answer a failure of the server, or leaves the header out.
Answer ==
    /\ phase = "asked" /\ case.by # "client"
    /\ \E x \in Makes(case) :
        /\ phase' = IF x.err THEN "failed" ELSE "made"
        /\ value' = x.v
    /\ UNCHANGED <<case, wire, request, errors>>

MakeUp ==
    /\ phase = "asked" /\ case.by = "client"
    /\ phase' = "made"
    /\ value' \in case.values
    /\ UNCHANGED <<case, wire, request, errors>>

-----------------------------------------------------------------------------
(* The client sends it.                                                    *)

\* header_value_to_string, and what clients write: a value without its type.
TextOf(v) ==
    CASE Is(v, "str")   -> v.str
      [] Is(v, "int")   -> ToString(v.int)
      [] Is(v, "float") -> CHOOSE t \in DOMAIN NumberText \ DOMAIN WholeText : NumberText[t] = v.float
      [] Is(v, "bool")  -> IF v.bool THEN "true" ELSE "false"
      [] Is(v, "null")  -> NoText

\* The pieces of a parameter.
RawOf(v, explode) ==
    LET keys == InOrder(DOMAIN v.obj)
        text(k) == TextOf(v.obj[k])
    IN  CASE Is(v, "arr") -> IF v.arr = << >> THEN Nothing
                             ELSE [i \in DOMAIN v.arr |-> <<TextOf(v.arr[i])>>]
          [] Is(v, "obj") -> IF DOMAIN v.obj = {} THEN Nothing
                             ELSE IF explode THEN [i \in DOMAIN keys |-> <<keys[i], text(keys[i])>>]
                             ELSE [i \in 1 .. 2 * Len(keys) |->
                                     <<IF i % 2 = 1 THEN keys[(i + 1) \div 2] ELSE text(keys[i \div 2])>>]
          [] OTHER -> <<<<TextOf(v)>>>>

Field(key, raw) == [name |-> "p", key |-> key, raw |-> raw]
FieldsOf(place, v) ==
    IF place.style = "deepObject" /\ Is(v, "obj")
    THEN {Field(k, <<<<TextOf(v.obj[k])>>>>) : k \in DOMAIN v.obj}
    ELSE {Field(NoText, RawOf(v, place.explode))}

\* What can be sent to a place: texts, a list or a map of them, or JSON.
Writable(place, v) ==
    LET scalar(x) == ~Is(x, "arr") /\ ~Is(x, "obj")
    IN  \/ place.in = "body" /\ place.type = Json
        \/ Is(v, "obj") /\ \A k \in DOMAIN v.obj : scalar(v.obj[k])
        \/ /\ place.in # "body" /\ place.style # "deepObject"
           /\ scalar(v) \/ (Is(v, "arr") /\ \A i \in DOMAIN v.arr : scalar(v.arr[i]))

WireOf(place, v) ==
    IF place.in # "body" THEN FieldsOf(place, v)
    ELSE IF place.type = UrlEncoded
         THEN LET keys == InOrder(DOMAIN v.obj)
              IN  IF keys = << >> THEN [form |-> "empty"]
                  ELSE [form |-> "form", pairs |-> [i \in DOMAIN keys |-> <<keys[i], TextOf(v.obj[keys[i]])>>]]
         ELSE IF place.type = Multipart
         THEN [form |-> "parts", names |-> InOrder(DOMAIN v.obj), boundary |-> TRUE]
         ELSE [form |-> "json", value |-> v]

Send ==
    /\ phase = "made" /\ Writable(case.place, value)
    /\ phase' = "sent"
    /\ wire' = WireOf(case.place, value)
    /\ UNCHANGED <<case, value, request, errors>>

-----------------------------------------------------------------------------
(* The server reads and judges it.                                         *)

Read ==
    /\ phase = "sent"
    /\ phase' = "read"
    /\ request' = IF case.place.in = "body"
                  THEN [Silence EXCEPT !.type = case.place.type,
                                       !.body = ReadBody(case.place.type, wire)]
                  ELSE [Silence EXCEPT ![case.place.in] = wire]
    /\ UNCHANGED <<case, value, wire, errors>>

\* The operation wants one value of the schema, there.
Operation(c) ==
    LET p == [in |-> c.place.in, name |-> "p", style |-> c.place.style, required |-> TRUE,
              explode |-> {c.place.explode}, schema |-> {c.schema}]
        def == [required |-> TRUE, content |-> <<[type |-> c.place.type, schema |-> {c.schema}]>>]
    IN  IF c.place.in = "body" THEN [shared |-> << >>, params |-> << >>, body |-> {def}]
        ELSE [shared |-> << >>, params |-> <<p>>, body |-> {}]

Endless == \E v \in request.body : \E s \in Resolved(case.schema) : Overflows(s, v)

\* A stack that is used up takes the process with it.
Judge ==
    /\ phase = "read"
    /\ phase' = IF Endless THEN "crashed" ELSE "judged"
    /\ errors' = IF Endless THEN {} ELSE Validate(Operation(case), request)
    /\ UNCHANGED <<case, value, wire, request>>

Next == Answer \/ MakeUp \/ Send \/ Read \/ Judge

Spec == Init /\ [][Next]_vars

-----------------------------------------------------------------------------
(* The schemas the properties are about.                                   *)

\* What the validator looks at in full: no counting of properties, no discriminator, no
\* reference to a reference, no composition next to a type; and, as the refusals of
\* additional properties get lost there, none inside an allOf; and no number among the values
\* that the floats of the validator get wrong.  `below` says it of the schemas below s, inside
\* an allOf (TRUE) or not.
EnforcedIn(s, inside, values, below) ==
    LET kind == Kind(s)
        sub(c, i) == Resolved(c) # {} /\ \A r \in Resolved(c) : below[r][i]
        props == \A k \in DOMAIN Properties(s) : sub(s.properties[k], inside)
    IN  /\ ~Has(s, "discriminator")
        /\ inside => ~Has(s, "additionalProperties")
        /\ CASE kind \in ScalarKinds ->
                    /\ (kind = "integer" /\ Has(s, "enum")) => \A v \in s.enum : ~Is(v, "float")
                    /\ \A v \in values : Sharp(s, v)
             [] kind = "array" -> Has(s, "items") => sub(s.items, inside)
             [] kind = "object" ->
                    /\ ~Has(s, "minProperties") /\ ~Has(s, "maxProperties") /\ props
                    /\ Has(s, "additionalProperties") =>
                        (Has(s.additionalProperties, "allowed") \/ sub(s.additionalProperties, inside))
             [] kind \in {"oneOf", "anyOf"} -> \A i \in DOMAIN s[kind] : sub(s[kind][i], FALSE)
             [] kind = "allOf" -> \A i \in DOMAIN s.allOf : sub(s.allOf[i], TRUE)
             [] kind = "not" -> sub(s.not, FALSE)
             [] kind = "any" ->
                    DOMAIN s \ Annotations \subseteq
                        {"type", "pattern", "format", "properties", "required"} /\ props

Enforced(schema, values) ==
    LET enforced[n \in 0 .. Stack] ==
            [s \in Schemas |-> [inside \in BOOLEAN |->
                n = 0 \/ EnforcedIn(s, inside, values, enforced[n - 1])]]
    IN  Resolved(schema) # {} /\ \A s \in Resolved(schema) : enforced[Stack][s][FALSE]

\* Every value that is written like v.
ReadText(t) ==
    {Str(t)} \cup {Bool(b) : b \in {x \in BOOLEAN : t = IF x THEN "true" ELSE "false"}}
    \cup {Whole(WholeText[x]) : x \in {t} \cap DOMAIN WholeText}
    \cup {Float(NumberText[x]) : x \in {t} \cap DOMAIN NumberText}
Readings(v) ==
    CASE Is(v, "arr") -> {Arr(f) : f \in Picks([i \in DOMAIN v.arr |-> ReadText(TextOf(v.arr[i]))])}
      [] Is(v, "obj") -> {Obj(f) : f \in Picks([k \in DOMAIN v.obj |-> ReadText(TextOf(v.obj[k]))])}
      [] OTHER -> ReadText(TextOf(v))

\* What can be said in texts, which have no types: a scalar, a list of scalars, or a map of
\* texts, where one is wanted; a deepObject has typed members.  Of a multipart body only the
\* names are looked at.  A list of one empty text is read as the empty list, and a map
\* without members leaves no trace in a form or a deepObject.  1 and 1.0 are different
\* numbers, but not as texts.
Textual(s, place, v) ==
    LET scalar(r) == Kind(r) \in ScalarKinds
        others == {r \in {Get(s, "additionalProperties", << >>)} : Has(s, "additionalProperties") /\ ~Has(r, "allowed")}
        single == /\ ~Is(v, "arr") /\ ~Is(v, "obj")
                  /\ scalar(s) \/ (Kind(s) = "anyOf" /\ \A i \in DOMAIN s.anyOf : scalar(s.anyOf[i]))
        list == /\ Is(v, "arr") /\ Kind(s) = "array" /\ Has(s, "items") /\ scalar(Get(s, "items", << >>))
                /\ Flag(s, "uniqueItems") => Kind(s.items) # "number"
                /\ RawOf(v, place.explode) = Nothing => v.arr = << >>
        map == /\ Is(v, "obj") /\ Kind(s) = "object"
               /\ \A r \in others : Kind(r) = "string"
               /\ \A k \in DOMAIN Properties(s) :
                    Kind(s.properties[k]) = "string" \/ (place.style = "deepObject" /\ scalar(s.properties[k]))
               /\ (place.in = "body" \/ place.style = "deepObject") => DOMAIN v.obj # {}
    IN  /\ IF place.in = "body" THEN place.type = UrlEncoded /\ map ELSE single \/ list \/ map
        /\ Enforced(s, UNION {{r} \cup Members(r) : r \in Readings(v)})

JsonBody == case.place.in = "body" /\ case.place.type = Json

-----------------------------------------------------------------------------
(* Properties.                                                             *)

\* What the validator says of a JSON body is what the schema means, for every schema whose
\* keywords it looks at and every value whose numbers it gets right: nothing is lost in its
\* early returns and its sorting into kinds.
VerdictIsTheMeaning ==
    (phase = "judged" /\ JsonBody /\ Enforced(case.schema, PartsOf(value, Stack)))
        => (errors = {}) = Conforms(case.schema, value)

\* "Returns true when `value` is within IEEE 754 epsilon tolerance of an exact multiple of
\* `multiple_of`" (passes_strict_multiple_of_check, validation.rs:1973-1974).
MultiplesAreTolerated ==
    (phase = "judged" /\ JsonBody /\ Conforms(case.schema, value))
        => \A e \in errors : e.code # "multipleOf"

\* A parameter or a form is accepted if and only if some value that is written that way
\* conforms: reading texts as numbers and lists neither adds nor loses anything.
TextsKeepTheirMeaning ==
    (phase = "judged" /\ Textual(case.schema, case.place, value))
        => (errors = {}) = \E v \in Readings(value) : Conforms(case.schema, v)

=============================================================================
