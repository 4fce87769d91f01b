-------------------------- MODULE RequestValidation --------------------------
(***************************************************************************)
(* How the parts of a request become values, and the errors they get:      *)
(* parameters and bodies of validation.rs, and the server's reader of      *)
(* bodies.                                                                 *)
(*                                                                         *)
(* The text of a parameter is the sequence of its comma-separated pieces,  *)
(* each the one or two texts around its first "=".  `schema` of a          *)
(* parameter or of a media type is a set: empty if there is none, or only  *)
(* `content`.  A content type is <<type, subtype>>, without parameters;    *)
(* << >> if there is none.                                                 *)
(***************************************************************************)
EXTENDS Validation

CONSTANTS
    WholeText,   \* texts an integer of 128 bits is parsed from, and the integers
    NumberText   \* texts a float is parsed from, and the tenths they stand for

\* Whatever writes an integer writes a number.
ASSUME TextAssumption ==
    /\ \A t \in DOMAIN WholeText :
            WholeText[t] \in Int /\ t \in DOMAIN NumberText /\ NumberText[t] = 10 * WholeText[t]
    /\ \A t \in DOMAIN NumberText : NumberText[t] \in Int

SchemaOf(p) == UNION {Resolved(s) : s \in p.schema}

PieceText(piece) == IF Len(piece) = 1 THEN piece[1] ELSE piece[1] \o "=" \o piece[2]
RawText(raw) ==
    LET text[i \in DOMAIN raw] == IF i = 1 THEN PieceText(raw[1])
                                  ELSE text[i - 1] \o "," \o PieceText(raw[i])
    IN  text[Len(raw)]

\* The pieces of an empty text.
Nothing == <<<<NoText>>>>

-----------------------------------------------------------------------------
(* Texts to values.                                                        *)

Overflow == [overflow |-> TRUE]

\* coerce_string_to_schema_value: a text that does not parse stays a text.
CoerceString(text, s) ==
    LET type == IF Kind(s) \in Types \cup {"any"} THEN Get(s, "type", "none") ELSE "none"
    IN  CASE type = "integer" /\ text \in DOMAIN WholeText ->
                IF IsI64(Whole(WholeText[text])) THEN Whole(WholeText[text]) ELSE Overflow
          [] type = "number" /\ text \in DOMAIN NumberText -> Float(NumberText[text])
          [] type = "boolean" /\ text \in {"true", "false"} -> Bool(text = "true")
          [] OTHER -> Str(text)

\* Where an overflow has no error of its own, the text stays.
CoerceOrKeep(text, schemas) ==
    LET v == CoerceString(text, CHOOSE s \in schemas : TRUE)
    IN  IF schemas = {} THEN Str(text) ELSE IF v = Overflow THEN Str(text) ELSE v

\* Mutant of CoerceArray: the items stay texts.
ArrayOfTexts(s, raw) == Arr([i \in DOMAIN raw |-> Str(PieceText(raw[i]))])

\* coerce_array_param
CoerceArray(s, raw) ==
    LET items == IF Has(s, "items") THEN Resolved(s.items) ELSE {}
    IN  IF raw = Nothing THEN Arr(<< >>)
        ELSE Arr([i \in DOMAIN raw |-> CoerceOrKeep(PieceText(raw[i]), items)])

\* coerce_object_param: k=v,... or k,v,..., the values texts whatever the schema says.
\* The last of two equal keys counts, and an odd key has an empty value.
CoerceObject(raw, explode) ==
    LET pairs == IF explode THEN {i \in DOMAIN raw : Len(raw[i]) = 2}
                            ELSE {i \in DOMAIN raw : i % 2 = 1}
        key(i) == IF explode THEN raw[i][1] ELSE PieceText(raw[i])
        value(i) == IF explode THEN raw[i][2]
                    ELSE IF i = Len(raw) THEN NoText ELSE PieceText(raw[i + 1])
        last(k) == CHOOSE i \in pairs : key(i) = k /\ \A j \in pairs : key(j) = k => j <= i
    IN  IF raw = Nothing THEN Obj(<< >>)
        ELSE Obj([k \in {key(i) : i \in pairs} |-> Str(value(last(k)))])

Decode(s, raw, explode) ==
    CASE Kind(s) = "array"  -> CoerceArray(s, raw)
      [] Kind(s) = "object" -> CoerceObject(raw, explode)
      [] OTHER              -> CoerceString(RawText(raw), s)

-----------------------------------------------------------------------------
(* Parameters.                                                             *)

\* validate_string_against_schema: an integer too large gets an error of its own.
AsText(s, raw, at) ==
    LET v == CoerceString(RawText(raw), s)
    IN  IF v = Overflow THEN {Err(at, "format")} ELSE ValidateValue(s, v, at)

\* try_validate_composite_param: whether one branch on its own takes the text.
SomeBranchTakes(schemas, raw, explode) ==
    \E i \in DOMAIN schemas : \E r \in Resolved(schemas[i]) :
        LET v == Decode(r, raw, explode) IN v # Overflow /\ ValidateValue(r, v, <<"_">>) = {}

\* validate_serialised_param_against_schema
ValidateSerialised(p, raw, explode, at) ==
    UNION {CASE Kind(s) \in {"array", "object"} -> ValidateValue(s, Decode(s, raw, explode), at)
             [] Kind(s) = "anyOf" -> IF SomeBranchTakes(s.anyOf, raw, explode) THEN {}
                                     ELSE AsText(s, raw, at)
             [] Kind(s) = "oneOf" -> IF SomeBranchTakes(s.oneOf, raw, explode) THEN {}
                                     ELSE AsText(s, raw, at)
             [] OTHER -> AsText(s, raw, at)
           : s \in SchemaOf(p)}

Given(p, fields, explode, at, required) ==
    LET raws == {f.raw : f \in {g \in fields : g.name = p.name /\ g.key = NoText}}
    IN  IF raws = {} THEN Unless(~required, at, "required")
        ELSE UNION {ValidateSerialised(p, raw, explode, at) : raw \in raws}

\* `explode` of a parameter is a set: empty, or what the specification says.
Explodes(p, default) == IF p.explode = {} THEN default ELSE TRUE \in p.explode

\* validate_path_param: required, whatever the specification says.
PathErrors(p, fields) == Given(p, fields, Explodes(p, FALSE), <<"path", p.name>>, TRUE)

\* validate_deep_object_query_param: name[key]=value, the values by the schemas of the
\* properties.  With one of these, name=value is not looked at.
DeepErrors(p, fields) ==
    LET at == <<"query", p.name>>
        deep == {f \in fields : f.name = p.name /\ f.key # NoText}
        text(k) == RawText((CHOOSE f \in deep : f.key = k).raw)
        typed(s, k) == IF k \in DOMAIN Properties(s)
                       THEN CoerceOrKeep(text(k), Resolved(s.properties[k]))
                       ELSE Str(text(k))
    IN  IF deep = {} THEN Given(p, fields, Explodes(p, TRUE), at, p.required)
        ELSE UNION {ValidateValue(s, Obj([k \in {f.key : f \in deep} |-> typed(s, k)]), at) :
                        s \in SchemaOf(p)}

\* validate_query_param
QueryErrors(p, fields) ==
    IF p.style = "deepObject" /\ \E s \in SchemaOf(p) : Kind(s) = "object"
    THEN DeepErrors(p, fields)
    ELSE Given(p, fields, Explodes(p, TRUE), <<"query", p.name>>, p.required)

\* validate_header_param, is_reserved_header_name
HeaderErrors(p, fields) ==
    IF p.name \in {"Accept", "Content-Type", "Authorization"} THEN {}
    ELSE Given(p, fields, Explodes(p, FALSE), <<"header", p.name>>, p.required)

ParameterErrors(p, req) ==
    CASE p.in = "path"   -> PathErrors(p, req.path)
      [] p.in = "query"  -> QueryErrors(p, req.query)
      [] p.in = "header" -> HeaderErrors(p, req.header)
      [] p.in = "cookie" -> {}

\* dedupe_parameters: of two with the same name and place the later one, which is the
\* operation's.
Dedupe(params) ==
    {params[i] : i \in {j \in DOMAIN params :
        \A k \in DOMAIN params : (k > j) => <<params[k].name, params[k].in>>
                                            # <<params[j].name, params[j].in>>}}

-----------------------------------------------------------------------------
(* Bodies.                                                                 *)

Json == <<"application", "json">>
UrlEncoded == <<"application", "x-www-form-urlencoded">>
Multipart == <<"multipart", "form-data">>
NoType == << >>

\* is_xml_content_type
IsXml(type) == type \in {<<"application", "xml">>, <<"text", "xml">>, <<"application", "atom+xml">>}

\* media_range_matches
InRange(range, type) == range = type \/ (range[2] = "*" /\ range[1] = type[1])

\* parse_form_urlencoded_to_json: one text, or the array of the texts of a repeated key.
FormObject(pairs) ==
    LET at(k) == {i \in DOMAIN pairs : pairs[i][1] = k}
        text(k, n) == Str(pairs[CHOOSE i \in at(k) : Cardinality({j \in at(k) : j <= i}) = n][2])
        times(k) == Cardinality(at(k))
    IN  Obj([k \in {pairs[i][1] : i \in DOMAIN pairs} |->
                IF times(k) = 1 THEN text(k, 1) ELSE Arr([n \in 1 .. times(k) |-> text(k, n)])])

\* parse_request_body_for_validation, of which the server uses what it does with a
\* multipart body: the names of its parts, none of them without a boundary.
PartsObject(wire) ==
    Obj([k \in {wire.names[i] : i \in {j \in DOMAIN wire.names : wire.boundary}} |-> Str("")])

\* read_optional_json_body.  No value is read from an empty body, from one without a type,
\* from one of a type the reader does not know, and from a text that is not JSON.
Placeholder == Str("<binary>")
ReadBody(type, wire) ==
    CASE type = NoType \/ wire.form = "empty" -> {}
      [] OTHER ->
         CASE type = Json -> IF wire.form = "json" THEN {wire.value} ELSE {}
           [] type = UrlEncoded ->
                {FormObject(IF wire.form = "form" THEN wire.pairs ELSE <<<<"<text>", "">>>>)}
           [] type = Multipart ->
                {IF wire.form = "parts" THEN PartsObject(wire) ELSE Obj(<< >>)}
           [] type = <<"application", "octet-stream">> \/ type[1] = "text" -> {Placeholder}
           [] OTHER -> {}

\* validate_required_only, with room for n more calls in required[n].
RequiredOnly(schema, v, at) ==
    LET required[n \in 0 .. Stack] ==
            [s \in Schemas |->
                IF n = 0 \/ ~Is(v, "obj") THEN {}
                ELSE IF Kind(s) \in {"object", "any"} THEN RequiredErrors(s, v.obj, at)
                ELSE IF Kind(s) = "allOf"
                     THEN UNION {UNION {required[n - 1][r] : r \in Resolved(s.allOf[i])} :
                                    i \in DOMAIN s.allOf}
                ELSE {}]
    IN  required[Stack][schema]

\* The first media type that is JSON or that of the request: a form body is held against
\* the JSON schema if that comes first.
MediaFor(content, type) ==
    LET fits == {i \in DOMAIN content :
                    content[i].type \in {Json, IF type = NoType THEN Json ELSE type}}
    IN  IF fits = {} THEN {} ELSE {content[CHOOSE i \in fits : \A j \in fits : i <= j]}

\* validate_body.  A type that is not accepted does not stop the value from being checked.
BodyErrors(def, type, body) ==
    LET at == <<"body">>
        accepted == \/ type = NoType \/ def.content = << >>
                    \/ \E i \in DOMAIN def.content : InRange(def.content[i].type, type)
        errors(s, v) == IF type = Multipart THEN RequiredOnly(s, v, at)
                        ELSE ValidateValue(s, v, at)
    IN  IF def.required /\ body = {} THEN {Err(at, "required")}
        ELSE Unless(accepted, at, "contentType")
             \cup (IF IsXml(type) THEN {}
                   ELSE UNION {UNION {UNION {errors(s, v) : s \in SchemaOf(m)} :
                                        m \in MediaFor(def.content, type)} : v \in body})

-----------------------------------------------------------------------------

\* validate.  The parameters of the path item come first; has_any_validation_target.
\* A definition is a record [shared, params, body], with `body` a set of at most one.
Validate(op, req) ==
    (UNION {ParameterErrors(p, req) : p \in Dedupe(op.shared \o op.params)})
    \cup (UNION {BodyErrors(def, req.type, req.body) : def \in op.body})

=============================================================================
