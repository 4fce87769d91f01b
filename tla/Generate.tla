------------------------------ MODULE Generate ------------------------------
(***************************************************************************)
(* The round trip of RoundTrip with the faker as the one who makes values. *)
(* Generator and validator are separate crates with separate ideas of a    *)
(* schema, and this is where they have to agree.                           *)
(***************************************************************************)
EXTENDS StaticFaker, RoundTrip

CONSTANTS
    Values    \* the values a text of a request may have been made from

\* x-json-schema-faker beside no keyword at all would be read as a property of that name
\* (as_anonymous_object).
ASSUME ExtensionAssumption == \A s \in Inline \cup Range(Components) : DOMAIN s # {"options"}

\* generate_from_media_type
BodyOptions(dynamic, config) ==
    Overridden([DefaultOptions EXCEPT !.fakeAll = TRUE, !.useExamples = ~dynamic,
                                      !.useDefault = ~dynamic], config)

\* generate_header_value_from_schema, header_value_is_meaningful: a static text that is empty
\* is replaced by a dynamic one, if there is one.
HeaderValues(s, dynamic, config) ==
    LET o == Overridden(DefaultOptions, config)
        static == WalkStatic(s, o, {}, 0)
        drawn == GenerateDynamic(s, [o EXCEPT !.fakeAll = TRUE])
    IN  IF dynamic THEN drawn
        ELSE IF static # Str("") THEN {Out(static, FALSE)}
        ELSE {IF x.err THEN Out(static, FALSE) ELSE x : x \in drawn}

Outcomes(c) ==
    CASE c.by = "dynamic" -> GenerateDynamic(c.schema, BodyOptions(TRUE, c.config))
      [] c.by = "static"  -> GenerateStatic(c.schema, BodyOptions(FALSE, c.config))
      [] c.by \in {"header", "dynamic header"} ->
            HeaderValues(c.schema, c.by = "dynamic header", c.config)

-----------------------------------------------------------------------------
(* The schemas the properties are about.                                   *)

\* What the walk does not get wrong: within the limits of depth and references, a type and
\* keywords of that type which do not contradict each other, and compositions of those.
\* Values of different sorts differ.
Sort(s) ==
    LET kind == Kind(OneStep(s))
    IN  IF kind \in {"integer", "number"} THEN "number" ELSE IF kind \in Types THEN kind ELSE "mixed"

RECURSIVE Ordinary(_, _, _)
Ordinary(s, d, refs) ==
    LET kind == Kind(s)
        within(r) == Ordinary(r, d + 1, refs)
        branches == IF kind \in {"oneOf", "anyOf", "allOf"} THEN s[kind] ELSE << >>
        all == \A i \in DOMAIN branches : within(branches[i])
        props == Properties(s)
        merged == MergedOnto(<< >>, branches)
    IN  /\ d < 5 /\ ~HasAny(s, {"options", "arrayElement"})
        /\ IF Has(s, "ref")
           THEN /\ refs + 1 < 3 /\ DOMAIN s = {"ref"} /\ s.ref \in DOMAIN Components
                /\ Ordinary(Components[s.ref], d + 1, refs + 1)
           ELSE CASE kind = "string" ->
                       /\ MinLength(s) <= Get(s, "maxLength", MinLength(s))
                       /\ ~Has(s, "pattern")
                       /\ Has(s, "format") => ~HasAny(s, {"enum", "minLength", "maxLength"})
                       /\ Has(s, "enum") => Filtered(s, "outer") # {}
                  [] kind \in {"integer", "number"} ->
                       /\ Has(s, "format") => (s.format = "int32" /\ DOMAIN s = {"type", "format"})
                       /\ Has(s, "enum") => DOMAIN s = {"type", "enum"}
                       /\ \E v \in Values : IsNumber(v) /\ Tenths(v) \in Lo(s) .. Hi(s) /\ MeansScalar(s, v)
                       /\ (kind = "number" /\ Get(s, "multipleOf", 0) > 0) => StepIsKept(s)
                  [] kind = "boolean" -> TRUE
                  [] kind = "array" ->
                       /\ Get(s, "minItems", 0) <= Get(s, "maxItems", Get(s, "minItems", 0))
                       /\ Has(s, "items") => within(s.items)
                  [] kind = "object" ->
                       /\ \A k \in DOMAIN props : within(props[k])
                       /\ (Has(s, "additionalProperties") /\ ~Has(Get(s, "additionalProperties", << >>), "allowed"))
                            => within(s.additionalProperties)
                  [] kind = "anyOf" -> all
                  [] kind = "oneOf" -> all /\ NoRepeats([i \in DOMAIN branches |-> Sort(branches[i])])
                  [] kind = "allOf" ->
                       /\ all /\ within(merged)
                       /\ \A i \in DOMAIN branches : Kind(OneStep(branches[i])) = "object"
                       /\ \A i, j \in DOMAIN branches :
                            i # j => DOMAIN Properties(OneStep(branches[i]))
                                     \cap DOMAIN Properties(OneStep(branches[j])) = {}
                  [] kind = "not" -> DOMAIN s.not = {"type"}
                  [] kind = "any" -> DOMAIN s \subseteq Annotations

-----------------------------------------------------------------------------
(* Properties.                                                             *)

\* A value the server drew for an ordinary schema is accepted when it comes back: the depth
\* limit, the draws and the merges of the walk stay within what the validator asks.
GeneratedIsAccepted ==
    (phase = "judged" /\ case.by = "dynamic" /\ JsonBody /\ Ordinary(case.schema, 0, 0)
        /\ Get(case.config, "fill", TRUE)) => errors = {}

\* What the value holds at a place an error names: [] is any of the items.
HeldAt(v, path) ==
    LET into(w, k) == IF Is(w, "arr") THEN Range(w.arr) ELSE {w.obj[k]}
    IN  FoldLeft(LAMBDA ws, k : UNION {into(w, k) : w \in ws}, {v}, path)

\* An object that stands for what the depth limit has cut off: the marker, with what has been
\* written into it, or the {} put in its place.
StandsIn(w) == DOMAIN w.obj = {} \/ "__chasm_skip" \in DOMAIN w.obj


\* ... and no drawn value lacks one at all: at the depth limit the branches of an allOf are
\* merged "instead of returning an empty object that violates the `required` contract"
\* (schema_walker.rs:1111-1112).
RequiredSurvivesTheCutoff ==
    (phase = "judged" /\ case.by = "dynamic" /\ JsonBody) => \A e \in errors : e.code # "required"

\* The marker of the depth limit never leaves the generator (CHASM_SKIP_KEY: the object
\* generator leaves the key out or puts {} in its place).
RECURSIVE HasMarker(_)
HasMarker(v) ==
    \/ Is(v, "obj") /\ ("__chasm_skip" \in DOMAIN v.obj \/ \E k \in DOMAIN v.obj : HasMarker(v.obj[k]))
    \/ Is(v, "arr") /\ \E i \in DOMAIN v.arr : HasMarker(v.arr[i])
MarkersStayInside == ~HasMarker(value)

\* generate and the generators it calls: a value that conforms to the schema, or an error.
ConformsAsPromised ==
    (phase = "made" /\ case.by = "dynamic") => Conforms(case.schema, value)

=============================================================================
