------------------------------- MODULE Merges -------------------------------
(***************************************************************************)
(* What the faker does with schemas before it draws: merges of two, the    *)
(* choice of a branch, and the members of an enum worth drawing.           *)
(***************************************************************************)
EXTENDS JsonSchema, Leaves

Without(s, keys) == [k \in DOMAIN s \ keys |-> s[k]]

\* merge_arrays_dedup
Joined(a, b) == a \o SelectSeq(b, LAMBDA x : x \notin Range(a))

\* deep_merge: the overlay wins, except that schemas and maps of them are merged, and the
\* branches of a composition and the required names are added.  `enum` is replaced.
RECURSIVE DeepMerge(_, _)
DeepMerge(base, over) ==
    LET props(a, b) == [k \in DOMAIN a \cup DOMAIN b |->
                            IF k \notin DOMAIN b THEN a[k]
                            ELSE IF k \notin DOMAIN a THEN b[k] ELSE DeepMerge(a[k], b[k])]
        schema(s) == ~Has(s, "allowed")
    IN  [k \in DOMAIN base \cup DOMAIN over |->
            CASE ~Has(over, k) -> base[k]
              [] ~Has(base, k) -> over[k]
              [] OTHER ->
                 CASE k = "required" -> base.required \cup over.required
                   [] k \in {"allOf", "anyOf", "oneOf"} -> Joined(base[k], over[k])
                   [] k = "properties" -> props(base.properties, over.properties)
                   [] k \in {"items", "not"} -> DeepMerge(base[k], over[k])
                   [] k = "additionalProperties" ->
                        IF schema(base[k]) /\ schema(over[k]) THEN DeepMerge(base[k], over[k])
                        ELSE over[k]
                   [] OTHER -> over[k]]

\* resolve_sub_schema, resolve_if_ref: one step; a reference that does not resolve stays.
OneStep(s) == IF Has(s, "ref") /\ s.ref \in DOMAIN Components THEN Components[s.ref] ELSE s
MergedOnto(base, seq) == FoldLeft(LAMBDA acc, s : DeepMerge(acc, OneStep(s)), base, seq)

\* infer_type
HasAny(s, keys) == keys \cap DOMAIN s # {}
InferType(s) ==
    CASE Has(s, "type") -> IF s.type \in Types \cup {"null"} THEN s.type ELSE "unknown"
      [] OTHER ->
         CASE HasAny(s, {"properties", "required", "additionalProperties", "minProperties",
                         "maxProperties"}) -> "object"
           [] OTHER ->
              CASE HasAny(s, {"items", "minItems", "maxItems"}) -> "array"
                [] OTHER ->
                   CASE HasAny(s, {"minLength", "maxLength", "pattern", "format"}) -> "string"
                     [] OTHER ->
                        IF HasAny(s, {"minimum", "maximum", "exclusiveMinimum", "exclusiveMaximum",
                                      "multipleOf"})
                        THEN "number" ELSE "unknown"

\* value_satisfies_simple_constraints: no exclusive bounds (they are flags here), no
\* composition, no items; and a schema with properties takes objects only.
RECURSIVE SatisfiesSimply(_, _)
SatisfiesSimply(v, s) ==
    LET integral == Is(v, "int") \/ (IsNumber(v) /\ Tenths(v) % 10 = 0)
        plain == Without(s, {"exclusiveMinimum", "exclusiveMaximum"})
    IN  /\ Has(s, "enum") => v \in s.enum
        /\ Has(s, "type") => IF s.type = "integer" THEN integral
                             ELSE IF s.type = "null" THEN Is(v, "null") ELSE IsA(v, s.type)
        /\ IsNumber(v) => InBounds(plain, Tenths(v))
        /\ Is(v, "str") => /\ Len(v.str) >= MinLength(s)
                           /\ Has(s, "maxLength") => Len(v.str) <= s.maxLength
                           /\ Has(s, "pattern") => MatchesPattern(v.str, s.pattern)
        /\ (DOMAIN Properties(s) # {} \/ Required(s) # {}) =>
               IF ~Is(v, "obj") THEN FALSE
               ELSE /\ Required(s) \subseteq DOMAIN v.obj
                    /\ \A k \in DOMAIN Properties(s) \cap DOMAIN v.obj :
                            SatisfiesSimply(v.obj[k], s.properties[k])

\* filter_enum_for_one_of, filter_enum_for_any_of, filter_enum_by_outer_constraints: the
\* members worth drawing, none if the filter would leave none (or has nothing to go by).
Filtered(s, keyword) ==
    LET fits(v) == {i \in DOMAIN s[keyword] : SatisfiesSimply(v, s[keyword][i])}
        wanted(v) == CASE keyword = "oneOf" -> Cardinality(fits(v)) = 1
                       [] keyword = "anyOf" -> fits(v) # {}
                       [] keyword = "outer" -> HasAny(s, {"minimum", "maximum", "multipleOf",
                                "exclusiveMinimum", "exclusiveMaximum", "minLength", "maxLength", "pattern"})
    IN  {v \in s.enum : wanted(v) /\ SatisfiesSimply(v, s)}

\* generate_enum
FromEnum(set) == IF set = {} THEN {Null} ELSE set

\* pick_branch_compatible_with_base: branches that leave room for what the base requires.
Compatible(s, keyword) ==
    LET closed(b) == /\ Has(b, "additionalProperties")
                     /\ b.additionalProperties = [allowed |-> FALSE]
        fits == {i \in DOMAIN s[keyword] :
                    closed(s[keyword][i]) => Required(s) \subseteq DOMAIN Properties(s[keyword][i])}
    IN  IF fits = {} THEN DOMAIN s[keyword] ELSE fits

\* apply_exclusivity_pruning: what only other branches require goes, and what the chosen
\* branch forbids by not.required.
Pruned(merged, s, keyword, chosen) ==
    LET branch == s[keyword][chosen]
        closed == Get(merged, "additionalProperties", [allowed |-> TRUE]) = [allowed |-> FALSE]
        others == UNION {Required(s[keyword][i]) : i \in DOMAIN s[keyword] \ {chosen}}
        gone == ((IF closed \/ keyword = "oneOf" THEN others \ Required(branch) ELSE {})
                 \cup Required(Get(branch, "not", << >>))) \ Required(s)
    IN  [k \in DOMAIN merged |->
            CASE k = "properties" -> Without(merged.properties, gone)
              [] k = "required" -> merged.required \ gone
              [] OTHER -> merged[k]]

=============================================================================
