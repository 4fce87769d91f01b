------------------------------- MODULE Faker --------------------------------
(***************************************************************************)
(* The two generators of the faker: the walk that draws at random, with    *)
(* its limits on depth and on references, and the static one.              *)
(*                                                                         *)
(* Walk returns every outcome the draws allow.  `refs` counts the          *)
(* references followed on the way down (REF_DEPTH), and `err` is what the  *)
(* random source holds when the walk begins.  Keywords that openapiv3 does *)
(* not keep (const, if, patternProperties, contains, ...) are left out.    *)
(***************************************************************************)
EXTENDS Merges

CONSTANTS
    Canonical,   \* canonical_format_value
    RemoteRefs   \* references that do not start with "#"

\* GenerateOptions::default, as far as the server can change them.  The probability of
\* optional properties is unset, zero ("none"), one ("all") or in between ("some").
DefaultOptions ==
    [maxDepth |-> 5, refMax |-> 3, fakeAll |-> FALSE, optionals |-> "unset",
     requiredOnly |-> FALSE, fill |-> TRUE, minItems |-> {}, maxItems |-> {},
     useExamples |-> FALSE, useDefault |-> FALSE, failTypes |-> TRUE, failFormats |-> FALSE]

\* apply_jsf_config and node_level_options: the options a configuration names.
Overridden(o, config) == [k \in DOMAIN o |-> Get(config, k, o[k])]

\* CHASM_SKIP_KEY, is_skip_sentinel, skip_sentinel
Skip == Obj([k \in {"__chasm_skip"} |-> Bool(TRUE)])

Set(o, k, v) == [j \in DOMAIN o \cup {k} |-> IF j = k THEN v ELSE o[j]]

-----------------------------------------------------------------------------
(* Where the walk ends.                                                    *)

\* schema_is_recursive_only
RECURSIVE RecursiveOnly(_)
RecursiveOnly(s) ==
    /\ ~HasAny(s, {"type", "enum"})
    /\ HasAny(s, {"allOf", "anyOf", "oneOf"})
    /\ \A c \in {"allOf", "anyOf", "oneOf"} \cap DOMAIN s :
        \A i \in DOMAIN s[c] : Has(s[c][i], "ref") \/ RecursiveOnly(s[c][i])

\* merge_all_of_into_terminal_schema: the branches that resolve and were not met yet.  Their
\* own allOf are lost.
TerminalBranches(s, visited) ==
    LET fresh(i) == /\ s.allOf[i].ref \in DOMAIN Components \ visited
                    /\ \A j \in 1 .. (i - 1) : s.allOf[j] # s.allOf[i]
    IN  SelectSeq([i \in DOMAIN Get(s, "allOf", << >>) |-> i],
                  LAMBDA i : Has(s.allOf[i], "ref") => fresh(i))

\* terminal_value_for_schema_with_root, terminal_object_with_required.  Numbers are made
\* from floats, integers too.
RECURSIVE Terminal(_, _)
Terminal(s, visited) ==
    LET nullable == \E c \in {"oneOf", "anyOf"} \cap DOMAIN s :
                        \E i \in DOMAIN s[c] : Get(s[c][i], "type", "") = "null"
        branches == TerminalBranches(s, visited)
        refs == {s.allOf[i].ref : i \in {j \in Range(branches) : Has(s.allOf[j], "ref")}}
        merged == FoldLeft(LAMBDA acc, i : DeepMerge(acc, Without(OneStep(s.allOf[i]), {"allOf"})),
                           Without(s, {"allOf"}), branches)
        type == Get(s, "type", "none")
        number == IF Get(s, "minimum", 0) > 0 THEN s.minimum
                  ELSE IF Get(s, "maximum", 0) < 0 THEN s.maximum ELSE 0
        as[n \in Nat] == IF n = 0 THEN "" ELSE as[n - 1] \o "a"
        drawn == {x.v : x \in GenerateString(s, FALSE, FALSE)}
        members == [k \in Required(s) |-> Terminal(Get(Properties(s), k, << >>), visited)]
    IN  IF nullable THEN {Null}
        ELSE IF branches # << >> THEN Terminal(merged, visited \cup refs)
        ELSE IF Has(s, "ref")
             THEN IF s.ref \in visited THEN {Null}
                  ELSE IF s.ref \in DOMAIN Components
                       THEN Terminal(Components[s.ref], visited \cup {s.ref})
                       ELSE {Obj(<< >>)}
        ELSE CASE type = "string" -> IF HasAny(s, {"pattern", "format"}) THEN drawn
                                     ELSE {Str(as[MinLength(s)])}
               [] type = "number" -> {Float(number)}
               [] type = "integer" -> {Float(10 * Rounded(number))}
               [] type = "boolean" -> {Bool(FALSE)}
               [] type = "array" -> {Arr(<< >>)}
               [] type = "object" -> {Obj(f) : f \in Picks(members)}
               [] OTHER -> {Null}

-----------------------------------------------------------------------------
(* Branches.                                                               *)

\* is_terminal_friendly
TerminalFriendly(s) ==
    /\ ~Has(s, "ref")
    /\ \/ Get(s, "type", "") \in {"null", "boolean", "string", "number", "integer"}
       \/ Has(s, "enum")

\* pick_branch_with_depth: near the limit, and below the top of a schema that refers to
\* itself, the first branch that ends there.
PickBranch(branches, o, d) ==
    LET friendly == {i \in DOMAIN branches : TerminalFriendly(branches[i])}
        first == CHOOSE i \in friendly : \A j \in friendly : i <= j
        recursive == \E i \in DOMAIN branches : Has(branches[i], "ref")
    IN  IF friendly # {} /\ ((recursive /\ d >= 1) \/ d + 1 >= o.maxDepth)
        THEN {first} ELSE DOMAIN branches

\* apply_discriminator: the text the mapping has for the branch, or its name.
ApplyDiscriminator(s, branch, v) ==
    LET mapping == s.discriminator.mapping
        keys == {t \in DOMAIN mapping : mapping[t] = branch.ref}
        text == IF keys = {} THEN branch.ref ELSE CHOOSE t \in keys : TRUE
    IN  IF Has(s, "discriminator") /\ Has(branch, "ref") /\ Is(v, "obj")
        THEN Obj(Set(v.obj, s.discriminator.property, Str(text)))
        ELSE v

\* value_matches_not_schema, for the keywords not_schema_is_checkable knows.
MatchesNot(v, n) ==
    /\ Has(n, "enum") => v \in n.enum
    /\ Has(n, "type") => IF n.type = "integer" THEN Is(v, "int") ELSE IsA(v, n.type)

-----------------------------------------------------------------------------

RECURSIVE Walk(_, _, _, _, _), Dispatch(_, _, _, _, _, _)

\* `$ref`: the limit on references, then the target with the siblings merged over it.
WalkRef(s, o, d, refs, err) ==
    IF refs + 1 >= o.refMax THEN Outs(Terminal(s, {}), err)
    ELSE IF s.ref \in DOMAIN Components
         THEN Walk(DeepMerge(Components[s.ref], Without(s, {"ref"})), o, d + 1, refs + 1, err)
         ELSE {Out(Null, TRUE)}

Typed(s) == HasAny(s, {"type", "properties"}) /\ InferType(s) # "unknown"

\* allOf: with a type of its own the schema is merged with its branches and what the branches
\* have beside a type (an enum, say) is not looked at again; without one it is dropped for
\* the merge of its branches (generate_all_of).
WalkAllOf(s, o, d, refs, err) ==
    LET merged == MergedOnto(Without(s, {"allOf"}), s.allOf)
    IN  IF ~Typed(s) THEN Walk(MergedOnto(<< >>, s.allOf), o, d + 1, refs, err)
        ELSE IF HasAny(merged, {"oneOf", "anyOf"}) THEN Walk(merged, o, d + 1, refs, err)
        ELSE Dispatch(merged, InferType(merged), o, d, refs, err)

\* generate_any_of: branch after branch until one makes no error.  The errors of branches
\* are taken, and with them one that was there before.
RECURSIVE AnyOfFrom(_, _, _, _, _, _, _)
AnyOfFrom(s, next, left, o, d, refs, err) ==
    UNION {LET tried == Walk(s.anyOf[i], o, d + 1, refs, err)
               good == {Out(ApplyDiscriminator(s, s.anyOf[i], x.v), FALSE) :
                            x \in {y \in tried : ~y.err}}
               rest == left \ {i}
           IN  good \cup (IF \A x \in tried : ~x.err THEN {}
                          ELSE IF rest = {} THEN {Out(Null, TRUE)}
                          ELSE AnyOfFrom(s, rest, rest, o, d, refs, FALSE))
           : i \in next}

\* generate_one_of: one branch, without optional properties.  That others accept the value
\* too is only logged.
WalkOneOf(s, o, d, refs, err) ==
    LET bare == [o EXCEPT !.optionals = "none", !.fakeAll = FALSE]
    IN  UNION {{Out(ApplyDiscriminator(s, s.oneOf[i], x.v), x.err) :
                    x \in Walk(s.oneOf[i], bare, d + 1, refs, err)} : i \in PickBranch(s.oneOf, o, d)}

\* anyOf and oneOf: an enum is filtered by the branches; a type of its own is merged with one
\* branch as it stands, so that a reference among them is not followed.
WalkChoice(s, keyword, o, d, refs, err) ==
    LET enum == IF Has(s, "enum") THEN Filtered(s, keyword) ELSE {}
        merged(i) == Without(DeepMerge(s, s[keyword][i]), {keyword})
        pruned(i) == IF InferType(s) = "object" THEN Pruned(merged(i), s, keyword, i) ELSE merged(i)
        with(m) == IF HasAny(m, {"allOf", "anyOf", "oneOf", "enum"})
                   THEN Walk(m, o, d + 1, refs, err)
                   ELSE Dispatch(m, InferType(m), o, d, refs, err)
    IN  IF enum # {} THEN Outs(enum, err)
        ELSE IF Typed(s) THEN UNION {with(pruned(i)) : i \in Compatible(s, keyword)}
        ELSE IF keyword = "anyOf"
             THEN AnyOfFrom(s, PickBranch(s.anyOf, o, d), DOMAIN s.anyOf, o, d, refs, err)
             ELSE WalkOneOf(s, o, d, refs, err)

\* generate_not: a text, or a number where texts are excluded.
WalkNot(s, o, d, refs, err) ==
    LET type == IF Get(s.not, "type", "") = "string" THEN "number" ELSE "string"
    IN  Dispatch([type |-> type], type, o, d, refs, err)

NotAlone(s) ==
    Has(s, "not") /\ ~HasAny(s, {"type", "properties", "required", "items", "allOf", "anyOf", "oneOf",
                                 "enum", "minLength", "maxLength", "pattern", "format", "minimum",
                                 "maximum", "exclusiveMinimum", "exclusiveMaximum", "multipleOf",
                                 "minItems", "maxItems", "uniqueItems"})

\* The type is known.  With `not`, drawn again up to 30 times; thirty bad draws are possible
\* wherever one is.
WalkType(s, o, d, refs, err) ==
    LET drawn == Dispatch(s, InferType(s), o, d, refs, err)
        bad == {x \in drawn : MatchesNot(x.v, s.not)}
    IN  IF ~Has(s, "not") THEN drawn
        ELSE IF ~HasAny(s.not, {"enum", "type"}) THEN drawn
        ELSE (drawn \ bad) \cup {Out(Null, TRUE) : x \in bad}

\* walk_inner below the depth limit, in the order of its tests.  as_anonymous_object, for a
\* schema none of whose keys is a keyword, is left out: openapiv3 keeps no other keys, and
\* ExtensionAssumption keeps out the schema that has x-json-schema-faker alone.
Inner(s, o, d, refs, err) ==
    LET outer == Filtered(s, "outer")
    IN  IF Has(s, "ref") THEN WalkRef(s, o, d, refs, err)
        ELSE IF o.useExamples /\ Has(s, "example") THEN {Out(s.example, err)}
        ELSE IF o.useDefault /\ Has(s, "default") THEN {Out(s.default, err)}
        ELSE IF Has(s, "allOf") THEN WalkAllOf(s, o, d, refs, err)
        ELSE IF HasAny(s, {"anyOf", "oneOf"})
             THEN WalkChoice(s, IF Has(s, "anyOf") THEN "anyOf" ELSE "oneOf", o, d, refs, err)
        ELSE IF NotAlone(s) THEN WalkNot(s, o, d, refs, err)
        ELSE IF Has(s, "enum") THEN Outs(FromEnum(IF outer = {} THEN s.enum ELSE outer), err)
        ELSE IF Has(s, "arrayElement") THEN Outs(s.arrayElement, err)
        ELSE IF InferType(s) = "unknown" THEN {Out(Null, err \/ (Has(s, "type") /\ o.failTypes))}
        ELSE WalkType(s, o, d, refs, err)

\* walk: the options of the node, the depth limit, and null for what may be null.
Walk(s, options, d, refs, err) ==
    LET o == Overridden(options, Get(s, "options", << >>))
        mayBeNull == d > 0 /\ Flag(s, "nullable") /\ o.optionals # "none"
    IN  IF d >= o.maxDepth
        THEN IF RecursiveOnly(s) THEN {Out(Skip, err)} ELSE Outs(Terminal(s, {}), err)
        ELSE (IF mayBeNull THEN {Out(Null, err)} ELSE {})
             \cup (IF mayBeNull /\ o.optionals = "all" THEN {} ELSE Inner(s, o, d, refs, err))

-----------------------------------------------------------------------------
(* Arrays.                                                                 *)

\* walk_item, `n` times, each with the error the ones before have left.
RECURSIVE Items(_, _, _, _, _, _)
Items(s, n, o, d, refs, err) ==
    LET item(e) == IF Has(s, "arrayElement") THEN Outs(s.arrayElement, e)
                   ELSE Walk(s, o, d + 1, refs, e)
    IN  IF n = 0 THEN {Out(<< >>, err)}
        ELSE UNION {{Out(Append(x.v, y.v), y.err) : y \in item(x.err)} :
                        x \in Items(s, n - 1, o, d, refs, err)}

\* How many items: [min, target] for every target that may be drawn.
Lengths(s, o) ==
    LET least == Max({Get(s, "minItems", 0)} \cup o.minItems)
        capped == \A g \in o.maxItems : Has(s, "maxItems") => s.maxItems <= g
        most == IF o.maxItems = {} \/ (Has(s, "maxItems") /\ (capped \/ s.maxItems = 0))
                THEN Get(s, "maxItems", IF o.fakeAll THEN Greatest(least, 3) ELSE 3)
                ELSE CHOOSE g \in o.maxItems : TRUE
        raised == Greatest(most, least)
        max == IF Has(s, "maxItems") THEN Least(raised, s.maxItems) ELSE raised
        min == Least(least, max)
        targets == IF o.fakeAll \/ o.optionals = "all" THEN {max}
                   ELSE IF o.optionals = "none" THEN {min} ELSE min .. max
    IN  {[min |-> min, target |-> t] : t \in targets}

\* array::generate.  With uniqueItems as many different items as there are (the hundred
\* attempts of the code are enough to meet them all), an error if those are too few.
WalkArray(s, o, d, refs, err) ==
    LET items == Get(s, "items", << >>)
        many(n) == Items(items, n, o, d, refs, err)
        unique == Flag(s, "uniqueItems")
        supply == {x.v[1] : x \in many(1)}
        count(l) == IF unique THEN Least(l.target, Cardinality(supply)) ELSE l.target
        lists(l) == {x \in many(count(l)) : unique => NoRepeats(x.v)}
    IN  UNION {{Out(Arr(x.v), x.err \/ Len(x.v) < l.min) : x \in lists(l)} : l \in Lengths(s, o)}

-----------------------------------------------------------------------------
(* Objects.                                                                *)


\* What becomes of a marker: {} under a key that must be there, no key at all, or, under a
\* key made up for additionalProperties, the marker itself: nobody looks for it there.
Put(o, k, v, fate) ==
    CASE v # Skip \/ fate = "kept" -> Set(o, k, v)
      [] fate = "emptied"          -> Set(o, k, Obj(<< >>))
      [] OTHER                     -> o

\* The keys of `keys` in turn, with values of `schemas`, until there are `limit` of them.
RECURSIVE AddKeys(_, _, _, _, _, _, _, _)
AddKeys(acc, keys, schemas, fates, limit, o, d, refs) ==
    LET k == Head(keys)
        put(x) == Out(Put(acc.v, k, x.v, fates[k]), x.err)
    IN  IF keys = << >> \/ Cardinality(DOMAIN acc.v) >= limit THEN {acc}
        ELSE UNION {AddKeys(put(x), Tail(keys), schemas, fates, limit, o, d, refs) :
                        x \in Walk(schemas[k], o, d + 1, refs, acc.err)}

\* property_is_unsatisfiable
Unsatisfiable(s) == IF Has(s, "not") THEN DOMAIN s.not = {} ELSE FALSE

\* should_include_optional: the sets of optional properties that may be drawn.
Drawn(optional, o) ==
    IF o.requiredOnly THEN {{}}
    ELSE IF o.fakeAll \/ o.optionals = "all" THEN {optional}
    ELSE IF o.optionals = "none" THEN {{}} ELSE SUBSET optional

\* Keys nobody declared, up to n properties.
ExtraKeys(obj, prefix, n) ==
    LET size == Cardinality(DOMAIN obj)
    IN  [i \in 1 .. Greatest(n - size, 0) |-> prefix \o ToString(size + i - 1)]

\* Back to maxProperties, from the last key, required ones stay.
Trimmed(s, obj) ==
    LET optional == InOrder(DOMAIN obj \ Required(s))
        over == Cardinality(DOMAIN obj) - Get(s, "maxProperties", Cardinality(DOMAIN obj))
        kept == IF over <= 0 THEN Len(optional) ELSE Greatest(Len(optional) - over, 0)
    IN  Without(obj, {optional[i] : i \in (kept + 1) .. Len(optional)})

\* object::generate
WalkObject(s, o, d, refs, err) ==
    LET props == Properties(s)
        required == Required(s)
        extra == Get(s, "additionalProperties", [allowed |-> TRUE])
        closed == extra = [allowed |-> FALSE]
        schema == ~Has(extra, "allowed")
        least == Get(s, "minProperties", 0)
        able == {k \in DOMAIN props : k \notin required => ~Unsatisfiable(props[k])}
        size(x) == Cardinality(DOMAIN x.v)
        add(acc, keys, fate, limit) ==
            AddKeys(acc, keys, [k \in Range(keys) |-> Get(props, k, IF schema THEN extra ELSE << >>)],
                    [k \in Range(keys) |-> IF k \in required THEN "emptied" ELSE fate], limit, o, d, refs)
        tooMany == Has(s, "maxProperties") /\ s.maxProperties < Cardinality(required)
        \* the declared properties that are drawn, then what is required and not declared
        declared == UNION {add(Out(<< >>, err \/ tooMany), InOrder((required \cap able) \cup chosen),
                               "dropped", Len(KeyOrder)) : chosen \in Drawn(able \ required, o)}
        complete == UNION {add(x, InOrder(required \ DOMAIN x.v), "emptied", Len(KeyOrder)) : x \in declared}
        \* up to minProperties: declared ones where no others are allowed, else made-up keys
        spare(x) == IF closed THEN InOrder(able \ DOMAIN x.v)
                    ELSE IF schema
                    THEN ExtraKeys(x.v, "extra_", Least(least, Get(s, "maxProperties", least) + 1))
                    ELSE << >>
        more(x) == IF o.fill /\ ~closed THEN ExtraKeys(x.v, "prop_", least) ELSE << >>
        spared == UNION {add(x, spare(x), IF closed THEN "dropped" ELSE "kept", least) : x \in complete}
        filled == UNION {add(x, more(x), "dropped", least) : x \in spared}
        trimmed == {Out(Trimmed(s, x.v), x.err) : x \in filled}
        wanted == Greatest(least, Cardinality(required))
        undeclared == closed /\ ~(required \subseteq DOMAIN props)
        short(x) == closed /\ size(x) < wanted /\ Cardinality(DOMAIN props) < wanted
    IN  {Out(Obj(x.v), x.err \/ undeclared \/ short(x)) : x \in trimmed}

Dispatch(s, type, o, d, refs, err) ==
    CASE type = "string"  -> GenerateString(s, o.failFormats, err)
      [] type = "number"  -> Outs(GenerateNumber(s), err)
      [] type = "integer" -> Outs(GenerateInteger(s), err)
      [] type = "boolean" -> Outs({Bool(FALSE), Bool(TRUE)}, err)
      [] type = "array"   -> WalkArray(s, o, d, refs, err)
      [] type = "object"  -> WalkObject(s, o, d, refs, err)
      [] OTHER            -> {Out(Null, err)}

=============================================================================
