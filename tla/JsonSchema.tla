----------------------------- MODULE JsonSchema -----------------------------
(***************************************************************************)
(* The schemas of a document, and what a schema means.                     *)
(***************************************************************************)
EXTENDS Json

CONSTANTS
    Components,  \* components.schemas: names to schemas
    Inline,      \* every schema that is written elsewhere in the document, at any depth
    Stack        \* how many calls of validate_value fit on the stack of a thread

\* The schemas of the document.
Schemas == Range(Components) \cup Inline

\* The schemas written right below s.
Below(s) ==
    {s.properties[k] : k \in DOMAIN Properties(s)}
    \cup (UNION {{s[c][i] : i \in DOMAIN s[c]} : c \in {"oneOf", "anyOf", "allOf"} \cap DOMAIN s})
    \cup {s[k] : k \in {"items", "not"} \cap DOMAIN s}
    \cup {x \in {Get(s, "additionalProperties", [allowed |-> TRUE])} : ~Has(x, "allowed")}

\* One call inside another, at least.
ASSUME StackAssumption == Stack \in Nat \ {0, 1}

ASSUME DocumentAssumption ==
    /\ IsFiniteSet(DOMAIN Components)
    /\ \A s \in Schemas : Below(s) \subseteq Schemas

\* The members of an enum of integers are integers, and additionalProperties is a truth
\* value or a schema.
ASSUME ParserAssumption ==
    \A s \in Schemas :
        /\ (Kind(s) = "integer" /\ Has(s, "enum")) => \A e \in s.enum : JsonValue(e)
        /\ Has(Get(s, "additionalProperties", << >>), "allowed") => s.additionalProperties.allowed \in BOOLEAN

\* resolve_schema, resolve_boxed_schema: one step, and nothing if that leads to another
\* reference.
Resolved(s) ==
    IF ~Has(s, "ref") THEN {s}
    ELSE IF s.ref \in DOMAIN Components
         THEN {c \in {Components[s.ref]} : ~Has(c, "ref")}
         ELSE {}

-----------------------------------------------------------------------------
(* What a schema means: the reference the validator is compared with.      *)
(* References are followed to their end, nothing returns early, and every  *)
(* keyword of every schema counts.                                         *)

\* Where a chain of references leads to.
Target(s) ==
    LET steps == Cardinality(DOMAIN Components)
        after[n \in 0 .. steps] ==
            IF n = 0 THEN s
            ELSE LET t == after[n - 1]
                 IN  IF Has(t, "ref") /\ t.ref \in DOMAIN Components
                     THEN Components[t.ref] ELSE t
    IN  after[steps]

Outside(s, o) == DOMAIN o \ DOMAIN Properties(s)

\* That v conforms to s, where inside[r][w] says whether w conforms to r, for the schemas
\* below s and the values inside v.
Means(s, v, inside) ==
    \/ Is(v, "null") /\ Flag(s, "nullable")
    \/ /\ MeansScalar(s, v)
       /\ Is(v, "obj") =>
            /\ Required(s) \subseteq DOMAIN v.obj
            /\ \A k \in DOMAIN v.obj \cap DOMAIN Properties(s) : inside[s.properties[k]][v.obj[k]]
            /\ Has(s, "additionalProperties") =>
                    \A k \in Outside(s, v.obj) :
                        IF Has(s.additionalProperties, "allowed")
                        THEN s.additionalProperties.allowed
                        ELSE inside[s.additionalProperties][v.obj[k]]
            /\ Cardinality(DOMAIN v.obj) >= Get(s, "minProperties", 0)
            /\ Has(s, "maxProperties") => Cardinality(DOMAIN v.obj) <= s.maxProperties
       /\ Is(v, "arr") =>
            /\ Len(v.arr) >= Get(s, "minItems", 0)
            /\ Has(s, "maxItems") => Len(v.arr) <= s.maxItems
            /\ Flag(s, "uniqueItems") => NoRepeats(v.arr)
            /\ Has(s, "items") => \A i \in DOMAIN v.arr : inside[s.items][v.arr[i]]
       /\ Has(s, "allOf") => \A i \in DOMAIN s.allOf : inside[s.allOf[i]][v]
       /\ Has(s, "anyOf") => \E i \in DOMAIN s.anyOf : inside[s.anyOf[i]][v]
       /\ Has(s, "oneOf") => Cardinality({i \in DOMAIN s.oneOf : inside[s.oneOf[i]][v]}) = 1
       /\ Has(s, "not") => ~inside[s.not][v]

\* What is deeper than the stack is taken not to conform.
Conforms(schema, value) ==
    LET parts == PartsOf(value, Stack)
        conforms[n \in 0 .. Stack] ==
            [s \in Schemas |-> [v \in parts |-> n > 0 /\ Means(Target(s), v, conforms[n - 1])]]
    IN  conforms[Stack][schema][value]

=============================================================================
