-------------------------------- MODULE Json --------------------------------
(***************************************************************************)
(* JSON values, the schemas of a specification, and what the keywords of a *)
(* single value mean.                                                      *)
(*                                                                         *)
(* A value is a record of one field that names its kind, so that 1, 1.0    *)
(* and "1" differ, as they do for serde_json.  A schema maps the keywords  *)
(* it has to their values; [ref |-> name] is a reference to a component.   *)
(* `enum` and `required` are sets, the compositions are sequences, and     *)
(* additionalProperties is [allowed |-> BOOLEAN] or a schema.  The numbers *)
(* of a schema (minimum, maximum, multipleOf) are counted in tenths, as    *)
(* are the floats.  Tenths are no floats (0.3 / 0.1 is not 3), so where    *)
(* the code calculates with floats what it gets wrong is a table.          *)
(***************************************************************************)
EXTENDS Integers, Sequences, FiniteSets, SequencesExt

CONSTANTS
    KeyOrder,    \* every key of an object, in the order a map keeps them
    Shape,       \* what a text can be read as: the fields of its record
    PatternOf,   \* patterns that compile, and the texts they match
    I32, I64,    \* the largest integer of 32 and of 64 bits
    Misdivided,  \* <<h, m>>: the quotient of the floats is whole and h / m is not, or the reverse
    Close        \* different numbers that are equal up to the tolerance of float_eq

ASSUME WidthAssumption == I32 \in Nat /\ I64 \in Nat /\ I32 < I64
ASSUME FloatAssumption == Misdivided \subseteq Int \X Nat /\ Close \subseteq Int \X Int

Null == [null |-> TRUE]
Bool(b) == [bool |-> b]
Whole(n) == [int |-> n]
Float(h) == [float |-> h]
Str(s) == [str |-> s]
Arr(seq) == [arr |-> seq]
Obj(f) == [obj |-> f]

Is(v, kind) == kind \in DOMAIN v
IsNumber(v) == Is(v, "int") \/ Is(v, "float")
Tenths(v) == IF Is(v, "int") THEN 10 * v.int ELSE v.float   \* as_f64
IsI64(v) == Is(v, "int") /\ v.int \in (0 - I64 - 1) .. I64   \* as_i64, is_i64

IsA(v, type) ==
    CASE type = "integer" -> IsI64(v)
      [] type = "number"  -> IsNumber(v)
      [] type = "string"  -> Is(v, "str")
      [] type = "boolean" -> Is(v, "bool")
      [] type = "object"  -> Is(v, "obj")
      [] type = "array"   -> Is(v, "arr")
      [] OTHER            -> TRUE

\* What serde_json::Value can be.
JsonValue(v) ==
    \/ v \in {Null, Bool(TRUE), Bool(FALSE)}
    \/ Is(v, "int") /\ v = Whole(v.int) /\ v.int \in Int
    \/ Is(v, "float") /\ v = Float(v.float) /\ v.float \in Int
    \/ Is(v, "str") /\ v = Str(v.str)
    \/ Is(v, "arr") /\ v = Arr(v.arr) /\ v.arr \in Seq(Range(v.arr))
    \/ Is(v, "obj") /\ v = Obj(v.obj) /\ IsFiniteSet(DOMAIN v.obj) /\ DOMAIN v.obj \subseteq Range(KeyOrder)

Members(v) == IF Is(v, "arr") THEN Range(v.arr) ELSE IF Is(v, "obj") THEN Range(v.obj) ELSE {}

\* v, and what lies up to n levels inside it.
PartsOf(v, n) ==
    LET layer[i \in 0 .. n] == IF i = 0 THEN {v} ELSE UNION {Members(w) : w \in layer[i - 1]}
    IN  UNION {layer[i] : i \in 0 .. n}

\* The keys of a map in the order they are kept in.
InOrder(keys) ==
    LET upTo[i \in 0 .. Len(KeyOrder)] ==
            IF i = 0 THEN << >>
            ELSE IF KeyOrder[i] \in keys THEN Append(upTo[i - 1], KeyOrder[i]) ELSE upTo[i - 1]
    IN  upTo[Len(KeyOrder)]

\* Every way to pick a member of each set.
Picks(sets) == {f \in [DOMAIN sets -> UNION {sets[k] : k \in DOMAIN sets}] :
                    \A k \in DOMAIN sets : f[k] \in sets[k]}

Has(s, key) == key \in DOMAIN s
Get(s, key, default) == IF Has(s, key) THEN s[key] ELSE default
Flag(s, key) == Get(s, key, FALSE)
Properties(s) == Get(s, "properties", << >>)
Required(s) == Get(s, "required", {})

-----------------------------------------------------------------------------
(* How openapiv3 sorts schemas into kinds.                                 *)

Types == {"string", "integer", "number", "boolean", "object", "array"}

TypeKeywords(type) ==
    CASE type = "string" -> {"type", "enum", "pattern", "format", "minLength", "maxLength"}
      [] type \in {"integer", "number"} ->
            {"type", "enum", "format", "minimum", "maximum", "exclusiveMinimum",
             "exclusiveMaximum", "multipleOf"}
      [] type = "boolean" -> {"type", "enum"}
      [] type = "object" -> {"type", "properties", "required", "additionalProperties",
                             "minProperties", "maxProperties"}
      [] type = "array" -> {"type", "items", "minItems", "maxItems", "uniqueItems"}

Annotations == {"nullable", "discriminator", "default", "example", "options", "arrayElement"}
Compositions == {"oneOf", "anyOf", "allOf", "not"}

\* The bounds of an openapiv3::IntegerType are integers.
WholeBounds(s) == \A k \in {"minimum", "maximum", "multipleOf"} \cap DOMAIN s : s[k] % 10 = 0

\* SchemaKind: a type with keywords of that type only, one composition and nothing else,
\* or anything ("any").
Kind(s) ==
    LET keys == DOMAIN s \ Annotations
        type == Get(s, "type", "none")
        fits == keys \subseteq TypeKeywords(type) /\ (type = "integer" => WholeBounds(s))
    IN  IF type \in Types THEN IF fits THEN type ELSE "any"
        ELSE IF \E c \in Compositions : keys = {c} THEN CHOOSE c \in Compositions : keys = {c}
        ELSE "any"

-----------------------------------------------------------------------------
(* Texts.  The grammars that need more than a regular expression are read  *)
(* as the numbers they write: [date |-> <<y, m, d>>, time |-> <<h, m, s>>]. *)

ReadAs(text, grammar) == text \in DOMAIN Shape /\ Has(Shape[text], grammar)

\* is_valid_ymd
IsValidYmd(y, m, d) ==
    LET leap == (y % 4 = 0 /\ y % 100 # 0) \/ y % 400 = 0
        last == IF m = 2 THEN IF leap THEN 29 ELSE 28
                ELSE IF m \in {4, 6, 9, 11} THEN 30 ELSE 31
    IN  m \in 1 .. 12 /\ d \in 1 .. last

\* is_valid_iso_time: a leap second at any minute.
IsValidTime(h, m, s) == h < 24 /\ m < 60 /\ s <= 60

\* matches_format.  Formats nobody listed are not enforced.
MatchesFormat(text, format) ==
    LET date == Shape[text].date
        time == Shape[text].time
    IN  CASE format = "date" -> /\ ReadAs(text, "date") /\ ~ReadAs(text, "time")
                                /\ IsValidYmd(date[1], date[2], date[3])
          [] format = "time" -> /\ ReadAs(text, "time") /\ ~ReadAs(text, "date")
                                /\ IsValidTime(time[1], time[2], time[3])
          [] format = "date-time" -> /\ ReadAs(text, "date") /\ ReadAs(text, "time")
                                     /\ IsValidYmd(date[1], date[2], date[3])
                                     /\ IsValidTime(time[1], time[2], time[3])
          [] format \in {"email", "uri", "uuid", "ipv4", "ipv6", "hostname", "byte"} ->
                                ReadAs(text, format)
          [] OTHER -> TRUE

\* check_pattern: a pattern that does not compile is not enforced.
MatchesPattern(text, pattern) == pattern \in DOMAIN PatternOf => text \in PatternOf[pattern]

\* A member of the set up to the way a number is written.
Among(v, set) ==
    v \in set \/ (IsNumber(v) /\ \E e \in set : IsNumber(e) /\ Tenths(e) = Tenths(v))

NoRepeats(seq) == \A i, j \in DOMAIN seq : i # j => seq[i] # seq[j]

NoText == ""

ASSUME KeyAssumption ==
    /\ KeyOrder \in Seq(STRING) /\ NoRepeats(KeyOrder)
    /\ NoText \notin Range(KeyOrder)

-----------------------------------------------------------------------------
(* What the floats make of numbers.                                        *)

\* float_eq
FloatEq(a, b) == a = b \/ <<a, b>> \in Close

\* passes_strict_multiple_of_check, of the validator and of the faker
PassesStrict(h, m) == h % m = 0 <=> <<h, m>> \notin Misdivided

\* No keyword of a number gets v wrong for being a float: what it says of v is what it means.
Sharp(s, v) ==
    (Kind(s) = "number" /\ IsNumber(v)) =>
        /\ Has(s, "multipleOf") => <<Tenths(v), s.multipleOf>> \notin Misdivided
        /\ Has(s, "enum") => \A e \in s.enum : IsNumber(e) => <<Tenths(e), Tenths(v)>> \notin Close

-----------------------------------------------------------------------------
(* What the keywords of a single value mean, whatever the kind of schema.  *)

\* The bounds and the step of a number.
InBounds(s, h) ==
    /\ Has(s, "minimum") => IF Flag(s, "exclusiveMinimum") THEN h > s.minimum ELSE h >= s.minimum
    /\ Has(s, "maximum") => IF Flag(s, "exclusiveMaximum") THEN h < s.maximum ELSE h <= s.maximum
    /\ (Has(s, "multipleOf") /\ s.multipleOf # 0) => h % s.multipleOf = 0

ScalarKinds == {"string", "integer", "number", "boolean"}

\* Every keyword that says something of v alone.
MeansScalar(s, v) ==
    /\ Has(s, "type") => IsA(v, s.type)
    /\ Has(s, "enum") => Among(v, s.enum)
    /\ Is(v, "str") =>
         /\ Has(s, "minLength") => Len(v.str) >= s.minLength
         /\ Has(s, "maxLength") => Len(v.str) <= s.maxLength
         /\ Has(s, "pattern") => MatchesPattern(v.str, s.pattern)
         /\ Has(s, "format") => MatchesFormat(v.str, s.format)
    /\ IsNumber(v) => InBounds(s, Tenths(v))
    /\ (Kind(s) = "integer" /\ Get(s, "format", "") = "int32" /\ IsI64(v)) => v.int \in (0 - I32 - 1) .. I32

=============================================================================
