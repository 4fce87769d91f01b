------------------------------ MODULE Scalars -------------------------------
(***************************************************************************)
(* validate_value (chasm-engine, validation.rs) where the schema is of a   *)
(* text, a number or a truth value.  Errors are as in Validation.          *)
(***************************************************************************)
EXTENDS Json

Err(at, code) == [at |-> at, code |-> code]
Unless(ok, at, code) == IF ok THEN {} ELSE {Err(at, code)}

BoundErrors(s, h, at) ==
    LET above == IF Flag(s, "exclusiveMinimum") THEN h > s.minimum ELSE h >= s.minimum
        below == IF Flag(s, "exclusiveMaximum") THEN h < s.maximum ELSE h <= s.maximum
        named(exclusive, plain) == IF Flag(s, exclusive) THEN exclusive ELSE plain
    IN  Unless(Has(s, "minimum") => above, at, named("exclusiveMinimum", "minimum"))
        \cup Unless(Has(s, "maximum") => below, at, named("exclusiveMaximum", "maximum"))

StringErrors(s, v, at) ==
    IF ~Is(v, "str") THEN {Err(at, "type")}
    ELSE IF Has(s, "enum") /\ v \notin s.enum THEN {Err(at, "enum")}
    ELSE Unless(Has(s, "minLength") => Len(v.str) >= s.minLength, at, "minLength")
         \cup Unless(Has(s, "maxLength") => Len(v.str) <= s.maxLength, at, "maxLength")
         \cup Unless(Has(s, "pattern") => MatchesPattern(v.str, s.pattern), at, "pattern")
         \cup Unless(Has(s, "format") => MatchesFormat(v.str, s.format), at, "format")

\* A number without a fraction that is written with one (1.0) is no integer.
IntegerErrors(s, v, at) ==
    IF ~IsI64(v) THEN {Err(at, "type")}
    ELSE IF Get(s, "format", "") = "int32" /\ v.int \notin (0 - I32 - 1) .. I32
         THEN {Err(at, "format")}
    ELSE IF Has(s, "enum") /\ v \notin s.enum THEN {Err(at, "enum")}
    ELSE BoundErrors(s, Tenths(v), at)
         \cup Unless((Has(s, "multipleOf") /\ s.multipleOf # 0) => Tenths(v) % s.multipleOf = 0,
                     at, "multipleOf")

\* Members of an enum and multiples are looked for among floats.
NumberErrors(s, v, at) ==
    IF ~IsNumber(v) THEN {Err(at, "type")}
    ELSE IF Has(s, "enum") /\ ~\E e \in s.enum : IsNumber(e) /\ FloatEq(Tenths(e), Tenths(v))
         THEN {Err(at, "enum")}
    ELSE BoundErrors(s, Tenths(v), at)
         \cup Unless((Has(s, "multipleOf") /\ s.multipleOf # 0) => PassesStrict(Tenths(v), s.multipleOf),
                     at, "multipleOf")

BooleanErrors(s, v, at) ==
    IF ~Is(v, "bool") THEN {Err(at, "type")}
    ELSE Unless(Has(s, "enum") => v \in s.enum, at, "enum")

ScalarErrors(s, v, at) ==
    CASE Kind(s) = "string"  -> StringErrors(s, v, at)
      [] Kind(s) = "integer" -> IntegerErrors(s, v, at)
      [] Kind(s) = "number"  -> NumberErrors(s, v, at)
      [] Kind(s) = "boolean" -> BooleanErrors(s, v, at)

=============================================================================
