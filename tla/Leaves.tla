------------------------------- MODULE Leaves -------------------------------
(***************************************************************************)
(* What the faker makes of a schema without going further down: numbers    *)
(* and texts.                                                              *)
(*                                                                         *)
(* A generator that draws at random is the set of what it may return.  An  *)
(* outcome is a value and whether the random source holds an error: the    *)
(* first error stays until someone takes it.  Numbers are drawn from the   *)
(* tenths, so that the next float up is the next tenth.                    *)
(***************************************************************************)
EXTENDS Json

CONSTANTS
    DefaultBound,   \* the bound of a number that has none (1000 in the code)
    FormatBound,    \* and of a format that gives a sign (1 000 000)
    Int64Bound,     \* and of the format int64 (1 000 000 000)
    LargestStep,    \* the largest multipleOf that is looked at (10 ** 15)
    DefaultLength,  \* the longest text where nothing is said (20)
    Words,          \* what random_alphanumeric draws
    FormatText,     \* the formats the library knows, and the texts it makes of them
    Samples,        \* the texts the sampler of a pattern returns
    Resembles       \* <<format, text>> that format_output_looks_like accepts

ASSUME DefaultsAssumption ==
    /\ DefaultBound \in 1 .. I32 /\ FormatBound \in 1 .. I32 /\ Int64Bound \in 1 .. I32
    /\ LargestStep \in Nat /\ DefaultLength \in Nat \ {0}
    /\ \A n \in 1 .. DefaultLength : \E w \in Words : Len(w) = n
ASSUME EmptyAssumption == Len("") = 0

Out(v, err) == [v |-> v, err |-> err]
Outs(values, err) == {Out(v, err) : v \in values}

-----------------------------------------------------------------------------
(* Numbers.                                                                *)

\* Random::int and Random::float.  A range upside down is its first end.
Ints(lo, hi) == IF lo >= hi THEN {lo} ELSE lo .. hi
Floats(lo, hi) == IF lo >= hi THEN {lo} ELSE lo .. (hi - 1)

\* extract_bounds
Lo(s) == Get(s, "minimum", 0 - 10 * DefaultBound)
Hi(s) == Get(s, "maximum", 10 * DefaultBound)
\* Mutant of Step: exclusive bounds are inclusive.
NoStep(s, keyword) == 0

Step(s, keyword) == IF Flag(s, keyword) THEN 1 ELSE 0

\* clamp_to_i64: the nearest integer, halves away from zero.
Rounded(h) == IF h >= 0 THEN (h + 5) \div 10 ELSE 0 - ((5 - h) \div 10)
Truncated(h) == IF h >= 0 THEN h \div 10 ELSE 0 - ((0 - h) \div 10)
Within(n, lo, hi) == IF n < lo THEN lo ELSE IF n > hi THEN hi ELSE n
Least(a, b) == IF a < b THEN a ELSE b
Greatest(a, b) == IF a < b THEN b ELSE a

\* json_number
JsonNumber(h) == IF h % 10 = 0 THEN Whole(h \div 10) ELSE Float(h)

\* generate_for_numeric_format: neither exclusive bounds nor multipleOf count.
NumericFormats == {"positive-int", "negative-int", "nonnegative-int", "nonpositive-int",
                   "int32", "strict-int", "int64", "float", "double", "strict-float", "strict-bool"}
OfNumericFormat(s, asFloat) ==
    LET f == s.format
        min(default) == IF Has(s, "minimum") THEN Rounded(s.minimum) ELSE default
        max(default) == IF Has(s, "maximum") THEN Rounded(s.maximum) ELSE default
        above(least) == LET lo == Greatest(min(least), least)
                        IN  Ints(lo, Greatest(max(FormatBound), lo))
        below(most) == LET hi == Least(max(most), most)
                       IN  Ints(Least(min(0 - FormatBound), hi), hi)
        between(a, b) == Ints(Least(a, b), Greatest(a, b))
        i32(n) == Within(n, 0 - I32 - 1, I32)
        floats == Floats(Lo(s), Hi(s))
        ints == CASE f = "positive-int"    -> above(1)
                  [] f = "nonnegative-int" -> above(0)
                  [] f = "negative-int"    -> below(0 - 1)
                  [] f = "nonpositive-int" -> below(0)
                  [] f \in {"int32", "strict-int"} -> between(i32(min(0 - I32 - 1)), i32(max(I32)))
                  [] f = "int64" -> between(min(0 - Int64Bound), max(Int64Bound))
                  [] f = "strict-bool" -> {0, 1}
    IN  IF f \notin {"float", "double", "strict-float"} THEN {Whole(n) : n \in ints}
        ELSE IF asFloat THEN {JsonNumber(h) : h \in floats}
        ELSE {Whole(Truncated(h)) : h \in floats}

\* generate_multiple_of between lo and hi: a multiple that passes the check; a hundred draws
\* that do not end in 0 or the first one.  `grid` is lo .. hi rounded to the decimals of m, a
\* tenth at least, which undoes the step to the next float.
MultiplesOf(m, lo, hi, grid) ==
    LET multiples == {h \in grid : h % m = 0}
        passing == {h \in multiples : PassesStrict(h, m)}
        last == IF 0 \in multiples THEN 0 ELSE CHOOSE h \in multiples : \A k \in multiples : h <= k
    IN  CASE m > LargestStep -> {IF 0 \in lo .. hi THEN 0 ELSE lo}
          [] m <= LargestStep /\ multiples = {} -> {lo}
          [] OTHER -> passing \cup (IF passing = multiples THEN {} ELSE {last})

\* number::generate
GenerateNumber(s) ==
    LET up == Lo(s) + Step(s, "exclusiveMinimum")
        down == Hi(s) - Step(s, "exclusiveMaximum")
        lo == Least(up, down)
        hi == Greatest(down, lo)
        m == Get(s, "multipleOf", 0)
        tenths == IF m > 0 THEN MultiplesOf(m, lo, hi, Least(Lo(s), Hi(s)) .. Hi(s)) ELSE Floats(lo, hi)
    IN  IF Get(s, "format", "") \in NumericFormats THEN OfNumericFormat(s, TRUE)
        ELSE {JsonNumber(h) : h \in tenths}

\* Where that ends well: the generator rounds away what makes a bound exclusive, and what it
\* falls back to has to pass the check too.
StepIsKept(s) ==
    LET m == Get(s, "multipleOf", 0)
        multiples == {h \in Lo(s) .. Hi(s) : h % m = 0}
    IN  /\ m <= LargestStep /\ ~Flag(s, "exclusiveMinimum") /\ ~Flag(s, "exclusiveMaximum")
        /\ \E h \in multiples : /\ <<h, m>> \notin Misdivided
                                /\ h = 0 \/ (0 \notin multiples /\ \A k \in multiples : h <= k)

\* generate_integer, generate_integer_with_multiple_of.  A step that is whole is kept, even
\* beyond the upper bound; one that is not, where a multiple passes the check.
GenerateInteger(s) ==
    LET lo == (Lo(s) + 9) \div 10 + Step(s, "exclusiveMinimum")
        hi == Greatest(lo, Hi(s) \div 10 - Step(s, "exclusiveMaximum"))
        m == Get(s, "multipleOf", 0)
        fits == {n \in lo .. hi : (10 * n) % m = 0}
        next == CHOOSE n \in lo .. (lo + m) : (10 * n) % m = 0 /\ \A k \in lo .. (n - 1) : (10 * k) % m # 0
        passing == {n \in lo .. hi : PassesStrict(10 * n, m)}
        first == CHOOSE n \in passing : \A k \in passing : n <= k
        ints == CASE m <= 0 -> lo .. hi
                  [] m > 0 /\ m % 10 = 0 -> IF fits # {} THEN fits ELSE {next}
                  [] OTHER -> IF passing = {} THEN {lo} ELSE {first} \cup (passing \cap fits)
    IN  IF Get(s, "format", "") \in NumericFormats THEN OfNumericFormat(s, FALSE)
        ELSE {Whole(n) : n \in ints}

-----------------------------------------------------------------------------
(* Texts.                                                                  *)

OfLength(lo, hi) == {w \in Words : Len(w) \in lo .. hi}

\* pad_or_trim: whatever the format of the text wants.
Fitted(text, lo, hi) ==
    IF Len(text) > hi THEN {SubSeq(text, 1, hi)}
    ELSE IF Len(text) >= lo THEN {text}
    ELSE {text \o w : w \in OfLength(lo - Len(text), lo - Len(text))}

\* pad_pattern_output: padded as long as every step still matches.
Padded(text, pattern, lo) ==
    {t \in Fitted(text, lo, lo) : \A n \in Len(text) .. lo : MatchesPattern(SubSeq(t, 1, n), pattern)}

MinLength(s) == Get(s, "minLength", 0)
MaxLength(s) == Greatest(Get(s, "maxLength", DefaultLength), MinLength(s))

\* A text of a known format, cut or padded where the schema says anything of its length.
FormatValues(s) ==
    LET loose == ~Has(s, "maxLength") /\ MinLength(s) = 0
    IN  UNION {IF loose THEN {t} ELSE Fitted(t, MinLength(s), MaxLength(s)) :
                    t \in FormatText[s.format]}

\* format and pattern: the format's text if it matches, else the pattern's if it looks like
\* the format, else an error and the pattern's.
FormatAndPattern(s, err) ==
    {CASE MatchesPattern(p[1], s.pattern) -> Out(Str(p[1]), err)
       [] OTHER -> Out(Str(p[2]), err \/ <<s.format, p[2]>> \notin Resembles) :
        p \in FormatValues(s) \X Samples[s.pattern]}

\* A pattern: a sample, padded if it is too short, else the example, else an error.  A letter
\* of the padding that breaks the pattern ends the padding.
OfPattern(s, err) ==
    UNION {LET lo == MinLength(s)
               matches == MatchesPattern(t, s.pattern)
               fits == matches /\ Len(t) \in lo .. MaxLength(s)
               short == matches /\ Len(t) < lo
               longer == IF short THEN Padded(t, s.pattern, lo) ELSE {}
               gaveUp == ~fits /\ (short => Fitted(t, lo, lo) # longer)
               example == IF Has(s, "example") THEN Is(s.example, "str") ELSE FALSE
           IN  Outs({Str(x) : x \in longer}, err)
               \cup (IF fits THEN {Out(Str(t), err)} ELSE {})
               \cup (IF gaveUp THEN {IF example THEN Out(s.example, err) ELSE Out(Str(t), TRUE)}
                     ELSE {})
           : t \in Samples[s.pattern]}

\* string::generate, failFormats being fail_on_invalid_format.
GenerateString(s, failFormats, err) ==
    LET known == IF Has(s, "format") THEN s.format \in DOMAIN FormatText ELSE FALSE
        bad == err \/ (failFormats /\ Has(s, "format") /\ ~known)
        none == MaxLength(s) = 0
    IN  CASE known /\ Has(s, "pattern") -> FormatAndPattern(s, err)
          [] known /\ ~Has(s, "pattern") -> Outs({Str(t) : t \in FormatValues(s)}, err)
          [] ~known /\ Has(s, "pattern") -> OfPattern(s, bad)
          [] OTHER -> Outs(IF none THEN {Str("")}
                           ELSE {Str(w) : w \in OfLength(Greatest(1, MinLength(s)), MaxLength(s))}, bad)

=============================================================================
