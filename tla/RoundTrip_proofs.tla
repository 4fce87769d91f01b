--------------------------- MODULE RoundTrip_proofs ---------------------------
(***************************************************************************)
(* Generator and validator agree on a schema.  Numbers and texts that are  *)
(* drawn are accepted, for every schema, width and default.  What the      *)
(* validator says of a JSON body is what the schema means, for every       *)
(* document, value and depth: one level of a schema first, kind by kind,   *)
(* then all of them by induction over the room on the stack.  What it says *)
(* of a parameter or a form is what the schema means of some value that is *)
(* written that way: first of one text, then of lists and maps of texts,   *)
(* then of what each place makes of them.                                  *)
(***************************************************************************)
EXTENDS Leaves, RoundTrip, Induction_proofs

(* What the parser hands to both sides.                                    *)

\* Bounds are numbers, and exclusive ones are flags of a bound.
NumericKeywords(s) ==
    /\ Has(s, "minimum") => s.minimum \in Int
    /\ Has(s, "maximum") => s.maximum \in Int
    /\ Has(s, "multipleOf") => s.multipleOf \in Nat
    /\ Flag(s, "exclusiveMinimum") \in BOOLEAN /\ Flag(s, "exclusiveMaximum") \in BOOLEAN
    /\ Flag(s, "exclusiveMinimum") => Has(s, "minimum")
    /\ Flag(s, "exclusiveMaximum") => Has(s, "maximum")

\* The bounds of an integer are integers of 64 bits (openapiv3::IntegerType).
WholeKeywords(s) ==
    /\ Has(s, "minimum") => \E n \in (0 - I64 - 1) .. I64 : s.minimum = 10 * n
    /\ Has(s, "maximum") => \E n \in (0 - I64 - 1) .. I64 : s.maximum = 10 * n

\* No format that has a generator of its own.
PlainFormat(s) == Get(s, "format", "") \notin NumericFormats

IsInt32(s) == Get(s, "format", "") = "int32"

\* A kind says which keywords a schema may have.
LEMMA KindKeywords ==
    ASSUME NEW s
    PROVE  /\ Kind(s) \in Types \cup Compositions \cup {"any"}
           /\ Kind(s) \in Types =>
                  Has(s, "type") /\ s.type = Kind(s) /\ DOMAIN s \ Annotations \subseteq TypeKeywords(Kind(s))
           /\ Kind(s) = "integer" => WholeBounds(s)
           /\ Kind(s) \in Compositions => DOMAIN s \ Annotations = {Kind(s)}
<1> DEFINE keys == DOMAIN s \ Annotations
           type == Get(s, "type", "none")
           fits == keys \subseteq TypeKeywords(type) /\ (type = "integer" => WholeBounds(s))
           compositions == {c \in Compositions : keys = {c}}
<1>1. Kind(s) = IF type \in Types THEN IF fits THEN type ELSE "any"
                ELSE IF \E c \in Compositions : keys = {c} THEN CHOOSE c \in Compositions : keys = {c}
                ELSE "any"
  BY Zenon DEF Kind
<1>2. "integer" \notin Compositions /\ Types \cap Compositions = {} /\ "any" \notin Types /\ "any" \notin Compositions /\ "none" \notin Types
  BY DEF Types, Compositions
<1>3. (\E c \in Compositions : keys = {c}) =>
          /\ (CHOOSE c \in Compositions : keys = {c}) \in Compositions
          /\ keys = {CHOOSE c \in Compositions : keys = {c}}
  <2> HIDE DEF keys
  <2> QED BY Zenon
<1>4. type \in Types => Has(s, "type") /\ s.type = type
  BY <1>2 DEF Get
<1> HIDE DEF type
<1>5. CASE type \in Types /\ fits
  BY <1>1, <1>2, <1>4, <1>5
<1>6. CASE type \in Types /\ ~fits
  BY <1>1, <1>2, <1>6
<1>7. CASE type \notin Types /\ \E c \in Compositions : keys = {c}
  BY <1>1, <1>2, <1>3, <1>7
<1>8. CASE type \notin Types /\ ~\E c \in Compositions : keys = {c}
  BY <1>1, <1>2, <1>8
<1> QED BY <1>5, <1>6, <1>7, <1>8

LEMMA KindOfType ==
    ASSUME NEW s, Kind(s) \in ScalarKinds
    PROVE  Has(s, "type") /\ s.type = Kind(s)
  BY KindKeywords DEF ScalarKinds, Types

-----------------------------------------------------------------------------
(* The validator.                                                          *)

LEMMA UnlessIsEmpty == ASSUME NEW ok, NEW at, NEW code PROVE Unless(ok, at, code) = {} <=> ok
  BY DEF Unless

\* Kept by name: the provers do not calculate with a remainder of an unknown divisor.
Multiple(h, m) == h % m = 0
StepMeans(s, h) == (Has(s, "multipleOf") /\ s.multipleOf # 0) => Multiple(h, s.multipleOf)

LEMMA BoundErrorsMeaning ==
    ASSUME NEW s, NEW h, NEW at
    PROVE  (BoundErrors(s, h, at) = {} /\ StepMeans(s, h)) <=> InBounds(s, h)
<1> DEFINE above == IF Flag(s, "exclusiveMinimum") THEN h > s.minimum ELSE h >= s.minimum
           below == IF Flag(s, "exclusiveMaximum") THEN h < s.maximum ELSE h <= s.maximum
<1>1. InBounds(s, h) <=>
          (Has(s, "minimum") => above) /\ (Has(s, "maximum") => below) /\ StepMeans(s, h)
  BY Zenon DEF InBounds, StepMeans, Multiple
<1>2. \E x, y : BoundErrors(s, h, at) =
          Unless(Has(s, "minimum") => above, at, x) \cup Unless(Has(s, "maximum") => below, at, y)
  BY Zenon DEF BoundErrors
<1> HIDE DEF above, below
<1> QED BY <1>1, <1>2 DEF Unless

\* The errors of an integer or a number that is in its enum: those of the bounds and the step.
LEMMA StepErrorsMeaning ==
    ASSUME NEW s, NEW h, NEW at
    PROVE  /\ ((BoundErrors(s, h, at) \cup Unless(StepMeans(s, h), at, "multipleOf")) = {})
                 <=> InBounds(s, h)
           /\ (Has(s, "multipleOf") => <<h, s.multipleOf>> \notin Misdivided) =>
                 (((Has(s, "multipleOf") /\ s.multipleOf # 0) => PassesStrict(h, s.multipleOf))
                     <=> StepMeans(s, h))
<1>1. PassesStrict(h, s.multipleOf) <=> (Multiple(h, s.multipleOf) <=> <<h, s.multipleOf>> \notin Misdivided)
  BY Zenon DEF PassesStrict, Multiple
<1> QED BY <1>1, BoundErrorsMeaning, UnlessIsEmpty DEF StepMeans

\* Integers are equal if they are written the same.
LEMMA AmongIntegers ==
    ASSUME NEW v, NEW set, JsonValue(v), Is(v, "int"),
           \A e \in set : JsonValue(e) /\ ~Is(e, "float")
    PROVE  Among(v, set) <=> v \in set
<1>1. PICK n \in Int : v = Whole(n)
  BY DEF JsonValue, Is, Null, Bool, Whole, Float, Str, Arr, Obj
<1>2. ASSUME NEW e \in set, IsNumber(e), Tenths(e) = Tenths(v) PROVE e = v
  <2>1. PICK k \in Int : e = Whole(k)
    BY <1>2 DEF JsonValue, IsNumber, Is, Null, Bool, Whole, Float, Str, Arr, Obj
  <2>2. 10 * k = 10 * n
    BY <1>1, <1>2, <2>1 DEF Tenths, Is, Whole
  <2> QED BY <1>1, <2>1, <2>2
<1> QED BY <1>2 DEF Among

LEMMA AmongOthers == ASSUME NEW v, NEW set, ~IsNumber(v) PROVE Among(v, set) <=> v \in set
  BY DEF Among

\* VerdictIsTheMeaning on single values: what validate_value says of a value, for a schema
\* of a text, a number or a truth value, is what the keywords mean.  No early return hides an
\* error that decides, and no keyword is read in one of the two only.  (The members of
\* an enum of integers are written without a fraction, as the parser wants them; a number the
\* floats get wrong is outside, and so is the enum or the step they get it wrong for.)
THEOREM ScalarVerdictIsTheMeaning ==
    ASSUME NEW s, Kind(s) \in ScalarKinds, NEW v, JsonValue(v), NEW at,
           (Kind(s) = "integer" /\ Has(s, "enum")) =>
               \A e \in s.enum : JsonValue(e) /\ ~Is(e, "float"),
           Sharp(s, v)
    PROVE  ScalarErrors(s, v, at) = {} <=> MeansScalar(s, v)
<1>1. Has(s, "type") /\ s.type = Kind(s)
  BY KindOfType
<1>2. CASE Kind(s) = "string"
  <2>1. IsA(v, s.type) <=> Is(v, "str")
    BY <1>1, <1>2 DEF IsA
  <2>2. Is(v, "str") => ~IsNumber(v) /\ ~IsI64(v)
    BY DEF JsonValue, IsNumber, IsI64, Is, Null, Bool, Whole, Float, Str, Arr, Obj
  <2>3. MeansScalar(s, v) <=>
            /\ Is(v, "str") /\ (Has(s, "enum") => v \in s.enum)
            /\ Has(s, "minLength") => Len(v.str) >= s.minLength
            /\ Has(s, "maxLength") => Len(v.str) <= s.maxLength
            /\ Has(s, "pattern") => MatchesPattern(v.str, s.pattern)
            /\ Has(s, "format") => MatchesFormat(v.str, s.format)
    BY <1>1, <2>1, <2>2, AmongOthers, Zenon DEF MeansScalar
  <2>4. ScalarErrors(s, v, at) = StringErrors(s, v, at)
    BY <1>2 DEF ScalarErrors
  <2>5. CASE Is(v, "str") /\ (Has(s, "enum") => v \in s.enum)
    <3>1. StringErrors(s, v, at) =
              Unless(Has(s, "minLength") => Len(v.str) >= s.minLength, at, "minLength")
              \cup Unless(Has(s, "maxLength") => Len(v.str) <= s.maxLength, at, "maxLength")
              \cup Unless(Has(s, "pattern") => MatchesPattern(v.str, s.pattern), at, "pattern")
              \cup Unless(Has(s, "format") => MatchesFormat(v.str, s.format), at, "format")
      BY <2>5, Zenon DEF StringErrors
    <3> QED BY <2>3, <2>4, <2>5, <3>1 DEF Unless
  <2> QED BY <2>3, <2>4, <2>5 DEF StringErrors
<1>3. CASE Kind(s) = "integer"
  <2>1. IsA(v, s.type) <=> IsI64(v)
    BY <1>1, <1>3 DEF IsA
  <2>2. IsI64(v) => IsNumber(v) /\ Is(v, "int") /\ ~Is(v, "str")
    BY DEF JsonValue, IsNumber, IsI64, Is, Null, Bool, Whole, Float, Str, Arr, Obj
  <2>3. MeansScalar(s, v) <=>
            /\ IsI64(v) /\ (Has(s, "enum") => v \in s.enum) /\ InBounds(s, Tenths(v))
            /\ Get(s, "format", "") = "int32" => v.int \in (0 - I32 - 1) .. I32
    BY <1>1, <1>3, <2>1, <2>2, AmongIntegers, Zenon DEF MeansScalar
  <2>4. ScalarErrors(s, v, at) = IntegerErrors(s, v, at)
    BY <1>3 DEF ScalarErrors
  <2>5. CASE IsI64(v) /\ (Has(s, "enum") => v \in s.enum)
               /\ (Get(s, "format", "") = "int32" => v.int \in (0 - I32 - 1) .. I32)
    <3>1. IntegerErrors(s, v, at) = BoundErrors(s, Tenths(v), at)
              \cup Unless(StepMeans(s, Tenths(v)), at, "multipleOf")
      BY <2>5, Zenon DEF IntegerErrors, StepMeans, Multiple
    <3> QED BY <2>3, <2>4, <2>5, <3>1, StepErrorsMeaning
  <2> QED BY <2>3, <2>4, <2>5, Zenon DEF IntegerErrors, Err
<1>4. CASE Kind(s) = "number"
  <2>1. IsA(v, s.type) <=> IsNumber(v)
    BY <1>1, <1>4 DEF IsA
  <2>2. IsNumber(v) => ~Is(v, "str")
    BY DEF JsonValue, IsNumber, Is, Null, Bool, Whole, Float, Str, Arr, Obj
  <2>3. MeansScalar(s, v) <=>
            IsNumber(v) /\ (Has(s, "enum") => Among(v, s.enum)) /\ InBounds(s, Tenths(v))
    BY <1>1, <1>4, <2>1, <2>2 DEF MeansScalar
  <2>4. ScalarErrors(s, v, at) = NumberErrors(s, v, at)
    BY <1>4 DEF ScalarErrors
  <2> DEFINE listed == Has(s, "enum") => \E e \in s.enum : IsNumber(e) /\ FloatEq(Tenths(e), Tenths(v))
             divides == (Has(s, "multipleOf") /\ s.multipleOf # 0) => PassesStrict(Tenths(v), s.multipleOf)
  <2>5. IsNumber(v) => (Has(s, "multipleOf") => <<Tenths(v), s.multipleOf>> \notin Misdivided)
    BY <1>4 DEF Sharp
  <2>6. IsNumber(v) => (listed <=> (Has(s, "enum") => Among(v, s.enum)))
    <3>1. IsNumber(v) /\ Has(s, "enum") =>
              \A e \in s.enum : IsNumber(e) => (FloatEq(Tenths(e), Tenths(v)) <=> Tenths(e) = Tenths(v))
      BY <1>4 DEF Sharp, FloatEq
    <3>2. IsNumber(v) /\ Has(s, "enum") =>
              (Among(v, s.enum) <=> \E e \in s.enum : IsNumber(e) /\ Tenths(e) = Tenths(v))
      BY DEF Among
    <3> QED BY <3>1, <3>2
  <2>7. CASE IsNumber(v) /\ listed
    <3>1. NumberErrors(s, v, at) = BoundErrors(s, Tenths(v), at) \cup Unless(divides, at, "multipleOf")
      BY <2>7, Zenon DEF NumberErrors
    <3>2. divides <=> StepMeans(s, Tenths(v))
      BY <2>5, <2>7, StepErrorsMeaning
    <3>3. Unless(divides, at, "multipleOf") = Unless(StepMeans(s, Tenths(v)), at, "multipleOf")
      BY <3>2 DEF Unless
    <3> HIDE DEF divides
    <3> QED BY <2>3, <2>4, <2>6, <2>7, <3>1, <3>3, StepErrorsMeaning
  <2>8. ~(IsNumber(v) /\ listed) => NumberErrors(s, v, at) # {}
    BY Zenon DEF NumberErrors
  <2> HIDE DEF listed, divides
  <2> QED BY <2>3, <2>4, <2>6, <2>7, <2>8
<1>5. CASE Kind(s) = "boolean"
  <2>1. IsA(v, s.type) <=> Is(v, "bool")
    BY <1>1, <1>5 DEF IsA
  <2>2. Is(v, "bool") => ~Is(v, "str") /\ ~IsNumber(v)
    BY DEF JsonValue, IsNumber, Is, Null, Bool, Whole, Float, Str, Arr, Obj
  <2>3. MeansScalar(s, v) <=> Is(v, "bool") /\ (Has(s, "enum") => v \in s.enum)
    BY <1>1, <1>5, <2>1, <2>2, AmongOthers DEF MeansScalar
  <2>4. ScalarErrors(s, v, at) = BooleanErrors(s, v, at)
    BY <1>5 DEF ScalarErrors
  <2> QED BY <2>3, <2>4, UnlessIsEmpty DEF BooleanErrors
<1> QED BY <1>2, <1>3, <1>4, <1>5 DEF ScalarKinds

-----------------------------------------------------------------------------
(* The generator of numbers.                                               *)

LEMMA BoundsAreNumbers ==
    ASSUME NEW s, NumericKeywords(s)
    PROVE  /\ Lo(s) \in Int /\ Hi(s) \in Int
           /\ Step(s, "exclusiveMinimum") \in 0 .. 1 /\ Step(s, "exclusiveMaximum") \in 0 .. 1
           /\ Get(s, "multipleOf", 0) \in Nat
           /\ Has(s, "minimum") => Lo(s) = s.minimum
           /\ Has(s, "maximum") => Hi(s) = s.maximum
  BY DefaultsAssumption, WidthAssumption DEF NumericKeywords, Lo, Hi, Step, Flag, Get

FitsStep(s, h) == Get(s, "multipleOf", 0) > 0 => Multiple(h, Get(s, "multipleOf", 0))

LEMMA InBoundsBySteps ==
    ASSUME NEW s, NumericKeywords(s), NEW h
    PROVE  InBounds(s, h) <=>
              /\ Has(s, "minimum") =>
                    IF Flag(s, "exclusiveMinimum") THEN h > s.minimum ELSE h >= s.minimum
              /\ Has(s, "maximum") =>
                    IF Flag(s, "exclusiveMaximum") THEN h < s.maximum ELSE h <= s.maximum
              /\ FitsStep(s, h)
<1>1. (Has(s, "multipleOf") /\ s.multipleOf # 0) <=> Get(s, "multipleOf", 0) > 0
  BY DEF NumericKeywords, Get
<1>2. Has(s, "multipleOf") => Get(s, "multipleOf", 0) = s.multipleOf
  BY DEF Get
<1> QED BY <1>1, <1>2, Zenon DEF InBounds, FitsStep, Multiple

\* Bounds with room: some number between the bounds (the default ones where none are given)
\* means what is asked.
LEMMA RoomIsKept ==
    ASSUME NEW s, NumericKeywords(s), NEW h \in Lo(s) .. Hi(s), InBounds(s, h)
    PROVE  /\ h \in Int /\ Lo(s) + Step(s, "exclusiveMinimum") <= h
           /\ h <= Hi(s) - Step(s, "exclusiveMaximum")
           /\ FitsStep(s, h)
<1>1. h \in Int /\ Lo(s) <= h /\ h <= Hi(s)
  BY BoundsAreNumbers
<1>2. Flag(s, "exclusiveMinimum") => Lo(s) < h
  BY <1>1, BoundsAreNumbers, InBoundsBySteps DEF NumericKeywords
<1>3. Flag(s, "exclusiveMaximum") => h < Hi(s)
  BY <1>1, BoundsAreNumbers, InBoundsBySteps DEF NumericKeywords
<1> QED BY <1>1, <1>2, <1>3, BoundsAreNumbers, InBoundsBySteps DEF Step

\* And what lies between them, and is a multiple, means it too.
LEMMA BetweenIsInBounds ==
    ASSUME NEW s, NumericKeywords(s), NEW h \in Int,
           Lo(s) + Step(s, "exclusiveMinimum") <= h, h <= Hi(s) - Step(s, "exclusiveMaximum"),
           FitsStep(s, h)
    PROVE  InBounds(s, h)
<1>1. Has(s, "minimum") => IF Flag(s, "exclusiveMinimum") THEN h > s.minimum ELSE h >= s.minimum
  BY BoundsAreNumbers DEF Step
<1>2. Has(s, "maximum") => IF Flag(s, "exclusiveMaximum") THEN h < s.maximum ELSE h <= s.maximum
  BY BoundsAreNumbers DEF Step
<1> QED BY <1>1, <1>2, InBoundsBySteps

LEMMA JsonNumberKeeps ==
    ASSUME NEW h \in Int
    PROVE  JsonValue(JsonNumber(h)) /\ IsNumber(JsonNumber(h)) /\ Tenths(JsonNumber(h)) = h
<1>1. CASE h % 10 = 0
  <2>1. h \div 10 \in Int /\ 10 * (h \div 10) = h
    BY <1>1
  <2> QED BY <1>1, <2>1 DEF JsonNumber, JsonValue, IsNumber, Tenths, Is, Whole
<1>2. CASE h % 10 # 0
  BY <1>2 DEF JsonNumber, JsonValue, IsNumber, Tenths, Is, Float
<1> QED BY <1>1, <1>2

\* What random_float and random_int draw lies between the ends.
LEMMA DrawnBetween ==
    ASSUME NEW a \in Int, NEW b \in Int, a <= b
    PROVE  Ints(a, b) \subseteq a .. b /\ Floats(a, b) \subseteq a .. b
  BY DEF Ints, Floats

\* A step that is kept: every draw is a multiple between the bounds that passes the check.
LEMMA MultiplesAreKept ==
    ASSUME NEW s, NumericKeywords(s), NEW m, m = Get(s, "multipleOf", 0), m > 0, StepIsKept(s),
           NEW k \in MultiplesOf(m, Lo(s), Hi(s), Lo(s) .. Hi(s))
    PROVE  k \in Lo(s) .. Hi(s) /\ Multiple(k, m) /\ PassesStrict(k, m)
<1> DEFINE multiples == {h \in Lo(s) .. Hi(s) : Multiple(h, m)}
           passing == {h \in multiples : PassesStrict(h, m)}
           least == CHOOSE h \in multiples : \A j \in multiples : h <= j
           last == IF 0 \in multiples THEN 0 ELSE least
<1>1. PICK h \in multiples : <<h, m>> \notin Misdivided
                             /\ (h = 0 \/ (0 \notin multiples /\ \A j \in multiples : h <= j))
  BY Zenon DEF StepIsKept, Multiple
<1>2. m <= LargestStep /\ m \in Nat /\ LargestStep \in Nat
  BY BoundsAreNumbers, DefaultsAssumption, Zenon DEF StepIsKept
<1>3. k \in MultiplesOf(m, Lo(s), Hi(s), Lo(s) .. Hi(s)) /\ ~(m > LargestStep)
  BY <1>2
<1>4. MultiplesOf(m, Lo(s), Hi(s), Lo(s) .. Hi(s))
          = passing \cup (IF passing = multiples THEN {} ELSE {last})
  <2>1. multiples # {}
    BY <1>1
  <2> QED BY <1>2, <1>3, <2>1, Zenon DEF MultiplesOf, Multiple
<1>5. last = h
  <2>1. \A j \in multiples : j \in Int
    BY BoundsAreNumbers
  <2>2. CASE h = 0
    BY <1>1, <2>2
  <2>3. CASE h # 0
    <3>1. h \in multiples /\ 0 \notin multiples /\ \A j \in multiples : h <= j
      BY <1>1, <2>3
    <3>2. least \in multiples /\ \A j \in multiples : least <= j
      <4> HIDE DEF multiples
      <4> QED BY <3>1
    <3> HIDE DEF least, multiples
    <3> QED BY <2>1, <3>1, <3>2
  <2> QED BY <2>2, <2>3
<1>6. PassesStrict(h, m)
  BY <1>1, Zenon DEF PassesStrict, Multiple
<1> HIDE DEF last
<1> QED BY <1>1, <1>3, <1>4, <1>5, <1>6

\* GeneratedIsAccepted on numbers: what number::generate draws is accepted when it comes
\* back, whatever the bounds, exclusive or not, if they leave room; with a step, whatever
\* inclusive bounds leave room for a multiple that passes the check to fall back to.
THEOREM NumbersAreAccepted ==
    ASSUME NEW s, NumericKeywords(s), Kind(s) = "number", ~Has(s, "enum"),
           PlainFormat(s), NEW h \in Lo(s) .. Hi(s), InBounds(s, h),
           Get(s, "multipleOf", 0) > 0 => StepIsKept(s),
           NEW v \in GenerateNumber(s), NEW at
    PROVE  ScalarErrors(s, v, at) = {}
<1> DEFINE lo == Lo(s) + Step(s, "exclusiveMinimum")
           hi == Hi(s) - Step(s, "exclusiveMaximum")
           m == Get(s, "multipleOf", 0)
           grid == Least(Lo(s), Hi(s)) .. Hi(s)
           tenths == IF m > 0 THEN MultiplesOf(m, lo, hi, grid) ELSE Floats(lo, hi)
           divides(k) == m > 0 => PassesStrict(k, m)
<1>1. lo \in Int /\ hi \in Int /\ m \in Nat /\ h \in lo .. hi
  BY RoomIsKept, BoundsAreNumbers
<1>2. Least(lo, hi) = lo /\ Greatest(hi, Least(lo, hi)) = hi
  BY <1>1 DEF Least, Greatest
<1>3. GenerateNumber(s) = {JsonNumber(k) : k \in tenths}
  BY <1>2, Zenon DEF GenerateNumber, PlainFormat
<1>4. PICK k \in tenths : v = JsonNumber(k)
  BY <1>3
<1>5. k \in lo .. hi /\ FitsStep(s, k) /\ divides(k)
  <2>1. CASE m = 0
    <3>1. k \in Floats(lo, hi)
      BY <2>1
    <3> QED BY <1>1, <2>1, <3>1, DrawnBetween DEF FitsStep
  <2>2. CASE m > 0
    <3>1. StepIsKept(s) /\ lo = Lo(s) /\ hi = Hi(s)
      <4>1. StepIsKept(s)
        BY <2>2
      <4>2. ~Flag(s, "exclusiveMinimum") /\ ~Flag(s, "exclusiveMaximum")
        BY <4>1, Zenon DEF StepIsKept
      <4> QED BY <4>1, <4>2, BoundsAreNumbers DEF Step
    <3>2. grid = lo .. hi
      BY <1>1, <1>2, <3>1
    <3>3. k \in MultiplesOf(m, lo, hi, grid)
      BY <2>2
    <3> QED BY <2>2, <3>1, <3>2, <3>3, MultiplesAreKept DEF FitsStep
  <2> QED BY <1>1, <2>1, <2>2
<1>6. InBounds(s, k) /\ k \in Int
  <2>1. k \in Int /\ lo <= k /\ k <= hi
    BY <1>1, <1>5
  <2> QED BY <1>5, <2>1, BetweenIsInBounds
<1>7. JsonValue(v) /\ IsNumber(v) /\ Tenths(v) = k
  BY <1>4, <1>6, JsonNumberKeeps
<1>8. NumberErrors(s, v, at) = BoundErrors(s, k, at)
  <2>1. (Has(s, "multipleOf") /\ s.multipleOf # 0) => PassesStrict(k, s.multipleOf)
    <3>1. Has(s, "multipleOf") => m = s.multipleOf
      BY DEF Get
    <3> HIDE DEF m
    <3> QED BY <1>1, <1>5, <3>1
  <2>2. NumberErrors(s, v, at) = BoundErrors(s, k, at)
            \cup Unless((Has(s, "multipleOf") /\ s.multipleOf # 0) => PassesStrict(k, s.multipleOf),
                        at, "multipleOf")
    BY <1>7, Zenon DEF NumberErrors
  <2> QED BY <2>1, <2>2, UnlessIsEmpty
<1> QED BY <1>6, <1>8, BoundErrorsMeaning DEF ScalarErrors

LEMMA BoundsAreWhole ==
    ASSUME NEW s, NumericKeywords(s), WholeKeywords(s)
    PROVE  \E a, b \in (0 - I64 - 1) .. I64 : Lo(s) = 10 * a /\ Hi(s) = 10 * b
<1>1. DefaultBound \in Int /\ I64 \in Int /\ 0 < DefaultBound /\ DefaultBound < I64
  BY DefaultsAssumption, WidthAssumption
<1>2. \E a \in (0 - I64 - 1) .. I64 : Lo(s) = 10 * a
  <2>1. CASE Has(s, "minimum")
    BY <2>1, BoundsAreNumbers DEF WholeKeywords
  <2>2. CASE ~Has(s, "minimum")
    <3>1. Lo(s) = 10 * (0 - DefaultBound)
      BY <1>1, <2>2 DEF Lo, Get
    <3> QED BY <1>1, <3>1
  <2> QED BY <2>1, <2>2
<1>3. \E b \in (0 - I64 - 1) .. I64 : Hi(s) = 10 * b
  <2>1. CASE Has(s, "maximum")
    BY <2>1, BoundsAreNumbers DEF WholeKeywords
  <2>2. CASE ~Has(s, "maximum")
    <3>1. Hi(s) = 10 * DefaultBound
      BY <1>1, <2>2 DEF Hi, Get
    <3> QED BY <1>1, <3>1
  <2> QED BY <2>1, <2>2
<1> QED BY <1>2, <1>3

\* The step of an integer is an integer.
LEMMA StepIsWhole ==
    ASSUME NEW s, NumericKeywords(s), Kind(s) = "integer", Get(s, "multipleOf", 0) > 0
    PROVE  Multiple(Get(s, "multipleOf", 0), 10)
<1>1. Has(s, "multipleOf") /\ Get(s, "multipleOf", 0) = s.multipleOf
  BY DEF Get
<1>2. s.multipleOf % 10 = 0
  BY <1>1, KindKeywords DEF WholeBounds, Has
<1> QED BY <1>1, <1>2 DEF Multiple

LEMMA WholeIsInteger ==
    ASSUME NEW n \in Int
    PROVE  /\ JsonValue(Whole(n)) /\ IsNumber(Whole(n)) /\ Whole(n).int = n
           /\ Tenths(Whole(n)) = 10 * n
           /\ n \in (0 - I64 - 1) .. I64 => IsI64(Whole(n))
  BY WidthAssumption DEF JsonValue, IsNumber, IsI64, Tenths, Is, Whole

\* An integer within the bounds and the width has no errors.
LEMMA IntegerHasNoErrors ==
    ASSUME NEW s, Kind(s) = "integer", ~Has(s, "enum"), NEW n \in (0 - I64 - 1) .. I64,
           InBounds(s, 10 * n), NEW at,
           IsInt32(s) => n \in (0 - I32 - 1) .. I32
    PROVE  ScalarErrors(s, Whole(n), at) = {}
<1>1. n \in Int
  BY WidthAssumption
<1>2. ScalarErrors(s, Whole(n), at) = IntegerErrors(s, Whole(n), at)
  BY DEF ScalarErrors
<1>3. IntegerErrors(s, Whole(n), at) = BoundErrors(s, Tenths(Whole(n)), at)
          \cup Unless(StepMeans(s, Tenths(Whole(n))), at, "multipleOf")
  BY <1>1, WholeIsInteger, Zenon DEF IntegerErrors, IsInt32, StepMeans, Multiple
<1> QED BY <1>1, <1>2, <1>3, WholeIsInteger, StepErrorsMeaning

\* GeneratedIsAccepted on integers: as for numbers.  The bounds of 64 bits keep the draws in
\* the width, so that the validator reads them back as integers.
THEOREM IntegersAreAccepted ==
    ASSUME NEW s, NumericKeywords(s), WholeKeywords(s), Kind(s) = "integer", ~Has(s, "enum"),
           PlainFormat(s), NEW n \in Int, 10 * n \in Lo(s) .. Hi(s), InBounds(s, 10 * n),
           NEW v \in GenerateInteger(s), NEW at
    PROVE  ScalarErrors(s, v, at) = {}
<1>1. PICK a, b \in (0 - I64 - 1) .. I64 : Lo(s) = 10 * a /\ Hi(s) = 10 * b
  BY BoundsAreWhole
<1> DEFINE low == Step(s, "exclusiveMinimum")
           high == Step(s, "exclusiveMaximum")
           lo == (Lo(s) + 9) \div 10 + low
           hi == Greatest(lo, Hi(s) \div 10 - high)
           m == Get(s, "multipleOf", 0)
           fits == {k \in lo .. hi : Multiple(10 * k, m)}
           next == CHOOSE k \in lo .. (lo + m) :
                      Multiple(10 * k, m) /\ \A j \in lo .. (k - 1) : ~Multiple(10 * j, m)
           passing == {k \in lo .. hi : PassesStrict(10 * k, m)}
           first == CHOOSE k \in passing : \A j \in passing : k <= j
           ints == CASE m <= 0 -> lo .. hi
                     [] m > 0 /\ Multiple(m, 10) -> IF fits # {} THEN fits ELSE {next}
                     [] OTHER -> IF passing = {} THEN {lo} ELSE {first} \cup (passing \cap fits)
<1>2. /\ a \in Int /\ b \in Int /\ low \in 0 .. 1 /\ high \in 0 .. 1 /\ m \in Nat
      /\ 10 * a + low <= 10 * n /\ 10 * n <= 10 * b - high /\ (m > 0 => Multiple(10 * n, m))
  BY <1>1, RoomIsKept, BoundsAreNumbers, WidthAssumption DEF FitsStep
<1>3. (10 * a + 9) \div 10 = a /\ (10 * b) \div 10 = b
  BY <1>2
<1>4. lo = a + low /\ a + low <= n /\ n <= b - high /\ hi = b - high
  BY <1>1, <1>2, <1>3 DEF Greatest
<1>5. GenerateInteger(s) = {Whole(k) : k \in ints}
  BY Zenon DEF GenerateInteger, Multiple, PlainFormat
<1>6. PICK k \in ints : v = Whole(k)
  BY <1>5
<1> HIDE DEF low, high, lo, hi, m, next
<1>7. k \in lo .. hi /\ (m > 0 => Multiple(10 * k, m))
  <2>1. CASE m = 0
    BY <2>1
  <2>2. CASE m > 0
    <3>1. n \in fits
      BY <1>2, <1>4, <2>2
    <3>2. Multiple(m, 10)
      BY <2>2, StepIsWhole DEF m
    <3>3. k \in fits
      <4> HIDE DEF fits
      <4> QED BY <1>2, <2>2, <3>1, <3>2
    <3> QED BY <3>3
  <2> QED BY <1>2, <2>1, <2>2
<1>8. k \in Int /\ a + low <= k /\ k <= b - high
  BY <1>2, <1>4, <1>7
<1>9. InBounds(s, 10 * k)
  <2>1. 10 * k \in Int /\ Lo(s) + low <= 10 * k /\ 10 * k <= Hi(s) - high
    BY <1>1, <1>2, <1>8
  <2>2. FitsStep(s, 10 * k)
    BY <1>7 DEF FitsStep, m
  <2> QED BY <2>1, <2>2, BetweenIsInBounds DEF low, high
<1>10. k \in (0 - I64 - 1) .. I64
  BY <1>1, <1>2, <1>8, WidthAssumption
<1>11. ~IsInt32(s)
  BY Zenon DEF PlainFormat, NumericFormats, IsInt32
<1> QED BY <1>6, <1>9, <1>10, <1>11, IntegerHasNoErrors

-----------------------------------------------------------------------------
(* Numeric formats.                                                        *)

LEMMA RoundedIsInteger ==
    ASSUME NEW h \in Int
    PROVE  Rounded(h) \in Int /\ Truncated(h) \in Int /\ (\A n \in Int : h = 10 * n => Rounded(h) = n)
<1>1. CASE h >= 0
  BY <1>1 DEF Rounded, Truncated
<1>2. CASE h < 0
  BY <1>2 DEF Rounded, Truncated
<1> QED BY <1>1, <1>2

LEMMA IntsBetween ==
    ASSUME NEW a \in Int, NEW b \in Int, NEW n \in Ints(a, b)
    PROVE  n \in Int /\ a <= n /\ n <= Greatest(a, b)
  BY DEF Ints, Greatest

\* The bounds a numeric format starts from: the ones of the schema, or its own.
Smallest(s, default) == IF Has(s, "minimum") THEN Rounded(s.minimum) ELSE default
Largest(s, default) == IF Has(s, "maximum") THEN Rounded(s.maximum) ELSE default
Narrow(n) == Within(n, 0 - I32 - 1, I32)

LEMMA FormatBounds ==
    ASSUME NEW s, NumericKeywords(s), NEW default \in Int
    PROVE  Smallest(s, default) \in Int /\ Largest(s, default) \in Int
  BY RoundedIsInteger DEF Smallest, Largest, NumericKeywords

LEMMA NarrowIsNarrow == ASSUME NEW n \in Int PROVE Narrow(n) \in (0 - I32 - 1) .. I32
  BY WidthAssumption DEF Narrow, Within

\* Formats that say how low or how high an integer may be at most.
Floor == [f \in {"positive-int", "nonnegative-int"} |-> IF f = "positive-int" THEN 1 ELSE 0]
Ceiling == [f \in {"negative-int", "nonpositive-int"} |-> IF f = "negative-int" THEN 0 - 1 ELSE 0]

LEMMA OfFloor ==
    ASSUME NEW s, NEW asFloat, s.format \in DOMAIN Floor
    PROVE  LET least == Floor[s.format]
               lo == Greatest(Smallest(s, least), least)
           IN  OfNumericFormat(s, asFloat) =
                   {Whole(n) : n \in Ints(lo, Greatest(Largest(s, FormatBound), lo))}
<1>1. CASE s.format = "positive-int"
  BY <1>1 DEF OfNumericFormat, Smallest, Largest, Floor
<1>2. CASE s.format = "nonnegative-int"
  BY <1>2 DEF OfNumericFormat, Smallest, Largest, Floor
<1> QED BY <1>1, <1>2 DEF Floor

LEMMA OfCeiling ==
    ASSUME NEW s, NEW asFloat, s.format \in DOMAIN Ceiling
    PROVE  LET most == Ceiling[s.format]
               hi == Least(Largest(s, most), most)
           IN  OfNumericFormat(s, asFloat) =
                   {Whole(n) : n \in Ints(Least(Smallest(s, 0 - FormatBound), hi), hi)}
<1>1. CASE s.format = "negative-int"
  BY <1>1 DEF OfNumericFormat, Smallest, Largest, Ceiling
<1>2. CASE s.format = "nonpositive-int"
  BY <1>2 DEF OfNumericFormat, Smallest, Largest, Ceiling
<1> QED BY <1>1, <1>2 DEF Ceiling

LEMMA OfInt32 ==
    ASSUME NEW s, NEW asFloat, s.format \in {"int32", "strict-int"}
    PROVE  LET a == Narrow(Smallest(s, 0 - I32 - 1))
               b == Narrow(Largest(s, I32))
           IN  OfNumericFormat(s, asFloat) =
                   {Whole(n) : n \in Ints(Least(a, b), Greatest(a, b))}
  BY DEF OfNumericFormat, Smallest, Largest, Narrow

\* A numeric format is kept whatever the bounds of the schema are, even bounds that exclude
\* it: generate_for_numeric_format gives up the bound and not the sign or the width.
THEOREM FormatsKeepTheirRange ==
    ASSUME NEW s, NumericKeywords(s), NEW asFloat, NEW v \in OfNumericFormat(s, asFloat)
    PROVE  /\ s.format \in DOMAIN Floor => v.int >= Floor[s.format]
           /\ s.format \in DOMAIN Ceiling => v.int <= Ceiling[s.format]
           /\ s.format \in {"int32", "strict-int"} => v.int \in (0 - I32 - 1) .. I32
<1>1. FormatBound \in Int /\ I32 \in Int
  BY DefaultsAssumption, WidthAssumption
<1>2. ASSUME s.format \in DOMAIN Floor PROVE v.int >= Floor[s.format]
  <2> DEFINE least == Floor[s.format]
             lo == Greatest(Smallest(s, least), least)
             hi == Greatest(Largest(s, FormatBound), lo)
  <2>1. least \in Int
    BY <1>2 DEF Floor
  <2>2. Smallest(s, least) \in Int /\ Largest(s, FormatBound) \in Int
    BY <1>1, <2>1, FormatBounds
  <2>3. lo \in Int /\ hi \in Int /\ lo >= least
    BY <2>1, <2>2 DEF Greatest
  <2>4. PICK n \in Ints(lo, hi) : v = Whole(n)
    BY <1>2, OfFloor
  <2> HIDE DEF lo, hi, least
  <2>5. n \in Int /\ n >= least
    BY <2>1, <2>3, <2>4, IntsBetween
  <2> QED BY <2>4, <2>5, WholeIsInteger DEF least
<1>3. ASSUME s.format \in DOMAIN Ceiling PROVE v.int <= Ceiling[s.format]
  <2> DEFINE most == Ceiling[s.format]
             hi == Least(Largest(s, most), most)
             lo == Least(Smallest(s, 0 - FormatBound), hi)
  <2>1. most \in Int
    BY <1>3 DEF Ceiling
  <2>2. Smallest(s, 0 - FormatBound) \in Int /\ Largest(s, most) \in Int
    BY <1>1, <2>1, FormatBounds
  <2>3. lo \in Int /\ hi \in Int /\ Greatest(lo, hi) <= most
    BY <2>1, <2>2 DEF Greatest, Least
  <2>4. PICK n \in Ints(lo, hi) : v = Whole(n)
    BY <1>3, OfCeiling
  <2> HIDE DEF lo, hi, most
  <2>5. n \in Int /\ n <= Greatest(lo, hi) /\ Greatest(lo, hi) \in Int
    BY <2>3, <2>4, IntsBetween DEF Greatest
  <2>6. n <= most
    BY <2>1, <2>3, <2>5
  <2> QED BY <2>4, <2>5, <2>6, WholeIsInteger DEF most
<1>4. ASSUME s.format \in {"int32", "strict-int"} PROVE v.int \in (0 - I32 - 1) .. I32
  <2> DEFINE a == Narrow(Smallest(s, 0 - I32 - 1))
             b == Narrow(Largest(s, I32))
  <2>1. a \in (0 - I32 - 1) .. I32 /\ b \in (0 - I32 - 1) .. I32
    BY <1>1, FormatBounds, NarrowIsNarrow
  <2>2. PICK n \in Ints(Least(a, b), Greatest(a, b)) : v = Whole(n)
    BY <1>4, OfInt32
  <2> HIDE DEF a, b
  <2>3. n \in Int /\ Least(a, b) <= n /\ n <= Greatest(Least(a, b), Greatest(a, b))
        /\ a \in Int /\ b \in Int
    BY <1>1, <2>1, <2>2, IntsBetween DEF Least, Greatest
  <2>4. n \in (0 - I32 - 1) .. I32
    BY <1>1, <2>1, <2>3 DEF Least, Greatest
  <2> QED BY <2>2, <2>3, <2>4, WholeIsInteger
<1> QED BY <1>2, <1>3, <1>4

\* GeneratedIsAccepted on integers of 32 bits with bounds: they are narrowed to the width
\* one by one, which loses no room there is.  (Exclusive bounds and multipleOf do not count
\* for this format.)
THEOREM Int32sAreAccepted ==
    ASSUME NEW s, NumericKeywords(s), WholeKeywords(s), Kind(s) = "integer", ~Has(s, "enum"),
           ~Has(s, "multipleOf"), ~Flag(s, "exclusiveMinimum"), ~Flag(s, "exclusiveMaximum"),
           IsInt32(s), NEW n \in (0 - I32 - 1) .. I32, InBounds(s, 10 * n),
           NEW v \in GenerateInteger(s), NEW at
    PROVE  ScalarErrors(s, v, at) = {}
<1> DEFINE min == Smallest(s, 0 - I32 - 1)
           max == Largest(s, I32)
           a == Narrow(min)
           b == Narrow(max)
<1>1. I32 \in Int /\ I64 \in Int /\ 0 <= I32 /\ I32 < I64
  BY WidthAssumption
<1>2. n \in Int /\ min \in Int /\ max \in Int
  BY <1>1, FormatBounds
<1>3. /\ Has(s, "minimum") => s.minimum = 10 * min /\ min <= n
      /\ Has(s, "maximum") => s.maximum = 10 * max /\ n <= max
  <2>1. ASSUME Has(s, "minimum") PROVE s.minimum = 10 * min
    <3>1. PICK i \in (0 - I64 - 1) .. I64 : s.minimum = 10 * i
      BY <2>1 DEF WholeKeywords
    <3>2. i \in Int /\ 10 * i \in Int
      BY <1>1
    <3> QED BY <2>1, <3>1, <3>2, RoundedIsInteger DEF Smallest
  <2>2. ASSUME Has(s, "maximum") PROVE s.maximum = 10 * max
    <3>1. PICK i \in (0 - I64 - 1) .. I64 : s.maximum = 10 * i
      BY <2>2 DEF WholeKeywords
    <3>2. i \in Int /\ 10 * i \in Int
      BY <1>1
    <3> QED BY <2>2, <3>1, <3>2, RoundedIsInteger DEF Largest
  <2>3. /\ Has(s, "minimum") => 10 * n >= s.minimum
        /\ Has(s, "maximum") => 10 * n <= s.maximum
    BY InBoundsBySteps
  <2> HIDE DEF min, max
  <2> QED BY <1>2, <2>1, <2>2, <2>3
<1>4. (Has(s, "minimum") \/ min = 0 - I32 - 1) /\ (Has(s, "maximum") \/ max = I32)
  BY DEF Smallest, Largest
<1>5. PICK asFloat : asFloat = FALSE
  OBVIOUS
<1>6. s.format = "int32" =>
          OfNumericFormat(s, asFloat) = {Whole(k) : k \in Ints(Least(a, b), Greatest(a, b))}
  BY OfInt32
<1> HIDE DEF min, max
<1>7. a \in Int /\ b \in Int /\ a <= n /\ n <= b /\ 0 - I32 - 1 <= a /\ b <= I32
      /\ (Has(s, "minimum") => min <= a) /\ (Has(s, "maximum") => b <= max)
  BY <1>1, <1>2, <1>3, <1>4 DEF Narrow, Within
<1>8. PICK k \in Ints(a, b) : v = Whole(k)
  <2>1. GenerateInteger(s) = OfNumericFormat(s, asFloat) /\ s.format = "int32"
    BY <1>5, Zenon DEF GenerateInteger, IsInt32, NumericFormats, Get
  <2>2. Least(a, b) = a /\ Greatest(a, b) = b
    BY <1>2, <1>7 DEF Least, Greatest
  <2> QED BY <1>6, <2>1, <2>2
<1> HIDE DEF a, b
<1>9. k \in Int /\ a <= k /\ k <= b
  BY <1>2, <1>7, <1>8, IntsBetween DEF Greatest
<1>10. InBounds(s, 10 * k)
  <2>1. Has(s, "minimum") => 10 * k >= s.minimum
    BY <1>2, <1>3, <1>7, <1>9
  <2>2. Has(s, "maximum") => 10 * k <= s.maximum
    BY <1>2, <1>3, <1>7, <1>9
  <2>3. FitsStep(s, 10 * k)
    BY DEF FitsStep, Get
  <2> QED BY <2>1, <2>2, <2>3, InBoundsBySteps
<1>11. k \in (0 - I32 - 1) .. I32 /\ k \in (0 - I64 - 1) .. I64
  BY <1>1, <1>7, <1>9
<1> QED BY <1>8, <1>10, <1>11, IntegerHasNoErrors

-----------------------------------------------------------------------------
(* Where the hypothesis of room is needed.                                 *)

\* A minimum beyond the default maximum, and no maximum: safe_min takes the smaller of the
\* two, so that every draw is the default maximum, which the validator refuses.
THEOREM LoneMinimumIsMissed ==
    ASSUME NEW s, NumericKeywords(s), Kind(s) = "number", ~Has(s, "enum"), PlainFormat(s),
           ~Has(s, "multipleOf"), ~Has(s, "maximum"), Has(s, "minimum"),
           s.minimum > 10 * DefaultBound, NEW v \in GenerateNumber(s), NEW at
    PROVE  ScalarErrors(s, v, at) # {}
<1> DEFINE up == Lo(s) + Step(s, "exclusiveMinimum")
           down == Hi(s) - Step(s, "exclusiveMaximum")
           lo == Least(up, down)
           hi == Greatest(down, lo)
           m == Get(s, "multipleOf", 0)
           grid == Least(Lo(s), Hi(s)) .. Hi(s)
           tenths == IF m > 0 THEN MultiplesOf(m, lo, hi, grid) ELSE Floats(lo, hi)
<1>1. DefaultBound \in Int /\ s.minimum \in Int
  BY DefaultsAssumption, WidthAssumption DEF NumericKeywords
<1>2. Hi(s) = 10 * DefaultBound /\ Lo(s) = s.minimum /\ m = 0
  BY DEF Hi, Lo, Get
<1>3. Step(s, "exclusiveMaximum") = 0 /\ Step(s, "exclusiveMinimum") \in 0 .. 1
  BY BoundsAreNumbers DEF NumericKeywords, Step
<1>4. lo = 10 * DefaultBound /\ hi = 10 * DefaultBound
  BY <1>1, <1>2, <1>3 DEF Least, Greatest
<1>5. GenerateNumber(s) = {JsonNumber(k) : k \in tenths}
  BY Zenon DEF GenerateNumber, PlainFormat
<1>6. PICK k \in tenths : v = JsonNumber(k)
  BY <1>5
<1> HIDE DEF lo, hi, m, grid
<1>7. k = 10 * DefaultBound
  BY <1>1, <1>2, <1>4 DEF Floats
<1>8. JsonValue(v) /\ IsNumber(v) /\ Tenths(v) = k
  BY <1>1, <1>6, <1>7, JsonNumberKeeps
<1>9. ~InBounds(s, k)
  BY <1>1, <1>7, InBoundsBySteps
<1>10. BoundErrors(s, k, at) # {}
  BY <1>9, BoundErrorsMeaning DEF StepMeans
<1> QED BY <1>8, <1>10 DEF ScalarErrors, NumberErrors

\* A maximum below the default minimum, and no minimum: the draw of an integer starts from
\* the default minimum and ends there.
THEOREM LoneMaximumIsMissed ==
    ASSUME NEW s, NumericKeywords(s), WholeKeywords(s), Kind(s) = "integer", ~Has(s, "enum"),
           PlainFormat(s), ~Has(s, "multipleOf"), ~Has(s, "minimum"), Has(s, "maximum"),
           s.maximum < 0 - 10 * DefaultBound, NEW v \in GenerateInteger(s), NEW at
    PROVE  ScalarErrors(s, v, at) # {}
<1> DEFINE lo == (Lo(s) + 9) \div 10 + Step(s, "exclusiveMinimum")
           hi == Greatest(lo, Hi(s) \div 10 - Step(s, "exclusiveMaximum"))
           m == Get(s, "multipleOf", 0)
           fits == {k \in lo .. hi : Multiple(10 * k, m)}
           next == CHOOSE k \in lo .. (lo + m) :
                      Multiple(10 * k, m) /\ \A j \in lo .. (k - 1) : ~Multiple(10 * j, m)
           passing == {k \in lo .. hi : PassesStrict(10 * k, m)}
           first == CHOOSE k \in passing : \A j \in passing : k <= j
           ints == CASE m <= 0 -> lo .. hi
                     [] m > 0 /\ Multiple(m, 10) -> IF fits # {} THEN fits ELSE {next}
                     [] OTHER -> IF passing = {} THEN {lo} ELSE {first} \cup (passing \cap fits)
<1>1. DefaultBound \in Int /\ s.maximum \in Int
  BY DefaultsAssumption, WidthAssumption DEF NumericKeywords
<1>2. Lo(s) = 0 - 10 * DefaultBound /\ Hi(s) = s.maximum /\ m = 0
  BY DEF Hi, Lo, Get
<1>3. Step(s, "exclusiveMinimum") = 0 /\ Step(s, "exclusiveMaximum") \in 0 .. 1
  BY BoundsAreNumbers DEF NumericKeywords, Step
<1>4. lo = 0 - DefaultBound /\ hi \in Int
  BY <1>1, <1>2, <1>3 DEF Greatest
<1>5. GenerateInteger(s) = {Whole(k) : k \in ints}
  BY Zenon DEF GenerateInteger, Multiple, PlainFormat
<1>6. PICK k \in ints : v = Whole(k)
  BY <1>5
<1> HIDE DEF lo, hi, m, fits, next
<1>7. k \in Int /\ 0 - DefaultBound <= k
  BY <1>1, <1>2, <1>4
<1>8. ~InBounds(s, 10 * k)
  BY <1>1, <1>7, InBoundsBySteps
<1>9. IsI64(v) => ~(BoundErrors(s, Tenths(v), at) = {})
  BY <1>6, <1>7, <1>8, WholeIsInteger, BoundErrorsMeaning DEF StepMeans
<1> QED BY <1>9, Zenon DEF ScalarErrors, IntegerErrors, Err

-----------------------------------------------------------------------------
(* The generator of texts.                                                 *)

LEMMA LengthsAreNumbers ==
    ASSUME NEW s, Has(s, "minLength") => s.minLength \in Nat,
           Has(s, "maxLength") => s.maxLength \in Nat,
           (Has(s, "minLength") /\ Has(s, "maxLength")) => s.minLength <= s.maxLength
    PROVE  /\ MinLength(s) \in Nat /\ MaxLength(s) \in Nat
           /\ MinLength(s) <= MaxLength(s)
           /\ Has(s, "maxLength") => MaxLength(s) = s.maxLength
<1>1. DefaultLength \in Nat
  BY Zenon, DefaultsAssumption
<1> QED BY <1>1 DEF MinLength, MaxLength, Greatest, Get

\* GeneratedIsAccepted on texts without format and pattern: the lengths that are drawn are
\* the lengths that are asked for, the default ones included, and nothing is refused.
THEOREM TextsAreAccepted ==
    ASSUME NEW s, Kind(s) = "string",
           ~Has(s, "enum"), ~Has(s, "format"), ~Has(s, "pattern"),
           Has(s, "minLength") => s.minLength \in Nat,
           Has(s, "maxLength") => s.maxLength \in Nat,
           (Has(s, "minLength") /\ Has(s, "maxLength")) => s.minLength <= s.maxLength,
           NEW failFormats \in BOOLEAN, NEW err \in BOOLEAN,
           NEW x \in GenerateString(s, failFormats, err), NEW at
    PROVE  ScalarErrors(s, x.v, at) = {} /\ x.err = err
<1> DEFINE texts == IF MaxLength(s) = 0 THEN {Str("")}
                    ELSE {Str(w) : w \in OfLength(Greatest(1, MinLength(s)), MaxLength(s))}
<1> DEFINE min == MinLength(s)
           max == MaxLength(s)
<1>0. /\ min \in Nat /\ max \in Nat /\ min <= max
      /\ Has(s, "maxLength") => max = s.maxLength
  BY LengthsAreNumbers
<1>1. GenerateString(s, failFormats, err) = {Out(t, err) : t \in texts}
  BY Zenon DEF GenerateString, Outs
<1>2. PICK t \in texts : x = Out(t, err)
  BY <1>1, Zenon
<1>3. x.v = t /\ x.err = err
  BY <1>2 DEF Out
<1> HIDE DEF texts
<1>4. PICK w : t = Str(w) /\ MinLength(s) <= Len(w) /\ (Has(s, "maxLength") => Len(w) <= s.maxLength)
  <2>1. CASE MaxLength(s) = 0
    <3>1. t = Str("") /\ Len("") = 0
      BY <2>1, EmptyAssumption, Zenon DEF texts
    <3>2. min <= 0 /\ (Has(s, "maxLength") => 0 <= s.maxLength)
      BY <1>0, <2>1
    <3> QED BY <3>1, <3>2, Zenon
  <2>2. CASE MaxLength(s) # 0
    <3>1. PICK w \in OfLength(Greatest(1, MinLength(s)), MaxLength(s)) : t = Str(w)
      BY <2>2, Zenon DEF texts
    <3>2. Len(w) \in Greatest(1, MinLength(s)) .. MaxLength(s)
      BY DEF OfLength
    <3>3. min <= Len(w) /\ Len(w) <= max
      BY <1>0, <3>2 DEF Greatest
    <3> QED BY <1>0, <3>1, <3>3
  <2> QED BY <2>1, <2>2
<1>5. ScalarErrors(s, t, at) = StringErrors(s, t, at)
  BY DEF ScalarErrors
<1>6. StringErrors(s, t, at) =
          Unless(Has(s, "minLength") => Len(w) >= s.minLength, at, "minLength")
          \cup Unless(Has(s, "maxLength") => Len(w) <= s.maxLength, at, "maxLength")
  BY <1>4 DEF StringErrors, Unless, Is, Str
<1>7. Has(s, "minLength") => Len(w) >= s.minLength
  BY <1>4 DEF MinLength, Get
<1> QED BY <1>3, <1>4, <1>5, <1>6, <1>7 DEF Unless

-----------------------------------------------------------------------------
(* The recursions of the model, as functions that say what they are one    *)
(* step before.  Each is shown to be there by building it step by step.    *)

\* PartsOf.
NextLayer(i, before, v) == IF i = 0 THEN {v} ELSE UNION {Members(w) : w \in before}
Layers(v, n) == CHOOSE f : f = [i \in 0 .. n |-> NextLayer(i, f[i - 1], v)]

LEMMA LayersExist ==
    ASSUME NEW v, NEW n \in Nat
    PROVE  \E f : f = [i \in 0 .. n |-> NextLayer(i, f[i - 1], v)]
<1> DEFINE Stage(i, below) == NextLayer(i, below, v)
           Upto(f, m) == f = [i \in 0 .. m |-> Stage(i, f[i - 1])]
           T == {m \in Nat : \E f : Upto(f, m)}
<1>1. \A x, y : Stage(0, x) = Stage(0, y)
  BY DEF NextLayer
<1> HIDE DEF Stage
<1>2. 0 \in T
  <2> DEFINE f == [i \in 0 .. 0 |-> Stage(0, 0)]
  <2>1. \A i \in 0 .. 0 : f[i] = Stage(i, f[i - 1])
    BY <1>1
  <2>2. Upto(f, 0)
    BY <2>1
  <2> QED BY <2>2
<1>3. ASSUME NEW m \in T PROVE m + 1 \in T
  <2>1. PICK f : Upto(f, m)
    OBVIOUS
  <2> DEFINE g == [i \in 0 .. m + 1 |-> IF i = m + 1 THEN Stage(i, f[m]) ELSE f[i]]
  <2>2. m \in Nat
    OBVIOUS
  <2>3. ASSUME NEW i \in 0 .. m + 1 PROVE g[i] = Stage(i, g[i - 1])
    <3>1. CASE i = 0
      BY <1>1, <2>1, <2>2, <3>1
    <3>2. CASE i \in 1 .. m
      BY <2>1, <2>2, <3>2
    <3>3. CASE i = m + 1
      BY <2>2, <3>3
    <3> QED BY <2>2, <3>1, <3>2, <3>3
  <2>4. Upto(g, m + 1)
    BY <2>3
  <2>5. \E h : Upto(h, m + 1)
    <3> HIDE DEF g, Upto
    <3> QED BY <2>4
  <2> QED BY <2>2, <2>5
<1>4. T = Nat
  <2> HIDE DEF T
  <2>1. T \in SUBSET Nat
    BY DEF T
  <2> QED BY <1>2, <1>3, <2>1, NatInduct
<1> QED BY <1>4 DEF Stage

\* Target.
Follow(t) == IF Has(t, "ref") /\ t.ref \in DOMAIN Components THEN Components[t.ref] ELSE t
NextTarget(n, before, s) == IF n = 0 THEN s ELSE Follow(before)
Targets(s, steps) == CHOOSE f : f = [n \in 0 .. steps |-> NextTarget(n, f[n - 1], s)]

LEMMA TargetsExist ==
    ASSUME NEW s, NEW steps \in Nat
    PROVE  \E f : f = [n \in 0 .. steps |-> NextTarget(n, f[n - 1], s)]
<1> DEFINE Stage(n, below) == NextTarget(n, below, s)
           Upto(f, m) == f = [n \in 0 .. m |-> Stage(n, f[n - 1])]
           T == {m \in Nat : \E f : Upto(f, m)}
<1>1. \A x, y : Stage(0, x) = Stage(0, y)
  BY DEF NextTarget
<1> HIDE DEF Stage
<1>2. 0 \in T
  <2> DEFINE f == [n \in 0 .. 0 |-> Stage(0, 0)]
  <2>1. \A n \in 0 .. 0 : f[n] = Stage(n, f[n - 1])
    BY <1>1
  <2>2. Upto(f, 0)
    BY <2>1
  <2> QED BY <2>2
<1>3. ASSUME NEW m \in T PROVE m + 1 \in T
  <2>1. PICK f : Upto(f, m)
    OBVIOUS
  <2> DEFINE g == [n \in 0 .. m + 1 |-> IF n = m + 1 THEN Stage(n, f[m]) ELSE f[n]]
  <2>2. m \in Nat
    OBVIOUS
  <2>3. ASSUME NEW n \in 0 .. m + 1 PROVE g[n] = Stage(n, g[n - 1])
    <3>1. CASE n = 0
      BY <1>1, <2>1, <2>2, <3>1
    <3>2. CASE n \in 1 .. m
      BY <2>1, <2>2, <3>2
    <3>3. CASE n = m + 1
      BY <2>2, <3>3
    <3> QED BY <2>2, <3>1, <3>2, <3>3
  <2>4. Upto(g, m + 1)
    BY <2>3
  <2>5. \E h : Upto(h, m + 1)
    <3> HIDE DEF g, Upto
    <3> QED BY <2>4
  <2> QED BY <2>2, <2>5
<1>4. T = Nat
  <2> HIDE DEF T
  <2>1. T \in SUBSET Nat
    BY DEF T
  <2> QED BY <1>2, <1>3, <2>1, NatInduct
<1> QED BY <1>4 DEF Stage

\* ValidateValue.
ErrorsTo(n, nested, parts) ==
    [s \in Schemas |-> [v \in parts |-> [at \in Locations |->
        IF n = 0 THEN {} ELSE ErrorsOf(s, v, at, nested)]]]
Errors(parts) == CHOOSE f : f = [n \in 0 .. Stack |-> ErrorsTo(n, f[n - 1], parts)]

LEMMA ErrorsExist ==
    ASSUME NEW parts
    PROVE  \E f : f = [n \in 0 .. Stack |-> ErrorsTo(n, f[n - 1], parts)]
<1> DEFINE Stage(n, below) == ErrorsTo(n, below, parts)
           Upto(f, m) == f = [n \in 0 .. m |-> Stage(n, f[n - 1])]
           T == {m \in Nat : \E f : Upto(f, m)}
<1>1. \A x, y : Stage(0, x) = Stage(0, y)
  BY DEF ErrorsTo
<1> HIDE DEF Stage
<1>2. 0 \in T
  <2> DEFINE f == [n \in 0 .. 0 |-> Stage(0, 0)]
  <2>1. \A n \in 0 .. 0 : f[n] = Stage(n, f[n - 1])
    BY <1>1
  <2>2. Upto(f, 0)
    BY <2>1
  <2> QED BY <2>2
<1>3. ASSUME NEW m \in T PROVE m + 1 \in T
  <2>1. PICK f : Upto(f, m)
    OBVIOUS
  <2> DEFINE g == [n \in 0 .. m + 1 |-> IF n = m + 1 THEN Stage(n, f[m]) ELSE f[n]]
  <2>2. m \in Nat
    OBVIOUS
  <2>3. ASSUME NEW n \in 0 .. m + 1 PROVE g[n] = Stage(n, g[n - 1])
    <3>1. CASE n = 0
      BY <1>1, <2>1, <2>2, <3>1
    <3>2. CASE n \in 1 .. m
      BY <2>1, <2>2, <3>2
    <3>3. CASE n = m + 1
      BY <2>2, <3>3
    <3> QED BY <2>2, <3>1, <3>2, <3>3
  <2>4. Upto(g, m + 1)
    BY <2>3
  <2>5. \E h : Upto(h, m + 1)
    <3> HIDE DEF g, Upto
    <3> QED BY <2>4
  <2> QED BY <2>2, <2>5
<1>4. T = Nat
  <2> HIDE DEF T
  <2>1. T \in SUBSET Nat
    BY DEF T
  <2> QED BY <1>2, <1>3, <2>1, NatInduct
<1> QED BY <1>4, StackAssumption DEF Stage

\* Conforms.
ConformingTo(n, inside, parts) ==
    [s \in Schemas |-> [v \in parts |-> n > 0 /\ Means(Target(s), v, inside)]]
Conforming(parts) == CHOOSE f : f = [n \in 0 .. Stack |-> ConformingTo(n, f[n - 1], parts)]

LEMMA ConformingExists ==
    ASSUME NEW parts
    PROVE  \E f : f = [n \in 0 .. Stack |-> ConformingTo(n, f[n - 1], parts)]
<1> DEFINE Stage(n, below) == ConformingTo(n, below, parts)
           Upto(f, m) == f = [n \in 0 .. m |-> Stage(n, f[n - 1])]
           T == {m \in Nat : \E f : Upto(f, m)}
<1>1. \A x, y : Stage(0, x) = Stage(0, y)
  BY DEF ConformingTo
<1> HIDE DEF Stage
<1>2. 0 \in T
  <2> DEFINE f == [n \in 0 .. 0 |-> Stage(0, 0)]
  <2>1. \A n \in 0 .. 0 : f[n] = Stage(n, f[n - 1])
    BY <1>1
  <2>2. Upto(f, 0)
    BY <2>1
  <2> QED BY <2>2
<1>3. ASSUME NEW m \in T PROVE m + 1 \in T
  <2>1. PICK f : Upto(f, m)
    OBVIOUS
  <2> DEFINE g == [n \in 0 .. m + 1 |-> IF n = m + 1 THEN Stage(n, f[m]) ELSE f[n]]
  <2>2. m \in Nat
    OBVIOUS
  <2>3. ASSUME NEW n \in 0 .. m + 1 PROVE g[n] = Stage(n, g[n - 1])
    <3>1. CASE n = 0
      BY <1>1, <2>1, <2>2, <3>1
    <3>2. CASE n \in 1 .. m
      BY <2>1, <2>2, <3>2
    <3>3. CASE n = m + 1
      BY <2>2, <3>3
    <3> QED BY <2>2, <3>1, <3>2, <3>3
  <2>4. Upto(g, m + 1)
    BY <2>3
  <2>5. \E h : Upto(h, m + 1)
    <3> HIDE DEF g, Upto
    <3> QED BY <2>4
  <2> QED BY <2>2, <2>5
<1>4. T = Nat
  <2> HIDE DEF T
  <2>1. T \in SUBSET Nat
    BY DEF T
  <2> QED BY <1>2, <1>3, <2>1, NatInduct
<1> QED BY <1>4, StackAssumption DEF Stage

\* Overflows.
OverflowingTo(n, inside, parts) ==
    [s \in Schemas |-> [v \in parts |-> n = 0 \/ \E c \in Calls(s, v) : inside[c[1]][c[2]]]]
Overflowing(parts) == CHOOSE f : f = [n \in 0 .. Stack |-> OverflowingTo(n, f[n - 1], parts)]

LEMMA OverflowingExists ==
    ASSUME NEW parts
    PROVE  \E f : f = [n \in 0 .. Stack |-> OverflowingTo(n, f[n - 1], parts)]
<1> DEFINE Stage(n, below) == OverflowingTo(n, below, parts)
           Upto(f, m) == f = [n \in 0 .. m |-> Stage(n, f[n - 1])]
           T == {m \in Nat : \E f : Upto(f, m)}
<1>1. \A x, y : Stage(0, x) = Stage(0, y)
  BY DEF OverflowingTo
<1> HIDE DEF Stage
<1>2. 0 \in T
  <2> DEFINE f == [n \in 0 .. 0 |-> Stage(0, 0)]
  <2>1. \A n \in 0 .. 0 : f[n] = Stage(n, f[n - 1])
    BY <1>1
  <2>2. Upto(f, 0)
    BY <2>1
  <2> QED BY <2>2
<1>3. ASSUME NEW m \in T PROVE m + 1 \in T
  <2>1. PICK f : Upto(f, m)
    OBVIOUS
  <2> DEFINE g == [n \in 0 .. m + 1 |-> IF n = m + 1 THEN Stage(n, f[m]) ELSE f[n]]
  <2>2. m \in Nat
    OBVIOUS
  <2>3. ASSUME NEW n \in 0 .. m + 1 PROVE g[n] = Stage(n, g[n - 1])
    <3>1. CASE n = 0
      BY <1>1, <2>1, <2>2, <3>1
    <3>2. CASE n \in 1 .. m
      BY <2>1, <2>2, <3>2
    <3>3. CASE n = m + 1
      BY <2>2, <3>3
    <3> QED BY <2>2, <3>1, <3>2, <3>3
  <2>4. Upto(g, m + 1)
    BY <2>3
  <2>5. \E h : Upto(h, m + 1)
    <3> HIDE DEF g, Upto
    <3> QED BY <2>4
  <2> QED BY <2>2, <2>5
<1>4. T = Nat
  <2> HIDE DEF T
  <2>1. T \in SUBSET Nat
    BY DEF T
  <2> QED BY <1>2, <1>3, <2>1, NatInduct
<1> QED BY <1>4, StackAssumption DEF Stage

\* Enforced.
EnforcingTo(values, n, below) ==
    [s \in Schemas |-> [inside \in BOOLEAN |-> n = 0 \/ EnforcedIn(s, inside, values, below)]]
Enforcing(values) == CHOOSE f : f = [n \in 0 .. Stack |-> EnforcingTo(values, n, f[n - 1])]

LEMMA EnforcingExists ==
    ASSUME NEW values PROVE \E f : f = [n \in 0 .. Stack |-> EnforcingTo(values, n, f[n - 1])]
<1> DEFINE Stage(n, below) == EnforcingTo(values, n, below)
           Upto(f, m) == f = [n \in 0 .. m |-> Stage(n, f[n - 1])]
           T == {m \in Nat : \E f : Upto(f, m)}
<1>1. \A x, y : Stage(0, x) = Stage(0, y)
  BY DEF EnforcingTo
<1> HIDE DEF Stage
<1>2. 0 \in T
  <2> DEFINE f == [n \in 0 .. 0 |-> Stage(0, 0)]
  <2>1. \A n \in 0 .. 0 : f[n] = Stage(n, f[n - 1])
    BY <1>1
  <2>2. Upto(f, 0)
    BY <2>1
  <2> QED BY <2>2
<1>3. ASSUME NEW m \in T PROVE m + 1 \in T
  <2>1. PICK f : Upto(f, m)
    OBVIOUS
  <2> DEFINE g == [n \in 0 .. m + 1 |-> IF n = m + 1 THEN Stage(n, f[m]) ELSE f[n]]
  <2>2. m \in Nat
    OBVIOUS
  <2>3. ASSUME NEW n \in 0 .. m + 1 PROVE g[n] = Stage(n, g[n - 1])
    <3>1. CASE n = 0
      BY <1>1, <2>1, <2>2, <3>1
    <3>2. CASE n \in 1 .. m
      BY <2>1, <2>2, <3>2
    <3>3. CASE n = m + 1
      BY <2>2, <3>3
    <3> QED BY <2>2, <3>1, <3>2, <3>3
  <2>4. Upto(g, m + 1)
    BY <2>3
  <2>5. \E h : Upto(h, m + 1)
    <3> HIDE DEF g, Upto
    <3> QED BY <2>4
  <2> QED BY <2>2, <2>5
<1>4. T = Nat
  <2> HIDE DEF T
  <2>1. T \in SUBSET Nat
    BY DEF T
  <2> QED BY <1>2, <1>3, <2>1, NatInduct
<1> QED BY <1>4, StackAssumption DEF Stage

\* What the operators of the model are in terms of these.
LEMMA Unfolds ==
    /\ \A v : \A n \in Nat : PartsOf(v, n) = UNION {Layers(v, n)[i] : i \in 0 .. n}
    /\ \A s : Target(s) = Targets(s, Cardinality(DOMAIN Components))[Cardinality(DOMAIN Components)]
    /\ \A s, v, at : ValidateValue(s, v, at) = Errors(PartsOf(v, Stack))[Stack][s][v][at]
    /\ \A s, v : Conforms(s, v) = Conforming(PartsOf(v, Stack))[Stack][s][v]
    /\ \A s, v : Overflows(s, v) = Overflowing(PartsOf(v, Stack))[Stack][s][v]
    /\ \A s, values : Enforced(s, values) <=>
            Resolved(s) # {} /\ \A r \in Resolved(s) : Enforcing(values)[Stack][r][FALSE]
<1>1. \A v : \A n \in Nat : PartsOf(v, n) = UNION {Layers(v, n)[i] : i \in 0 .. n}
  BY DEF PartsOf, Layers, NextLayer
<1>2. \A s : Target(s) = Targets(s, Cardinality(DOMAIN Components))[Cardinality(DOMAIN Components)]
  BY Zenon DEF Target, Targets, NextTarget, Follow
<1>3. \A s, v, at : ValidateValue(s, v, at) = Errors(PartsOf(v, Stack))[Stack][s][v][at]
  BY Zenon DEF ValidateValue, Errors, ErrorsTo
<1>4. \A s, v : Conforms(s, v) = Conforming(PartsOf(v, Stack))[Stack][s][v]
  BY Zenon DEF Conforms, Conforming, ConformingTo
<1>5. \A s, v : Overflows(s, v) = Overflowing(PartsOf(v, Stack))[Stack][s][v]
  BY Zenon DEF Overflows, Overflowing, OverflowingTo
<1>6. \A s, values : Enforced(s, values) <=>
          Resolved(s) # {} /\ \A r \in Resolved(s) : Enforcing(values)[Stack][r][FALSE]
  BY Zenon DEF Enforced, Enforcing, EnforcingTo
<1> QED BY <1>1, <1>2, <1>3, <1>4, <1>5, <1>6

LEMMA LayersUnfold ==
    ASSUME NEW v, NEW n \in Nat
    PROVE  /\ Layers(v, n)[0] = {v}
           /\ \A i \in 1 .. n : Layers(v, n)[i] = UNION {Members(w) : w \in Layers(v, n)[i - 1]}
<1>1. Layers(v, n) = [i \in 0 .. n |-> NextLayer(i, Layers(v, n)[i - 1], v)]
  BY LayersExist, Zenon DEF Layers
<1> QED BY <1>1 DEF NextLayer

LEMMA TargetsUnfold ==
    ASSUME NEW s, NEW steps \in Nat
    PROVE  /\ Targets(s, steps)[0] = s
           /\ \A n \in 1 .. steps : Targets(s, steps)[n] = Follow(Targets(s, steps)[n - 1])
<1>1. Targets(s, steps) = [n \in 0 .. steps |-> NextTarget(n, Targets(s, steps)[n - 1], s)]
  BY TargetsExist, Zenon DEF Targets
<1> QED BY <1>1 DEF NextTarget

LEMMA ErrorsUnfold ==
    ASSUME NEW parts
    PROVE  \A n \in 0 .. Stack : \A s \in Schemas, v \in parts, at \in Locations :
               Errors(parts)[n][s][v][at] =
                   IF n = 0 THEN {} ELSE ErrorsOf(s, v, at, Errors(parts)[n - 1])
<1>1. Errors(parts) = [n \in 0 .. Stack |-> ErrorsTo(n, Errors(parts)[n - 1], parts)]
  BY ErrorsExist, Zenon DEF Errors
<1>2. \A n \in 0 .. Stack : Errors(parts)[n] = ErrorsTo(n, Errors(parts)[n - 1], parts)
  BY <1>1
<1>3. \A n, x : \A s \in Schemas, v \in parts, at \in Locations : ErrorsTo(n, x, parts)[s][v][at] = IF n = 0 THEN {} ELSE ErrorsOf(s, v, at, x)
  BY DEF ErrorsTo
<1> QED BY <1>2, <1>3

LEMMA ConformingUnfold ==
    ASSUME NEW parts
    PROVE  \A n \in 0 .. Stack : \A s \in Schemas, v \in parts :
               Conforming(parts)[n][s][v] =
                   (n > 0 /\ Means(Target(s), v, Conforming(parts)[n - 1]))
<1>1. Conforming(parts) = [n \in 0 .. Stack |-> ConformingTo(n, Conforming(parts)[n - 1], parts)]
  BY ConformingExists, Zenon DEF Conforming
<1>2. \A n \in 0 .. Stack : Conforming(parts)[n] = ConformingTo(n, Conforming(parts)[n - 1], parts)
  BY <1>1
<1>3. \A n, x : \A s \in Schemas, v \in parts : ConformingTo(n, x, parts)[s][v] = (n > 0 /\ Means(Target(s), v, x))
  BY DEF ConformingTo
<1> QED BY <1>2, <1>3

LEMMA OverflowingUnfold ==
    ASSUME NEW parts
    PROVE  \A n \in 0 .. Stack : \A s \in Schemas, v \in parts :
               Overflowing(parts)[n][s][v] <=>
                   (n = 0 \/ \E c \in Calls(s, v) : Overflowing(parts)[n - 1][c[1]][c[2]])
<1>1. Overflowing(parts) = [n \in 0 .. Stack |-> OverflowingTo(n, Overflowing(parts)[n - 1], parts)]
  BY OverflowingExists, Zenon DEF Overflowing
<1>2. \A n \in 0 .. Stack : Overflowing(parts)[n] = OverflowingTo(n, Overflowing(parts)[n - 1], parts)
  BY <1>1
<1>3. \A n, x : \A s \in Schemas, v \in parts : OverflowingTo(n, x, parts)[s][v] <=> (n = 0 \/ \E c \in Calls(s, v) : x[c[1]][c[2]])
  BY DEF OverflowingTo
<1>4. ASSUME NEW n \in 0 .. Stack, NEW s \in Schemas, NEW v \in parts
      PROVE  Overflowing(parts)[n][s][v] <=>
                 (n = 0 \/ \E c \in Calls(s, v) : Overflowing(parts)[n - 1][c[1]][c[2]])
  <2>1. Overflowing(parts)[n][s][v] <=> OverflowingTo(n, Overflowing(parts)[n - 1], parts)[s][v]
    BY <1>2
  <2>2. OverflowingTo(n, Overflowing(parts)[n - 1], parts)[s][v] <=>
            (n = 0 \/ \E c \in Calls(s, v) : Overflowing(parts)[n - 1][c[1]][c[2]])
    BY <1>3, Zenon
  <2> QED BY <2>1, <2>2, Zenon
<1> QED BY <1>4

LEMMA EnforcingUnfold ==
    ASSUME NEW values, NEW n \in 0 .. Stack, NEW s \in Schemas, NEW inside \in BOOLEAN
    PROVE  Enforcing(values)[n][s][inside] = (n = 0 \/ EnforcedIn(s, inside, values, Enforcing(values)[n - 1]))
<1>1. Enforcing(values) = [k \in 0 .. Stack |-> EnforcingTo(values, k, Enforcing(values)[k - 1])]
  BY EnforcingExists, Zenon DEF Enforcing
<1>2. Enforcing(values)[n] = EnforcingTo(values, n, Enforcing(values)[n - 1])
  BY <1>1
<1>3. \A x : EnforcingTo(values, n, x)[s][inside] = (n = 0 \/ EnforcedIn(s, inside, values, x))
  BY DEF EnforcingTo
<1> QED BY <1>2, <1>3

LEMMA EnforcingOutside ==
    ASSUME NEW values, NEW n \in 0 .. Stack, n # 0, NEW s \in Schemas
    PROVE  Enforcing(values)[n][s][FALSE] <=> EnforcedIn(s, FALSE, values, Enforcing(values)[n - 1])
<1>1. \A inside \in BOOLEAN :
          Enforcing(values)[n][s][inside] = (n = 0 \/ EnforcedIn(s, inside, values, Enforcing(values)[n - 1]))
  BY EnforcingUnfold
<1>2. FALSE \in BOOLEAN
  OBVIOUS
<1>3. Enforcing(values)[n][s][FALSE] = (n = 0 \/ EnforcedIn(s, FALSE, values, Enforcing(values)[n - 1]))
  BY <1>1, <1>2, Zenon
<1> QED BY <1>3, Zenon

-----------------------------------------------------------------------------
(* The parts of a value and the ends of references.                        *)

\* What lies up to n levels inside a value.
UpTo(whole, n) == UNION {Layers(whole, Stack)[i] : i \in 0 .. n}

LEMMA PartsByLevel ==
    ASSUME NEW whole
    PROVE  /\ PartsOf(whole, Stack) = UpTo(whole, Stack)
           /\ whole \in UpTo(whole, 0)
           /\ \A n \in 0 .. Stack : UpTo(whole, n) \subseteq PartsOf(whole, Stack)
           /\ \A n \in 0 .. Stack : n < Stack =>
                  \A v \in UpTo(whole, n) : v \in UpTo(whole, n + 1) /\ Members(v) \subseteq UpTo(whole, n + 1)
<1>1. Stack \in Nat
  BY StackAssumption
<1>2. PartsOf(whole, Stack) = UpTo(whole, Stack)
  BY <1>1, Unfolds DEF UpTo
<1>3. whole \in UpTo(whole, 0)
  BY <1>1, LayersUnfold DEF UpTo
<1>4. \A n \in 0 .. Stack : UpTo(whole, n) \subseteq UpTo(whole, Stack)
  BY <1>1 DEF UpTo
<1>5. ASSUME NEW n \in 0 .. Stack, n < Stack, NEW v \in UpTo(whole, n)
      PROVE  v \in UpTo(whole, n + 1) /\ Members(v) \subseteq UpTo(whole, n + 1)
  <2>1. PICK i \in 0 .. n : v \in Layers(whole, Stack)[i]
    BY DEF UpTo
  <2>2. i + 1 \in 1 .. Stack /\ i \in 0 .. n + 1 /\ i + 1 \in 0 .. n + 1 /\ (i + 1) - 1 = i
    BY <1>1, <1>5
  <2>3. Layers(whole, Stack)[i + 1] = UNION {Members(w) : w \in Layers(whole, Stack)[i]}
    BY <1>1, <2>2, LayersUnfold
  <2>4. Members(v) \subseteq Layers(whole, Stack)[i + 1]
    BY <2>1, <2>3
  <2> QED BY <2>1, <2>2, <2>4 DEF UpTo
<1> QED BY <1>2, <1>3, <1>4, <1>5

\* A schema that is no reference is its own target, and what a schema resolves to is its
\* target.
LEMMA TargetOfResolved ==
    ASSUME NEW s, NEW r \in Resolved(s)
    PROVE  Target(r) = r /\ Target(s) = r /\ Resolved(r) = {r} /\ ~Has(r, "ref")
<1> DEFINE steps == Cardinality(DOMAIN Components)
<1>1. steps \in Nat
  BY DocumentAssumption, FS_CardinalityType
<1>2. ~Has(r, "ref")
  BY DEF Resolved
<1>3. ASSUME NEW a, NEW m \in 0 .. steps, Targets(a, steps)[m] = r
      PROVE  Targets(a, steps)[steps] = r
  <2> DEFINE T == {n \in Nat : m + n \in 0 .. steps => Targets(a, steps)[m + n] = r}
  <2>1. 0 \in T
    BY <1>1, <1>3
  <2>2. ASSUME NEW n \in T PROVE n + 1 \in T
    <3> SUFFICES ASSUME m + (n + 1) \in 0 .. steps PROVE Targets(a, steps)[m + (n + 1)] = r
      OBVIOUS
    <3>1. m + (n + 1) \in 1 .. steps /\ (m + (n + 1)) - 1 = m + n /\ m + n \in 0 .. steps
      BY <1>1
    <3>2. Targets(a, steps)[m + (n + 1)] = Follow(Targets(a, steps)[m + n])
      <4> HIDE DEF steps
      <4> QED BY <1>1, <3>1, TargetsUnfold
    <3> QED BY <1>2, <3>1, <3>2 DEF Follow
  <2>3. T = Nat
    <3> HIDE DEF T
    <3>1. T \in SUBSET Nat
      BY DEF T
    <3> QED BY <2>1, <2>2, <3>1, NatInduct
  <2>4. steps - m \in T /\ m + (steps - m) = steps
    BY <1>1, <2>3
  <2> QED BY <1>1, <2>4
<1>4. Target(r) = r
  <2>1. Targets(r, steps)[0] = r
    BY <1>1, TargetsUnfold
  <2> QED BY <1>1, <1>3, <2>1, Unfolds
<1>5. Target(s) = r
  <2>1. CASE ~Has(s, "ref")
    BY <1>4, <2>1 DEF Resolved
  <2>2. CASE Has(s, "ref")
    <3>1. s.ref \in DOMAIN Components /\ Components[s.ref] = r
      BY <2>2 DEF Resolved
    <3>2. steps >= 1
      <4>1. steps # 0
        BY <3>1, DocumentAssumption, FS_EmptySet
      <4> QED BY <1>1, <4>1
    <3>3. Targets(s, steps)[1] = r
      <4>1. Targets(s, steps)[1] = Follow(Targets(s, steps)[0]) /\ Targets(s, steps)[0] = s
        <5>1. 1 \in 1 .. steps /\ 1 - 1 = 0
          BY <1>1, <3>2
        <5> HIDE DEF steps
        <5> QED BY <1>1, <5>1, TargetsUnfold
      <4> QED BY <2>2, <3>1, <4>1 DEF Follow
    <3> QED BY <1>1, <1>3, <3>2, <3>3, Unfolds
  <2> QED BY <2>1, <2>2
<1> QED BY <1>2, <1>4, <1>5 DEF Resolved

LEMMA ResolvedIsSchema ==
    ASSUME NEW s \in Schemas
    PROVE  Resolved(s) \subseteq Schemas /\ (Resolved(s) # {} => \E r : Resolved(s) = {r})
BY DEF Resolved, Schemas, Range

-----------------------------------------------------------------------------
(* The kinds of schemas.                                                   *)

\* What a value is it is alone.
LEMMA OneForm ==
    ASSUME NEW v, JsonValue(v)
    PROVE  /\ Is(v, "obj") => ~Is(v, "arr") /\ ~Is(v, "str") /\ ~IsNumber(v) /\ ~IsI64(v) /\ ~Is(v, "null")
           /\ Is(v, "arr") => ~Is(v, "obj") /\ ~Is(v, "str") /\ ~IsNumber(v) /\ ~IsI64(v) /\ ~Is(v, "null")
           /\ Is(v, "str") => ~Is(v, "obj") /\ ~Is(v, "arr") /\ ~IsNumber(v) /\ ~IsI64(v) /\ ~Is(v, "null")
           /\ IsNumber(v) => ~Is(v, "obj") /\ ~Is(v, "arr") /\ ~Is(v, "str") /\ ~Is(v, "null")
           /\ Is(v, "bool") => ~Is(v, "obj") /\ ~Is(v, "arr") /\ ~Is(v, "str") /\ ~IsNumber(v)
           /\ Is(v, "obj") => IsFiniteSet(DOMAIN v.obj) /\ DOMAIN v.obj \subseteq STRING
           /\ Is(v, "arr") => Len(v.arr) \in Nat /\ DOMAIN v.arr = 1 .. Len(v.arr) /\ v.arr \in Seq(Range(v.arr))
<1>1. /\ Is(v, "obj") => ~Is(v, "arr") /\ ~Is(v, "str") /\ ~IsNumber(v) /\ ~IsI64(v) /\ ~Is(v, "null")
      /\ Is(v, "arr") => ~Is(v, "obj") /\ ~Is(v, "str") /\ ~IsNumber(v) /\ ~IsI64(v) /\ ~Is(v, "null")
      /\ Is(v, "str") => ~Is(v, "obj") /\ ~Is(v, "arr") /\ ~IsNumber(v) /\ ~IsI64(v) /\ ~Is(v, "null")
      /\ IsNumber(v) => ~Is(v, "obj") /\ ~Is(v, "arr") /\ ~Is(v, "str") /\ ~Is(v, "null")
      /\ Is(v, "bool") => ~Is(v, "obj") /\ ~Is(v, "arr") /\ ~Is(v, "str") /\ ~IsNumber(v)
  BY DEF JsonValue, IsNumber, IsI64, Is, Null, Bool, Whole, Float, Str, Arr, Obj
<1>2. Is(v, "obj") => IsFiniteSet(DOMAIN v.obj) /\ DOMAIN v.obj \subseteq Range(KeyOrder)
  BY DEF JsonValue, IsNumber, IsI64, Is, Null, Bool, Whole, Float, Str, Arr, Obj
<1>3. Is(v, "arr") => v.arr \in Seq(Range(v.arr))
  BY DEF JsonValue, IsNumber, IsI64, Is, Null, Bool, Whole, Float, Str, Arr, Obj
<1>4. Range(KeyOrder) \subseteq STRING
  BY KeyAssumption DEF Range
<1> QED BY <1>1, <1>2, <1>3, <1>4

-----------------------------------------------------------------------------
(* One level.  `nested` is what the calls of the validator return and      *)
(* `inside` what they should: they agree on the schemas and values that    *)
(* one schema passes on.                                                   *)

Agree(c, w, nested, inside) ==
    \A p \in Locations : (Check(c, w, p, nested) = {}) <=> inside[c][w]

\* What the keywords of a kind mean, where it is of that kind.
LEMMA MeansOfScalar ==
    ASSUME NEW s, Kind(s) \in ScalarKinds, NEW v, JsonValue(v), NEW inside,
           ~(Is(v, "null") /\ Flag(s, "nullable"))
    PROVE  Means(s, v, inside) <=> MeansScalar(s, v)
<1>1. /\ Has(s, "type") /\ s.type = Kind(s) /\ s.type \in ScalarKinds
      /\ ~Has(s, "allOf") /\ ~Has(s, "anyOf") /\ ~Has(s, "oneOf") /\ ~Has(s, "not")
  <2>1. Kind(s) \in Types /\ Has(s, "type") /\ s.type = Kind(s) /\ DOMAIN s \ Annotations \subseteq TypeKeywords(Kind(s))
    BY KindKeywords DEF ScalarKinds, Types
  <2>2. \A c \in {"allOf", "anyOf", "oneOf", "not"} : c \notin TypeKeywords(Kind(s)) /\ c \notin Annotations
    BY DEF ScalarKinds, TypeKeywords, Annotations
  <2> QED BY <2>1, <2>2 DEF Has
<1>2. (Is(v, "obj") \/ Is(v, "arr")) => ~MeansScalar(s, v)
  <2>1. (Is(v, "obj") \/ Is(v, "arr")) => ~IsA(v, s.type)
    BY <1>1, OneForm DEF IsA, ScalarKinds
  <2> QED BY <1>1, <2>1, Zenon DEF MeansScalar
<1> QED BY <1>1, <1>2, Zenon DEF Means

LEMMA MeansOfArray ==
    ASSUME NEW s, Kind(s) = "array", NEW v, JsonValue(v), Is(v, "arr"), NEW inside
    PROVE  Means(s, v, inside) <=>
               /\ Len(v.arr) >= Get(s, "minItems", 0)
               /\ Has(s, "maxItems") => Len(v.arr) <= s.maxItems
               /\ Flag(s, "uniqueItems") => NoRepeats(v.arr)
               /\ Has(s, "items") => \A i \in DOMAIN v.arr : inside[s.items][v.arr[i]]
<1>1. /\ Has(s, "type") /\ s.type = "array"
      /\ ~Has(s, "enum") /\ ~Has(s, "allOf") /\ ~Has(s, "anyOf") /\ ~Has(s, "oneOf") /\ ~Has(s, "not")
  BY KindKeywords DEF Types, TypeKeywords, Annotations, Has
<1>2. MeansScalar(s, v)
  BY <1>1, OneForm DEF MeansScalar, IsA
<1>3. ~Is(v, "obj") /\ ~Is(v, "null")
  BY OneForm
<1> QED BY <1>1, <1>2, <1>3, Zenon DEF Means

LEMMA MeansOfObject ==
    ASSUME NEW s, Kind(s) = "object", NEW v, JsonValue(v), Is(v, "obj"), NEW inside,
           ~Has(s, "minProperties"), ~Has(s, "maxProperties")
    PROVE  Means(s, v, inside) <=>
               /\ Required(s) \subseteq DOMAIN v.obj
               /\ \A k \in DOMAIN v.obj \cap DOMAIN Properties(s) : inside[s.properties[k]][v.obj[k]]
               /\ Has(s, "additionalProperties") =>
                      \A k \in Outside(s, v.obj) :
                          IF Has(s.additionalProperties, "allowed")
                          THEN s.additionalProperties.allowed
                          ELSE inside[s.additionalProperties][v.obj[k]]
<1>1. /\ Has(s, "type") /\ s.type = "object"
      /\ ~Has(s, "enum") /\ ~Has(s, "allOf") /\ ~Has(s, "anyOf") /\ ~Has(s, "oneOf") /\ ~Has(s, "not")
  BY KindKeywords DEF Types, TypeKeywords, Annotations, Has
<1>2. MeansScalar(s, v)
  BY <1>1, OneForm DEF MeansScalar, IsA
<1>3. Cardinality(DOMAIN v.obj) >= Get(s, "minProperties", 0)
  BY OneForm, FS_CardinalityType DEF Get
<1>4. ~Is(v, "arr") /\ ~Is(v, "null")
  BY OneForm
<1> QED BY <1>1, <1>2, <1>3, <1>4, Zenon DEF Means

\* A schema of an object.
LEMMA ObjectVerdict ==
    ASSUME NEW s \in Schemas, Kind(s) = "object", NEW v, JsonValue(v), NEW at \in Locations,
           NEW nested, NEW inside, ~(Is(v, "null") /\ Flag(s, "nullable")),
           ~Has(s, "minProperties"), ~Has(s, "maxProperties"),
           Is(v, "obj") =>
               \A k \in DOMAIN Properties(s) \cap DOMAIN v.obj : Agree(s.properties[k], v.obj[k], nested, inside),
           (Is(v, "obj") /\ Has(s, "additionalProperties") /\ ~Has(s.additionalProperties, "allowed")) =>
               \A k \in Outside(s, v.obj) : Agree(s.additionalProperties, v.obj[k], nested, inside)
    PROVE  ObjectErrors(s, v, at, nested) = {} <=> Means(s, v, inside)
<1>1. /\ Has(s, "type") /\ s.type = "object"
      /\ ~Has(s, "enum") /\ ~Has(s, "allOf") /\ ~Has(s, "anyOf") /\ ~Has(s, "oneOf") /\ ~Has(s, "not")
  BY KindKeywords DEF Types, TypeKeywords, Annotations, Has
<1>2. IsA(v, "object") <=> Is(v, "obj")
  BY DEF IsA
<1>3. MeansScalar(s, v) <=> Is(v, "obj")
  BY <1>1, <1>2, OneForm DEF MeansScalar
<1>4. CASE ~Is(v, "obj")
  <2>1. ObjectErrors(s, v, at, nested) # {}
    BY <1>4, Zenon DEF ObjectErrors
  <2> QED BY <1>3, <1>4, <2>1, Zenon DEF Means
<1>5. CASE Is(v, "obj")
  <2> DEFINE members == \A k \in DOMAIN v.obj \cap DOMAIN Properties(s) : inside[s.properties[k]][v.obj[k]]
             others == Has(s, "additionalProperties") =>
                           \A k \in Outside(s, v.obj) :
                               IF Has(s.additionalProperties, "allowed")
                               THEN s.additionalProperties.allowed
                               ELSE inside[s.additionalProperties][v.obj[k]]
             extra == Get(s, "additionalProperties", [allowed |-> TRUE])
             refused == IF Has(extra, "allowed")
                        THEN {Err(Append(at, k), "additionalProperties") :
                                  k \in {x \in Outside(s, v.obj) : ~extra.allowed}}
                        ELSE UNION {Check(extra, v.obj[k], Append(at, k), nested) : k \in Outside(s, v.obj)}
  <2>1. Means(s, v, inside) <=> Required(s) \subseteq DOMAIN v.obj /\ members /\ others
    BY <1>5, MeansOfObject, Zenon
  <2>2. ObjectErrors(s, v, at, nested) =
            RequiredErrors(s, v.obj, at) \cup PropertyErrors(s, v.obj, at, nested) \cup refused
    BY <1>5, Zenon DEF ObjectErrors
  <2>3. RequiredErrors(s, v.obj, at) = {} <=> Required(s) \subseteq DOMAIN v.obj
    BY DEF RequiredErrors
  <2>4. \A k \in DOMAIN v.obj : Append(at, k) \in Locations
    BY <1>5, OneForm DEF Locations
  <2>5. PropertyErrors(s, v.obj, at, nested) = {} <=> members
    BY <1>5, <2>4 DEF PropertyErrors, Agree
  <2>6. refused = {} <=> others
    <3>1. CASE ~Has(s, "additionalProperties")
      <4>1. Has(extra, "allowed") /\ extra.allowed
        BY <3>1 DEF Get, Has
      <4> QED BY <3>1, <4>1
    <3>2. CASE Has(s, "additionalProperties")
      <4>1. extra = s.additionalProperties
        BY <3>2 DEF Get
      <4> HIDE DEF extra
      <4>2. CASE Has(extra, "allowed")
        BY <3>2, <4>1, <4>2
      <4>3. CASE ~Has(extra, "allowed")
        <5>1. \A k \in Outside(s, v.obj) : Check(extra, v.obj[k], Append(at, k), nested) = {} <=> inside[extra][v.obj[k]]
          BY <1>5, <2>4, <3>2, <4>1, <4>3 DEF Agree, Outside
        <5> QED BY <3>2, <4>1, <4>3, <5>1
      <4> QED BY <4>2, <4>3
    <3> QED BY <3>1, <3>2
  <2> HIDE DEF members, others, refused
  <2> QED BY <2>1, <2>2, <2>3, <2>5, <2>6
<1> QED BY <1>4, <1>5

\* A schema of an array.
LEMMA ArrayVerdict ==
    ASSUME NEW s \in Schemas, Kind(s) = "array", NEW v, JsonValue(v), NEW at \in Locations,
           NEW nested, NEW inside, ~(Is(v, "null") /\ Flag(s, "nullable")),
           (Is(v, "arr") /\ Has(s, "items")) => \A i \in DOMAIN v.arr : Agree(s.items, v.arr[i], nested, inside)
    PROVE  ArrayErrors(s, v, at, nested) = {} <=> Means(s, v, inside)
<1>1. /\ Has(s, "type") /\ s.type = "array"
      /\ ~Has(s, "enum") /\ ~Has(s, "allOf") /\ ~Has(s, "anyOf") /\ ~Has(s, "oneOf") /\ ~Has(s, "not")
  BY KindKeywords DEF Types, TypeKeywords, Annotations, Has
<1>2. IsA(v, "array") <=> Is(v, "arr")
  BY DEF IsA
<1>3. MeansScalar(s, v) <=> Is(v, "arr")
  BY <1>1, <1>2, OneForm DEF MeansScalar
<1>4. CASE ~Is(v, "arr")
  <2>1. ArrayErrors(s, v, at, nested) # {}
    BY <1>4, Zenon DEF ArrayErrors
  <2> QED BY <1>3, <1>4, <2>1, Zenon DEF Means
<1>5. CASE Is(v, "arr")
  <2> DEFINE members == Has(s, "items") => \A i \in DOMAIN v.arr : inside[s.items][v.arr[i]]
             items == UNION {Check(s.items, v.arr[i], Append(at, "[]"), nested) :
                                 i \in {j \in DOMAIN v.arr : Has(s, "items")}}
             least == Len(v.arr) >= Get(s, "minItems", 0)
             most == Has(s, "maxItems") => Len(v.arr) <= s.maxItems
             unique == Flag(s, "uniqueItems") => NoRepeats(v.arr)
  <2>1. Means(s, v, inside) <=> least /\ most /\ unique /\ members
    BY <1>5, MeansOfArray, Zenon
  <2>2. ArrayErrors(s, v, at, nested) =
            Unless(least, at, "minItems") \cup Unless(most, at, "maxItems") \cup items
            \cup Unless(unique, at, "uniqueItems")
    BY <1>5, Zenon DEF ArrayErrors
  <2>3. Append(at, "[]") \in Locations
    <3>1. \A k \in STRING : Append(at, k) \in Locations
      BY DEF Locations
    <3>2. "[]" \in STRING
      BY LiteralAssumption, Zenon
    <3> QED BY <3>1, <3>2, Zenon
  <2>4. items = {} <=> members
    BY <1>5, <2>3 DEF Agree
  <2> HIDE DEF members, items, least, most, unique
  <2> QED BY <2>1, <2>2, <2>4, UnlessIsEmpty
<1> QED BY <1>4, <1>5

\* A place of one name.
LEMMA PlaceOfOne == \A k \in STRING : <<k>> \in Locations
<1>1. \A S : \A k \in S : <<k>> \in Seq(S)
  OBVIOUS
<1> QED BY <1>1, Zenon DEF Locations

\* The branches that match are those the value should conform to.
LEMMA MatchingIsMeaning ==
    ASSUME NEW schemas, NEW v, NEW nested, NEW inside,
           \A i \in DOMAIN schemas : (\E r : Resolved(schemas[i]) = {r}) /\ Agree(schemas[i], v, nested, inside)
    PROVE  Matching(schemas, v, nested) = {i \in DOMAIN schemas : inside[schemas[i]][v]}
<1> DEFINE somewhere == <<"_">>
<1>1. somewhere \in Locations
  BY PlaceOfOne, LiteralAssumption, Zenon
<1> HIDE DEF somewhere
<1>2. ASSUME NEW i \in DOMAIN schemas
      PROVE  (\E r \in Resolved(schemas[i]) : nested[r][v][somewhere] = {}) <=> inside[schemas[i]][v]
  <2>1. PICK r : Resolved(schemas[i]) = {r}
    OBVIOUS
  <2>2. Check(schemas[i], v, somewhere, nested) = nested[r][v][somewhere]
    BY <2>1 DEF Check
  <2> QED BY <1>1, <2>1, <2>2 DEF Agree
<1>3. Matching(schemas, v, nested) =
          {i \in DOMAIN schemas : \E r \in Resolved(schemas[i]) : nested[r][v][somewhere] = {}}
  BY Zenon DEF Matching, Accepts, somewhere
<1> QED BY <1>2, <1>3

\* What a schema of one composition means.
LEMMA MeansComposition ==
    ASSUME NEW s, Kind(s) \in Compositions, NEW v, JsonValue(v), NEW inside,
           ~(Is(v, "null") /\ Flag(s, "nullable"))
    PROVE  /\ Kind(s) = "allOf" => (Means(s, v, inside) <=> \A i \in DOMAIN s.allOf : inside[s.allOf[i]][v])
           /\ Kind(s) = "anyOf" => (Means(s, v, inside) <=> \E i \in DOMAIN s.anyOf : inside[s.anyOf[i]][v])
           /\ Kind(s) = "oneOf" => (Means(s, v, inside) <=>
                                        Cardinality({i \in DOMAIN s.oneOf : inside[s.oneOf[i]][v]}) = 1)
           /\ Kind(s) = "not" => (Means(s, v, inside) <=> ~inside[s.not][v])
<1>1. \A k : Has(s, k) => k \in Annotations \cup {Kind(s)}
  BY KindKeywords DEF Has
<1>2. Has(s, Kind(s))
  BY KindKeywords DEF Has
<1>3. /\ ~Has(s, "type") /\ ~Has(s, "enum") /\ ~Has(s, "pattern") /\ ~Has(s, "format")
      /\ ~Has(s, "minLength") /\ ~Has(s, "maxLength") /\ ~Has(s, "minimum") /\ ~Has(s, "maximum")
      /\ ~Has(s, "multipleOf") /\ ~Has(s, "properties") /\ ~Has(s, "required")
      /\ ~Has(s, "additionalProperties") /\ ~Has(s, "minProperties") /\ ~Has(s, "maxProperties")
      /\ ~Has(s, "items") /\ ~Has(s, "minItems") /\ ~Has(s, "maxItems") /\ ~Has(s, "uniqueItems")
  BY <1>1 DEF Annotations, Compositions
<1>4. /\ Has(s, "allOf") <=> Kind(s) = "allOf"
      /\ Has(s, "anyOf") <=> Kind(s) = "anyOf"
      /\ Has(s, "oneOf") <=> Kind(s) = "oneOf"
      /\ Has(s, "not") <=> Kind(s) = "not"
  BY <1>1, <1>2 DEF Annotations, Compositions
<1>5. MeansScalar(s, v)
  <2>1. Kind(s) # "integer"
    BY DEF Compositions
  <2> QED BY <1>3, <2>1, Zenon DEF MeansScalar, InBounds
<1>6. Is(v, "obj") =>
            /\ Required(s) \subseteq DOMAIN v.obj
            /\ DOMAIN v.obj \cap DOMAIN Properties(s) = {}
            /\ Cardinality(DOMAIN v.obj) >= Get(s, "minProperties", 0)
  BY <1>3, OneForm, FS_CardinalityType DEF Required, Properties, Get
<1>7. Is(v, "arr") => Len(v.arr) >= Get(s, "minItems", 0) /\ ~Flag(s, "uniqueItems")
  BY <1>3, OneForm DEF Get, Flag
<1>8. Means(s, v, inside) <=>
          /\ Has(s, "allOf") => \A i \in DOMAIN s.allOf : inside[s.allOf[i]][v]
          /\ Has(s, "anyOf") => \E i \in DOMAIN s.anyOf : inside[s.anyOf[i]][v]
          /\ Has(s, "oneOf") => Cardinality({i \in DOMAIN s.oneOf : inside[s.oneOf[i]][v]}) = 1
          /\ Has(s, "not") => ~inside[s.not][v]
  <2>1. Is(v, "obj") => \A k \in DOMAIN v.obj \cap DOMAIN Properties(s) : inside[s.properties[k]][v.obj[k]]
    BY <1>6
  <2> QED BY <1>3, <1>5, <1>6, <1>7, <2>1, Zenon DEF Means
<1> DEFINE all == \A i \in DOMAIN s.allOf : inside[s.allOf[i]][v]
           some == \E i \in DOMAIN s.anyOf : inside[s.anyOf[i]][v]
           one == Cardinality({i \in DOMAIN s.oneOf : inside[s.oneOf[i]][v]}) = 1
           none == ~inside[s.not][v]
<1> HIDE DEF all, some, one, none
<1>9. Means(s, v, inside) <=>
          /\ Has(s, "allOf") => all
          /\ Has(s, "anyOf") => some
          /\ Has(s, "oneOf") => one
          /\ Has(s, "not") => none
  BY <1>8, Zenon DEF all, some, one, none
<1>10. /\ Kind(s) = "allOf" => (Means(s, v, inside) <=> all)
       /\ Kind(s) = "anyOf" => (Means(s, v, inside) <=> some)
       /\ Kind(s) = "oneOf" => (Means(s, v, inside) <=> one)
       /\ Kind(s) = "not" => (Means(s, v, inside) <=> none)
  BY <1>4, <1>9
<1> QED BY <1>10, Zenon DEF all, some, one, none

\* A schema that is one composition and nothing else.
LEMMA OneOfVerdict ==
    ASSUME NEW s, Kind(s) = "oneOf", NEW v, JsonValue(v), NEW at,
           NEW nested, NEW inside, ~(Is(v, "null") /\ Flag(s, "nullable")), ~Has(s, "discriminator"),
           \A i \in DOMAIN s.oneOf : (\E r : Resolved(s.oneOf[i]) = {r}) /\ Agree(s.oneOf[i], v, nested, inside)
    PROVE  OneOfErrors(s, v, at, nested) = {} <=> Means(s, v, inside)
<1>1. Means(s, v, inside) <=> Cardinality({i \in DOMAIN s.oneOf : inside[s.oneOf[i]][v]}) = 1
  <2>1. Kind(s) \in Compositions
    BY DEF Compositions
  <2> QED BY <2>1, MeansComposition
<1>2. Discriminated(s, v) = {}
  BY Zenon DEF Discriminated
<1>3. OneOfErrors(s, v, at, nested) = Unless(Cardinality(Matching(s.oneOf, v, nested)) = 1, at, "oneOf")
  BY <1>2, Zenon DEF OneOfErrors
<1> QED BY <1>1, <1>3, MatchingIsMeaning, UnlessIsEmpty

LEMMA AnyOfVerdict ==
    ASSUME NEW s, Kind(s) = "anyOf", NEW v, JsonValue(v), NEW at,
           NEW nested, NEW inside, ~(Is(v, "null") /\ Flag(s, "nullable")),
           \A i \in DOMAIN s.anyOf : (\E r : Resolved(s.anyOf[i]) = {r}) /\ Agree(s.anyOf[i], v, nested, inside)
    PROVE  AnyOfErrors(s, v, at, nested) = {} <=> Means(s, v, inside)
<1>1. Means(s, v, inside) <=> \E i \in DOMAIN s.anyOf : inside[s.anyOf[i]][v]
  <2>1. Kind(s) \in Compositions
    BY DEF Compositions
  <2> QED BY <2>1, MeansComposition, Zenon
<1>2. AnyOfErrors(s, v, at, nested) = {} <=> Matching(s.anyOf, v, nested) # {}
  BY UnlessIsEmpty DEF AnyOfErrors
<1>3. Matching(s.anyOf, v, nested) = {i \in DOMAIN s.anyOf : inside[s.anyOf[i]][v]}
  BY MatchingIsMeaning
<1> QED BY <1>1, <1>2, <1>3

\* No refusal of an additional property.
NoRefusal(errs) == \A e \in errs : e.code # "additionalProperties"

LEMMA AllOfVerdict ==
    ASSUME NEW s, Kind(s) = "allOf", NEW v, JsonValue(v), NEW at \in Locations,
           NEW nested, NEW inside, ~(Is(v, "null") /\ Flag(s, "nullable")),
           \A i \in DOMAIN s.allOf : Agree(s.allOf[i], v, nested, inside)
                                     /\ NoRefusal(Check(s.allOf[i], v, at, nested))
    PROVE  AllOfErrors(s, v, at, nested) = {} <=> Means(s, v, inside)
<1>1. Means(s, v, inside) <=> \A i \in DOMAIN s.allOf : inside[s.allOf[i]][v]
  <2>1. Kind(s) \in Compositions
    BY DEF Compositions
  <2> QED BY <2>1, MeansComposition, Zenon
<1> DEFINE suppressed(r, e) == /\ Kind(r) \in {"object", "any"}
                               /\ e.code = "additionalProperties"
                               /\ e.at[Len(e.at)] \in DeclaredBy(s.allOf)
           branch(r) == {e \in nested[r][v][at] : ~suppressed(r, e)}
<1>2. AllOfErrors(s, v, at, nested) = UNION {UNION {branch(r) : r \in Resolved(s.allOf[i])} : i \in DOMAIN s.allOf}
  BY Zenon DEF AllOfErrors
<1>3. ASSUME NEW i \in DOMAIN s.allOf, NEW r \in Resolved(s.allOf[i]) PROVE branch(r) = nested[r][v][at]
  BY <1>3 DEF NoRefusal, Check
<1>4. \A i \in DOMAIN s.allOf : (UNION {branch(r) : r \in Resolved(s.allOf[i])}) = Check(s.allOf[i], v, at, nested)
  BY <1>3 DEF Check
<1> HIDE DEF branch
<1>5. AllOfErrors(s, v, at, nested) = UNION {Check(s.allOf[i], v, at, nested) : i \in DOMAIN s.allOf}
  BY <1>2, <1>4
<1>6. \A i \in DOMAIN s.allOf : Check(s.allOf[i], v, at, nested) = {} <=> inside[s.allOf[i]][v]
  BY DEF Agree
<1> QED BY <1>1, <1>5, <1>6

\* A schema that is refused.
LEMMA NotMeans ==
    ASSUME NEW s, NEW v, NEW at, NEW nested, NEW inside,
           \E r : Resolved(s.not) = {r}, Agree(s.not, v, nested, inside)
    PROVE  NotErrors(s, v, at, nested) = {} <=> ~inside[s.not][v]
<1> DEFINE somewhere == <<"_">>
<1>1. somewhere \in Locations
  BY PlaceOfOne, LiteralAssumption, Zenon
<1>2. PICK r : Resolved(s.not) = {r}
  OBVIOUS
<1>3. NotErrors(s, v, at, nested) = Unless(\A x \in Resolved(s.not) : nested[x][v][somewhere] # {}, at, "not")
  BY Zenon DEF NotErrors, Accepts
<1> HIDE DEF somewhere
<1>4. Check(s.not, v, somewhere, nested) = nested[r][v][somewhere]
  BY <1>2 DEF Check
<1> QED BY <1>1, <1>2, <1>3, <1>4, UnlessIsEmpty DEF Agree

LEMMA NotVerdict ==
    ASSUME NEW s, Kind(s) = "not", NEW v, JsonValue(v), NEW at,
           NEW nested, NEW inside, ~(Is(v, "null") /\ Flag(s, "nullable")),
           \E r : Resolved(s.not) = {r}, Agree(s.not, v, nested, inside)
    PROVE  NotErrors(s, v, at, nested) = {} <=> Means(s, v, inside)
<1>1. Means(s, v, inside) <=> ~inside[s.not][v]
  <2>1. Kind(s) \in Compositions
    BY DEF Compositions
  <2> QED BY <2>1, MeansComposition, Zenon
<1> QED BY <1>1, NotMeans

\* A schema of a single value.
LEMMA ScalarVerdict ==
    ASSUME NEW s \in Schemas, Kind(s) \in ScalarKinds, NEW v, JsonValue(v), NEW at, NEW inside,
           ~(Is(v, "null") /\ Flag(s, "nullable")),
           (Kind(s) = "integer" /\ Has(s, "enum")) => \A e \in s.enum : ~Is(e, "float"), Sharp(s, v)
    PROVE  ScalarErrors(s, v, at) = {} <=> Means(s, v, inside)
<1>1. Means(s, v, inside) <=> MeansScalar(s, v)
  BY MeansOfScalar
<1>2. (Kind(s) = "integer" /\ Has(s, "enum")) => \A e \in s.enum : JsonValue(e) /\ ~Is(e, "float")
  BY ParserAssumption
<1>3. ScalarErrors(s, v, at) = {} <=> MeansScalar(s, v)
  BY <1>2, ScalarVerdictIsTheMeaning
<1> QED BY <1>1, <1>3

\* A schema of no kind in particular, with the keywords that are looked at there.
LEMMA AnyVerdict ==
    ASSUME NEW s \in Schemas, Kind(s) = "any", NEW v, JsonValue(v), NEW at \in Locations,
           NEW nested, NEW inside, ~(Is(v, "null") /\ Flag(s, "nullable")),
           DOMAIN s \ Annotations \subseteq {"type", "pattern", "format", "properties", "required"},
           Is(v, "obj") =>
               \A k \in DOMAIN Properties(s) \cap DOMAIN v.obj : Agree(s.properties[k], v.obj[k], nested, inside)
    PROVE  AnyErrors(s, v, at, nested) = {} <=> Means(s, v, inside)
<1> DEFINE typed == Has(s, "type") => IsA(v, s.type)
           shaped == (Is(v, "str") /\ Has(s, "pattern")) => MatchesPattern(v.str, s.pattern)
           formed == (Is(v, "str") /\ Has(s, "format")) => MatchesFormat(v.str, s.format)
           complete == Is(v, "obj") => Required(s) \subseteq DOMAIN v.obj
           members == Is(v, "obj") =>
                          \A k \in DOMAIN v.obj \cap DOMAIN Properties(s) : inside[s.properties[k]][v.obj[k]]
<1>1. /\ ~Has(s, "enum") /\ ~Has(s, "minLength") /\ ~Has(s, "maxLength") /\ ~Has(s, "minimum") /\ ~Has(s, "maximum")
      /\ ~Has(s, "multipleOf") /\ ~Has(s, "additionalProperties") /\ ~Has(s, "minProperties")
      /\ ~Has(s, "maxProperties") /\ ~Has(s, "items") /\ ~Has(s, "minItems") /\ ~Has(s, "maxItems")
      /\ ~Has(s, "uniqueItems") /\ ~Has(s, "allOf") /\ ~Has(s, "anyOf") /\ ~Has(s, "oneOf") /\ ~Has(s, "not")
  BY DEF Annotations, Has
<1>2. MeansScalar(s, v) <=> typed /\ shaped /\ formed
  <2>1. InBounds(s, Tenths(v))
    BY <1>1, Zenon DEF InBounds
  <2>2. Kind(s) # "integer"
    OBVIOUS
  <2> QED BY <1>1, <2>1, <2>2, Zenon DEF MeansScalar
<1>3. Is(v, "arr") => Len(v.arr) >= Get(s, "minItems", 0) /\ ~Flag(s, "uniqueItems")
  BY <1>1, OneForm DEF Get, Flag
<1>4. Is(v, "obj") => Cardinality(DOMAIN v.obj) >= Get(s, "minProperties", 0)
  BY <1>1, OneForm, FS_CardinalityType DEF Get
<1>5. Means(s, v, inside) <=> typed /\ shaped /\ formed /\ complete /\ members
  BY <1>1, <1>2, <1>3, <1>4, Zenon DEF Means
<1>6. CASE ~typed
  <2>1. AnyErrors(s, v, at, nested) = {Err(at, "type")}
    BY <1>6, Zenon DEF AnyErrors
  <2> QED BY <1>5, <1>6, <2>1
<1>7. CASE typed
  <2> DEFINE parts == IF Is(v, "obj") THEN RequiredErrors(s, v.obj, at) \cup PropertyErrors(s, v.obj, at, nested) ELSE {}
  <2>1. AnyErrors(s, v, at, nested) =
            Unless(Has(s, "enum") => v \in s.enum, at, "enum")
            \cup Unless(shaped, at, "pattern") \cup Unless(formed, at, "format") \cup {} \cup parts
    <3> DEFINE refused == IF Has(s, "not") THEN NotErrors(s, v, at, nested) ELSE {}
    <3>1. refused = {}
      BY <1>1, Zenon
    <3>2. AnyErrors(s, v, at, nested) =
              Unless(Has(s, "enum") => v \in s.enum, at, "enum")
              \cup Unless(shaped, at, "pattern") \cup Unless(formed, at, "format") \cup refused \cup parts
      BY <1>7, Zenon DEF AnyErrors
    <3> HIDE DEF refused, shaped, formed, parts
    <3> QED BY <3>1, <3>2
  <2>2. Unless(Has(s, "enum") => v \in s.enum, at, "enum") = {}
    BY <1>1, UnlessIsEmpty
  <2>3. parts = {} <=> complete /\ members
    <3>1. CASE ~Is(v, "obj")
      BY <3>1
    <3>2. CASE Is(v, "obj")
      <4>1. \A k \in DOMAIN v.obj : Append(at, k) \in Locations
        BY <3>2, OneForm DEF Locations
      <4>2. PropertyErrors(s, v.obj, at, nested) = {} <=> members
        BY <3>2, <4>1 DEF PropertyErrors, Agree
      <4>3. RequiredErrors(s, v.obj, at) = {} <=> complete
        BY <3>2 DEF RequiredErrors
      <4> QED BY <3>2, <4>2, <4>3
    <3> QED BY <3>1, <3>2
  <2>4. Unless(shaped, at, "pattern") = {} <=> shaped
    BY UnlessIsEmpty, Zenon
  <2>5. Unless(formed, at, "format") = {} <=> formed
    BY UnlessIsEmpty, Zenon
  <2> HIDE DEF typed, shaped, formed, complete, members, parts
  <2> QED BY <1>5, <1>7, <2>1, <2>2, <2>3, <2>4, <2>5
<1> QED BY <1>6, <1>7

\* What a schema is held to, kind by kind.
Sub(c, within, below) == Resolved(c) # {} /\ \A r \in Resolved(c) : below[r][within]

LEMMA EnforcedByKind ==
    ASSUME NEW s, NEW within, NEW values, NEW below, EnforcedIn(s, within, values, below)
    PROVE  /\ ~Has(s, "discriminator")
           /\ within => ~Has(s, "additionalProperties")
           /\ Kind(s) \in ScalarKinds =>
                  /\ ((Kind(s) = "integer" /\ Has(s, "enum")) => \A v \in s.enum : ~Is(v, "float"))
                  /\ \A v \in values : Sharp(s, v)
           /\ Kind(s) = "array" => (Has(s, "items") => Sub(s.items, within, below))
           /\ Kind(s) = "object" =>
                  /\ ~Has(s, "minProperties") /\ ~Has(s, "maxProperties")
                  /\ \A k \in DOMAIN Properties(s) : Sub(s.properties[k], within, below)
                  /\ Has(s, "additionalProperties") =>
                         (Has(s.additionalProperties, "allowed") \/ Sub(s.additionalProperties, within, below))
           /\ Kind(s) = "oneOf" => \A i \in DOMAIN s.oneOf : Sub(s.oneOf[i], FALSE, below)
           /\ Kind(s) = "anyOf" => \A i \in DOMAIN s.anyOf : Sub(s.anyOf[i], FALSE, below)
           /\ Kind(s) = "allOf" => \A i \in DOMAIN s.allOf : Sub(s.allOf[i], TRUE, below)
           /\ Kind(s) = "not" => Sub(s.not, FALSE, below)
           /\ Kind(s) = "any" =>
                  /\ DOMAIN s \ Annotations \subseteq {"type", "pattern", "format", "properties", "required"}
                  /\ \A k \in DOMAIN Properties(s) : Sub(s.properties[k], within, below)
<1>1. ~Has(s, "discriminator") /\ (within => ~Has(s, "additionalProperties"))
  BY Zenon DEF EnforcedIn
<1>2. "array" \notin ScalarKinds /\ "object" \notin ScalarKinds /\ "oneOf" \notin ScalarKinds /\ "anyOf" \notin ScalarKinds
      /\ "allOf" \notin ScalarKinds /\ "not" \notin ScalarKinds /\ "any" \notin ScalarKinds
  BY DEF ScalarKinds
<1>3. CASE Kind(s) \in ScalarKinds
  BY <1>1, <1>2, <1>3, Zenon DEF EnforcedIn
<1>4. CASE Kind(s) = "array"
  BY <1>1, <1>2, <1>4, Zenon DEF EnforcedIn, Sub
<1>5. CASE Kind(s) = "object"
  BY <1>1, <1>2, <1>5, Zenon DEF EnforcedIn, Sub
<1>6. CASE Kind(s) = "oneOf"
  BY <1>1, <1>2, <1>6, Zenon DEF EnforcedIn, Sub
<1>7. CASE Kind(s) = "anyOf"
  BY <1>1, <1>2, <1>7, Zenon DEF EnforcedIn, Sub
<1>8. CASE Kind(s) = "allOf"
  BY <1>1, <1>2, <1>8, Zenon DEF EnforcedIn, Sub
<1>9. CASE Kind(s) = "not"
  BY <1>1, <1>2, <1>9, Zenon DEF EnforcedIn, Sub
<1>10. CASE Kind(s) = "any"
  BY <1>1, <1>2, <1>10, Zenon DEF EnforcedIn, Sub
<1>11. Kind(s) \in ScalarKinds \cup {"array", "object", "oneOf", "anyOf", "allOf", "not", "any"}
  BY KindKeywords DEF Types, Compositions, ScalarKinds
<1> QED BY <1>3, <1>4, <1>5, <1>6, <1>7, <1>8, <1>9, <1>10, <1>11, Zenon

\* What a schema passes on, kind by kind.
LEMMA CallsByKind ==
    ASSUME NEW s, NEW v, ~(Is(v, "null") /\ Flag(s, "nullable")), ~Has(s, "discriminator")
    PROVE  /\ Kind(s) = "array" /\ Is(v, "arr") /\ Has(s, "items") =>
                  \A i \in DOMAIN v.arr : \A r \in Resolved(s.items) : <<r, v.arr[i]>> \in Calls(s, v)
           /\ (Kind(s) = "object" \/ (Kind(s) = "any" /\ (Has(s, "type") => IsA(v, s.type)))) /\ Is(v, "obj") =>
                  \A k \in DOMAIN Properties(s) \cap DOMAIN v.obj :
                      \A r \in Resolved(s.properties[k]) : <<r, v.obj[k]>> \in Calls(s, v)
           /\ Kind(s) = "object" /\ Is(v, "obj") /\ Has(s, "additionalProperties")
                  /\ ~Has(s.additionalProperties, "allowed") =>
                  \A k \in Outside(s, v.obj) :
                      \A r \in Resolved(s.additionalProperties) : <<r, v.obj[k]>> \in Calls(s, v)
           /\ Kind(s) = "oneOf" => \A i \in DOMAIN s.oneOf : \A r \in Resolved(s.oneOf[i]) : <<r, v>> \in Calls(s, v)
           /\ Kind(s) = "anyOf" => \A i \in DOMAIN s.anyOf : \A r \in Resolved(s.anyOf[i]) : <<r, v>> \in Calls(s, v)
           /\ Kind(s) = "allOf" => \A i \in DOMAIN s.allOf : \A r \in Resolved(s.allOf[i]) : <<r, v>> \in Calls(s, v)
           /\ Kind(s) = "not" => \A r \in Resolved(s.not) : <<r, v>> \in Calls(s, v)
<1> DEFINE held(c, w) == {<<r, w>> : r \in Resolved(c)}
           branches == UNION {held(s[Kind(s)][i], v) : i \in DOMAIN s[Kind(s)]}
           properties == UNION {held(s.properties[k], v.obj[k]) : k \in DOMAIN Properties(s) \cap DOMAIN v.obj}
           extra == Get(s, "additionalProperties", [allowed |-> TRUE])
           extras == IF Has(extra, "allowed") THEN {} ELSE UNION {held(extra, v.obj[k]) : k \in Outside(s, v.obj)}
<1>1. Discriminated(s, v) = {}
  BY Zenon DEF Discriminated
<1>2. CASE Kind(s) = "array" /\ Is(v, "arr") /\ Has(s, "items")
  <2>1. Calls(s, v) = UNION {held(s.items, v.arr[i]) : i \in DOMAIN v.arr}
    BY <1>1, <1>2, Zenon DEF Calls
  <2> QED BY <1>2, <2>1
<1>3. CASE Kind(s) = "object" /\ Is(v, "obj")
  <2>1. Calls(s, v) = properties \cup extras
    BY <1>1, <1>3, Zenon DEF Calls
  <2>2. \A k \in DOMAIN Properties(s) \cap DOMAIN v.obj :
            \A r \in Resolved(s.properties[k]) : <<r, v.obj[k]>> \in properties
    OBVIOUS
  <2>3. Has(s, "additionalProperties") /\ ~Has(s.additionalProperties, "allowed") =>
            \A k \in Outside(s, v.obj) : \A r \in Resolved(s.additionalProperties) : <<r, v.obj[k]>> \in extras
    BY DEF Get
  <2> HIDE DEF properties, extras
  <2> QED BY <1>3, <2>1, <2>2, <2>3
<1>4. CASE Kind(s) = "any" /\ (Has(s, "type") => IsA(v, s.type)) /\ Is(v, "obj")
  <2>1. Calls(s, v) = (IF Has(s, "not") THEN held(s.not, v) ELSE {}) \cup (IF Is(v, "obj") THEN properties ELSE {})
    BY <1>1, <1>4, Zenon DEF Calls
  <2>2. \A k \in DOMAIN Properties(s) \cap DOMAIN v.obj :
            \A r \in Resolved(s.properties[k]) : <<r, v.obj[k]>> \in properties
    OBVIOUS
  <2> HIDE DEF properties
  <2> QED BY <1>4, <2>1, <2>2
<1>5. CASE Kind(s) \in {"oneOf", "anyOf", "allOf"}
  <2>1. Calls(s, v) = branches
    BY <1>1, <1>5, Zenon DEF Calls
  <2> QED BY <1>5, <2>1
<1>6. CASE Kind(s) = "not"
  <2>1. Calls(s, v) = held(s.not, v)
    BY <1>1, <1>6, Zenon DEF Calls
  <2> QED BY <1>6, <2>1
<1> QED BY <1>2, <1>3, <1>4, <1>5, <1>6

\* What is written below a schema.
LEMMA BelowByKind ==
    ASSUME NEW s \in Schemas
    PROVE  /\ Below(s) \subseteq Schemas
           /\ \A k \in DOMAIN Properties(s) : s.properties[k] \in Below(s)
           /\ Has(s, "items") => s.items \in Below(s)
           /\ Has(s, "not") => s.not \in Below(s)
           /\ (Has(s, "additionalProperties") /\ ~Has(s.additionalProperties, "allowed")) =>
                  s.additionalProperties \in Below(s)
           /\ Has(s, "oneOf") => \A i \in DOMAIN s.oneOf : s.oneOf[i] \in Below(s)
           /\ Has(s, "anyOf") => \A i \in DOMAIN s.anyOf : s.anyOf[i] \in Below(s)
           /\ Has(s, "allOf") => \A i \in DOMAIN s.allOf : s.allOf[i] \in Below(s)
<1>1. Below(s) \subseteq Schemas
  BY DocumentAssumption
<1>2. \A k \in DOMAIN Properties(s) : s.properties[k] \in Below(s)
  BY DEF Below
<1>3. (Has(s, "items") => s.items \in Below(s)) /\ (Has(s, "not") => s.not \in Below(s))
  BY DEF Below, Has
<1>4. (Has(s, "additionalProperties") /\ ~Has(s.additionalProperties, "allowed")) =>
          s.additionalProperties \in Below(s)
  BY DEF Below, Get
<1>5. ASSUME NEW c \in {"oneOf", "anyOf", "allOf"}, Has(s, c)
      PROVE  \A i \in DOMAIN s[c] : s[c][i] \in Below(s)
  <2>1. {s[c][i] : i \in DOMAIN s[c]} \subseteq
            UNION {{s[x][i] : i \in DOMAIN s[x]} : x \in {"oneOf", "anyOf", "allOf"} \cap DOMAIN s}
    BY <1>5 DEF Has
  <2> QED BY <2>1 DEF Below
<1> QED BY <1>1, <1>2, <1>3, <1>4, <1>5

\* What the validator passes on to is what a schema says of the value, or of what is right
\* inside it: nested and inside agree there, if below holds of it.
CalleesAgree(s, v, nested, inside, below) ==
    \A c \in Below(s), w \in {v} \cup Members(v), within \in BOOLEAN :
        (Sub(c, within, below) /\ \A r \in Resolved(c) : <<r, w>> \in Calls(s, v)) => Agree(c, w, nested, inside)

\* Inside an allOf there are no refusals of additional properties below it.
CalleesDoNotRefuse(s, v, nested, below) ==
    \A c \in Below(s), w \in {v} \cup Members(v), p \in Locations :
        Sub(c, TRUE, below) => NoRefusal(Check(c, w, p, nested))

LEMMA SubResolves == ASSUME NEW c \in Schemas, NEW within, NEW below, Sub(c, within, below)
                     PROVE  \E r : Resolved(c) = {r}
  BY ResolvedIsSchema DEF Sub

\* If they agree one level down, then they agree.
LEMMA VerdictOfOneLevel ==
    ASSUME NEW s \in Schemas, NEW v, JsonValue(v), NEW at \in Locations, NEW within \in BOOLEAN,
           NEW nested, NEW inside, NEW values, v \in values, NEW below, EnforcedIn(s, within, values, below),
           CalleesAgree(s, v, nested, inside, below), CalleesDoNotRefuse(s, v, nested, below)
    PROVE  ErrorsOf(s, v, at, nested) = {} <=> Means(s, v, inside)
<1>1. CASE Is(v, "null") /\ Flag(s, "nullable")
  <2>1. ErrorsOf(s, v, at, nested) = {}
    BY <1>1, Zenon DEF ErrorsOf
  <2>2. Means(s, v, inside)
    BY <1>1, Zenon DEF Means
  <2> QED BY <2>1, <2>2
<1>2. CASE ~(Is(v, "null") /\ Flag(s, "nullable"))
  <2> DEFINE kinds == {"array", "object", "oneOf", "anyOf", "allOf", "not", "any"}
  <2>1. Kind(s) \in ScalarKinds \cup kinds /\ \A k \in kinds : k \notin ScalarKinds
    BY KindKeywords DEF Types, Compositions, ScalarKinds
  <2>2. ~Has(s, "discriminator")
    BY EnforcedByKind
  <2>3. \A c \in Below(s), w \in {v} \cup Members(v), i \in BOOLEAN :
            (Sub(c, i, below) /\ \A r \in Resolved(c) : <<r, w>> \in Calls(s, v)) => Agree(c, w, nested, inside)
    BY Zenon DEF CalleesAgree
  <2>4. \A c \in Below(s), w \in {v} \cup Members(v) :
            Sub(c, TRUE, below) => NoRefusal(Check(c, w, at, nested))
    BY Zenon DEF CalleesDoNotRefuse
  <2>5. Is(v, "obj") => \A k \in DOMAIN v.obj : v.obj[k] \in Members(v)
    BY OneForm DEF Members, Range
  <2>6. CASE Kind(s) \in ScalarKinds
    <3>1. ErrorsOf(s, v, at, nested) = ScalarErrors(s, v, at)
      <4>1. /\ Kind(s) # "array" /\ Kind(s) # "object" /\ Kind(s) # "oneOf" /\ Kind(s) # "anyOf"
            /\ Kind(s) # "allOf" /\ Kind(s) # "not" /\ Kind(s) # "any"
        BY <2>1, <2>6
      <4> QED BY <1>2, <2>6, <4>1, Zenon DEF ErrorsOf
    <3>2. /\ (Kind(s) = "integer" /\ Has(s, "enum")) => \A e \in s.enum : ~Is(e, "float")
          /\ Sharp(s, v)
      BY <2>6, EnforcedByKind
    <3> QED BY <1>2, <2>6, <3>1, <3>2, ScalarVerdict
  <2>7. CASE Kind(s) = "array"
    <3>1. ErrorsOf(s, v, at, nested) = ArrayErrors(s, v, at, nested)
      BY <1>2, <2>1, <2>7, Zenon DEF ErrorsOf
    <3>2. ASSUME Is(v, "arr"), Has(s, "items"), NEW i \in DOMAIN v.arr
          PROVE  Agree(s.items, v.arr[i], nested, inside)
      <4>1. v.arr[i] \in Members(v)
        BY <3>2 DEF Members, Range
      <4>2. s.items \in Below(s)
        BY <3>2, BelowByKind
      <4>3. Sub(s.items, within, below)
        BY <2>7, <3>2, EnforcedByKind
      <4>4. \A r \in Resolved(s.items) : <<r, v.arr[i]>> \in Calls(s, v)
        BY <1>2, <2>2, <2>7, <3>2, CallsByKind
      <4> QED BY <2>3, <4>1, <4>2, <4>3, <4>4
    <3> QED BY <1>2, <2>7, <3>1, <3>2, ArrayVerdict
  <2>8. CASE Kind(s) = "object"
    <3>1. ErrorsOf(s, v, at, nested) = ObjectErrors(s, v, at, nested)
      BY <1>2, <2>1, <2>8, Zenon DEF ErrorsOf
    <3>2. /\ ~Has(s, "minProperties") /\ ~Has(s, "maxProperties")
          /\ \A k \in DOMAIN Properties(s) : Sub(s.properties[k], within, below)
          /\ Has(s, "additionalProperties") =>
                 (Has(s.additionalProperties, "allowed") \/ Sub(s.additionalProperties, within, below))
      BY <2>8, EnforcedByKind
    <3>3. ASSUME Is(v, "obj"), NEW k \in DOMAIN Properties(s) \cap DOMAIN v.obj
          PROVE  Agree(s.properties[k], v.obj[k], nested, inside)
      <4>1. s.properties[k] \in Below(s)
        BY BelowByKind
      <4>2. \A r \in Resolved(s.properties[k]) : <<r, v.obj[k]>> \in Calls(s, v)
        BY <1>2, <2>2, <2>8, <3>3, CallsByKind
      <4> QED BY <2>3, <2>5, <3>2, <3>3, <4>1, <4>2
    <3>4. ASSUME Is(v, "obj"), Has(s, "additionalProperties"), ~Has(s.additionalProperties, "allowed"),
                 NEW k \in Outside(s, v.obj)
          PROVE  Agree(s.additionalProperties, v.obj[k], nested, inside)
      <4>1. s.additionalProperties \in Below(s)
        BY <3>4, BelowByKind
      <4>2. \A r \in Resolved(s.additionalProperties) : <<r, v.obj[k]>> \in Calls(s, v)
        BY <1>2, <2>2, <2>8, <3>4, CallsByKind
      <4>3. v.obj[k] \in Members(v)
        BY <2>5, <3>4 DEF Outside
      <4> QED BY <2>3, <3>2, <3>4, <4>1, <4>2, <4>3
    <3> QED BY <1>2, <2>8, <3>1, <3>2, <3>3, <3>4, ObjectVerdict
  <2>9. CASE Kind(s) = "oneOf"
    <3>1. ErrorsOf(s, v, at, nested) = OneOfErrors(s, v, at, nested)
      BY <1>2, <2>1, <2>9, Zenon DEF ErrorsOf
    <3>2. ASSUME NEW i \in DOMAIN s.oneOf
          PROVE  (\E r : Resolved(s.oneOf[i]) = {r}) /\ Agree(s.oneOf[i], v, nested, inside)
      <4>1. s.oneOf[i] \in Below(s) /\ s.oneOf[i] \in Schemas
        BY <2>9, KindKeywords, BelowByKind DEF Compositions, Has
      <4>2. Sub(s.oneOf[i], FALSE, below)
        BY <2>9, EnforcedByKind, Zenon
      <4>3. \A r \in Resolved(s.oneOf[i]) : <<r, v>> \in Calls(s, v)
        BY <1>2, <2>2, <2>9, CallsByKind
      <4> QED BY <2>3, <4>1, <4>2, <4>3, SubResolves
    <3> QED BY <1>2, <2>2, <2>9, <3>1, <3>2, OneOfVerdict
  <2>10. CASE Kind(s) = "anyOf"
    <3>1. ErrorsOf(s, v, at, nested) = AnyOfErrors(s, v, at, nested)
      BY <1>2, <2>1, <2>10, Zenon DEF ErrorsOf
    <3>2. ASSUME NEW i \in DOMAIN s.anyOf
          PROVE  (\E r : Resolved(s.anyOf[i]) = {r}) /\ Agree(s.anyOf[i], v, nested, inside)
      <4>1. s.anyOf[i] \in Below(s) /\ s.anyOf[i] \in Schemas
        BY <2>10, KindKeywords, BelowByKind DEF Compositions, Has
      <4>2. Sub(s.anyOf[i], FALSE, below)
        BY <2>10, EnforcedByKind, Zenon
      <4>3. \A r \in Resolved(s.anyOf[i]) : <<r, v>> \in Calls(s, v)
        BY <1>2, <2>2, <2>10, CallsByKind
      <4> QED BY <2>3, <4>1, <4>2, <4>3, SubResolves
    <3> QED BY <1>2, <2>10, <3>1, <3>2, AnyOfVerdict
  <2>11. CASE Kind(s) = "allOf"
    <3>1. ErrorsOf(s, v, at, nested) = AllOfErrors(s, v, at, nested)
      BY <1>2, <2>1, <2>11, Zenon DEF ErrorsOf
    <3>2. ASSUME NEW i \in DOMAIN s.allOf
          PROVE  Agree(s.allOf[i], v, nested, inside) /\ NoRefusal(Check(s.allOf[i], v, at, nested))
      <4>1. s.allOf[i] \in Below(s)
        BY <2>11, KindKeywords, BelowByKind DEF Compositions, Has
      <4>2. Sub(s.allOf[i], TRUE, below)
        BY <2>11, EnforcedByKind, Zenon
      <4>3. \A r \in Resolved(s.allOf[i]) : <<r, v>> \in Calls(s, v)
        BY <1>2, <2>2, <2>11, CallsByKind
      <4>4. Agree(s.allOf[i], v, nested, inside)
        BY <2>3, <4>1, <4>2, <4>3
      <4> QED BY <2>4, <4>1, <4>2, <4>4
    <3> QED BY <1>2, <2>11, <3>1, <3>2, AllOfVerdict
  <2>12. CASE Kind(s) = "not"
    <3>1. ErrorsOf(s, v, at, nested) = NotErrors(s, v, at, nested)
      BY <1>2, <2>1, <2>12, Zenon DEF ErrorsOf
    <3>2. s.not \in Below(s) /\ s.not \in Schemas
      BY <2>12, KindKeywords, BelowByKind DEF Compositions, Has
    <3>3. Sub(s.not, FALSE, below)
      BY <2>12, EnforcedByKind, Zenon
    <3>4. \A r \in Resolved(s.not) : <<r, v>> \in Calls(s, v)
      BY <1>2, <2>2, <2>12, CallsByKind
    <3>5. (\E r : Resolved(s.not) = {r}) /\ Agree(s.not, v, nested, inside)
      BY <2>3, <3>2, <3>3, <3>4, SubResolves
    <3> QED BY <1>2, <2>12, <3>1, <3>5, NotVerdict
  <2>13. CASE Kind(s) = "any"
    <3>1. ErrorsOf(s, v, at, nested) = AnyErrors(s, v, at, nested)
      BY <1>2, <2>1, <2>13, Zenon DEF ErrorsOf
    <3>2. /\ DOMAIN s \ Annotations \subseteq {"type", "pattern", "format", "properties", "required"}
          /\ \A k \in DOMAIN Properties(s) : Sub(s.properties[k], within, below)
      BY <2>13, EnforcedByKind
    <3>3. CASE Has(s, "type") => IsA(v, s.type)
      <4>1. ASSUME Is(v, "obj"), NEW k \in DOMAIN Properties(s) \cap DOMAIN v.obj
            PROVE  Agree(s.properties[k], v.obj[k], nested, inside)
        <5>1. s.properties[k] \in Below(s)
          BY BelowByKind
        <5>2. \A r \in Resolved(s.properties[k]) : <<r, v.obj[k]>> \in Calls(s, v)
          BY <1>2, <2>2, <2>13, <3>3, <4>1, CallsByKind
        <5> QED BY <2>3, <2>5, <3>2, <4>1, <5>1, <5>2
      <4> QED BY <1>2, <2>13, <3>1, <3>2, <4>1, AnyVerdict
    <3>4. CASE Has(s, "type") /\ ~IsA(v, s.type)
      <4>1. ErrorsOf(s, v, at, nested) # {}
        BY <3>1, <3>4, Zenon DEF AnyErrors
      <4>2. ~Means(s, v, inside)
        BY <1>2, <3>4, Zenon DEF Means, MeansScalar
      <4> QED BY <4>1, <4>2
    <3> QED BY <3>3, <3>4
  <2> QED BY <2>1, <2>6, <2>7, <2>8, <2>9, <2>10, <2>11, <2>12, <2>13
<1> QED BY <1>1, <1>2

\* What is no refusal of an additional property.
LEMMA NoRefusals ==
    /\ \A a, b : NoRefusal(a) /\ NoRefusal(b) => NoRefusal(a \cup b)
    /\ \A ok, at, code : code # "additionalProperties" => NoRefusal(Unless(ok, at, code))
    /\ \A at, code : code # "additionalProperties" => NoRefusal({Err(at, code)})
    /\ NoRefusal({})
  BY DEF NoRefusal, Unless, Err

LEMMA ScalarsDoNotRefuse ==
    ASSUME NEW s, NEW v, NEW at, Kind(s) \in ScalarKinds PROVE NoRefusal(ScalarErrors(s, v, at))
<1>1. ASSUME NEW h, NEW z PROVE NoRefusal(BoundErrors(s, h, at) \cup Unless(z, at, "multipleOf"))
  <2>1. PICK x, y : \E a \in {"exclusiveMinimum", "minimum"}, b \in {"exclusiveMaximum", "maximum"} :
            BoundErrors(s, h, at) = Unless(x, at, a) \cup Unless(y, at, b)
    BY DEF BoundErrors
  <2>2. \A e \in BoundErrors(s, h, at) \cup Unless(z, at, "multipleOf") :
            e.code \in {"exclusiveMinimum", "minimum", "exclusiveMaximum", "maximum", "multipleOf"}
    BY <2>1 DEF Unless, Err
  <2> QED BY <2>2 DEF NoRefusal
<1>2. \E x, y, p, q : StringErrors(s, v, at) \in
          {{Err(at, "type")}, {Err(at, "enum")},
           Unless(x, at, "minLength") \cup Unless(y, at, "maxLength")
           \cup Unless(p, at, "pattern") \cup Unless(q, at, "format")}
  BY Zenon DEF StringErrors
<1>3. NoRefusal(StringErrors(s, v, at))
  BY <1>2, NoRefusals
<1>4. NoRefusal(IntegerErrors(s, v, at)) /\ NoRefusal(NumberErrors(s, v, at)) /\ NoRefusal(BooleanErrors(s, v, at))
  BY <1>1, NoRefusals DEF IntegerErrors, NumberErrors, BooleanErrors
<1>5. ScalarErrors(s, v, at) \in {StringErrors(s, v, at), IntegerErrors(s, v, at), NumberErrors(s, v, at), BooleanErrors(s, v, at)}
  BY Zenon DEF ScalarErrors, ScalarKinds
<1> QED BY <1>3, <1>4, <1>5

LEMMA NoRefusalOfOneLevel ==
    ASSUME NEW s \in Schemas, NEW v, JsonValue(v), NEW at \in Locations,
           NEW nested, NEW values, NEW below, EnforcedIn(s, TRUE, values, below), CalleesDoNotRefuse(s, v, nested, below)
    PROVE  NoRefusal(ErrorsOf(s, v, at, nested))
<1> DEFINE kinds == {"array", "object", "oneOf", "anyOf", "allOf", "not", "any"}
<1>1. Kind(s) \in ScalarKinds \cup kinds /\ \A k \in kinds : k \notin ScalarKinds
  BY KindKeywords DEF Types, Compositions, ScalarKinds
<1>2. ~Has(s, "discriminator") /\ ~Has(s, "additionalProperties")
  BY EnforcedByKind, Zenon
<1>3. \A c \in Below(s), w \in {v} \cup Members(v), p \in Locations :
          Sub(c, TRUE, below) => NoRefusal(Check(c, w, p, nested))
  BY Zenon DEF CalleesDoNotRefuse
<1>4. ASSUME Is(v, "obj"), \A k \in DOMAIN Properties(s) : Sub(s.properties[k], TRUE, below)
      PROVE  NoRefusal(RequiredErrors(s, v.obj, at)) /\ NoRefusal(PropertyErrors(s, v.obj, at, nested))
  <2>1. NoRefusal(RequiredErrors(s, v.obj, at))
    BY DEF NoRefusal, RequiredErrors, Err
  <2>2. ASSUME NEW k \in DOMAIN Properties(s) \cap DOMAIN v.obj
        PROVE  NoRefusal(Check(s.properties[k], v.obj[k], Append(at, k), nested))
    <3>1. v.obj[k] \in Members(v)
      BY <1>4, OneForm DEF Members, Range
    <3>2. Append(at, k) \in Locations
      BY <1>4, OneForm DEF Locations
    <3> QED BY <1>3, <1>4, <3>1, <3>2, BelowByKind
  <2> QED BY <2>1, <2>2 DEF NoRefusal, PropertyErrors
<1>5. CASE Is(v, "null") /\ Flag(s, "nullable")
  <2>1. ErrorsOf(s, v, at, nested) = {}
    BY <1>5, Zenon DEF ErrorsOf
  <2> QED BY <2>1, NoRefusals
<1>6. CASE ~(Is(v, "null") /\ Flag(s, "nullable"))
  <2>1. CASE Kind(s) \in ScalarKinds
    <3>1. /\ Kind(s) # "array" /\ Kind(s) # "object" /\ Kind(s) # "oneOf" /\ Kind(s) # "anyOf"
          /\ Kind(s) # "allOf" /\ Kind(s) # "not" /\ Kind(s) # "any"
      BY <1>1, <2>1
    <3>2. ErrorsOf(s, v, at, nested) = ScalarErrors(s, v, at)
      BY <1>6, <2>1, <3>1, Zenon DEF ErrorsOf
    <3> QED BY <2>1, <3>2, ScalarsDoNotRefuse
  <2>2. CASE Kind(s) = "array"
    <3>1. ErrorsOf(s, v, at, nested) = ArrayErrors(s, v, at, nested)
      BY <1>1, <1>6, <2>2, Zenon DEF ErrorsOf
    <3> DEFINE items == UNION {Check(s.items, v.arr[i], Append(at, "[]"), nested) :
                                   i \in {j \in DOMAIN v.arr : Has(s, "items")}}
    <3>2. Is(v, "arr") => NoRefusal(items)
      <4> SUFFICES ASSUME Is(v, "arr"), Has(s, "items"), NEW i \in DOMAIN v.arr
                   PROVE  NoRefusal(Check(s.items, v.arr[i], Append(at, "[]"), nested))
        BY DEF NoRefusal
      <4>1. v.arr[i] \in Members(v)
        BY DEF Members, Range
      <4>2. Append(at, "[]") \in Locations
        <5>1. \A k \in STRING : Append(at, k) \in Locations
          BY DEF Locations
        <5>2. "[]" \in STRING
          BY LiteralAssumption, Zenon
        <5> QED BY <5>1, <5>2, Zenon
      <4>3. s.items \in Below(s)
        BY BelowByKind
      <4>4. Sub(s.items, TRUE, below)
        BY <2>2, EnforcedByKind, Zenon
      <4> QED BY <1>3, <4>1, <4>2, <4>3, <4>4
    <3>3. \E x, y, z : ArrayErrors(s, v, at, nested) =
              IF ~Is(v, "arr") THEN {Err(at, "type")}
              ELSE Unless(x, at, "minItems") \cup Unless(y, at, "maxItems") \cup items \cup Unless(z, at, "uniqueItems")
      BY Zenon DEF ArrayErrors
    <3> HIDE DEF items
    <3>4. CASE ~Is(v, "arr")
      BY <3>1, <3>3, <3>4, NoRefusals
    <3>5. CASE Is(v, "arr")
      <4>1. PICK x, y, z :
                ArrayErrors(s, v, at, nested) = Unless(x, at, "minItems") \cup Unless(y, at, "maxItems") \cup items
                                                \cup Unless(z, at, "uniqueItems")
        BY <3>3, <3>5
      <4>2. \A e \in Unless(x, at, "minItems") \cup Unless(y, at, "maxItems") \cup Unless(z, at, "uniqueItems") :
                e.code \in {"minItems", "maxItems", "uniqueItems"}
        BY DEF Unless, Err
      <4> QED BY <3>1, <3>2, <3>5, <4>1, <4>2 DEF NoRefusal
    <3> QED BY <3>4, <3>5
  <2>3. CASE Kind(s) = "object"
    <3>1. ErrorsOf(s, v, at, nested) = ObjectErrors(s, v, at, nested)
      BY <1>1, <1>6, <2>3, Zenon DEF ErrorsOf
    <3>2. CASE ~Is(v, "obj")
      <4>1. ObjectErrors(s, v, at, nested) = {Err(at, "type")}
        BY <3>2, Zenon DEF ObjectErrors
      <4> QED BY <3>1, <4>1, NoRefusals
    <3>3. CASE Is(v, "obj")
      <4> DEFINE extra == Get(s, "additionalProperties", [allowed |-> TRUE])
                 refused == IF Has(extra, "allowed")
                            THEN {Err(Append(at, k), "additionalProperties") :
                                      k \in {x \in Outside(s, v.obj) : ~extra.allowed}}
                            ELSE UNION {Check(extra, v.obj[k], Append(at, k), nested) : k \in Outside(s, v.obj)}
      <4>1. Has(extra, "allowed") /\ extra.allowed
        BY <1>2 DEF Get, Has
      <4>2. refused = {}
        BY <4>1
      <4>3. ObjectErrors(s, v, at, nested) =
                RequiredErrors(s, v.obj, at) \cup PropertyErrors(s, v.obj, at, nested) \cup refused
        BY <3>3, Zenon DEF ObjectErrors
      <4>4. \A k \in DOMAIN Properties(s) : Sub(s.properties[k], TRUE, below)
        BY <2>3, EnforcedByKind, Zenon
      <4>5. NoRefusal(RequiredErrors(s, v.obj, at)) /\ NoRefusal(PropertyErrors(s, v.obj, at, nested))
        BY <1>4, <3>3, <4>4
      <4> HIDE DEF refused
      <4> QED BY <3>1, <4>2, <4>3, <4>5, NoRefusals
    <3> QED BY <3>2, <3>3
  <2>4. CASE Kind(s) = "oneOf"
    <3>1. ErrorsOf(s, v, at, nested) = OneOfErrors(s, v, at, nested)
      BY <1>1, <1>6, <2>4, Zenon DEF ErrorsOf
    <3>2. Discriminated(s, v) = {}
      BY <1>2, Zenon DEF Discriminated
    <3>3. \E x : OneOfErrors(s, v, at, nested) = Unless(x, at, "oneOf")
      BY <3>2, Zenon DEF OneOfErrors
    <3> QED BY <3>1, <3>3, NoRefusals
  <2>5. CASE Kind(s) = "anyOf"
    <3>1. ErrorsOf(s, v, at, nested) = AnyOfErrors(s, v, at, nested)
      BY <1>1, <1>6, <2>5, Zenon DEF ErrorsOf
    <3> QED BY <3>1, NoRefusals DEF AnyOfErrors
  <2>6. CASE Kind(s) = "allOf"
    <3>1. ErrorsOf(s, v, at, nested) = AllOfErrors(s, v, at, nested)
      BY <1>1, <1>6, <2>6, Zenon DEF ErrorsOf
    <3>2. ASSUME NEW i \in DOMAIN s.allOf PROVE NoRefusal(Check(s.allOf[i], v, at, nested))
      <4>1. s.allOf[i] \in Below(s)
        BY <2>6, KindKeywords, BelowByKind DEF Compositions, Has
      <4>2. Sub(s.allOf[i], TRUE, below)
        BY <2>6, EnforcedByKind, Zenon
      <4> QED BY <1>3, <4>1, <4>2
    <3>3. AllOfErrors(s, v, at, nested) \subseteq UNION {Check(s.allOf[i], v, at, nested) : i \in DOMAIN s.allOf}
      BY DEF AllOfErrors, Check
    <3> QED BY <3>1, <3>2, <3>3 DEF NoRefusal
  <2>7. CASE Kind(s) = "not"
    <3>1. ErrorsOf(s, v, at, nested) = NotErrors(s, v, at, nested)
      BY <1>1, <1>6, <2>7, Zenon DEF ErrorsOf
    <3> QED BY <3>1, NoRefusals DEF NotErrors
  <2>8. CASE Kind(s) = "any"
    <3>1. ErrorsOf(s, v, at, nested) = AnyErrors(s, v, at, nested)
      BY <1>1, <1>6, <2>8, Zenon DEF ErrorsOf
    <3> DEFINE parts == IF Is(v, "obj") THEN RequiredErrors(s, v.obj, at) \cup PropertyErrors(s, v.obj, at, nested) ELSE {}
               refused == IF Has(s, "not") THEN NotErrors(s, v, at, nested) ELSE {}
    <3>2. \E x, y, z : AnyErrors(s, v, at, nested) \in
              {{Err(at, "type")},
               Unless(x, at, "enum") \cup Unless(y, at, "pattern") \cup Unless(z, at, "format") \cup refused \cup parts}
      BY Zenon DEF AnyErrors
    <3>3. \A k \in DOMAIN Properties(s) : Sub(s.properties[k], TRUE, below)
      BY <2>8, EnforcedByKind, Zenon
    <3>4. NoRefusal(parts)
      BY <1>4, <3>3, NoRefusals
    <3>5. NoRefusal(refused)
      BY NoRefusals DEF NotErrors
    <3> HIDE DEF parts, refused
    <3>6. PICK x, y, z : AnyErrors(s, v, at, nested) \in
              {{Err(at, "type")},
               Unless(x, at, "enum") \cup Unless(y, at, "pattern") \cup Unless(z, at, "format") \cup refused \cup parts}
      BY <3>2
    <3>7. \A e \in {Err(at, "type")} \cup Unless(x, at, "enum") \cup Unless(y, at, "pattern") \cup Unless(z, at, "format") :
              e.code \in {"type", "enum", "pattern", "format"}
      BY DEF Unless, Err
    <3> QED BY <3>1, <3>4, <3>5, <3>6, <3>7 DEF NoRefusal
  <2> QED BY <1>1, <2>1, <2>2, <2>3, <2>4, <2>5, <2>6, <2>7, <2>8
<1> QED BY <1>5, <1>6

-----------------------------------------------------------------------------
(* All levels: by induction over the room that is left on the stack.       *)

\* A reference conforms to what its end conforms to.
LEMMA ConformingOfResolved ==
    ASSUME NEW parts, NEW n \in 0 .. Stack, NEW c \in Schemas, NEW r \in Resolved(c), NEW w \in parts
    PROVE  Conforming(parts)[n][c][w] = Conforming(parts)[n][r][w]
<1>1. r \in Schemas
  BY ResolvedIsSchema
<1>2. Target(c) = Target(r)
  BY TargetOfResolved
<1> QED BY <1>1, <1>2, ConformingUnfold

Judged(parts, n, s, v, within) ==
    (Enforcing(parts)[n][s][within] /\ ~Overflowing(parts)[n][s][v]) =>
        \A at \in Locations : (Errors(parts)[n][s][v][at] = {}) <=> Conforming(parts)[n][s][v]
Unrefused(parts, n, s, v) ==
    Enforcing(parts)[n][s][TRUE] => \A at \in Locations : NoRefusal(Errors(parts)[n][s][v][at])

Settled(whole, n) ==
    \A s \in Schemas, v \in UpTo(whole, Stack - n) :
        ~Has(s, "ref") =>
            /\ \A within \in BOOLEAN : Judged(PartsOf(whole, Stack), n, s, v, within)
            /\ Unrefused(PartsOf(whole, Stack), n, s, v)

\* From one level to the next.
LEMMA SettledNext ==
    ASSUME NEW whole, IsJson(whole), NEW n \in Nat, n + 1 <= Stack, Settled(whole, n)
    PROVE  Settled(whole, n + 1)
<1> DEFINE parts == PartsOf(whole, Stack)
           m == Stack - (n + 1)
<1>1. /\ Stack \in Nat /\ n \in 0 .. Stack /\ n + 1 \in 0 .. Stack /\ (n + 1) - 1 = n /\ n + 1 # 0
      /\ m \in 0 .. Stack /\ m < Stack /\ m + 1 = Stack - n /\ Stack - n \in 0 .. Stack
  BY StackAssumption
<1> HIDE DEF m
<1> SUFFICES ASSUME NEW s \in Schemas, NEW v \in UpTo(whole, m), ~Has(s, "ref")
             PROVE  /\ \A within \in BOOLEAN : Judged(parts, n + 1, s, v, within)
                    /\ Unrefused(parts, n + 1, s, v)
  BY Zenon DEF Settled, m
<1>2. /\ v \in parts /\ v \in UpTo(whole, Stack - n) /\ Members(v) \subseteq UpTo(whole, Stack - n)
      /\ UpTo(whole, Stack - n) \subseteq parts
  BY <1>1, PartsByLevel
<1>3. JsonValue(v)
  BY <1>2 DEF IsJson
<1> HIDE DEF parts
<1>4. \A at \in Locations : Errors(parts)[n + 1][s][v][at] = ErrorsOf(s, v, at, Errors(parts)[n])
  BY <1>1, <1>2, ErrorsUnfold
<1>5. Conforming(parts)[n + 1][s][v] = Means(s, v, Conforming(parts)[n])
  <2>1. Target(s) = s
    BY TargetOfResolved DEF Resolved
  <2>2. Conforming(parts)[n + 1][s][v] = (n + 1 > 0 /\ Means(Target(s), v, Conforming(parts)[n]))
    BY <1>1, <1>2, ConformingUnfold
  <2>3. n + 1 > 0
    OBVIOUS
  <2>4. Means(s, v, Conforming(parts)[n]) \in BOOLEAN
    BY Zenon DEF Means
  <2> QED BY <2>1, <2>2, <2>3, <2>4
<1>6. ASSUME NEW within \in BOOLEAN, Enforcing(parts)[n + 1][s][within]
      PROVE  EnforcedIn(s, within, parts, Enforcing(parts)[n])
  <2>1. Enforcing(parts)[n + 1][s][within] =
            (n + 1 = 0 \/ EnforcedIn(s, within, parts, Enforcing(parts)[(n + 1) - 1]))
    BY <1>1, EnforcingUnfold
  <2> QED BY <1>1, <1>6, <2>1
<1>7. ~Overflowing(parts)[n + 1][s][v] =>
          \A r, w : <<r, w>> \in Calls(s, v) => ~Overflowing(parts)[n][r][w]
  <2>1. Overflowing(parts)[n + 1][s][v] <=>
            (n + 1 = 0 \/ \E c \in Calls(s, v) : Overflowing(parts)[(n + 1) - 1][c[1]][c[2]])
    BY <1>1, <1>2, OverflowingUnfold, Zenon
  <2>2. ASSUME NEW r, NEW w, <<r, w>> \in Calls(s, v), Overflowing(parts)[n][r][w]
        PROVE  \E c \in Calls(s, v) : Overflowing(parts)[n][c[1]][c[2]]
    <3>1. <<r, w>>[1] = r /\ <<r, w>>[2] = w
      OBVIOUS
    <3> QED BY <2>2, <3>1, Zenon
  <2>3. Overflowing(parts)[(n + 1) - 1] = Overflowing(parts)[n]
    BY <1>1
  <2> QED BY <2>1, <2>2, <2>3
<1>8. \A c \in Below(s) : c \in Schemas
  BY BelowByKind
<1>9. \A c \in Below(s) : \A r \in Resolved(c) : r \in Schemas /\ ~Has(r, "ref")
  BY <1>8, ResolvedIsSchema, TargetOfResolved
<1>10. \A w \in {v} \cup Members(v) : w \in UpTo(whole, Stack - n) /\ w \in parts
  BY <1>2
<1>11. \A r \in Schemas, w \in UpTo(whole, Stack - n) :
           ~Has(r, "ref") =>
               (\A within \in BOOLEAN : Judged(parts, n, r, w, within)) /\ Unrefused(parts, n, r, w)
  BY Zenon DEF Settled, parts
<1>12. CalleesDoNotRefuse(s, v, Errors(parts)[n], Enforcing(parts)[n])
  <2> SUFFICES ASSUME NEW c \in Below(s), NEW w \in {v} \cup Members(v), NEW p \in Locations,
                      Sub(c, TRUE, Enforcing(parts)[n])
               PROVE  NoRefusal(Check(c, w, p, Errors(parts)[n]))
    BY Zenon DEF CalleesDoNotRefuse
  <2>1. ASSUME NEW r \in Resolved(c) PROVE NoRefusal(Errors(parts)[n][r][w][p])
    <3>1. Unrefused(parts, n, r, w)
      BY <1>9, <1>10, <1>11, <2>1
    <3>2. Enforcing(parts)[n][r][TRUE]
      BY <2>1, Zenon DEF Sub
    <3> QED BY <3>1, <3>2, Zenon DEF Unrefused
  <2> QED BY <2>1 DEF NoRefusal, Check
<1>13. ASSUME ~Overflowing(parts)[n + 1][s][v]
       PROVE  CalleesAgree(s, v, Errors(parts)[n], Conforming(parts)[n], Enforcing(parts)[n])
  <2> SUFFICES ASSUME NEW c \in Below(s), NEW w \in {v} \cup Members(v), NEW within \in BOOLEAN,
                      Sub(c, within, Enforcing(parts)[n]), \A r \in Resolved(c) : <<r, w>> \in Calls(s, v)
               PROVE  Agree(c, w, Errors(parts)[n], Conforming(parts)[n])
    BY Zenon DEF CalleesAgree
  <2>1. PICK r : Resolved(c) = {r}
    BY <1>8, SubResolves
  <2>2. Judged(parts, n, r, w, within)
    BY <1>9, <1>10, <1>11, <2>1
  <2>3. Enforcing(parts)[n][r][within]
    BY <2>1 DEF Sub
  <2>4. ~Overflowing(parts)[n][r][w]
    BY <1>7, <1>13, <2>1
  <2>5. \A p \in Locations : (Errors(parts)[n][r][w][p] = {}) <=> Conforming(parts)[n][r][w]
    BY <2>2, <2>3, <2>4, Zenon DEF Judged
  <2>6. Conforming(parts)[n][c][w] = Conforming(parts)[n][r][w]
    BY <1>1, <1>8, <1>10, <2>1, ConformingOfResolved
  <2>7. \A p \in Locations : Check(c, w, p, Errors(parts)[n]) = Errors(parts)[n][r][w][p]
    BY <2>1 DEF Check
  <2> QED BY <2>5, <2>6, <2>7 DEF Agree
<1>14. ASSUME NEW within \in BOOLEAN PROVE Judged(parts, n + 1, s, v, within)
  <2> SUFFICES ASSUME Enforcing(parts)[n + 1][s][within], ~Overflowing(parts)[n + 1][s][v], NEW at \in Locations
               PROVE  Errors(parts)[n + 1][s][v][at] = {} <=> Conforming(parts)[n + 1][s][v]
    BY Zenon DEF Judged
  <2>1. EnforcedIn(s, within, parts, Enforcing(parts)[n])
    BY <1>6
  <2>2. ErrorsOf(s, v, at, Errors(parts)[n]) = {} <=> Means(s, v, Conforming(parts)[n])
    BY <1>2, <1>3, <1>12, <1>13, <2>1, VerdictOfOneLevel
  <2> QED BY <1>4, <1>5, <2>2
<1>15. Unrefused(parts, n + 1, s, v)
  <2> SUFFICES ASSUME Enforcing(parts)[n + 1][s][TRUE], NEW at \in Locations
               PROVE  NoRefusal(Errors(parts)[n + 1][s][v][at])
    BY Zenon DEF Unrefused
  <2>1. EnforcedIn(s, TRUE, parts, Enforcing(parts)[n])
    BY <1>6, Zenon
  <2>2. NoRefusal(ErrorsOf(s, v, at, Errors(parts)[n]))
    BY <1>3, <1>12, <2>1, NoRefusalOfOneLevel
  <2> QED BY <1>4, <2>2
<1> QED BY <1>14, <1>15

\* validate_value and the meaning of a schema agree on every value and schema of a document,
\* unless the stack is used up: compositions, arrays, objects and references included, at any
\* depth, for every schema whose keywords the validator looks at and every value whose
\* numbers its floats get right.
THEOREM EnforcedVerdictIsTheMeaning ==
    ASSUME NEW s \in Schemas, ~Has(s, "ref"), NEW whole, IsJson(whole), NEW at \in Locations,
           Enforced(s, PartsOf(whole, Stack)), ~Overflows(s, whole)
    PROVE  ValidateValue(s, whole, at) = {} <=> Conforms(s, whole)
<1> DEFINE parts == PartsOf(whole, Stack)
           T == {n \in Nat : n <= Stack => Settled(whole, n)}
<1>1. Stack \in Nat
  BY StackAssumption
<1>2. 0 \in T
  <2>1. ASSUME NEW r \in Schemas, NEW v \in UpTo(whole, Stack - 0)
        PROVE  /\ \A within \in BOOLEAN : Judged(parts, 0, r, v, within)
               /\ Unrefused(parts, 0, r, v)
    <3>1. v \in parts
      BY <1>1, PartsByLevel
    <3>2. 0 \in 0 .. Stack
      BY <1>1
    <3> HIDE DEF parts
    <3>3. Overflowing(parts)[0][r][v]
      BY <3>1, <3>2, OverflowingUnfold
    <3>4. \A p \in Locations : Errors(parts)[0][r][v][p] = {}
      BY <3>1, <3>2, ErrorsUnfold
    <3> QED BY <3>3, <3>4, NoRefusals DEF Judged, Unrefused
  <2>2. Settled(whole, 0)
    BY <2>1, Zenon DEF Settled
  <2> QED BY <2>2
<1>3. ASSUME NEW n \in T PROVE n + 1 \in T
  <2> SUFFICES ASSUME n + 1 <= Stack PROVE Settled(whole, n + 1)
    OBVIOUS
  <2>1. n \in Nat /\ Settled(whole, n)
    BY <1>1
  <2> QED BY <2>1, SettledNext
<1>4. T = Nat
  <2> HIDE DEF T
  <2>1. T \in SUBSET Nat
    BY DEF T
  <2> QED BY <1>2, <1>3, <2>1, NatInduct
<1>5. Settled(whole, Stack)
  BY <1>1, <1>4
<1>6. whole \in UpTo(whole, Stack - Stack)
  BY <1>1, PartsByLevel
<1>7. \A within \in BOOLEAN : Judged(parts, Stack, s, whole, within)
  BY <1>5, <1>6, Zenon DEF Settled
<1>8. Resolved(s) = {s}
  BY DEF Resolved
<1>9. Enforcing(parts)[Stack][s][FALSE]
  BY <1>8, Unfolds, Zenon
<1>10. ~Overflowing(parts)[Stack][s][whole]
  BY Unfolds, Zenon
<1>11. (Errors(parts)[Stack][s][whole][at] = {}) <=> Conforming(parts)[Stack][s][whole]
  BY <1>7, <1>9, <1>10, Zenon DEF Judged
<1> QED BY <1>11, Unfolds, Zenon

-----------------------------------------------------------------------------
(* Texts.  Whatever t is, ReadText(t) are the values that are written t.    *)

\* x is a value that is written t, and conforms to c if any such value does.
Settles(c, t, x) ==
    x \in ReadText(t) /\ \A w \in ReadText(t) : MeansScalar(c, w) => MeansScalar(c, x)

LEMMA ReadingForms ==
    ASSUME NEW t
    PROVE  /\ Str(t) \in ReadText(t)
           /\ \A w \in ReadText(t) :
                  \/ w = Str(t)
                  \/ w = Bool(TRUE) /\ t = "true"
                  \/ w = Bool(FALSE) /\ t = "false"
                  \/ t \in DOMAIN WholeText /\ w = Whole(WholeText[t])
                  \/ t \in DOMAIN NumberText /\ w = Float(NumberText[t])
           /\ t = "true" => Bool(TRUE) \in ReadText(t)
           /\ t = "false" => Bool(FALSE) \in ReadText(t)
           /\ t \in DOMAIN WholeText => Whole(WholeText[t]) \in ReadText(t)
           /\ t \in DOMAIN NumberText => Float(NumberText[t]) \in ReadText(t)
<1> DEFINE flags == {Bool(b) : b \in {x \in BOOLEAN : t = IF x THEN "true" ELSE "false"}}
           wholes == {Whole(WholeText[x]) : x \in {t} \cap DOMAIN WholeText}
           floats == {Float(NumberText[x]) : x \in {t} \cap DOMAIN NumberText}
<1>1. ReadText(t) = {Str(t)} \cup flags \cup wholes \cup floats
  BY Zenon DEF ReadText
<1>2. \A w : w \in flags <=> (w = Bool(TRUE) /\ t = "true") \/ (w = Bool(FALSE) /\ t = "false")
  OBVIOUS
<1>3. \A w : w \in wholes <=> t \in DOMAIN WholeText /\ w = Whole(WholeText[t])
  OBVIOUS
<1>4. \A w : w \in floats <=> t \in DOMAIN NumberText /\ w = Float(NumberText[t])
  OBVIOUS
<1>5. \A w : w \in ReadText(t) <=> (w = Str(t) \/ w \in flags \/ w \in wholes \/ w \in floats)
  <2> HIDE DEF flags, wholes, floats
  <2> QED BY <1>1, Zenon
<1> HIDE DEF flags, wholes, floats
<1> QED BY <1>2, <1>3, <1>4, <1>5, Zenon

LEMMA ReadingsAreJson ==
    ASSUME NEW t, NEW w \in ReadText(t)
    PROVE  JsonValue(w) /\ ~Is(w, "null") /\ ~Is(w, "arr") /\ ~Is(w, "obj")
<1>1. CASE w = Str(t)
  BY <1>1 DEF JsonValue, Is, Str
<1>2. CASE w = Bool(TRUE) \/ w = Bool(FALSE)
  BY <1>2 DEF JsonValue, Is, Bool
<1>3. CASE t \in DOMAIN WholeText /\ w = Whole(WholeText[t])
  BY <1>3, TextAssumption DEF JsonValue, Is, Whole
<1>4. CASE t \in DOMAIN NumberText /\ w = Float(NumberText[t])
  BY <1>4, TextAssumption DEF JsonValue, Is, Float
<1> QED BY <1>1, <1>2, <1>3, <1>4, ReadingForms

\* What a text becomes where a single value is wanted.
LEMMA TextOfScalar ==
    ASSUME NEW s, Kind(s) \in ScalarKinds, NEW t
    PROVE  /\ CoerceString(t, s) # Overflow => Settles(s, t, CoerceString(t, s))
           /\ \A w \in ReadText(t) : MeansScalar(s, w) => CoerceString(t, s) # Overflow
           /\ Kind(s) # "number" => \A w \in ReadText(t) : MeansScalar(s, w) => w = CoerceString(t, s)
           /\ Kind(s) = "string" => CoerceString(t, s) = Str(t)
<1> DEFINE x == CoerceString(t, s)
<1>1. Has(s, "type") /\ s.type = Kind(s)
  BY KindOfType
<1>2. Kind(s) \in Types \cup {"any"} /\ Get(s, "type", "none") = Kind(s)
  BY <1>1 DEF ScalarKinds, Types, Get
<1>3. x = CASE Kind(s) = "integer" /\ t \in DOMAIN WholeText ->
                   IF IsI64(Whole(WholeText[t])) THEN Whole(WholeText[t]) ELSE Overflow
            [] Kind(s) = "number" /\ t \in DOMAIN NumberText -> Float(NumberText[t])
            [] Kind(s) = "boolean" /\ t \in {"true", "false"} -> Bool(t = "true")
            [] OTHER -> Str(t)
  BY <1>2, Zenon DEF CoerceString
<1>4. \A w : MeansScalar(s, w) => IsA(w, Kind(s))
  BY <1>1, Zenon DEF MeansScalar
<1>5. /\ \A u : ~IsNumber(Str(u)) /\ ~IsI64(Str(u)) /\ ~Is(Str(u), "bool") /\ Is(Str(u), "str") /\ Str(u) # Overflow
      /\ \A b : ~IsNumber(Bool(b)) /\ ~IsI64(Bool(b)) /\ ~Is(Bool(b), "str") /\ Is(Bool(b), "bool") /\ Bool(b) # Overflow
      /\ \A n : IsNumber(Whole(n)) /\ ~Is(Whole(n), "str") /\ ~Is(Whole(n), "bool") /\ Whole(n) # Overflow
      /\ \A h : IsNumber(Float(h)) /\ ~IsI64(Float(h)) /\ ~Is(Float(h), "str") /\ ~Is(Float(h), "bool") /\ Float(h) # Overflow
  BY DEF Is, IsNumber, IsI64, Str, Bool, Whole, Float, Overflow
<1> HIDE DEF x
<1>6. CASE Kind(s) = "string"
  <2>1. x = Str(t)
    BY <1>3, <1>6, Zenon
  <2>2. \A w \in ReadText(t) : MeansScalar(s, w) => w = Str(t)
    BY <1>4, <1>5, <1>6, ReadingForms DEF IsA
  <2> QED BY <1>5, <1>6, <2>1, <2>2, ReadingForms DEF x, Settles
<1>7. CASE Kind(s) = "boolean"
  <2>1. \A w \in ReadText(t) : MeansScalar(s, w) =>
            (w = Bool(TRUE) /\ t = "true") \/ (w = Bool(FALSE) /\ t = "false")
    <3>1. \A w : MeansScalar(s, w) => Is(w, "bool")
      BY <1>4, <1>7 DEF IsA
    <3>2. \A w \in ReadText(t) : ~Is(w, "bool") \/ (w = Bool(TRUE) /\ t = "true") \/ (w = Bool(FALSE) /\ t = "false")
      BY <1>5, ReadingForms, Zenon
    <3> QED BY <3>1, <3>2, Zenon
  <2>2. (t = "true" => x = Bool(TRUE)) /\ (t = "false" => x = Bool(FALSE))
    BY <1>3, <1>7
  <2>3. t \notin {"true", "false"} => x = Str(t)
    BY <1>3, <1>7
  <2>4. x # Overflow /\ x \in ReadText(t)
    BY <1>5, <2>2, <2>3, ReadingForms
  <2> QED BY <1>7, <2>1, <2>2, <2>4 DEF x, Settles
<1>8. CASE Kind(s) = "integer"
  <2>1. \A w \in ReadText(t) : MeansScalar(s, w) =>
            t \in DOMAIN WholeText /\ w = Whole(WholeText[t]) /\ IsI64(w)
    BY <1>4, <1>5, <1>8, ReadingForms DEF IsA
  <2>2. t \in DOMAIN WholeText => x = IF IsI64(Whole(WholeText[t])) THEN Whole(WholeText[t]) ELSE Overflow
    BY <1>3, <1>8
  <2>3. t \notin DOMAIN WholeText => x = Str(t)
    BY <1>3, <1>8
  <2>4. x # Overflow => x \in ReadText(t)
    BY <1>5, <2>2, <2>3, ReadingForms
  <2>5. \A w \in ReadText(t) : MeansScalar(s, w) => w = x /\ x # Overflow
    BY <1>5, <2>1, <2>2
  <2> QED BY <1>8, <2>4, <2>5 DEF x, Settles
<1>9. CASE Kind(s) = "number"
  <2>1. \A w \in ReadText(t) : MeansScalar(s, w) =>
            /\ t \in DOMAIN NumberText /\ IsNumber(w)
            /\ (t \in DOMAIN WholeText /\ w = Whole(WholeText[t])) \/ w = Float(NumberText[t])
    BY <1>4, <1>5, <1>9, ReadingForms, TextAssumption DEF IsA
  <2>2. t \in DOMAIN NumberText => x = Float(NumberText[t])
    BY <1>3, <1>9
  <2>3. t \notin DOMAIN NumberText => x = Str(t)
    BY <1>3, <1>9
  <2>4. x # Overflow /\ x \in ReadText(t)
    BY <1>5, <2>2, <2>3, ReadingForms
  <2>5. ASSUME NEW w \in ReadText(t), MeansScalar(s, w) PROVE MeansScalar(s, x)
    <3>1. t \in DOMAIN NumberText /\ IsNumber(w) /\ x = Float(NumberText[t])
      BY <2>1, <2>2, <2>5
    <3>2. Tenths(w) = Tenths(x)
      BY <2>1, <2>5, <3>1, TextAssumption DEF Tenths, Is, Whole, Float
    <3>3. IsNumber(x) /\ ~Is(x, "str") /\ IsA(x, "number")
      BY <1>5, <3>1 DEF IsA
    <3>4. \A set : Among(w, set) => Among(x, set)
      BY <3>1, <3>2, <3>3 DEF Among
    <3>5. Kind(s) # "integer" /\ s.type = "number"
      BY <1>1, <1>9
    <3> QED BY <2>5, <3>1, <3>2, <3>3, <3>4, <3>5, Zenon DEF MeansScalar
  <2> QED BY <1>9, <2>4, <2>5 DEF x, Settles
<1> QED BY <1>6, <1>7, <1>8, <1>9 DEF ScalarKinds

\* What does not fit stays a text, which is no number either.
LEMMA KeptText ==
    ASSUME NEW s, Kind(s) \in ScalarKinds, NEW t
    PROVE  /\ Settles(s, t, CoerceOrKeep(t, {s}))
           /\ Kind(s) # "number" => \A w \in ReadText(t) : MeansScalar(s, w) => w = CoerceOrKeep(t, {s})
<1>1. (CHOOSE r \in {s} : TRUE) = s
  OBVIOUS
<1>2. CoerceOrKeep(t, {s}) = IF CoerceString(t, s) = Overflow THEN Str(t) ELSE CoerceString(t, s)
  BY <1>1 DEF CoerceOrKeep
<1> QED BY <1>2, TextOfScalar, ReadingForms DEF Settles

-----------------------------------------------------------------------------
(* Schemas of one value, a list of such, or a map of such.                 *)

Flat(s) == \A c \in Below(s) : Kind(c) \in ScalarKinds

LEMMA ScalarsAreNoReferences ==
    ASSUME NEW c, Kind(c) \in ScalarKinds
    PROVE  ~Has(c, "ref") /\ Resolved(c) = {c}
<1>1. Kind(c) \in Types /\ DOMAIN c \ Annotations \subseteq TypeKeywords(Kind(c))
  BY KindKeywords DEF ScalarKinds, Types
<1>2. "ref" \notin TypeKeywords(Kind(c)) /\ "ref" \notin Annotations
  BY DEF ScalarKinds, TypeKeywords, Annotations
<1> QED BY <1>1, <1>2 DEF Has, Resolved

\* A single value against a schema of one, with room for n calls.
LEMMA ScalarAtLevel ==
    ASSUME NEW c \in Schemas, Kind(c) \in ScalarKinds, NEW parts, NEW x \in parts,
           JsonValue(x), ~Is(x, "null"), NEW n \in 1 .. Stack
    PROVE  /\ Conforming(parts)[n][c][x] <=> MeansScalar(c, x)
           /\ \A at \in Locations : NoRefusal(Errors(parts)[n][c][x][at])
           /\ ((Kind(c) = "integer" /\ Has(c, "enum")) => \A e \in c.enum : ~Is(e, "float")) /\ Sharp(c, x) =>
                  \A at \in Locations : Errors(parts)[n][c][x][at] = {} <=> MeansScalar(c, x)
<1>1. n \in 0 .. Stack /\ n > 0
  BY StackAssumption
<1>2. Target(c) = c
  BY ScalarsAreNoReferences, TargetOfResolved
<1>3. Conforming(parts)[n][c][x] = (n > 0 /\ Means(c, x, Conforming(parts)[n - 1]))
  BY <1>1, <1>2, ConformingUnfold
<1>4. Conforming(parts)[n][c][x] <=> MeansScalar(c, x)
  <2>1. Means(c, x, Conforming(parts)[n - 1]) <=> MeansScalar(c, x)
    BY MeansOfScalar
  <2>2. Means(c, x, Conforming(parts)[n - 1]) \in BOOLEAN
    BY Zenon DEF Means
  <2> QED BY <1>1, <1>3, <2>1, <2>2
<1>5. ASSUME NEW at \in Locations PROVE Errors(parts)[n][c][x][at] = ScalarErrors(c, x, at)
  <2>1. Errors(parts)[n][c][x][at] = ErrorsOf(c, x, at, Errors(parts)[n - 1])
    BY <1>1, ErrorsUnfold
  <2>2. /\ Kind(c) # "array" /\ Kind(c) # "object" /\ Kind(c) # "oneOf" /\ Kind(c) # "anyOf"
        /\ Kind(c) # "allOf" /\ Kind(c) # "not" /\ Kind(c) # "any"
    BY DEF ScalarKinds
  <2>3. ErrorsOf(c, x, at, Errors(parts)[n - 1]) = ScalarErrors(c, x, at)
    BY <2>2, Zenon DEF ErrorsOf
  <2> QED BY <2>1, <2>3
<1>6. ((Kind(c) = "integer" /\ Has(c, "enum")) => \A e \in c.enum : ~Is(e, "float")) /\ Sharp(c, x) =>
          \A at : ScalarErrors(c, x, at) = {} <=> MeansScalar(c, x)
  BY ParserAssumption, ScalarVerdictIsTheMeaning
<1> QED BY <1>4, <1>5, <1>6, ScalarsDoNotRefuse

\* The members of a value, and what a flat schema says of the value by what it says of them.
LEMMA FlatVerdict ==
    ASSUME NEW s \in Schemas, ~Has(s, "ref"), NEW values, Enforced(s, values), Flat(s),
           NEW v, {v} \cup Members(v) \subseteq values,
           \A w \in {v} \cup Members(v) : JsonValue(w) /\ ~Is(w, "null")
    PROVE  \E inside :
               /\ Conforms(s, v) <=> Means(s, v, inside)
               /\ \A at \in Locations : ValidateValue(s, v, at) = {} <=> Means(s, v, inside)
               /\ \A c \in Below(s), w \in {v} \cup Members(v) : inside[c][w] <=> MeansScalar(c, w)
<1> DEFINE parts == PartsOf(v, Stack)
           n == Stack - 1
           nested == Errors(parts)[n]
           inside == Conforming(parts)[n]
           below == Enforcing(values)[n]
<1>1. /\ Stack \in 0 .. Stack /\ n \in 1 .. Stack /\ n \in 0 .. Stack /\ n - 1 \in 0 .. Stack
      /\ Stack # 0 /\ Stack > 0 /\ n # 0 /\ 0 \in 0 .. Stack /\ 0 < Stack /\ 0 + 1 \in 0 .. Stack
  BY StackAssumption
<1>2. {v} \cup Members(v) \subseteq parts
  <2>1. v \in UpTo(v, 0) /\ UpTo(v, 0 + 1) \subseteq parts
    BY <1>1, PartsByLevel
  <2>2. v \in UpTo(v, 0 + 1) /\ Members(v) \subseteq UpTo(v, 0 + 1)
    BY <1>1, <2>1, PartsByLevel
  <2> QED BY <2>1, <2>2
<1> HIDE DEF parts, n
<1>3. Resolved(s) = {s} /\ Target(s) = s
  <2>1. Resolved(s) = {s}
    BY DEF Resolved
  <2> QED BY <2>1, TargetOfResolved
<1>4. EnforcedIn(s, FALSE, values, below)
  <2>1. Enforcing(values)[Stack][s][FALSE]
    BY <1>3, Unfolds, Zenon
  <2> QED BY <1>1, <2>1, EnforcingOutside, Zenon DEF n
<1>5. \A c \in Below(s) : c \in Schemas /\ Kind(c) \in ScalarKinds /\ Resolved(c) = {c}
  BY BelowByKind, ScalarsAreNoReferences DEF Flat
<1>6. ASSUME NEW c \in Below(s), NEW within \in BOOLEAN, Sub(c, within, below)
      PROVE  /\ (Kind(c) = "integer" /\ Has(c, "enum")) => \A e \in c.enum : ~Is(e, "float")
             /\ \A w \in {v} \cup Members(v) : Sharp(c, w)
  <2>1. Enforcing(values)[n][c][within]
    BY <1>5, <1>6 DEF Sub
  <2>2. Enforcing(values)[n][c][within] = (n = 0 \/ EnforcedIn(c, within, values, Enforcing(values)[n - 1]))
    BY <1>1, <1>5, EnforcingUnfold
  <2>3. EnforcedIn(c, within, values, Enforcing(values)[n - 1])
    BY <1>1, <2>1, <2>2
  <2> QED BY <1>5, <2>3, EnforcedByKind
<1>7. \A c \in Below(s), w \in {v} \cup Members(v) : inside[c][w] <=> MeansScalar(c, w)
  BY <1>1, <1>2, <1>5, ScalarAtLevel
<1>8. CalleesDoNotRefuse(s, v, nested, below)
  <2>1. \A c \in Below(s), w \in {v} \cup Members(v), p \in Locations : NoRefusal(nested[c][w][p])
    BY <1>1, <1>2, <1>5, ScalarAtLevel
  <2>2. \A c \in Below(s) : \A w, p : Check(c, w, p, nested) = nested[c][w][p]
    BY <1>5 DEF Check
  <2> HIDE DEF nested
  <2> QED BY <2>1, <2>2 DEF CalleesDoNotRefuse
<1>9. CalleesAgree(s, v, nested, inside, below)
  <2> SUFFICES ASSUME NEW c \in Below(s), NEW w \in {v} \cup Members(v), NEW within \in BOOLEAN, Sub(c, within, below)
               PROVE  Agree(c, w, nested, inside)
    BY Zenon DEF CalleesAgree
  <2>1. \A p \in Locations : nested[c][w][p] = {} <=> MeansScalar(c, w)
    BY <1>1, <1>2, <1>5, <1>6, ScalarAtLevel
  <2>2. \A p : Check(c, w, p, nested) = nested[c][w][p]
    BY <1>5 DEF Check
  <2> HIDE DEF nested, inside
  <2> QED BY <1>7, <2>1, <2>2 DEF Agree
<1>10. Conforms(s, v) <=> Means(s, v, inside)
  <2>1. Conforming(parts)[Stack][s][v] = (Stack > 0 /\ Means(Target(s), v, Conforming(parts)[Stack - 1]))
    BY <1>1, <1>2, ConformingUnfold
  <2>2. Means(s, v, inside) \in BOOLEAN
    BY Zenon DEF Means
  <2>3. Conforms(s, v) = Conforming(parts)[Stack][s][v]
    BY Unfolds, Zenon DEF parts
  <2> QED BY <1>1, <1>3, <2>1, <2>2, <2>3 DEF n
<1>11. ASSUME NEW at \in Locations PROVE ValidateValue(s, v, at) = {} <=> Means(s, v, inside)
  <2>1. Errors(parts)[Stack][s][v][at] = IF Stack = 0 THEN {} ELSE ErrorsOf(s, v, at, Errors(parts)[Stack - 1])
    BY <1>1, <1>2, ErrorsUnfold
  <2>2. ValidateValue(s, v, at) = Errors(parts)[Stack][s][v][at]
    BY Unfolds, Zenon DEF parts
  <2>3. ValidateValue(s, v, at) = ErrorsOf(s, v, at, nested)
    BY <1>1, <2>1, <2>2 DEF n
  <2>4. ErrorsOf(s, v, at, nested) = {} <=> Means(s, v, inside)
    <3> HIDE DEF nested, inside, below
    <3> QED BY <1>4, <1>8, <1>9, VerdictOfOneLevel
  <2> QED BY <2>3, <2>4
<1> HIDE DEF inside
<1> QED BY <1>7, <1>10, <1>11

-----------------------------------------------------------------------------
(* A list of single values.                                                *)

\* Every value that is written like v, with what is in it.
Said(v) == UNION {{r} \cup Members(r) : r \in Readings(v)}

ListOf(s) == Kind(s) = "array" /\ Has(s, "items") /\ Kind(s.items) \in ScalarKinds

ListMeans(s, f) ==
    /\ Len(f) >= Get(s, "minItems", 0)
    /\ Has(s, "maxItems") => Len(f) <= s.maxItems
    /\ Flag(s, "uniqueItems") => NoRepeats(f)
    /\ \A i \in DOMAIN f : MeansScalar(s.items, f[i])

LEMMA ListVerdict ==
    ASSUME NEW s \in Schemas, NEW values, Enforced(s, values), ListOf(s), NEW f, f \in Seq(Range(f)),
           {Arr(f)} \cup Range(f) \subseteq values,
           \A i \in DOMAIN f : JsonValue(f[i]) /\ ~Is(f[i], "null")
    PROVE  /\ Conforms(s, Arr(f)) <=> ListMeans(s, f)
           /\ \A at \in Locations : ValidateValue(s, Arr(f), at) = {} <=> ListMeans(s, f)
<1> DEFINE v == Arr(f)
<1>1. Is(v, "arr") /\ v.arr = f /\ ~Is(v, "null") /\ JsonValue(v)
  BY DEF Arr, Is, JsonValue
<1>2. Members(v) = Range(f)
  BY <1>1 DEF Members
<1> HIDE DEF v
<1>3. \A w \in {v} \cup Members(v) : JsonValue(w) /\ ~Is(w, "null")
  BY <1>1, <1>2 DEF Range
<1>4. DOMAIN s \ Annotations \subseteq TypeKeywords("array")
  BY KindKeywords DEF ListOf, Types
<1>5. ~Has(s, "ref") /\ ~Has(s, "properties") /\ ~Has(s, "additionalProperties") /\ ~Has(s, "not")
      /\ ~Has(s, "oneOf") /\ ~Has(s, "anyOf") /\ ~Has(s, "allOf")
  BY <1>4 DEF TypeKeywords, Annotations, Has
<1>6. Below(s) = {s.items}
  <2>1. DOMAIN Properties(s) = {}
    BY <1>5 DEF Properties, Get
  <2>2. {"oneOf", "anyOf", "allOf"} \cap DOMAIN s = {} /\ {"items", "not"} \cap DOMAIN s = {"items"}
    BY <1>5 DEF ListOf, Has
  <2>3. {x \in {Get(s, "additionalProperties", [allowed |-> TRUE])} : ~Has(x, "allowed")} = {}
    BY <1>5 DEF Get, Has
  <2> QED BY <2>1, <2>2, <2>3 DEF Below
<1>7. Flat(s)
  BY <1>6 DEF Flat, ListOf
<1>8. PICK inside : /\ Conforms(s, v) <=> Means(s, v, inside)
                    /\ \A at \in Locations : ValidateValue(s, v, at) = {} <=> Means(s, v, inside)
                    /\ \A c \in Below(s), w \in {v} \cup Members(v) : inside[c][w] <=> MeansScalar(c, w)
  BY <1>2, <1>3, <1>5, <1>7, FlatVerdict DEF v
<1>9. Means(s, v, inside) <=> ListMeans(s, f)
  <2>1. \A i \in DOMAIN f : inside[s.items][f[i]] <=> MeansScalar(s.items, f[i])
    BY <1>2, <1>6, <1>8 DEF Range
  <2>2. Means(s, v, inside) <=>
               /\ Len(f) >= Get(s, "minItems", 0)
               /\ Has(s, "maxItems") => Len(f) <= s.maxItems
               /\ Flag(s, "uniqueItems") => NoRepeats(f)
               /\ \A i \in DOMAIN f : inside[s.items][f[i]]
    BY <1>1, MeansOfArray DEF ListOf
  <2> QED BY <2>1, <2>2 DEF ListMeans
<1> QED BY <1>8, <1>9 DEF v

\* If the server takes each text for what settles it, then it accepts the list if and only if
\* some list that is written like it conforms.
LEMMA TextsOfList ==
    ASSUME NEW s \in Schemas, NEW values, Enforced(s, values), ListOf(s),
           Flag(s, "uniqueItems") => Kind(s.items) # "number",
           NEW v, JsonValue(v), Is(v, "arr"), Said(v) \subseteq values, NEW at \in Locations
    PROVE  ValidateValue(s, Arr([i \in DOMAIN v.arr |-> CoerceOrKeep(TextOf(v.arr[i]), {s.items})]), at) = {}
               <=> \E w \in Readings(v) : Conforms(s, w)
<1> DEFINE text(i) == TextOf(v.arr[i])
           readings == [i \in DOMAIN v.arr |-> ReadText(text(i))]
           d == [i \in DOMAIN v.arr |-> CoerceOrKeep(text(i), {s.items})]
<1>1. Readings(v) = {Arr(f) : f \in Picks(readings)}
  <2>1. ~Is(v, "obj")
    BY OneForm
  <2> QED BY <2>1, Zenon DEF Readings
<1>2. PICK n \in Nat : DOMAIN v.arr = 1 .. n
  BY OneForm
<1> HIDE DEF text
<1>3. \A f : f \in Picks(readings) =>
          DOMAIN f = 1 .. n /\ f = [i \in 1 .. n |-> f[i]] /\ \A i \in 1 .. n : f[i] \in ReadText(text(i))
  BY <1>2 DEF Picks
<1>4. \A f : (f = [i \in 1 .. n |-> f[i]] /\ \A i \in 1 .. n : f[i] \in ReadText(text(i))) => f \in Picks(readings)
  <2> SUFFICES ASSUME NEW f, f = [i \in 1 .. n |-> f[i]], \A i \in 1 .. n : f[i] \in ReadText(text(i))
               PROVE  f \in Picks(readings)
    OBVIOUS
  <2>1. DOMAIN readings = 1 .. n /\ \A i \in 1 .. n : f[i] \in readings[i]
    BY <1>2
  <2>2. f \in [DOMAIN readings -> UNION {readings[k] : k \in DOMAIN readings}]
    BY <2>1
  <2> QED BY <2>1, <2>2 DEF Picks
<1>5. ASSUME NEW f \in Picks(readings)
      PROVE  /\ f \in Seq(Range(f)) /\ Len(f) = n /\ DOMAIN f = 1 .. n
             /\ \A i \in DOMAIN f : JsonValue(f[i]) /\ ~Is(f[i], "null")
             /\ {Arr(f)} \cup Range(f) \subseteq values
  <2>1. DOMAIN f = 1 .. n /\ f = [i \in 1 .. n |-> f[i]]
    BY <1>3
  <2>2. f \in [1 .. n -> Range(f)]
    BY <2>1 DEF Range
  <2>3. f \in Seq(Range(f)) /\ Len(f) = n
    BY <2>1, <2>2
  <2>4. Arr(f) \in Readings(v) /\ Members(Arr(f)) = Range(f)
    BY <1>1 DEF Members, Is, Arr
  <2> QED BY <1>3, <2>1, <2>3, <2>4, ReadingsAreJson DEF Said
<1>6. \A f \in Picks(readings) : (Conforms(s, Arr(f)) <=> ListMeans(s, f))
                                 /\ (ValidateValue(s, Arr(f), at) = {} <=> ListMeans(s, f))
  BY <1>5, ListVerdict
<1>7. d \in Picks(readings)
  <2>1. \A i \in 1 .. n : d[i] \in ReadText(text(i))
    BY <1>2, KeptText DEF ListOf, Settles
  <2>2. d = [i \in 1 .. n |-> d[i]]
    BY <1>2
  <2> QED BY <1>4, <2>1, <2>2
<1>8. ASSUME NEW f \in Picks(readings), ListMeans(s, f) PROVE ListMeans(s, d)
  <2>1. \A i \in 1 .. n : f[i] \in ReadText(text(i)) /\ MeansScalar(s.items, f[i])
    BY <1>3, <1>5, <1>8 DEF ListMeans
  <2>2. \A i \in 1 .. n : MeansScalar(s.items, d[i])
    BY <1>2, <2>1, KeptText DEF ListOf, Settles
  <2>3. Len(d) = Len(f) /\ DOMAIN d = 1 .. n
    BY <1>5, <1>7
  <2>4. Flag(s, "uniqueItems") => d = f
    <3> SUFFICES ASSUME Flag(s, "uniqueItems") PROVE d = f
      OBVIOUS
    <3>1. \A i \in 1 .. n : d[i] = f[i]
      BY <1>2, <2>1, KeptText DEF ListOf
    <3>2. d = [i \in 1 .. n |-> d[i]] /\ f = [i \in 1 .. n |-> f[i]]
      BY <1>3, <1>7
    <3> QED BY <3>1, <3>2
  <2> HIDE DEF d
  <2> QED BY <1>8, <2>2, <2>3, <2>4 DEF ListMeans
<1> HIDE DEF d, readings
<1>9. ValidateValue(s, Arr(d), at) = {} <=> \E w \in Readings(v) : Conforms(s, w)
  BY <1>1, <1>6, <1>7, <1>8
<1> QED BY <1>9 DEF d, text

-----------------------------------------------------------------------------
(* A map of single values.                                                 *)

Typed(s) == Has(s, "additionalProperties") /\ ~Has(s.additionalProperties, "allowed")

MapOf(s) ==
    /\ Kind(s) = "object"
    /\ \A k \in DOMAIN Properties(s) : Kind(s.properties[k]) \in ScalarKinds
    /\ Typed(s) => Kind(s.additionalProperties) \in ScalarKinds

MapMeans(s, f) ==
    /\ Required(s) \subseteq DOMAIN f
    /\ \A k \in DOMAIN f \cap DOMAIN Properties(s) : MeansScalar(s.properties[k], f[k])
    /\ Has(s, "additionalProperties") =>
           \A k \in Outside(s, f) :
               IF Has(s.additionalProperties, "allowed")
               THEN s.additionalProperties.allowed
               ELSE MeansScalar(s.additionalProperties, f[k])

LEMMA MapVerdict ==
    ASSUME NEW s \in Schemas, NEW values, Enforced(s, values), MapOf(s), NEW f, {Obj(f)} \cup Range(f) \subseteq values,
           IsFiniteSet(DOMAIN f), DOMAIN f \subseteq Range(KeyOrder),
           \A k \in DOMAIN f : JsonValue(f[k]) /\ ~Is(f[k], "null")
    PROVE  /\ Conforms(s, Obj(f)) <=> MapMeans(s, f)
           /\ \A at \in Locations : ValidateValue(s, Obj(f), at) = {} <=> MapMeans(s, f)
<1> DEFINE v == Obj(f)
<1>1. Is(v, "obj") /\ v.obj = f /\ ~Is(v, "null") /\ JsonValue(v)
  BY DEF Obj, Is, JsonValue
<1>2. Members(v) = Range(f)
  BY <1>1, OneForm DEF Members
<1> HIDE DEF v
<1>3. \A w \in {v} \cup Members(v) : JsonValue(w) /\ ~Is(w, "null")
  BY <1>1, <1>2 DEF Range
<1>4. DOMAIN s \ Annotations \subseteq TypeKeywords("object")
  BY KindKeywords DEF MapOf, Types
<1>5. ~Has(s, "ref") /\ ~Has(s, "items") /\ ~Has(s, "not") /\ ~Has(s, "oneOf") /\ ~Has(s, "anyOf") /\ ~Has(s, "allOf")
  BY <1>4 DEF TypeKeywords, Annotations, Has
<1>6. Flat(s)
  <2>1. {"oneOf", "anyOf", "allOf"} \cap DOMAIN s = {} /\ {"items", "not"} \cap DOMAIN s = {}
    BY <1>5 DEF Has
  <2>2. \A x \in {y \in {Get(s, "additionalProperties", [allowed |-> TRUE])} : ~Has(y, "allowed")} :
            Typed(s) /\ x = s.additionalProperties
    BY DEF Get, Has, Typed
  <2>3. \A c \in Below(s) : (\E k \in DOMAIN Properties(s) : c = s.properties[k]) \/ (Typed(s) /\ c = s.additionalProperties)
    BY <2>1, <2>2 DEF Below
  <2> QED BY <2>3, Zenon DEF Flat, MapOf
<1>7. PICK inside : /\ Conforms(s, v) <=> Means(s, v, inside)
                    /\ \A at \in Locations : ValidateValue(s, v, at) = {} <=> Means(s, v, inside)
                    /\ \A c \in Below(s), w \in {v} \cup Members(v) : inside[c][w] <=> MeansScalar(c, w)
  BY <1>2, <1>3, <1>5, <1>6, FlatVerdict DEF v
<1>8. ~Has(s, "minProperties") /\ ~Has(s, "maxProperties")
  <2>1. Resolved(s) = {s}
    BY <1>5 DEF Resolved
  <2>2. Enforcing(values)[Stack][s][FALSE]
    BY <2>1, Unfolds, Zenon
  <2>3. Stack \in 0 .. Stack /\ Stack # 0
    BY StackAssumption
  <2>4. EnforcedIn(s, FALSE, values, Enforcing(values)[Stack - 1])
    BY <2>2, <2>3, EnforcingOutside, Zenon
  <2>5. Kind(s) = "object"
    BY DEF MapOf
  <2> QED BY <2>4, <2>5, EnforcedByKind
<1>9. Means(s, v, inside) <=>
               /\ Required(s) \subseteq DOMAIN f
               /\ \A k \in DOMAIN f \cap DOMAIN Properties(s) : inside[s.properties[k]][f[k]]
               /\ Has(s, "additionalProperties") =>
                      \A k \in Outside(s, f) :
                          IF Has(s.additionalProperties, "allowed")
                          THEN s.additionalProperties.allowed
                          ELSE inside[s.additionalProperties][f[k]]
  BY <1>1, <1>8, MeansOfObject DEF MapOf
<1>10. \A k \in DOMAIN f \cap DOMAIN Properties(s) : inside[s.properties[k]][f[k]] <=> MeansScalar(s.properties[k], f[k])
  BY <1>2, <1>7, BelowByKind DEF Range
<1>11. Typed(s) => \A k \in Outside(s, f) : inside[s.additionalProperties][f[k]] <=> MeansScalar(s.additionalProperties, f[k])
  <2>1. Typed(s) => s.additionalProperties \in Below(s)
    BY BelowByKind DEF Typed
  <2> QED BY <1>2, <1>7, <2>1 DEF Range, Outside
<1>12. Means(s, v, inside) <=> MapMeans(s, f)
  BY <1>9, <1>10, <1>11 DEF MapMeans, Typed
<1> QED BY <1>7, <1>12 DEF v

\* If each text becomes what settles it under the schema of its key, then the map is accepted
\* if and only if some map that is written like it conforms.
LEMMA TextsOfMap ==
    ASSUME NEW s \in Schemas, NEW values, Enforced(s, values), MapOf(s), NEW v, JsonValue(v), Is(v, "obj"),
           Said(v) \subseteq values, NEW d, d = [k \in DOMAIN v.obj |-> d[k]], NEW at \in Locations,
           \A k \in DOMAIN v.obj : d[k] \in ReadText(TextOf(v.obj[k])),
           \A k \in DOMAIN v.obj \cap DOMAIN Properties(s) : Settles(s.properties[k], TextOf(v.obj[k]), d[k]),
           Typed(s) => \A k \in Outside(s, v.obj) : Settles(s.additionalProperties, TextOf(v.obj[k]), d[k])
    PROVE  ValidateValue(s, Obj(d), at) = {} <=> \E w \in Readings(v) : Conforms(s, w)
<1> DEFINE text(k) == TextOf(v.obj[k])
           readings == [k \in DOMAIN v.obj |-> ReadText(text(k))]
           keys == DOMAIN v.obj
<1>1. Readings(v) = {Obj(f) : f \in Picks(readings)}
  <2>1. ~Is(v, "arr")
    BY OneForm
  <2> QED BY <2>1, Zenon DEF Readings
<1>2. IsFiniteSet(keys) /\ keys \subseteq Range(KeyOrder)
  BY OneForm DEF JsonValue, Is, Null, Bool, Whole, Float, Str, Arr
<1> HIDE DEF text, keys
<1>3. \A f : f \in Picks(readings) =>
          DOMAIN f = keys /\ \A k \in keys : f[k] \in ReadText(text(k))
  BY DEF Picks, keys
<1>4. d \in Picks(readings) /\ DOMAIN d = keys
  <2>1. DOMAIN readings = keys /\ \A k \in keys : d[k] \in readings[k]
    BY DEF keys, text
  <2>2. d \in [DOMAIN readings -> UNION {readings[k] : k \in DOMAIN readings}]
    BY <2>1 DEF keys
  <2> QED BY <2>1, <2>2 DEF Picks
<1>5. \A f \in Picks(readings) : (Conforms(s, Obj(f)) <=> MapMeans(s, f))
                                 /\ (ValidateValue(s, Obj(f), at) = {} <=> MapMeans(s, f))
  <2> SUFFICES ASSUME NEW f \in Picks(readings)
               PROVE  (Conforms(s, Obj(f)) <=> MapMeans(s, f)) /\ (ValidateValue(s, Obj(f), at) = {} <=> MapMeans(s, f))
    OBVIOUS
  <2>1. DOMAIN f = keys /\ \A k \in keys : JsonValue(f[k]) /\ ~Is(f[k], "null")
    BY <1>3, ReadingsAreJson
  <2> HIDE DEF readings
  <2>2. Members(Obj(f)) = Range(f)
    BY OneForm DEF Members, Is, Obj
  <2>3. {Obj(f)} \cup Range(f) \subseteq values
    BY <1>1, <2>2 DEF Said
  <2> QED BY <1>2, <2>1, <2>3, MapVerdict
<1> HIDE DEF readings
<1>6. ASSUME NEW f \in Picks(readings), MapMeans(s, f) PROVE MapMeans(s, d)
  <2>1. DOMAIN f = keys /\ DOMAIN d = keys /\ Outside(s, f) = keys \ DOMAIN Properties(s)
        /\ Outside(s, d) = keys \ DOMAIN Properties(s) /\ Outside(s, v.obj) = keys \ DOMAIN Properties(s)
    BY <1>3, <1>4 DEF Outside, keys
  <2>2. \A k \in keys : f[k] \in ReadText(text(k))
    BY <1>3
  <2>3. \A k \in keys \cap DOMAIN Properties(s) :
            MeansScalar(s.properties[k], f[k]) => MeansScalar(s.properties[k], d[k])
    BY <2>2 DEF Settles, text, keys
  <2>4. Typed(s) => \A k \in keys \ DOMAIN Properties(s) :
            MeansScalar(s.additionalProperties, f[k]) => MeansScalar(s.additionalProperties, d[k])
    BY <2>1, <2>2 DEF Settles, text
  <2> QED BY <1>6, <2>1, <2>3, <2>4 DEF MapMeans, Typed
<1> QED BY <1>1, <1>4, <1>5, <1>6

-----------------------------------------------------------------------------
(* One text.                                                               *)

\* ValidateSerialised for one schema.
Serialised(s, raw, explode, at) ==
    CASE Kind(s) \in {"array", "object"} -> ValidateValue(s, Decode(s, raw, explode), at)
      [] Kind(s) = "anyOf" -> IF SomeBranchTakes(s.anyOf, raw, explode) THEN {} ELSE AsText(s, raw, at)
      [] Kind(s) = "oneOf" -> IF SomeBranchTakes(s.oneOf, raw, explode) THEN {} ELSE AsText(s, raw, at)
      [] OTHER -> AsText(s, raw, at)

LEMMA TextOfOne == ASSUME NEW t PROVE RawText(<<<<t>>>>) = t
<1> DEFINE raw == <<<<t>>>>
           text == CHOOSE f : f = [i \in DOMAIN raw |->
                       IF i = 1 THEN PieceText(raw[1]) ELSE f[i - 1] \o "," \o PieceText(raw[i])]
<1>1. DOMAIN raw = {1} /\ Len(raw) = 1 /\ raw[1] = <<t>>
  OBVIOUS
<1>2. PieceText(<<t>>) = t
  BY DEF PieceText
<1>3. RawText(raw) = text[Len(raw)]
  BY Zenon DEF RawText
<1> HIDE DEF raw
<1>4. \E f : f = [i \in DOMAIN raw |->
                       IF i = 1 THEN PieceText(raw[1]) ELSE f[i - 1] \o "," \o PieceText(raw[i])]
  <2> DEFINE f == [i \in DOMAIN raw |-> PieceText(raw[1])]
  <2>1. \A i \in DOMAIN raw : i = 1
    BY <1>1
  <2>2. f = [i \in DOMAIN raw |-> IF i = 1 THEN PieceText(raw[1]) ELSE f[i - 1] \o "," \o PieceText(raw[i])]
    BY <2>1, Zenon
  <2> QED BY <2>2, Zenon
<1>5. text = [i \in DOMAIN raw |->
                  IF i = 1 THEN PieceText(raw[1]) ELSE text[i - 1] \o "," \o PieceText(raw[i])]
  BY <1>4, Zenon
<1> HIDE DEF text
<1>6. text[1] = PieceText(raw[1])
  <2>1. 1 \in DOMAIN raw
    BY <1>1
  <2> QED BY <1>5, <2>1, Zenon
<1> QED BY <1>1, <1>2, <1>3, <1>6 DEF raw

\* A single value is accepted by a schema of one if its keywords are met.
LEMMA SingleVerdict ==
    ASSUME NEW s \in Schemas, NEW values, Enforced(s, values), Kind(s) \in ScalarKinds, NEW t, NEW w \in ReadText(t),
           w \in values
    PROVE  /\ Conforms(s, w) <=> MeansScalar(s, w)
           /\ \A at \in Locations : ValidateValue(s, w, at) = {} <=> MeansScalar(s, w)
<1>1. JsonValue(w) /\ ~Is(w, "null") /\ Members(w) = {}
  BY ReadingsAreJson DEF Members
<1>2. ~Has(s, "ref") /\ Below(s) = {}
  <2>1. Kind(s) \in Types /\ DOMAIN s \ Annotations \subseteq TypeKeywords(Kind(s))
    BY KindKeywords DEF ScalarKinds, Types
  <2>2. \A k \in {"properties", "oneOf", "anyOf", "allOf", "items", "not", "additionalProperties"} :
            k \notin TypeKeywords(Kind(s)) /\ k \notin Annotations
    BY DEF ScalarKinds, TypeKeywords, Annotations
  <2>3. \A k \in {"properties", "oneOf", "anyOf", "allOf", "items", "not", "additionalProperties"} : ~Has(s, k)
    BY <2>1, <2>2 DEF Has
  <2>4. DOMAIN Properties(s) = {}
    BY <2>3 DEF Properties, Get
  <2>5. {"oneOf", "anyOf", "allOf"} \cap DOMAIN s = {} /\ {"items", "not"} \cap DOMAIN s = {}
    BY <2>3 DEF Has
  <2>6. {x \in {Get(s, "additionalProperties", [allowed |-> TRUE])} : ~Has(x, "allowed")} = {}
    BY <2>3 DEF Get, Has
  <2> QED BY <2>4, <2>5, <2>6, ScalarsAreNoReferences DEF Below
<1>3. PICK inside : /\ Conforms(s, w) <=> Means(s, w, inside)
                    /\ \A at \in Locations : ValidateValue(s, w, at) = {} <=> Means(s, w, inside)
  <2>1. Flat(s) /\ \A x \in {w} \cup Members(w) : JsonValue(x) /\ ~Is(x, "null")
    BY <1>1, <1>2 DEF Flat
  <2> QED BY <1>1, <1>2, <2>1, FlatVerdict
<1> QED BY <1>1, <1>3, MeansOfScalar

LEMMA TextOfSingle ==
    ASSUME NEW s \in Schemas, NEW values, Enforced(s, values), Kind(s) \in ScalarKinds, NEW t,
           ReadText(t) \subseteq values, NEW explode, NEW at \in Locations
    PROVE  Serialised(s, <<<<t>>>>, explode, at) = {} <=> \E w \in ReadText(t) : Conforms(s, w)
<1> DEFINE raw == <<<<t>>>>
           x == CoerceString(t, s)
<1>1. Serialised(s, raw, explode, at) = AsText(s, raw, at)
  <2>1. Kind(s) \notin {"array", "object"} /\ Kind(s) # "anyOf" /\ Kind(s) # "oneOf"
    BY DEF ScalarKinds
  <2> QED BY <2>1, Zenon DEF Serialised
<1>2. AsText(s, raw, at) = IF x = Overflow THEN {Err(at, "format")} ELSE ValidateValue(s, x, at)
  <2>1. RawText(raw) = t
    BY TextOfOne
  <2> QED BY <2>1, Zenon DEF AsText
<1> HIDE DEF raw, x
<1>3. \A w \in ReadText(t) : Conforms(s, w) <=> MeansScalar(s, w)
  BY SingleVerdict
<1>4. CASE x = Overflow
  <2>1. \A w \in ReadText(t) : ~MeansScalar(s, w)
    BY <1>4, TextOfScalar DEF x
  <2> QED BY <1>1, <1>2, <1>3, <1>4, <2>1 DEF raw
<1>5. CASE x # Overflow
  <2>1. Settles(s, t, x)
    BY <1>5, TextOfScalar DEF x
  <2>2. x \in ReadText(t)
    BY <2>1 DEF Settles
  <2>3. ValidateValue(s, x, at) = {} <=> MeansScalar(s, x)
    BY <2>2, SingleVerdict
  <2>4. (\E w \in ReadText(t) : Conforms(s, w)) <=> MeansScalar(s, x)
    BY <1>3, <2>1, <2>2 DEF Settles
  <2>5. Serialised(s, <<<<t>>>>, explode, at) = ValidateValue(s, x, at)
    BY <1>1, <1>2, <1>5 DEF raw
  <2> QED BY <2>3, <2>4, <2>5
<1> QED BY <1>4, <1>5

\* Of a schema of a single value nothing below it counts.
LEMMA ScalarEnforced ==
    ASSUME NEW c \in Schemas, Kind(c) \in ScalarKinds, NEW values, NEW below, EnforcedIn(c, FALSE, values, below)
    PROVE  Enforced(c, values)
<1>1. ASSUME NEW other PROVE EnforcedIn(c, FALSE, values, other)
  <2>1. /\ Kind(c) # "array" /\ Kind(c) # "object" /\ Kind(c) # "oneOf" /\ Kind(c) # "anyOf"
        /\ Kind(c) # "allOf" /\ Kind(c) # "not" /\ Kind(c) # "any"
    BY DEF ScalarKinds
  <2>2. /\ ~Has(c, "discriminator") /\ ((Kind(c) = "integer" /\ Has(c, "enum")) => \A v \in c.enum : ~Is(v, "float"))
        /\ \A v \in values : Sharp(c, v)
    BY EnforcedByKind
  <2> QED BY <2>1, <2>2, Zenon DEF EnforcedIn
<1>2. Stack \in 0 .. Stack /\ Stack # 0
  BY StackAssumption
<1>3. Enforcing(values)[Stack][c][FALSE]
  BY <1>1, <1>2, EnforcingOutside, Zenon
<1>4. Resolved(c) = {c}
  BY ScalarsAreNoReferences
<1> QED BY <1>3, <1>4, Unfolds, Zenon

\* A text where one of several single values is wanted.
LEMMA TextOfAnyOf ==
    ASSUME NEW s \in Schemas, NEW values, Enforced(s, values), Kind(s) = "anyOf",
           \A i \in DOMAIN s.anyOf : Kind(s.anyOf[i]) \in ScalarKinds,
           NEW t, ReadText(t) \subseteq values, NEW explode, NEW at \in Locations
    PROVE  Serialised(s, <<<<t>>>>, explode, at) = {} <=> \E w \in ReadText(t) : Conforms(s, w)
<1> DEFINE raw == <<<<t>>>>
           takes == SomeBranchTakes(s.anyOf, raw, explode)
           some(w) == \E i \in DOMAIN s.anyOf : MeansScalar(s.anyOf[i], w)
<1>1. Serialised(s, raw, explode, at) = IF takes THEN {} ELSE AsText(s, raw, at)
  <2>1. "anyOf" \notin {"array", "object"} /\ "anyOf" # "oneOf"
    OBVIOUS
  <2> QED BY <2>1, Zenon DEF Serialised
<1>2. RawText(raw) = t
  BY TextOfOne
<1>3. AsText(s, raw, at) = ValidateValue(s, Str(t), at)
  <2>1. "anyOf" \notin Types \cup {"any"} /\ Str(t) # Overflow
    BY DEF Types, Str, Overflow
  <2>2. CoerceString(t, s) = Str(t)
    <3>1. "none" # "integer" /\ "none" # "number" /\ "none" # "boolean"
      OBVIOUS
    <3> QED BY <2>1, <3>1, Zenon DEF CoerceString
  <2> QED BY <1>2, <2>1, <2>2, Zenon DEF AsText
<1>4. ~Has(s, "ref") /\ EnforcedIn(s, FALSE, values, Enforcing(values)[Stack - 1]) /\ Has(s, "anyOf")
  <2>1. DOMAIN s \ Annotations = {"anyOf"}
    BY KindKeywords DEF Compositions
  <2>2. ~Has(s, "ref") /\ Has(s, "anyOf")
    BY <2>1 DEF Annotations, Has
  <2>3. Resolved(s) = {s}
    BY <2>2 DEF Resolved
  <2>4. Enforcing(values)[Stack][s][FALSE]
    BY <2>3, Unfolds, Zenon
  <2>5. Stack \in 0 .. Stack /\ Stack # 0
    BY StackAssumption
  <2> QED BY <2>2, <2>4, <2>5, EnforcingOutside, Zenon
<1>5. ASSUME NEW i \in DOMAIN s.anyOf
      PROVE  /\ s.anyOf[i] \in Below(s) /\ s.anyOf[i] \in Schemas /\ Enforced(s.anyOf[i], values)
             /\ Resolved(s.anyOf[i]) = {s.anyOf[i]} /\ Kind(s.anyOf[i]) \in ScalarKinds
  <2>1. s.anyOf[i] \in Below(s) /\ s.anyOf[i] \in Schemas
    BY <1>4, BelowByKind
  <2>2. Resolved(s.anyOf[i]) = {s.anyOf[i]}
    BY ScalarsAreNoReferences
  <2>3. Enforcing(values)[Stack - 1][s.anyOf[i]][FALSE]
    <3>1. Sub(s.anyOf[i], FALSE, Enforcing(values)[Stack - 1])
      BY <1>4, EnforcedByKind
    <3> QED BY <2>2, <3>1 DEF Sub
  <2>4. EnforcedIn(s.anyOf[i], FALSE, values, Enforcing(values)[(Stack - 1) - 1])
    <3>1. Stack - 1 \in 0 .. Stack /\ Stack - 1 # 0
      BY StackAssumption
    <3> QED BY <2>1, <2>3, <3>1, EnforcingOutside, Zenon
  <2> QED BY <2>1, <2>2, <2>4, ScalarEnforced
<1>6. Flat(s)
  <2>1. DOMAIN s \ Annotations = {"anyOf"}
    BY KindKeywords DEF Compositions
  <2>2. ~Has(s, "properties") /\ ~Has(s, "oneOf") /\ ~Has(s, "allOf") /\ ~Has(s, "items") /\ ~Has(s, "not")
        /\ ~Has(s, "additionalProperties")
    BY <2>1 DEF Annotations, Has
  <2>3. DOMAIN Properties(s) = {}
    BY <2>2 DEF Properties, Get
  <2>4. {"oneOf", "anyOf", "allOf"} \cap DOMAIN s = {"anyOf"} /\ {"items", "not"} \cap DOMAIN s = {}
    BY <1>4, <2>2 DEF Has
  <2>5. {x \in {Get(s, "additionalProperties", [allowed |-> TRUE])} : ~Has(x, "allowed")} = {}
    BY <2>2 DEF Get, Has
  <2>6. \A c \in Below(s) : \E i \in DOMAIN s.anyOf : c = s.anyOf[i]
    BY <2>3, <2>4, <2>5 DEF Below
  <2> QED BY <2>6, Zenon DEF Flat
<1>7. ASSUME NEW w \in ReadText(t)
      PROVE  /\ Conforms(s, w) <=> some(w)
             /\ ValidateValue(s, w, at) = {} <=> some(w)
  <2>1. JsonValue(w) /\ ~Is(w, "null") /\ Members(w) = {}
    BY ReadingsAreJson DEF Members
  <2>2. PICK inside : /\ Conforms(s, w) <=> Means(s, w, inside)
                      /\ \A p \in Locations : ValidateValue(s, w, p) = {} <=> Means(s, w, inside)
                      /\ \A c \in Below(s), x \in {w} \cup Members(w) : inside[c][x] <=> MeansScalar(c, x)
    BY <1>4, <1>6, <2>1, FlatVerdict
  <2>3. Means(s, w, inside) <=> \E i \in DOMAIN s.anyOf : inside[s.anyOf[i]][w]
    <3>1. Kind(s) \in Compositions
      BY DEF Compositions
    <3> QED BY <2>1, <3>1, MeansComposition, Zenon
  <2>4. Means(s, w, inside) <=> some(w)
    BY <1>5, <2>2, <2>3
  <2> QED BY <2>2, <2>4
<1>8. takes <=> \E w \in ReadText(t) : some(w)
  <2>1. takes <=> \E i \in DOMAIN s.anyOf : \E r \in Resolved(s.anyOf[i]) :
                     Decode(r, raw, explode) # Overflow /\ ValidateValue(r, Decode(r, raw, explode), <<"_">>) = {}
    BY Zenon DEF SomeBranchTakes
  <2>2. <<"_">> \in Locations
    BY PlaceOfOne, LiteralAssumption, Zenon
  <2>3. ASSUME NEW i \in DOMAIN s.anyOf
        PROVE  (Decode(s.anyOf[i], raw, explode) # Overflow
                   /\ ValidateValue(s.anyOf[i], Decode(s.anyOf[i], raw, explode), <<"_">>) = {})
               <=> \E w \in ReadText(t) : MeansScalar(s.anyOf[i], w)
    <3> DEFINE c == s.anyOf[i]
               x == CoerceString(t, c)
               here == <<"_">>
    <3> HIDE DEF c, here
    <3>1. c \in Schemas /\ Enforced(c, values) /\ Kind(c) \in ScalarKinds
      BY <1>5 DEF c
    <3>2. Decode(c, raw, explode) = x
      <4>1. Kind(c) # "array" /\ Kind(c) # "object"
        BY <3>1 DEF ScalarKinds
      <4> QED BY <1>2, <4>1, Zenon DEF Decode
    <3> HIDE DEF x
    <3>3. CASE x = Overflow
      BY <3>1, <3>2, <3>3, TextOfScalar DEF x, c
    <3>4. CASE x # Overflow
      <4>1. Settles(c, t, x)
        BY <3>1, <3>4, TextOfScalar DEF x
      <4>2. ValidateValue(c, x, here) = {} <=> MeansScalar(c, x)
        BY <2>2, <3>1, <4>1, SingleVerdict DEF Settles, here
      <4>3. MeansScalar(c, x) <=> \E w \in ReadText(t) : MeansScalar(c, w)
        BY <4>1 DEF Settles
      <4> QED BY <3>2, <3>4, <4>2, <4>3 DEF c, here
    <3> QED BY <3>3, <3>4
  <2>4. \A i \in DOMAIN s.anyOf : \A r : r \in Resolved(s.anyOf[i]) <=> r = s.anyOf[i]
    BY <1>5
  <2> DEFINE good(r) == Decode(r, raw, explode) # Overflow /\ ValidateValue(r, Decode(r, raw, explode), <<"_">>) = {}
  <2> HIDE DEF takes, good
  <2>5. takes <=> \E i \in DOMAIN s.anyOf : good(s.anyOf[i])
    BY <2>1, <2>4, Zenon DEF good
  <2>6. \A i \in DOMAIN s.anyOf : good(s.anyOf[i]) <=> \E w \in ReadText(t) : MeansScalar(s.anyOf[i], w)
    BY <2>3, Zenon DEF good
  <2> QED BY <2>5, <2>6
<1>9. Str(t) \in ReadText(t)
  BY ReadingForms
<1> HIDE DEF takes, some, raw
<1>10. CASE takes
  BY <1>1, <1>7, <1>8, <1>10 DEF raw
<1>11. CASE ~takes
  <2>1. Serialised(s, <<<<t>>>>, explode, at) = ValidateValue(s, Str(t), at)
    BY <1>1, <1>3, <1>11 DEF raw
  <2> QED BY <1>7, <1>8, <1>9, <1>11, <2>1
<1> QED BY <1>10, <1>11

-----------------------------------------------------------------------------
(* The keys of a map, in order.                                            *)

NextKeys(i, before, keys) ==
    IF i = 0 THEN << >> ELSE IF KeyOrder[i] \in keys THEN Append(before, KeyOrder[i]) ELSE before
KeysUpTo(keys) == CHOOSE f : f = [i \in 0 .. Len(KeyOrder) |-> NextKeys(i, f[i - 1], keys)]

LEMMA KeysUpToExist ==
    ASSUME NEW keys, NEW n \in Nat
    PROVE  \E f : f = [i \in 0 .. n |-> NextKeys(i, f[i - 1], keys)]
<1> DEFINE Stage(i, before) == NextKeys(i, before, keys)
           Upto(f, m) == f = [i \in 0 .. m |-> Stage(i, f[i - 1])]
           T == {m \in Nat : \E f : Upto(f, m)}
<1>1. \A x, y : Stage(0, x) = Stage(0, y)
  BY DEF NextKeys
<1> HIDE DEF Stage
<1>2. 0 \in T
  <2> DEFINE f == [i \in 0 .. 0 |-> Stage(0, 0)]
  <2>1. \A i \in 0 .. 0 : f[i] = Stage(i, f[i - 1])
    BY <1>1
  <2>2. Upto(f, 0)
    BY <2>1
  <2> QED BY <2>2
<1>3. ASSUME NEW m \in T PROVE m + 1 \in T
  <2>1. PICK f : Upto(f, m)
    OBVIOUS
  <2> DEFINE g == [i \in 0 .. m + 1 |-> IF i = m + 1 THEN Stage(i, f[m]) ELSE f[i]]
  <2>2. m \in Nat
    OBVIOUS
  <2>3. ASSUME NEW i \in 0 .. m + 1 PROVE g[i] = Stage(i, g[i - 1])
    <3>1. CASE i = 0
      BY <1>1, <2>1, <2>2, <3>1
    <3>2. CASE i \in 1 .. m
      BY <2>1, <2>2, <3>2
    <3>3. CASE i = m + 1
      BY <2>2, <3>3
    <3> QED BY <2>2, <3>1, <3>2, <3>3
  <2>4. Upto(g, m + 1)
    BY <2>3
  <2>5. \E h : Upto(h, m + 1)
    <3> HIDE DEF g, Upto
    <3> QED BY <2>4
  <2> QED BY <2>2, <2>5
<1>4. T = Nat
  <2> HIDE DEF T
  <2>1. T \in SUBSET Nat
    BY DEF T
  <2> QED BY <1>2, <1>3, <2>1, NatInduct
<1> QED BY <1>4 DEF Stage

\* Each key once, and no other.
LEMMA InOrderIsExact ==
    ASSUME NEW keys, keys \subseteq Range(KeyOrder)
    PROVE  /\ Len(InOrder(keys)) \in Nat /\ DOMAIN InOrder(keys) = 1 .. Len(InOrder(keys))
           /\ NoRepeats(InOrder(keys))
           /\ {InOrder(keys)[i] : i \in DOMAIN InOrder(keys)} = keys
<1> DEFINE total == Len(KeyOrder)
           all == Range(KeyOrder)
           upTo == KeysUpTo(keys)
           Right(n, seq) == /\ seq \in Seq(all) /\ NoRepeats(seq)
                            /\ Range(seq) = {KeyOrder[j] : j \in 1 .. n} \cap keys
           T == {n \in Nat : n <= total => Right(n, upTo[n])}
<1>1. total \in Nat /\ DOMAIN KeyOrder = 1 .. total /\ \A j \in 1 .. total : KeyOrder[j] \in all
  BY KeyAssumption DEF Range
<1>2. \A n \in 0 .. total : upTo[n] = NextKeys(n, upTo[n - 1], keys)
  <2>1. upTo = [i \in 0 .. total |-> NextKeys(i, upTo[i - 1], keys)]
    BY <1>1, KeysUpToExist, Zenon DEF KeysUpTo
  <2> HIDE DEF upTo
  <2> QED BY <2>1
<1> HIDE DEF upTo, all
<1>3. 0 \in T
  <2>1. upTo[0] = << >>
    BY <1>1, <1>2 DEF NextKeys
  <2>2. << >> \in Seq(all) /\ DOMAIN << >> = {} /\ NoRepeats(<< >>)
    BY DEF NoRepeats
  <2>3. Range(<< >>) = {} /\ {KeyOrder[j] : j \in 1 .. 0} = {}
    BY <2>2 DEF Range
  <2> QED BY <2>1, <2>2, <2>3
<1>4. ASSUME NEW n \in T PROVE n + 1 \in T
  <2> SUFFICES ASSUME n + 1 <= total PROVE Right(n + 1, upTo[n + 1])
    OBVIOUS
  <2> DEFINE seq == upTo[n]
             key == KeyOrder[n + 1]
  <2>1. n \in Nat /\ Right(n, seq) /\ n + 1 \in 0 .. total /\ n + 1 \in 1 .. total /\ (n + 1) - 1 = n /\ n + 1 # 0
    BY <1>1
  <2>2. upTo[n + 1] = IF key \in keys THEN Append(seq, key) ELSE seq
    <3>1. upTo[n + 1] = NextKeys(n + 1, upTo[(n + 1) - 1], keys)
      BY <1>2, <2>1
    <3> QED BY <2>1, <3>1 DEF NextKeys
  <2>3. {KeyOrder[j] : j \in 1 .. n + 1} = {KeyOrder[j] : j \in 1 .. n} \cup {key}
    <3>1. 1 .. n + 1 = (1 .. n) \cup {n + 1}
      BY <2>1
    <3> QED BY <3>1
  <2>4. key \notin {KeyOrder[j] : j \in 1 .. n}
    <3>1. \A j \in 1 .. n : j \in 1 .. total /\ j # n + 1
      BY <1>1, <2>1
    <3> QED BY <1>1, <2>1, <3>1, KeyAssumption DEF NoRepeats
  <2>5. key \in all
    BY <1>1, <2>1
  <2> HIDE DEF seq, key, total
  <2>6. CASE key \in keys
    <3> DEFINE longer == Append(seq, key)
    <3>1. /\ longer \in Seq(all) /\ Len(longer) = Len(seq) + 1 /\ longer[Len(seq) + 1] = key
          /\ DOMAIN longer = 1 .. Len(seq) + 1 /\ DOMAIN seq = 1 .. Len(seq) /\ Len(seq) \in Nat
          /\ \A i \in 1 .. Len(seq) : longer[i] = seq[i]
      BY <2>1, <2>5
    <3> HIDE DEF longer
    <3>2. 1 .. Len(seq) + 1 = (1 .. Len(seq)) \cup {Len(seq) + 1}
      BY <3>1
    <3>3. Range(longer) = Range(seq) \cup {key}
      BY <3>1, <3>2 DEF Range
    <3>4. key \notin Range(seq)
      BY <2>1, <2>4
    <3>5. NoRepeats(longer)
      BY <2>1, <3>1, <3>2, <3>4 DEF NoRepeats, Range
    <3>6. Range(longer) = {KeyOrder[j] : j \in 1 .. n + 1} \cap keys
      BY <2>1, <2>3, <2>6, <3>3
    <3> QED BY <2>2, <2>6, <3>1, <3>5, <3>6 DEF longer
  <2>7. CASE key \notin keys
    <3>1. Range(seq) = {KeyOrder[j] : j \in 1 .. n + 1} \cap keys
      BY <2>1, <2>3, <2>7
    <3> QED BY <2>1, <2>2, <2>7, <3>1
  <2> QED BY <2>6, <2>7
<1>5. T = Nat
  <2> HIDE DEF T
  <2>1. T \in SUBSET Nat
    BY DEF T
  <2> QED BY <1>3, <1>4, <2>1, NatInduct
<1>6. Right(total, upTo[total])
  <2>1. total \in T
    BY <1>1, <1>5
  <2> QED BY <1>1, <2>1
<1>7. InOrder(keys) = upTo[total]
  BY Zenon DEF InOrder, KeysUpTo, NextKeys, upTo
<1>8. {KeyOrder[j] : j \in 1 .. total} \cap keys = keys
  BY <1>1 DEF Range
<1> QED BY <1>6, <1>7, <1>8 DEF Range

-----------------------------------------------------------------------------
(* What the server reads of the texts of a value.                          *)

TextsOf(v) == Obj([k \in DOMAIN v.obj |-> Str(TextOf(v.obj[k]))])

LEMMA PieceOfOne == \A t : PieceText(<<t>>) = t
<1>1. \A t : Len(<<t>>) = 1 /\ <<t>>[1] = t
  OBVIOUS
<1> QED BY <1>1, Zenon DEF PieceText

LEMMA DecodedList ==
    ASSUME NEW s, ListOf(s), NEW v, JsonValue(v), Is(v, "arr"), NEW explode,
           RawOf(v, explode) = Nothing => v.arr = << >>
    PROVE  Decode(s, RawOf(v, explode), explode) =
               Arr([i \in DOMAIN v.arr |-> CoerceOrKeep(TextOf(v.arr[i]), {s.items})])
<1> DEFINE raw == RawOf(v, explode)
           text(i) == TextOf(v.arr[i])
<1>1. raw = IF v.arr = << >> THEN Nothing ELSE [i \in DOMAIN v.arr |-> <<text(i)>>]
  BY OneForm, Zenon DEF RawOf
<1>2. Resolved(s.items) = {s.items} /\ Has(s, "items")
  BY ScalarsAreNoReferences DEF ListOf
<1>3. Decode(s, raw, explode) = CoerceArray(s, raw)
  BY Zenon DEF Decode, ListOf
<1>4. CoerceArray(s, raw) =
          IF raw = Nothing THEN Arr(<< >>)
          ELSE Arr([i \in DOMAIN raw |-> CoerceOrKeep(PieceText(raw[i]), {s.items})])
  BY <1>2, Zenon DEF CoerceArray
<1> HIDE DEF raw, text
<1>5. CASE raw = Nothing
  <2>1. v.arr = << >>
    BY <1>5 DEF raw
  <2>2. [i \in DOMAIN v.arr |-> CoerceOrKeep(TextOf(v.arr[i]), {s.items})] = << >>
    BY <2>1
  <2> QED BY <1>3, <1>4, <1>5, <2>2 DEF raw
<1>6. CASE raw # Nothing
  <2>1. raw = [i \in DOMAIN v.arr |-> <<text(i)>>]
    BY <1>1, <1>6
  <2>2. DOMAIN raw = DOMAIN v.arr /\ \A i \in DOMAIN v.arr : raw[i] = <<text(i)>>
    BY <2>1
  <2>3. \A i \in DOMAIN v.arr : PieceText(raw[i]) = text(i)
    BY <2>2, PieceOfOne
  <2>4. [i \in DOMAIN raw |-> CoerceOrKeep(PieceText(raw[i]), {s.items})] =
        [i \in DOMAIN v.arr |-> CoerceOrKeep(text(i), {s.items})]
    BY <2>2, <2>3
  <2> QED BY <1>3, <1>4, <1>6, <2>4 DEF raw, text
<1> QED BY <1>5, <1>6

LEMMA KeysOfMap ==
    ASSUME NEW v, JsonValue(v), Is(v, "obj")
    PROVE  DOMAIN v.obj \subseteq Range(KeyOrder) /\ ~Is(v, "arr")
  BY OneForm DEF JsonValue, Is, Null, Bool, Whole, Float, Str, Arr

LEMMA EveryOther ==
    ASSUME NEW m \in Nat
    PROVE  /\ \A n \in 1 .. m : /\ 2 * n - 1 \in 1 .. 2 * m /\ (2 * n - 1) % 2 = 1
                              /\ ((2 * n - 1) + 1) \div 2 = n /\ 2 * n - 1 # 2 * m
                              /\ (2 * n - 1) + 1 \in 1 .. 2 * m /\ ((2 * n - 1) + 1) % 2 # 1
           /\ \A i \in 1 .. 2 * m : i % 2 = 1 => (i + 1) \div 2 \in 1 .. m /\ i = 2 * ((i + 1) \div 2) - 1
<1>1. ASSUME NEW n \in 1 .. m
      PROVE  /\ 2 * n - 1 \in 1 .. 2 * m /\ (2 * n - 1) % 2 = 1
             /\ ((2 * n - 1) + 1) \div 2 = n /\ 2 * n - 1 # 2 * m
             /\ (2 * n - 1) + 1 \in 1 .. 2 * m /\ ((2 * n - 1) + 1) % 2 # 1
  <2>1. n \in Int /\ (2 * n - 1) + 1 = 2 * n /\ 2 * n - 1 \in 1 .. 2 * m /\ 2 * n \in 1 .. 2 * m /\ 2 * n - 1 # 2 * m
    OBVIOUS
  <2>2. (2 * n) \div 2 = n
    BY <2>1
  <2>3. (2 * n) % 2 = 0
    BY <2>1
  <2>4. (2 * n - 1) % 2 = 1
    BY <2>1
  <2> QED BY <2>1, <2>2, <2>3, <2>4
<1>2. \A i \in 1 .. 2 * m : i % 2 = 1 => (i + 1) \div 2 \in 1 .. m /\ i = 2 * ((i + 1) \div 2) - 1
  OBVIOUS
<1> QED BY <1>1, <1>2

\* key=value or key,value, of every member.
LEMMA DecodedMap ==
    ASSUME NEW s, Kind(s) = "object", NEW v, JsonValue(v), Is(v, "obj"), NEW explode \in BOOLEAN
    PROVE  Decode(s, RawOf(v, explode), explode) = TextsOf(v)
<1> DEFINE raw == RawOf(v, explode)
           keys == InOrder(DOMAIN v.obj)
           text(k) == TextOf(v.obj[k])
           listed == [i \in DOMAIN keys |-> <<keys[i], text(keys[i])>>]
           flat == [i \in 1 .. 2 * Len(keys) |->
                       <<IF i % 2 = 1 THEN keys[(i + 1) \div 2] ELSE text(keys[i \div 2])>>]
           pairs == IF explode THEN {i \in DOMAIN raw : Len(raw[i]) = 2}
                               ELSE {i \in DOMAIN raw : i % 2 = 1}
           key(i) == IF explode THEN raw[i][1] ELSE PieceText(raw[i])
           val(i) == IF explode THEN raw[i][2]
                     ELSE IF i = Len(raw) THEN NoText ELSE PieceText(raw[i + 1])
           last(k) == CHOOSE i \in pairs : key(i) = k /\ \A j \in pairs : key(j) = k => j <= i
           place(n) == IF explode THEN n ELSE 2 * n - 1
<1>1. /\ Len(keys) \in Nat /\ DOMAIN keys = 1 .. Len(keys) /\ NoRepeats(keys)
      /\ {keys[i] : i \in DOMAIN keys} = DOMAIN v.obj
  BY KeysOfMap, InOrderIsExact
<1>2. raw = IF DOMAIN v.obj = {} THEN Nothing ELSE IF explode THEN listed ELSE flat
  BY KeysOfMap, Zenon DEF RawOf
<1>3. Decode(s, raw, explode) =
          IF raw = Nothing THEN Obj(<< >>) ELSE Obj([k \in {key(i) : i \in pairs} |-> Str(val(last(k)))])
  <2>1. "object" # "array"
    OBVIOUS
  <2>2. Decode(s, raw, explode) = CoerceObject(raw, explode)
    BY <2>1, Zenon DEF Decode
  <2> HIDE DEF raw
  <2> QED BY <2>2, Zenon DEF CoerceObject
<1>4. CASE DOMAIN v.obj = {}
  <2>1. TextsOf(v) = Obj(<< >>)
    BY <1>4 DEF TextsOf
  <2>2. raw = Nothing
    BY <1>2, <1>4
  <2> QED BY <1>3, <2>1, <2>2
<1>5. CASE DOMAIN v.obj # {}
  <2> HIDE DEF keys, text, raw
  <2>1. 1 \in DOMAIN keys
    BY <1>1, <1>5
  <2>2. Nothing = <<<<NoText>>>>
    BY DEF Nothing
  <2>3. /\ raw # Nothing /\ pairs = {place(n) : n \in DOMAIN keys}
        /\ \A n \in DOMAIN keys : key(place(n)) = keys[n] /\ val(place(n)) = text(keys[n])
    <3>1. CASE explode
      <4>1. DOMAIN raw = DOMAIN keys
            /\ \A i \in DOMAIN keys : Len(raw[i]) = 2 /\ raw[i][1] = keys[i] /\ raw[i][2] = text(keys[i])
        BY <1>2, <1>5, <3>1
      <4>2. raw # Nothing
        BY <2>1, <2>2, <4>1
      <4> QED BY <3>1, <4>1, <4>2
    <3>2. CASE ~explode
      <4>1. raw = flat
        BY <1>2, <1>5, <3>2
      <4>2. \A n \in DOMAIN keys : /\ 2 * n - 1 \in 1 .. 2 * Len(keys) /\ (2 * n - 1) % 2 = 1
                                   /\ ((2 * n - 1) + 1) \div 2 = n /\ 2 * n - 1 # 2 * Len(keys)
                                   /\ (2 * n - 1) + 1 \in 1 .. 2 * Len(keys) /\ ((2 * n - 1) + 1) % 2 # 1
        BY <1>1, EveryOther
      <4>3. \A n \in DOMAIN keys : raw[2 * n - 1] = <<keys[n]>> /\ raw[(2 * n - 1) + 1] = <<text(keys[n])>>
        BY <4>1, <4>2
      <4>4. DOMAIN raw = 1 .. 2 * Len(keys) /\ Len(raw) = 2 * Len(keys)
        BY <1>1, <4>1
      <4>5. raw # Nothing
        BY <1>1, <2>1, <2>2, <4>4
      <4>6. \A i \in 1 .. 2 * Len(keys) : i % 2 = 1 => (i + 1) \div 2 \in DOMAIN keys /\ i = 2 * ((i + 1) \div 2) - 1
        BY <1>1, EveryOther
      <4>7. pairs = {place(n) : n \in DOMAIN keys}
        <5>1. pairs = {i \in 1 .. 2 * Len(keys) : i % 2 = 1}
          BY <3>2, <4>4
        <5>2. \A n : place(n) = 2 * n - 1
          BY <3>2
        <5> HIDE DEF pairs, place
        <5>3. {place(n) : n \in DOMAIN keys} \subseteq pairs
          BY <4>2, <5>1, <5>2
        <5>4. \A i \in pairs : \E n \in DOMAIN keys : i = place(n)
          BY <4>6, <5>1, <5>2
        <5> QED BY <5>3, <5>4
      <4>8. \A n \in DOMAIN keys : key(place(n)) = keys[n] /\ val(place(n)) = text(keys[n])
        BY <3>2, <4>2, <4>3, <4>4, PieceOfOne
      <4> QED BY <4>5, <4>7, <4>8
    <3> QED BY <3>1, <3>2
  <2>4. \A n, m \in DOMAIN keys : place(n) \in Int /\ (place(n) = place(m) => n = m)
    BY <1>1
  <2> HIDE DEF pairs, key, val, place
  <2>5. {key(i) : i \in pairs} = DOMAIN v.obj
    BY <1>1, <2>3
  <2>6. \A k \in DOMAIN v.obj : val(last(k)) = text(k)
    <3> SUFFICES ASSUME NEW k \in DOMAIN v.obj PROVE val(last(k)) = text(k)
      OBVIOUS
    <3>1. PICK n \in DOMAIN keys : keys[n] = k
      BY <1>1
    <3>2. \A m \in DOMAIN keys : keys[m] = k => m = n
      BY <1>1, <3>1 DEF NoRepeats
    <3>3. \A j \in pairs : key(j) = k => j = place(n)
      BY <2>3, <3>2
    <3>4. place(n) \in pairs /\ key(place(n)) = k /\ \A j \in pairs : key(j) = k => j <= place(n)
      BY <2>3, <2>4, <3>1, <3>3
    <3>5. last(k) \in pairs /\ key(last(k)) = k
      BY <3>4
    <3> HIDE DEF last
    <3> QED BY <2>3, <3>1, <3>3, <3>5
  <2> HIDE DEF last
  <2>7. [k \in {key(i) : i \in pairs} |-> Str(val(last(k)))] = [k \in DOMAIN v.obj |-> Str(text(k))]
    BY <2>5, <2>6
  <2> QED BY <1>3, <2>3, <2>7 DEF TextsOf, raw, text
<1> QED BY <1>4, <1>5

\* No key is repeated in a form.
LEMMA DecodedForm ==
    ASSUME NEW v, JsonValue(v), Is(v, "obj"), NEW pairs,
           pairs = [i \in DOMAIN InOrder(DOMAIN v.obj) |->
                       <<InOrder(DOMAIN v.obj)[i], TextOf(v.obj[InOrder(DOMAIN v.obj)[i]])>>]
    PROVE  FormObject(pairs) = TextsOf(v)
<1> DEFINE keys == InOrder(DOMAIN v.obj)
           text(k) == TextOf(v.obj[k])
           at(k) == {i \in DOMAIN pairs : pairs[i][1] = k}
           nth(k, n) == Str(pairs[CHOOSE i \in at(k) : Cardinality({j \in at(k) : j <= i}) = n][2])
           times(k) == Cardinality(at(k))
<1>1. /\ Len(keys) \in Nat /\ DOMAIN keys = 1 .. Len(keys) /\ NoRepeats(keys)
      /\ {keys[i] : i \in DOMAIN keys} = DOMAIN v.obj
  BY KeysOfMap, InOrderIsExact
<1>2. FormObject(pairs) =
          Obj([k \in {pairs[i][1] : i \in DOMAIN pairs} |->
                  IF times(k) = 1 THEN nth(k, 1) ELSE Arr([n \in 1 .. times(k) |-> nth(k, n)])])
  BY Zenon DEF FormObject
<1> HIDE DEF keys, text
<1>3. DOMAIN pairs = DOMAIN keys /\ \A i \in DOMAIN keys : pairs[i][1] = keys[i] /\ pairs[i][2] = text(keys[i])
  BY DEF keys, text
<1>4. {pairs[i][1] : i \in DOMAIN pairs} = DOMAIN v.obj
  BY <1>1, <1>3
<1>5. ASSUME NEW k \in DOMAIN v.obj PROVE times(k) = 1 /\ nth(k, 1) = Str(text(k))
  <2>1. PICK n \in DOMAIN keys : keys[n] = k
    BY <1>1
  <2>2. at(k) = {n}
    <3>1. \A i \in DOMAIN pairs : pairs[i][1] = k <=> i = n
      BY <1>1, <1>3, <2>1 DEF NoRepeats
    <3>2. n \in DOMAIN pairs
      BY <1>3
    <3> QED BY <3>1, <3>2
  <2> HIDE DEF at
  <2>3. Cardinality({n}) = 1
    BY FS_Singleton
  <2>4. {j \in at(k) : j <= n} = {n}
    BY <1>1, <2>2
  <2>5. (CHOOSE i \in at(k) : Cardinality({j \in at(k) : j <= i}) = 1) = n
    BY <2>2, <2>3, <2>4
  <2> QED BY <1>3, <2>1, <2>2, <2>3, <2>5
<1> HIDE DEF times, nth
<1>6. [k \in {pairs[i][1] : i \in DOMAIN pairs} |->
          IF times(k) = 1 THEN nth(k, 1) ELSE Arr([n \in 1 .. times(k) |-> nth(k, n)])]
      = [k \in DOMAIN v.obj |-> Str(text(k))]
  BY <1>4, <1>5
<1> QED BY <1>2, <1>6 DEF TextsOf, text

\* The maps of the code are maps of texts: each text settles what wants a text.
LEMMA MapOfTexts ==
    ASSUME NEW s \in Schemas, NEW values, Enforced(s, values), MapOf(s),
           NEW v, JsonValue(v), Is(v, "obj"), Said(v) \subseteq values, NEW at \in Locations,
           \A k \in DOMAIN Properties(s) : Kind(s.properties[k]) = "string",
           Typed(s) => Kind(s.additionalProperties) = "string"
    PROVE  ValidateValue(s, TextsOf(v), at) = {} <=> \E w \in Readings(v) : Conforms(s, w)
<1> DEFINE d == [k \in DOMAIN v.obj |-> Str(TextOf(v.obj[k]))]
<1>1. "string" \in ScalarKinds
  BY DEF ScalarKinds
<1>2. \A t : Str(t) # Overflow
  BY DEF Str, Overflow
<1>3. \A c, t : Kind(c) = "string" => Settles(c, t, Str(t))
  BY <1>1, <1>2, TextOfScalar
<1>4. \A k \in DOMAIN v.obj : d[k] = Str(TextOf(v.obj[k]))
  OBVIOUS
<1>5. d = [k \in DOMAIN v.obj |-> d[k]]
  OBVIOUS
<1>6. \A k \in Outside(s, v.obj) : k \in DOMAIN v.obj
  BY DEF Outside
<1>7. TextsOf(v) = Obj(d)
  BY Zenon DEF TextsOf
<1> HIDE DEF d
<1>8. /\ \A k \in DOMAIN v.obj : d[k] \in ReadText(TextOf(v.obj[k]))
      /\ \A k \in DOMAIN v.obj \cap DOMAIN Properties(s) : Settles(s.properties[k], TextOf(v.obj[k]), d[k])
      /\ Typed(s) => \A k \in Outside(s, v.obj) : Settles(s.additionalProperties, TextOf(v.obj[k]), d[k])
  BY <1>3, <1>4, <1>6, ReadingForms
<1> QED BY <1>5, <1>7, <1>8, TextsOfMap

\* A deepObject has typed members.
DeepTexts(s, v) ==
    Obj([k \in DOMAIN v.obj |-> IF k \in DOMAIN Properties(s)
                                THEN CoerceOrKeep(TextOf(v.obj[k]), Resolved(s.properties[k]))
                                ELSE Str(TextOf(v.obj[k]))])

LEMMA MapOfTyped ==
    ASSUME NEW s \in Schemas, NEW values, Enforced(s, values), MapOf(s),
           NEW v, JsonValue(v), Is(v, "obj"), Said(v) \subseteq values, NEW at \in Locations,
           Typed(s) => Kind(s.additionalProperties) = "string"
    PROVE  ValidateValue(s, DeepTexts(s, v), at) = {} <=> \E w \in Readings(v) : Conforms(s, w)
<1> DEFINE text(k) == TextOf(v.obj[k])
           d == [k \in DOMAIN v.obj |-> IF k \in DOMAIN Properties(s)
                                        THEN CoerceOrKeep(text(k), Resolved(s.properties[k])) ELSE Str(text(k))]
<1>1. "string" \in ScalarKinds
  BY DEF ScalarKinds
<1>2. \A t : Str(t) # Overflow
  BY DEF Str, Overflow
<1>3. \A c, t : Kind(c) = "string" => Settles(c, t, Str(t))
  BY <1>1, <1>2, TextOfScalar
<1>4. \A k \in DOMAIN Properties(s) : Resolved(s.properties[k]) = {s.properties[k]}
                                      /\ \A t : Settles(s.properties[k], t, CoerceOrKeep(t, {s.properties[k]}))
  BY ScalarsAreNoReferences, KeptText DEF MapOf
<1>5. DeepTexts(s, v) = Obj(d)
  BY Zenon DEF DeepTexts
<1> HIDE DEF text
<1>6. \A k \in DOMAIN v.obj \cap DOMAIN Properties(s) : Settles(s.properties[k], text(k), d[k])
  BY <1>4
<1>7. \A k \in Outside(s, v.obj) : k \in DOMAIN v.obj /\ k \notin DOMAIN Properties(s) /\ d[k] = Str(text(k))
  BY DEF Outside
<1>8. \A k \in DOMAIN v.obj : k \in DOMAIN Properties(s) \/ d[k] = Str(text(k))
  OBVIOUS
<1>9. d = [k \in DOMAIN v.obj |-> d[k]]
  OBVIOUS
<1> HIDE DEF d
<1>10. /\ \A k \in DOMAIN v.obj : d[k] \in ReadText(text(k))
       /\ Typed(s) => \A k \in Outside(s, v.obj) : Settles(s.additionalProperties, text(k), d[k])
  BY <1>3, <1>6, <1>7, <1>8, ReadingForms DEF Settles
<1> QED BY <1>5, <1>6, <1>9, <1>10, TextsOfMap DEF text

-----------------------------------------------------------------------------
(* Where the texts are sent to.                                            *)

LEMMA PlacesOfParameters == {<<"path", "p">>, <<"query", "p">>, <<"header", "p">>} \subseteq Locations
<1>1. \A S : \A a, b \in S : <<a, b>> \in Seq(S)
  OBVIOUS
<1>2. {"path", "query", "header", "p"} \subseteq STRING
  BY LiteralAssumption, Zenon
<1> DEFINE texts == STRING
<1> HIDE DEF texts
<1>3. "path" \in texts /\ "query" \in texts /\ "header" \in texts /\ "p" \in texts
  BY <1>2, Zenon DEF texts
<1>4. <<"path", "p">> \in Seq(texts) /\ <<"query", "p">> \in Seq(texts) /\ <<"header", "p">> \in Seq(texts)
  BY <1>1, <1>3, Zenon
<1> QED BY <1>4, Zenon DEF Locations, texts

\* The one parameter of an operation.
ParameterOf(c) == [in |-> c.place.in, name |-> "p", style |-> c.place.style, required |-> TRUE,
                   explode |-> {c.place.explode}, schema |-> {c.schema}]

LEMMA OneParameter ==
    ASSUME NEW c, c.place.in # "body", NEW req
    PROVE  Validate(Operation(c), req) = ParameterErrors(ParameterOf(c), req)
<1> DEFINE p == ParameterOf(c)
           op == [shared |-> << >>, params |-> <<p>>, body |-> {}]
<1>1. Operation(c) = op
  BY Zenon DEF Operation, ParameterOf
<1> HIDE DEF p
<1>2. op.shared = << >> /\ op.params = <<p>> /\ op.body = {}
  OBVIOUS
<1>3. Dedupe(<< >> \o <<p>>) = {p}
  <2>1. << >> \o <<p>> = <<p>>
    OBVIOUS
  <2>2. DOMAIN <<p>> = {1} /\ <<p>>[1] = p
    OBVIOUS
  <2> DEFINE one == <<p>>
  <2> HIDE DEF one
  <2>3. Dedupe(one) = {one[i] : i \in {j \in DOMAIN one : \A k \in DOMAIN one :
                          (k > j) => <<one[k].name, one[k].in>> # <<one[j].name, one[j].in>>}}
    BY DEF Dedupe
  <2>4. DOMAIN one = {1} /\ one[1] = p
    BY <2>2 DEF one
  <2>5. Dedupe(one) = {p}
    BY <2>3, <2>4
  <2> QED BY <2>1, <2>5 DEF one
<1>4. Validate(op, req) = (UNION {ParameterErrors(q, req) : q \in {p}}) \cup (UNION {BodyErrors(d, req.type, req.body) : d \in {}})
  BY <1>2, <1>3, Zenon DEF Validate
<1> QED BY <1>1, <1>4 DEF p

LEMMA ParameterFields ==
    ASSUME NEW c, Resolved(c.schema) = {c.schema}, c.place.explode \in BOOLEAN
    PROVE  LET p == ParameterOf(c)
           IN  /\ p.in = c.place.in /\ p.name = "p" /\ p.style = c.place.style /\ p.required
               /\ SchemaOf(p) = {c.schema}
               /\ \A default : Explodes(p, default) = c.place.explode
<1> DEFINE p == ParameterOf(c)
<1>1. /\ p.in = c.place.in /\ p.name = "p" /\ p.style = c.place.style /\ p.required
      /\ p.explode = {c.place.explode} /\ p.schema = {c.schema}
  BY DEF ParameterOf
<1> HIDE DEF p
<1>2. SchemaOf(p) = {c.schema}
  BY <1>1 DEF SchemaOf
<1>3. p.explode # {}
  BY <1>1
<1>4. (TRUE \in {c.place.explode}) = c.place.explode
  <2> DEFINE exploded == TRUE \in {c.place.explode}
  <2>1. exploded \in BOOLEAN
    OBVIOUS
  <2>2. exploded <=> TRUE = c.place.explode
    BY Zenon
  <2>3. \A a, b \in BOOLEAN : (a <=> TRUE = b) => a = b
    OBVIOUS
  <2> HIDE DEF exploded
  <2>4. exploded = c.place.explode
    BY <2>1, <2>2, <2>3
  <2> QED BY <2>4 DEF exploded
<1>5. \A default : Explodes(p, default) = c.place.explode
  BY <1>1, <1>3, <1>4, Zenon DEF Explodes
<1> QED BY <1>1, <1>2, <1>5 DEF p

LEMMA GivenOnce ==
    ASSUME NEW p, p.name = "p", NEW s, SchemaOf(p) = {s}, NEW raw, NEW explode, NEW at, NEW required
    PROVE  Given(p, {Field(NoText, raw)}, explode, at, required) = Serialised(s, raw, explode, at)
<1> DEFINE fields == {Field(NoText, raw)}
           raws == {f.raw : f \in {g \in fields : g.name = p.name /\ g.key = NoText}}
<1>1. Field(NoText, raw).name = "p" /\ Field(NoText, raw).key = NoText /\ Field(NoText, raw).raw = raw
  BY DEF Field
<1>2. raws = {raw}
  BY <1>1
<1>3. Given(p, fields, explode, at, required) =
          IF raws = {} THEN Unless(~required, at, "required")
          ELSE UNION {ValidateSerialised(p, r, explode, at) : r \in raws}
  BY Zenon DEF Given
<1>4. ValidateSerialised(p, raw, explode, at) = UNION {Serialised(r, raw, explode, at) : r \in SchemaOf(p)}
  BY Zenon DEF ValidateSerialised, Serialised
<1> HIDE DEF raws, fields
<1>5. Given(p, fields, explode, at, required) = ValidateSerialised(p, raw, explode, at)
  BY <1>2, <1>3
<1> QED BY <1>4, <1>5 DEF fields

LEMMA PlainParameter ==
    ASSUME NEW c, c.place.in \in {"path", "query", "header"}, c.place.explode \in BOOLEAN,
           Resolved(c.schema) = {c.schema}, ~(c.place.style = "deepObject" /\ Kind(c.schema) = "object"),
           NEW raw, NEW req, req[c.place.in] = {Field(NoText, raw)}
    PROVE  Validate(Operation(c), req) = Serialised(c.schema, raw, c.place.explode, <<c.place.in, "p">>)
<1> DEFINE p == ParameterOf(c)
           fields == {Field(NoText, raw)}
           explode == c.place.explode
           judged(at) == Serialised(c.schema, raw, c.place.explode, at)
<1>1. /\ p.in = c.place.in /\ p.name = "p" /\ p.style = c.place.style /\ SchemaOf(p) = {c.schema}
      /\ \A default : Explodes(p, default) = explode
  BY ParameterFields
<1>2. c.place.in # "body" /\ "path" # "query" /\ "path" # "header" /\ "query" # "header"
  OBVIOUS
<1>3. Validate(Operation(c), req) = ParameterErrors(p, req)
  BY <1>2, OneParameter
<1> HIDE DEF p, fields
<1>4. \A at, required : Given(p, fields, explode, at, required) = judged(at)
  BY <1>1, GivenOnce DEF fields
<1> HIDE DEF judged
<1>5. CASE c.place.in = "path"
  <2>1. ParameterErrors(p, req) = PathErrors(p, fields)
    BY <1>1, <1>5, Zenon DEF ParameterErrors, fields
  <2>2. PathErrors(p, fields) = judged(<<"path", "p">>)
    BY <1>1, <1>4, Zenon DEF PathErrors
  <2> QED BY <1>3, <1>5, <2>1, <2>2 DEF judged
<1>6. CASE c.place.in = "query"
  <2>1. ParameterErrors(p, req) = QueryErrors(p, fields)
    BY <1>1, <1>2, <1>6, Zenon DEF ParameterErrors, fields
  <2>2. ~(p.style = "deepObject" /\ \E s \in SchemaOf(p) : Kind(s) = "object")
    BY <1>1
  <2>3. QueryErrors(p, fields) = judged(<<"query", "p">>)
    BY <1>1, <1>4, <2>2, Zenon DEF QueryErrors
  <2> QED BY <1>3, <1>6, <2>1, <2>3 DEF judged
<1>7. CASE c.place.in = "header"
  <2>1. ParameterErrors(p, req) = HeaderErrors(p, fields)
    BY <1>1, <1>2, <1>7, Zenon DEF ParameterErrors, fields
  <2>2. p.name \notin {"Accept", "Content-Type", "Authorization"}
    BY <1>1
  <2>3. HeaderErrors(p, fields) = judged(<<"header", "p">>)
    BY <1>1, <1>4, <2>2, Zenon DEF HeaderErrors
  <2> QED BY <1>3, <1>7, <2>1, <2>3 DEF judged
<1> QED BY <1>5, <1>6, <1>7

LEMMA DeepParameter ==
    ASSUME NEW c, c.place.in = "query", c.place.explode \in BOOLEAN, Resolved(c.schema) = {c.schema},
           c.place.style = "deepObject", Kind(c.schema) = "object",
           NEW v, JsonValue(v), Is(v, "obj"), DOMAIN v.obj # {},
           NEW req, req.query = {Field(k, <<<<TextOf(v.obj[k])>>>>) : k \in DOMAIN v.obj}
    PROVE  Validate(Operation(c), req) = ValidateValue(c.schema, DeepTexts(c.schema, v), <<"query", "p">>)
<1> DEFINE p == ParameterOf(c)
           s == c.schema
           raw(k) == <<<<TextOf(v.obj[k])>>>>
           fields == {Field(k, raw(k)) : k \in DOMAIN v.obj}
           deep == {f \in fields : f.name = p.name /\ f.key # NoText}
           text(k) == RawText((CHOOSE f \in deep : f.key = k).raw)
           typed(r, k) == IF k \in DOMAIN Properties(r) THEN CoerceOrKeep(text(k), Resolved(r.properties[k]))
                          ELSE Str(text(k))
           given(r) == Obj([k \in {f.key : f \in deep} |-> typed(r, k)])
<1>1. /\ p.in = c.place.in /\ p.name = "p" /\ p.style = c.place.style /\ SchemaOf(p) = {s}
      /\ \A default : Explodes(p, default) = c.place.explode
  BY ParameterFields
<1>2. "query" # "body" /\ "query" # "path"
  OBVIOUS
<1>3. Validate(Operation(c), req) = ParameterErrors(p, req)
  BY <1>2, OneParameter
<1> HIDE DEF p, raw
<1>4. ParameterErrors(p, req) = QueryErrors(p, req.query)
  BY <1>1, <1>2, Zenon DEF ParameterErrors
<1>5. QueryErrors(p, req.query) = DeepErrors(p, req.query)
  <2>1. p.style = "deepObject" /\ \E r \in SchemaOf(p) : Kind(r) = "object"
    BY <1>1
  <2> QED BY <2>1, Zenon DEF QueryErrors
<1>6. req.query = fields
  BY DEF raw
<1>7. \A k \in DOMAIN v.obj : Field(k, raw(k)).name = "p" /\ Field(k, raw(k)).key = k /\ Field(k, raw(k)).raw = raw(k)
  BY DEF Field
<1>8. \A k \in DOMAIN v.obj : k # NoText
  BY KeysOfMap, KeyAssumption
<1>9. deep = fields
  BY <1>1, <1>7, <1>8
<1>10. DeepErrors(p, fields) =
           IF deep = {} THEN Given(p, fields, Explodes(p, TRUE), <<"query", p.name>>, p.required)
           ELSE UNION {ValidateValue(r, given(r), <<"query", p.name>>) : r \in SchemaOf(p)}
  <2> HIDE DEF fields
  <2> QED BY Zenon DEF DeepErrors
<1>11. fields # {}
  OBVIOUS
<1> HIDE DEF deep
<1>12. \A k \in DOMAIN v.obj : text(k) = TextOf(v.obj[k])
  <2> SUFFICES ASSUME NEW k \in DOMAIN v.obj PROVE text(k) = TextOf(v.obj[k])
    OBVIOUS
  <2>1. \E f \in deep : f.key = k
    BY <1>7, <1>9
  <2> DEFINE f == CHOOSE g \in deep : g.key = k
  <2>2. f \in deep /\ f.key = k
    BY <2>1
  <2> HIDE DEF f
  <2>3. f.raw = raw(k)
    BY <1>7, <1>9, <2>2
  <2> QED BY <2>3, TextOfOne DEF raw, f
<1>13. {f.key : f \in deep} = DOMAIN v.obj
  BY <1>7, <1>9
<1> HIDE DEF text, fields
<1>14. given(s) = DeepTexts(s, v)
  <2>1. [k \in {f.key : f \in deep} |-> typed(s, k)] =
        [k \in DOMAIN v.obj |-> IF k \in DOMAIN Properties(s)
                                THEN CoerceOrKeep(TextOf(v.obj[k]), Resolved(s.properties[k]))
                                ELSE Str(TextOf(v.obj[k]))]
    BY <1>12, <1>13
  <2> QED BY <2>1, Zenon DEF DeepTexts
<1> HIDE DEF given
<1>15. DeepErrors(p, fields) = ValidateValue(s, given(s), <<"query", "p">>)
  BY <1>1, <1>9, <1>10, <1>11
<1> QED BY <1>3, <1>4, <1>5, <1>6, <1>14, <1>15

\* The types that are told apart.
LEMMA BodyTypes ==
    /\ Json # UrlEncoded
    /\ \A type \in {Json, UrlEncoded} :
           /\ type # Multipart /\ type # NoType /\ ~IsXml(type)
           /\ type # <<"application", "octet-stream">> /\ type[1] # "text"
<1>1. \A a, b, c, d : <<a, b>> = <<c, d>> => a = c /\ b = d
  OBVIOUS
<1>2. \A a, b : <<a, b>> # << >> /\ <<a, b>>[1] = a
  OBVIOUS
<1>3. /\ "json" # "x-www-form-urlencoded" /\ "application" # "multipart" /\ "application" # "text"
      /\ \A name \in {"json", "x-www-form-urlencoded"} :
             name # "xml" /\ name # "atom+xml" /\ name # "octet-stream"
  OBVIOUS
<1>4. Json # UrlEncoded
  BY <1>1, <1>3, Zenon DEF Json, UrlEncoded
<1>5. \A name \in {"json", "x-www-form-urlencoded"} :
          LET type == <<"application", name>>
          IN  /\ type # Multipart /\ type # NoType /\ ~IsXml(type)
              /\ type # <<"application", "octet-stream">> /\ type[1] # "text"
  BY <1>1, <1>2, <1>3, Zenon DEF Multipart, NoType, IsXml
<1> QED BY <1>4, <1>5, Zenon DEF Json, UrlEncoded

\* A JSON or form body is held against the schema and nothing else.
LEMMA BodyIsHeldAgainst ==
    ASSUME NEW c, c.place.in = "body", NEW type \in {Json, UrlEncoded}, c.place.type = type,
           NEW v, NEW req, req.type = type, req.body = {v}
    PROVE  Validate(Operation(c), req) = UNION {ValidateValue(r, v, <<"body">>) : r \in Resolved(c.schema)}
<1> DEFINE media == [type |-> type, schema |-> {c.schema}]
           def == [required |-> TRUE, content |-> <<media>>]
           op == [shared |-> << >>, params |-> << >>, body |-> {def}]
           judged == UNION {ValidateValue(r, v, <<"body">>) : r \in Resolved(c.schema)}
<1>1. Operation(c) = op
  BY Zenon DEF Operation
<1>2. op.shared = << >> /\ op.params = << >> /\ op.body = {def}
  OBVIOUS
<1>3. Dedupe(<< >> \o << >>) = {}
  <2>1. << >> \o << >> = << >>
    OBVIOUS
  <2>2. DOMAIN << >> = {}
    OBVIOUS
  <2> QED BY <2>1, <2>2 DEF Dedupe
<1>4. def.content = <<media>> /\ media.type = type /\ media.schema = {c.schema}
  OBVIOUS
<1>5. DOMAIN <<media>> = {1} /\ <<media>>[1] = media
  OBVIOUS
<1>6. SchemaOf(media) = Resolved(c.schema)
  BY <1>4 DEF SchemaOf
<1> HIDE DEF media
<1>7. MediaFor(<<media>>, type) = {media}
  <2> DEFINE fits == {i \in DOMAIN <<media>> : <<media>>[i].type \in {Json, IF type = NoType THEN Json ELSE type}}
  <2>1. fits = {1}
    <3>1. (IF type = NoType THEN Json ELSE type) = type
      BY BodyTypes, Zenon
    <3> QED BY <1>4, <1>5, <3>1
  <2>2. (CHOOSE i \in fits : \A j \in fits : i <= j) = 1
    BY <2>1
  <2>3. MediaFor(<<media>>, type) =
            IF fits = {} THEN {} ELSE {<<media>>[CHOOSE i \in fits : \A j \in fits : i <= j]}
    BY Zenon DEF MediaFor
  <2> HIDE DEF fits
  <2> QED BY <1>5, <2>1, <2>2, <2>3
<1>8. BodyErrors(def, type, {v}) = judged
  <2> DEFINE accepted == \/ type = NoType \/ def.content = << >>
                         \/ \E i \in DOMAIN def.content : InRange(def.content[i].type, type)
             found == UNION {UNION {UNION {ValidateValue(s, w, <<"body">>) : s \in SchemaOf(m)} :
                                       m \in MediaFor(def.content, type)} : w \in {v}}
  <2>1. accepted
    BY <1>4, <1>5 DEF InRange
  <2>2. BodyErrors(def, type, {v}) = Unless(accepted, <<"body">>, "contentType") \cup found
    <3> DEFINE one(s, w) == IF type = Multipart THEN RequiredOnly(s, w, <<"body">>) ELSE ValidateValue(s, w, <<"body">>)
               all == UNION {UNION {UNION {one(s, w) : s \in SchemaOf(m)} :
                                       m \in MediaFor(def.content, type)} : w \in {v}}
    <3>1. ~(def.required /\ {v} = {})
      OBVIOUS
    <3>2. \A s, w : one(s, w) = ValidateValue(s, w, <<"body">>)
      BY BodyTypes, Zenon
    <3>3. BodyErrors(def, type, {v}) = Unless(accepted, <<"body">>, "contentType") \cup all
      <4> HIDE DEF def
      <4> QED BY <3>1, BodyTypes, Zenon DEF BodyErrors
    <3>4. all = found
      <4> HIDE DEF def, one
      <4> QED BY <3>2
    <3> QED BY <3>3, <3>4, Zenon
  <2>3. found = judged
    BY <1>4, <1>6, <1>7
  <2> HIDE DEF accepted, found
  <2> QED BY <2>1, <2>2, <2>3, UnlessIsEmpty
<1> HIDE DEF def, judged
<1>9. Validate(op, req) = (UNION {ParameterErrors(p, req) : p \in {}}) \cup (UNION {BodyErrors(d, type, {v}) : d \in {def}})
  BY <1>2, <1>3, Zenon DEF Validate
<1> QED BY <1>1, <1>8, <1>9 DEF judged

-----------------------------------------------------------------------------
(* What a value in texts is taken for.                                     *)

LEMMA NoReferenceOfKind ==
    ASSUME NEW s, Kind(s) \in ScalarKinds \cup {"array", "object", "anyOf"}
    PROVE  ~Has(s, "ref") /\ Resolved(s) = {s}
<1>1. Kind(s) \in Types \/ Kind(s) = "anyOf"
  BY DEF ScalarKinds, Types
<1>2. CASE Kind(s) \in Types
  <2>1. DOMAIN s \ Annotations \subseteq TypeKeywords(Kind(s))
    BY <1>2, KindKeywords
  <2>2. "ref" \notin TypeKeywords(Kind(s)) /\ "ref" \notin Annotations
    BY <1>2 DEF Types, TypeKeywords, Annotations
  <2> QED BY <2>1, <2>2 DEF Has, Resolved
<1>3. CASE Kind(s) = "anyOf"
  <2>1. DOMAIN s \ Annotations = {"anyOf"}
    BY <1>3, KindKeywords DEF Compositions
  <2> QED BY <2>1 DEF Annotations, Has, Resolved
<1> QED BY <1>1, <1>2, <1>3

Single(s, v) == /\ ~Is(v, "arr") /\ ~Is(v, "obj")
                /\ \/ Kind(s) \in ScalarKinds
                   \/ Kind(s) = "anyOf" /\ \A i \in DOMAIN s.anyOf : Kind(s.anyOf[i]) \in ScalarKinds

List(s, place, v) == /\ Is(v, "arr") /\ ListOf(s) /\ (Flag(s, "uniqueItems") => Kind(s.items) # "number")
                     /\ RawOf(v, place.explode) = Nothing => v.arr = << >>

Map(s, place, v) ==
    /\ Is(v, "obj") /\ MapOf(s) /\ (Typed(s) => Kind(s.additionalProperties) = "string")
    /\ place.style = "deepObject" \/ \A k \in DOMAIN Properties(s) : Kind(s.properties[k]) = "string"
    /\ (place.in = "body" \/ place.style = "deepObject") => DOMAIN v.obj # {}

LEMMA TextualForms ==
    ASSUME NEW s, NEW place, NEW v, Textual(s, place, v)
    PROVE  /\ Enforced(s, Said(v))
           /\ place.in = "body" => place.type = UrlEncoded /\ Map(s, place, v)
           /\ place.in # "body" => Single(s, v) \/ List(s, place, v) \/ Map(s, place, v)
<1> DEFINE scalar(r) == Kind(r) \in ScalarKinds
           others == {r \in {Get(s, "additionalProperties", << >>)} : Has(s, "additionalProperties") /\ ~Has(r, "allowed")}
           single == /\ ~Is(v, "arr") /\ ~Is(v, "obj")
                     /\ scalar(s) \/ (Kind(s) = "anyOf" /\ \A i \in DOMAIN s.anyOf : scalar(s.anyOf[i]))
           list == /\ Is(v, "arr") /\ Kind(s) = "array" /\ Has(s, "items") /\ scalar(Get(s, "items", << >>))
                   /\ Flag(s, "uniqueItems") => Kind(s.items) # "number"
                   /\ RawOf(v, place.explode) = Nothing => v.arr = << >>
           map == /\ Is(v, "obj") /\ Kind(s) = "object"
                  /\ \A r \in others : Kind(r) = "string"
                  /\ \A k \in DOMAIN Properties(s) :
                       Kind(s.properties[k]) = "string" \/ (place.style = "deepObject" /\ scalar(s.properties[k]))
                  /\ (place.in = "body" \/ place.style = "deepObject") => DOMAIN v.obj # {}
<1>1. Enforced(s, Said(v)) /\ IF place.in = "body" THEN place.type = UrlEncoded /\ map ELSE single \/ list \/ map
  BY Zenon DEF Textual, Said
<1>2. single => Single(s, v)
  BY Zenon DEF Single
<1>3. list => List(s, place, v)
  BY Zenon DEF List, ListOf, Get
<1>4. map => Map(s, place, v)
  <2> SUFFICES ASSUME map PROVE Map(s, place, v)
    OBVIOUS
  <2>1. Typed(s) => Kind(s.additionalProperties) = "string"
    <3>1. Typed(s) => s.additionalProperties \in others
      BY DEF Typed, Get
    <3> QED BY <3>1
  <2>2. "string" \in ScalarKinds
    BY DEF ScalarKinds
  <2>3. MapOf(s)
    BY <2>1, <2>2, Zenon DEF MapOf
  <2> QED BY <2>1, <2>3, Zenon DEF Map
<1> HIDE DEF single, list, map
<1> QED BY <1>1, <1>2, <1>3, <1>4

LEMMA VerdictOnSingle ==
    ASSUME NEW s \in Schemas, NEW values, Enforced(s, values), NEW v, Single(s, v), Said(v) \subseteq values, NEW explode, NEW at \in Locations
    PROVE  Serialised(s, RawOf(v, explode), explode, at) = {} <=> \E w \in Readings(v) : Conforms(s, w)
<1>1. RawOf(v, explode) = <<<<TextOf(v)>>>> /\ Readings(v) = ReadText(TextOf(v))
  BY Zenon DEF Single, RawOf, Readings
<1>2. ReadText(TextOf(v)) \subseteq values
  BY <1>1 DEF Said
<1>3. CASE Kind(s) \in ScalarKinds
  BY <1>1, <1>2, <1>3, TextOfSingle
<1>4. CASE Kind(s) = "anyOf"
  <2>1. "anyOf" \notin ScalarKinds
    BY DEF ScalarKinds
  <2>2. \A i \in DOMAIN s.anyOf : Kind(s.anyOf[i]) \in ScalarKinds
    BY <1>4, <2>1 DEF Single
  <2> QED BY <1>1, <1>2, <1>4, <2>2, TextOfAnyOf
<1> QED BY <1>3, <1>4 DEF Single

LEMMA VerdictOnList ==
    ASSUME NEW s \in Schemas, NEW values, Enforced(s, values), NEW place,
           NEW v, JsonValue(v), List(s, place, v), Said(v) \subseteq values, NEW at \in Locations
    PROVE  Serialised(s, RawOf(v, place.explode), place.explode, at) = {} <=> \E w \in Readings(v) : Conforms(s, w)
<1>1. Serialised(s, RawOf(v, place.explode), place.explode, at) =
          ValidateValue(s, Decode(s, RawOf(v, place.explode), place.explode), at)
  <2>1. Kind(s) \in {"array", "object"}
    BY DEF List, ListOf
  <2> QED BY <2>1, Zenon DEF Serialised
<1>2. Decode(s, RawOf(v, place.explode), place.explode) =
          Arr([i \in DOMAIN v.arr |-> CoerceOrKeep(TextOf(v.arr[i]), {s.items})])
  BY DecodedList DEF List
<1> QED BY <1>1, <1>2, TextsOfList DEF List

LEMMA VerdictOnMap ==
    ASSUME NEW s \in Schemas, NEW values, Enforced(s, values), NEW place, place.style # "deepObject", place.explode \in BOOLEAN,
           NEW v, JsonValue(v), Map(s, place, v), Said(v) \subseteq values, NEW at \in Locations
    PROVE  Serialised(s, RawOf(v, place.explode), place.explode, at) = {} <=> \E w \in Readings(v) : Conforms(s, w)
<1>1. Serialised(s, RawOf(v, place.explode), place.explode, at) =
          ValidateValue(s, Decode(s, RawOf(v, place.explode), place.explode), at)
  <2>1. Kind(s) \in {"array", "object"}
    BY DEF Map, MapOf
  <2> QED BY <2>1, Zenon DEF Serialised
<1>2. Decode(s, RawOf(v, place.explode), place.explode) = TextsOf(v)
  BY DecodedMap DEF Map, MapOf
<1> QED BY <1>1, <1>2, MapOfTexts DEF Map

\* What the server makes of a value at a place.
ReceivedAt(place, v) ==
    IF place.in = "body" THEN [Silence EXCEPT !.type = place.type, !.body = ReadBody(place.type, WireOf(place, v))]
                         ELSE [Silence EXCEPT ![place.in] = WireOf(place, v)]

LEMMA VerdictOnForm ==
    ASSUME NEW c, c.schema \in Schemas, c.place.in = "body", c.place.type = UrlEncoded,
           Place(c.place), NEW v, JsonValue(v), Enforced(c.schema, Said(v)), Map(c.schema, c.place, v), NEW req, req = ReceivedAt(c.place, v)
    PROVE  Validate(Operation(c), req) = {} <=> \E w \in Readings(v) : Conforms(c.schema, w)
<1> DEFINE place == c.place
           keys == InOrder(DOMAIN v.obj)
           pairs == [i \in DOMAIN keys |-> <<keys[i], TextOf(v.obj[keys[i]])>>]
           form == [form |-> "form", pairs |-> pairs]
<1>1. DOMAIN v.obj # {} /\ Is(v, "obj") /\ Kind(c.schema) = "object" /\ place.style # "deepObject"
  <2>1. "body" # "query"
    OBVIOUS
  <2> QED BY <2>1, Zenon DEF Map, MapOf, Place
<1>2. keys # << >>
  <2>1. {keys[i] : i \in DOMAIN keys} = DOMAIN v.obj
    BY <1>1, KeysOfMap, InOrderIsExact
  <2>2. DOMAIN << >> = {}
    OBVIOUS
  <2> HIDE DEF keys
  <2> QED BY <1>1, <2>1, <2>2
<1>3. WireOf(place, v) = form
  BY <1>2, Zenon DEF WireOf
<1>4. ReadBody(UrlEncoded, form) = {FormObject(pairs)}
  <2>1. form.form = "form" /\ form.pairs = pairs /\ form.form # "empty"
    OBVIOUS
  <2> HIDE DEF form
  <2>2. /\ UrlEncoded # NoType /\ UrlEncoded # Json /\ UrlEncoded # Multipart
        /\ UrlEncoded # <<"application", "octet-stream">> /\ UrlEncoded[1] # "text"
    BY BodyTypes, Zenon
  <2>3. ReadBody(UrlEncoded, form) =
            {FormObject(IF form.form = "form" THEN form.pairs ELSE <<<<"<text>", "">>>>)}
    BY <2>1, <2>2, Zenon DEF ReadBody
  <2> QED BY <2>1, <2>3, Zenon
<1>5. FormObject(pairs) = TextsOf(v)
  BY <1>1, DecodedForm
<1> HIDE DEF form, pairs
<1>6. req.type = UrlEncoded /\ req.body = {TextsOf(v)}
  <2>1. req = [Silence EXCEPT !.type = UrlEncoded, !.body = {TextsOf(v)}]
    BY <1>3, <1>4, <1>5, Zenon DEF ReceivedAt
  <2> QED BY <2>1 DEF Silence
<1>7. Validate(Operation(c), req) = UNION {ValidateValue(r, TextsOf(v), <<"body">>) : r \in Resolved(c.schema)}
  <2>1. UrlEncoded \in {Json, UrlEncoded}
    BY Zenon
  <2> QED BY <1>6, <2>1, BodyIsHeldAgainst, Zenon
<1>8. <<"body">> \in Locations
  BY PlaceOfOne, LiteralAssumption, Zenon
<1> DEFINE here == <<"body">>
<1> HIDE DEF here
<1>9. Resolved(c.schema) = {c.schema}
  BY <1>1, NoReferenceOfKind
<1>10. Validate(Operation(c), req) = ValidateValue(c.schema, TextsOf(v), here)
  BY <1>7, <1>9 DEF here
<1>11. /\ \A k \in DOMAIN Properties(c.schema) : Kind(c.schema.properties[k]) = "string"
       /\ Typed(c.schema) => Kind(c.schema.additionalProperties) = "string"
       /\ MapOf(c.schema) /\ here \in Locations
  BY <1>1, <1>8 DEF Map, here
<1> QED BY <1>1, <1>10, <1>11, MapOfTexts

LEMMA VerdictOnParameter ==
    ASSUME NEW c, c.schema \in Schemas, c.place.in # "body", Place(c.place), NEW v, JsonValue(v),
           Textual(c.schema, c.place, v), NEW req, req = ReceivedAt(c.place, v)
    PROVE  Validate(Operation(c), req) = {} <=> \E w \in Readings(v) : Conforms(c.schema, w)
<1> DEFINE place == c.place
           s == c.schema
           raw == RawOf(v, place.explode)
           at == <<place.in, "p">>
           some == \E w \in Readings(v) : Conforms(s, w)
<1>1. Enforced(s, Said(v)) /\ (Single(s, v) \/ List(s, place, v) \/ Map(s, place, v))
  BY TextualForms
<1>2. place.in \in {"path", "query", "header"} /\ place.explode \in BOOLEAN
  BY DEF Place
<1>3. at \in Locations
  BY <1>2, PlacesOfParameters
<1>4. Resolved(s) = {s}
  <2>1. Kind(s) \in ScalarKinds \cup {"array", "object", "anyOf"}
    BY <1>1 DEF Single, List, ListOf, Map, MapOf
  <2> QED BY <2>1, NoReferenceOfKind
<1>5. req[place.in] = FieldsOf(place, v)
  <2>1. req = [Silence EXCEPT ![place.in] = FieldsOf(place, v)]
    BY Zenon DEF ReceivedAt, WireOf
  <2>2. place.in \in DOMAIN Silence
    BY <1>2 DEF Silence
  <2> QED BY <2>1, <2>2
<1>6. Kind(s) = "object" => ~Single(s, v) /\ ~List(s, place, v)
  BY DEF Single, List, ListOf, ScalarKinds
<1> HIDE DEF at
<1>7. CASE place.style = "deepObject" /\ Is(v, "obj")
  <2>1. Map(s, place, v)
    <3>1. ~List(s, place, v)
      BY <1>7, OneForm DEF List
    <3> QED BY <1>1, <1>7, <3>1 DEF Single
  <2>2. place.in = "query" /\ Kind(s) = "object" /\ DOMAIN v.obj # {} /\ MapOf(s)
        /\ (Typed(s) => Kind(s.additionalProperties) = "string")
    BY <1>7, <2>1 DEF Place, Map, MapOf
  <2>3. FieldsOf(place, v) = {Field(k, <<<<TextOf(v.obj[k])>>>>) : k \in DOMAIN v.obj}
    BY <1>7, Zenon DEF FieldsOf
  <2>4. req.query = {Field(k, <<<<TextOf(v.obj[k])>>>>) : k \in DOMAIN v.obj}
    <3>1. req["query"] = FieldsOf(place, v)
      BY <1>5, <2>2, Zenon
    <3> QED BY <2>3, <3>1, Zenon
  <2>5. Validate(Operation(c), req) = ValidateValue(s, DeepTexts(s, v), <<"query", "p">>)
    BY <1>2, <1>4, <1>7, <2>2, <2>4, DeepParameter, Zenon
  <2>6. at = <<"query", "p">>
    BY <2>2 DEF at
  <2>7. ValidateValue(s, DeepTexts(s, v), at) = {} <=> some
    BY <1>1, <1>3, <1>7, <2>2, MapOfTyped
  <2> QED BY <2>5, <2>6, <2>7, Zenon
<1>8. CASE ~(place.style = "deepObject" /\ Is(v, "obj"))
  <2>1. FieldsOf(place, v) = {Field(NoText, raw)}
    BY <1>8, Zenon DEF FieldsOf
  <2>2. Map(s, place, v) => Is(v, "obj") /\ place.style # "deepObject"
    BY <1>8 DEF Map
  <2>3. ~(place.style = "deepObject" /\ Kind(s) = "object")
    BY <1>1, <1>6, <2>2
  <2>4. Validate(Operation(c), req) = Serialised(s, raw, place.explode, at)
    <3>1. req[place.in] = {Field(NoText, raw)}
      BY <1>5, <2>1, Zenon
    <3> HIDE DEF raw
    <3> QED BY <1>2, <1>4, <2>3, <3>1, PlainParameter DEF at
  <2>5. Serialised(s, raw, place.explode, at) = {} <=> some
    BY <1>1, <1>2, <1>3, <2>2, VerdictOnSingle, VerdictOnList, VerdictOnMap
  <2> QED BY <2>4, <2>5, Zenon
<1> QED BY <1>7, <1>8

-----------------------------------------------------------------------------
(* The round trip.                                                         *)

\* A value that was made is JSON; what is sent is what the place makes of it, and what is read
\* is what the server makes of that; and what was judged fits on the stack, and is what
\* validate says of the request.
IInv ==
    /\ case \in Cases
    /\ phase # "asked" => IsJson(value)
    /\ phase \in {"sent", "read", "judged"} => wire = WireOf(case.place, value)
    /\ phase \in {"read", "judged"} => request = ReceivedAt(case.place, value)
    /\ phase = "judged" => ~Endless /\ errors = Validate(Operation(case), request)

LEMMA RoundTripInit == Init => IInv
BY DEF Init, IInv

LEMMA RoundTripNext == IInv /\ [Next]_vars => IInv'
<1> SUFFICES ASSUME IInv, [Next]_vars PROVE IInv'
  OBVIOUS
<1> USE DEF IInv
<1>1. CASE Answer
  <2>1. PICK x \in Makes(case) : phase' = (IF x.err THEN "failed" ELSE "made") /\ value' = x.v
    BY <1>1 DEF Answer
  <2>2. IsJson(x.v)
    BY <1>1, CasesAssumption, Zenon DEF Answer
  <2>3. phase' \notin {"sent", "read", "judged"} /\ case' = case
    BY <1>1, <2>1 DEF Answer
  <2> QED BY <2>1, <2>2, <2>3
<1>2. CASE MakeUp
  <2>1. IsJson(value')
    BY <1>2, CasesAssumption, Zenon DEF MakeUp
  <2> QED BY <1>2, <2>1 DEF MakeUp
<1>3. CASE Send
  BY <1>3 DEF Send
<1>4. CASE Read
  <2>1. wire = WireOf(case.place, value)
    BY <1>4 DEF Read
  <2>2. request' = ReceivedAt(case.place, value)
    BY <1>4, <2>1, Zenon DEF Read, ReceivedAt
  <2> QED BY <1>4, <2>2 DEF Read
<1>5. CASE Judge
  <2>1. Endless' = Endless
    BY <1>5 DEF Judge, Endless
  <2>2. Validate(Operation(case), request)' = Validate(Operation(case), request)
    BY <1>5 DEF Judge
  <2> QED BY <1>5, <2>1, <2>2 DEF Judge
<1>6. CASE UNCHANGED vars
  <2>1. Endless' = Endless
    BY <1>6 DEF vars, Endless
  <2> QED BY <1>6, <2>1 DEF vars
<1> QED BY <1>1, <1>2, <1>3, <1>4, <1>5, <1>6 DEF Next

\* The verdict on a JSON body, whole: a value goes out, comes back and is accepted if and
\* only if it conforms.
LEMMA VerdictFromInvariant == IInv => VerdictIsTheMeaning
<1> SUFFICES ASSUME IInv, phase = "judged", JsonBody, Enforced(case.schema, PartsOf(value, Stack))
             PROVE  (errors = {}) = Conforms(case.schema, value)
  BY DEF VerdictIsTheMeaning
<1>1. /\ case.schema \in Schemas /\ IsJson(value) /\ ~Endless
      /\ request = ReceivedAt(case.place, value) /\ errors = Validate(Operation(case), request)
  BY CasesAssumption DEF IInv
<1>2. request.type = Json /\ request.body = {value}
  <2>1. WireOf(case.place, value) = [form |-> "json", value |-> value]
    BY BodyTypes, Zenon DEF WireOf, JsonBody
  <2>2. ReadBody(Json, [form |-> "json", value |-> value]) = {value}
    <3> DEFINE sent == [form |-> "json", value |-> value]
    <3>1. sent.form = "json" /\ sent.value = value /\ sent.form # "empty"
      OBVIOUS
    <3> HIDE DEF sent
    <3>2. ReadBody(Json, sent) = {sent.value}
      BY <3>1, BodyTypes, Zenon DEF ReadBody
    <3> QED BY <3>1, <3>2 DEF sent
  <2>3. request = [Silence EXCEPT !.type = Json, !.body = {value}]
    BY <1>1, <2>1, <2>2, Zenon DEF ReceivedAt, JsonBody
  <2> QED BY <2>3 DEF Silence
<1>3. errors = UNION {ValidateValue(r, value, <<"body">>) : r \in Resolved(case.schema)}
  <2>1. Json \in {Json, UrlEncoded}
    BY Zenon
  <2>2. Validate(Operation(case), request) = UNION {ValidateValue(r, value, <<"body">>) : r \in Resolved(case.schema)}
    BY <1>2, <2>1, BodyIsHeldAgainst, Zenon DEF JsonBody
  <2> QED BY <1>1, <2>2
<1>4. PICK r : Resolved(case.schema) = {r}
  BY <1>1, ResolvedIsSchema, Unfolds
<1>5. r \in Schemas /\ ~Has(r, "ref") /\ Resolved(r) = {r}
  BY <1>1, <1>4, ResolvedIsSchema, TargetOfResolved
<1>6. Enforced(r, PartsOf(value, Stack))
  BY <1>4, <1>5, Unfolds
<1>7. ~Overflows(r, value)
  BY <1>1, <1>2, <1>4 DEF Endless
<1>8. <<"body">> \in Locations
  BY PlaceOfOne, LiteralAssumption, Zenon
<1> DEFINE here == <<"body">>
<1> HIDE DEF here
<1>9. ValidateValue(r, value, here) = {} <=> Conforms(r, value)
  BY <1>1, <1>5, <1>6, <1>7, <1>8, EnforcedVerdictIsTheMeaning, Zenon DEF here
<1>10. Conforms(case.schema, value) = Conforms(r, value)
  <2>1. value \in PartsOf(value, Stack)
    BY StackAssumption, PartsByLevel
  <2>2. Stack \in 0 .. Stack /\ r \in Resolved(case.schema)
    BY <1>4, StackAssumption
  <2>3. Conforming(PartsOf(value, Stack))[Stack][case.schema][value] = Conforming(PartsOf(value, Stack))[Stack][r][value]
    BY <1>1, <2>1, <2>2, ConformingOfResolved
  <2> QED BY <2>3, Unfolds, Zenon
<1>11. errors = ValidateValue(r, value, here)
  BY <1>3, <1>4 DEF here
<1>12. Conforms(r, value) \in BOOLEAN
  <2>1. Stack \in 0 .. Stack /\ value \in PartsOf(value, Stack)
    BY StackAssumption, PartsByLevel
  <2>2. Conforming(PartsOf(value, Stack))[Stack][r][value] =
            (Stack > 0 /\ Means(Target(r), value, Conforming(PartsOf(value, Stack))[Stack - 1]))
    BY <1>5, <2>1, ConformingUnfold
  <2> QED BY <2>2, Unfolds
<1> QED BY <1>9, <1>10, <1>11, <1>12

\* VerdictIsTheMeaning, for every document, every stack and every value: what the server says
\* of a JSON body is what the schema means, however deep the schema and the value are, if the
\* floats of the validator get the numbers in it right.
THEOREM VerdictIsTheMeaningHolds == Spec => []VerdictIsTheMeaning
<1>1. Init => IInv
  BY RoundTripInit
<1>2. IInv /\ [Next]_vars => IInv'
  BY RoundTripNext
<1>3. IInv => VerdictIsTheMeaning
  BY VerdictFromInvariant
<1> QED BY <1>1, <1>2, <1>3, PTL DEF Spec

\* The verdict on a parameter or a form, whole.
LEMMA TextsFromInvariant == IInv => TextsKeepTheirMeaning
<1> SUFFICES ASSUME IInv, phase = "judged", Textual(case.schema, case.place, value)
             PROVE  (errors = {}) = \E v \in Readings(value) : Conforms(case.schema, v)
  BY DEF TextsKeepTheirMeaning
<1>1. /\ case.schema \in Schemas /\ Place(case.place) /\ IsJson(value)
      /\ request = ReceivedAt(case.place, value) /\ errors = Validate(Operation(case), request)
  BY CasesAssumption DEF IInv
<1>2. JsonValue(value)
  <2>1. value \in PartsOf(value, Stack)
    BY StackAssumption, PartsByLevel
  <2> QED BY <1>1, <2>1 DEF IsJson
<1>3. CASE case.place.in = "body"
  <2>1. Enforced(case.schema, Said(value)) /\ case.place.type = UrlEncoded /\ Map(case.schema, case.place, value)
    BY <1>3, TextualForms
  <2>2. Validate(Operation(case), request) = {} <=> \E v \in Readings(value) : Conforms(case.schema, v)
    BY <1>1, <1>2, <1>3, <2>1, VerdictOnForm
  <2> QED BY <1>1, <2>2
<1>4. CASE case.place.in # "body"
  <2>1. Validate(Operation(case), request) = {} <=> \E v \in Readings(value) : Conforms(case.schema, v)
    BY <1>1, <1>2, <1>4, VerdictOnParameter
  <2> QED BY <1>1, <2>1
<1> QED BY <1>3, <1>4

\* TextsKeepTheirMeaning, for every document, place and value, and whatever texts are read as
\* numbers: a parameter or a form is accepted if and only if some value that is written that
\* way conforms.
THEOREM TextsKeepTheirMeaningHolds == Spec => []TextsKeepTheirMeaning
<1>1. Init => IInv
  BY RoundTripInit
<1>2. IInv /\ [Next]_vars => IInv'
  BY RoundTripNext
<1>3. IInv => TextsKeepTheirMeaning
  BY TextsFromInvariant
<1> QED BY <1>1, <1>2, <1>3, PTL DEF Spec

=============================================================================
