----------------------------- MODULE ScalarsProofs -----------------------------
(***************************************************************************)
(* What the conversions of support/scalars.cpp return, for every width of  *)
(* the types and every range.                                              *)
(***************************************************************************)
EXTENDS Scalars, TLAPS

USE ScalarsAssumption DEF Components

LEMMA TruncatedIsInt ==
  ASSUME NEW x \in Int
  PROVE  Truncated(x) \in Int /\ Truncated(Truncated(x)) = Truncated(x)
  <1>1. CASE x >= 0
    <2>1. x % 100 \in 0 .. 99 /\ x - (x % 100) >= 0 /\ (x - (x % 100)) % 100 = 0
      BY <1>1
    <2> QED
      BY <1>1, <2>1 DEF Truncated
  <1>2. CASE x < 0
    <2> DEFINE y == -x
    <2>1. y % 100 \in 0 .. 99 /\ y - (y % 100) >= 0 /\ (y - (y % 100)) % 100 = 0
      BY <1>2
    <2>2. Truncated(x) = -(y - (y % 100))
      BY <1>2 DEF Truncated
    <2>3. CASE y - (y % 100) = 0
      BY <2>2, <2>3 DEF Truncated
    <2>4. CASE y - (y % 100) > 0
      BY <2>1, <2>2, <2>4 DEF Truncated
    <2> QED
      BY <2>1, <2>3, <2>4
  <1> QED
    BY <1>1, <1>2

LEMMA WithinOfInt ==
  ASSUME NEW x \in Int, NEW range, range.min \in Int, range.max \in Int
  PROVE  Within(x, range) <=> InRange(x, range)
  BY DEF Within, Less, InRange

\* Whatever numeric_cast() is given, what it returns is an integer of the type.
LEMMA CastIsOfType ==
  ASSUME NEW T, IsType(T), T.integral, NEW x \in Components,
         NEW outcome \in numeric_cast(T, x), outcome # Error
  PROVE  /\ outcome \in Int /\ InRange(outcome, T) /\ Truncated(outcome) = outcome
         /\ x # NaN => outcome = Truncated(x)
  <1>1. CASE x = NaN
    <2>1. outcome \in T.min .. T.max /\ outcome % 100 = 0
      BY <1>1 DEF numeric_cast, AnyWhole
    <2>2. outcome \in Int
      BY <2>1 DEF IsType
    <2>3. (-outcome) % 100 = 0
      BY <2>1, <2>2
    <2>4. Truncated(outcome) = outcome
      BY <2>1, <2>2, <2>3 DEF Truncated
    <2> QED
      BY <1>1, <2>1, <2>2, <2>4 DEF IsType, InRange
  <1>2. CASE x # NaN
    <2>1. x \in Int
      BY <1>2
    <2>2. outcome = Truncated(x) /\ Within(Truncated(x), T)
      BY <1>2 DEF numeric_cast
    <2> QED
      BY <1>2, <2>1, <2>2, TruncatedIsInt, WithinOfInt DEF IsType
  <1> QED
    BY <1>1, <1>2

LEMMA CastOfWhole ==
  ASSUME NEW T, IsType(T), T.integral, NEW x \in Int, Truncated(x) = x, InRange(x, T)
  PROVE  numeric_cast(T, x) = {x}
  BY WithinOfInt DEF numeric_cast, IsType

\* What a text becomes.  It need not denote a number.
LEMMA TextIsOfType ==
  ASSUME NEW T, IsType(T), T.integral, NEW text, text.number \in Components \cup {Error},
         NEW outcome \in stringToNumber(T, text), outcome # Error
  PROVE  /\ text.number \in Components
         /\ outcome \in Int /\ InRange(outcome, T) /\ Truncated(outcome) = outcome
         /\ text.number # NaN => outcome = Truncated(text.number)
  <1>1. text.number \in Components /\ outcome \in numeric_cast(T, text.number)
    BY DEF stringToNumber, lexical_cast
  <1> QED
    BY <1>1, CastIsOfType

\* What validateRange() returns unless it throws is an integer in the limits of
\* the type and in the range, whatever number came as Int, Float or String,
\* that of a text which denotes NaN included.  Unless it is that, the result is
\* the number that was sent without its fraction.
THEOREM ValidatedIsInRange ==
  ASSUME NEW T, IsType(T), T.integral,
         NEW range, range.min \in Int, range.max \in Int,
         NEW value, value.number \in Components \cup {Error},
         value.type \in {"Int", "Float"} => value.number \in Int,
         NEW outcome \in validateRange(T, value, range), outcome # Error
  PROVE  /\ InRange(outcome, range) /\ InRange(outcome, T)
         /\ value.number # NaN => outcome = Truncated(value.number)
  <1> DEFINE numbers == CASE value.type \in {"Int", "Float"} -> numeric_cast(T, value.number)
                          [] value.type = "String" -> stringToNumber(T, value)
                          [] OTHER -> {Error}
  <1>1. PICK x \in numbers : x # Error /\ outcome \in CheckRange(T, x, range)
    BY DEF validateRange
  <1>2. /\ x \in Int /\ InRange(x, T) /\ Truncated(x) = x
        /\ value.number # NaN => x = Truncated(value.number)
    <2>1. CASE value.type \in {"Int", "Float"}
      <3>1. x \in numeric_cast(T, value.number) /\ value.number \in Components
        BY <2>1
      <3> QED
        BY <1>1, <3>1, CastIsOfType
    <2>2. CASE value.type = "String"
      <3>1. x \in stringToNumber(T, value)
        BY <2>2
      <3> QED
        BY <1>1, <3>1, TextIsOfType
    <2>3. CASE value.type \notin {"Int", "Float", "String"}
      BY <1>1, <2>3
    <2> QED
      BY <2>1, <2>2, <2>3
  <1> HIDE DEF numbers
  <1>3. CheckRange(T, x, range) = {IF x # Error /\ Within(x, range) THEN x ELSE Error}
    BY <1>2, CastOfWhole DEF CheckRange
  <1>4. outcome = x /\ Within(x, range)
    BY <1>1, <1>3
  <1> QED
    BY <1>2, <1>4, WithinOfInt

-----------------------------------------------------------------------------
(* HSVColor *)

\* A component is in its range, or it is NaN, which the comparisons of the code
\* let through.
InRangeOrNaN(x, range) == InRange(x, range) \/ x = NaN

ColorInRangeOrNaN(color) == \A part \in DOMAIN Ranges : InRangeOrNaN(color[part], Ranges[part])

LEMMA PartsOfColors ==
  /\ DOMAIN Ranges = {"hue", "saturation", "value"}
  /\ Ranges.hue = HueRange /\ Ranges.saturation = PercentRange /\ Ranges.value = PercentRange
  BY DEF Ranges

LEMMA WithinIsInRange ==
  ASSUME NEW x \in Components, NEW range \in {HueRange, PercentRange}
  PROVE  Within(x, range) <=> InRangeOrNaN(x, range)
  BY DEF Within, Less, InRange, InRangeOrNaN, HueRange, PercentRange

\* Whatever set() is given, and also when it throws after it has assigned some
\* components, each component is what it was, or is what was given and then in
\* its range or NaN.  So a color that is in its ranges only leaves them for a
\* NaN that was given.
THEOREM SetKeepsInRange ==
  ASSUME NEW color, NEW hsv, NEW part \in DOMAIN Ranges,
         hsv.hue \in Components, hsv.saturation \in Components, hsv.value \in Components
  PROVE  LET after == setColor(color, hsv).color[part] IN
         \/ after = color[part]
         \/ after = hsv[part] /\ (InRange(after, Ranges[part]) \/ after = NaN)
  <1> DEFINE h == Within(hsv.hue, HueRange)
             s == h /\ Within(hsv.saturation, PercentRange)
             v == s /\ Within(hsv.value, PercentRange)
             after == setColor(color, hsv).color
  <1>1. after = HSV(IF h THEN hsv.hue ELSE color.hue,
                    IF s THEN hsv.saturation ELSE color.saturation,
                    IF v THEN hsv.value ELSE color.value)
    BY DEF setColor
  <1>2. /\ h => InRangeOrNaN(hsv.hue, HueRange)
        /\ s => InRangeOrNaN(hsv.saturation, PercentRange)
        /\ v => InRangeOrNaN(hsv.value, PercentRange)
    BY WithinIsInRange
  <1>3. /\ after.hue = IF h THEN hsv.hue ELSE color.hue
        /\ after.saturation = IF s THEN hsv.saturation ELSE color.saturation
        /\ after.value = IF v THEN hsv.value ELSE color.value
    BY <1>1 DEF HSV
  <1> HIDE DEF h, s, v, after
  <1>4. CASE part = "hue"
    BY <1>2, <1>3, <1>4, PartsOfColors DEF InRangeOrNaN, after
  <1>5. CASE part = "saturation"
    BY <1>2, <1>3, <1>5, PartsOfColors DEF InRangeOrNaN, after
  <1>6. CASE part = "value"
    BY <1>2, <1>3, <1>6, PartsOfColors DEF InRangeOrNaN, after
  <1> QED
    BY <1>4, <1>5, <1>6, PartsOfColors

LEMMA TenthsInRange ==
  ASSUME NEW range \in {HueRange, PercentRange}, NEW x, InRangeOrNaN(x, range), NEW t \in Tenths(x)
  PROVE  t \in Components /\ InRangeOrNaN(t, range)
  <1>1. CASE x = NaN
    BY <1>1 DEF Tenths, InRangeOrNaN
  <1>2. CASE x # NaN
    <2>1. x \in Int /\ 0 <= x /\ (range.max = 36000 \/ range.max = 10000) /\ range.min = 0
          /\ x <= range.max
      BY <1>2 DEF InRangeOrNaN, InRange, HueRange, PercentRange
    <2>2. t \in Int /\ (t = x - (x % 10) \/ (t = x - (x % 10) + 10 /\ t - x <= 5))
      BY <1>2, <2>1 DEF Tenths
    <2>3. x % 10 \in 0 .. 9 /\ 0 <= x - (x % 10)
      BY <2>1
    <2>4. t <= range.max
      BY <2>1, <2>2, <2>3
    <2> QED
      BY <2>1, <2>2, <2>3, <2>4 DEF InRangeOrNaN, InRange
  <1> QED
    BY <1>1, <1>2

\* What str() prints of a color whose components are in their ranges or NaN is
\* accepted by set(): rounding to a tenth does not lead out of a range.
THEOREM PrintedCanBeSet ==
  ASSUME NEW color, ColorInRangeOrNaN(color), NEW printed \in str(color)
  PROVE  setColor(color, printed).ok
  <1>1. PICK h \in Tenths(color.hue), s \in Tenths(color.saturation), v \in Tenths(color.value) :
           printed = HSV(h, s, v)
    BY DEF str
  <1>2. /\ InRangeOrNaN(color.hue, HueRange)
        /\ InRangeOrNaN(color.saturation, PercentRange)
        /\ InRangeOrNaN(color.value, PercentRange)
    BY PartsOfColors DEF ColorInRangeOrNaN
  <1>3. /\ h \in Components /\ InRangeOrNaN(h, HueRange)
        /\ s \in Components /\ InRangeOrNaN(s, PercentRange)
        /\ v \in Components /\ InRangeOrNaN(v, PercentRange)
    BY <1>2, TenthsInRange
  <1>4. Within(h, HueRange) /\ Within(s, PercentRange) /\ Within(v, PercentRange)
    BY <1>3, WithinIsInRange
  <1> QED
    BY <1>1, <1>4 DEF setColor, HSV
=============================================================================
