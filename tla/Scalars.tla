-------------------------------- MODULE Scalars --------------------------------
(***************************************************************************)
(* support/scalars.cpp: numbers that come as Int, Float or String, their   *)
(* ranges, and the HSV color.                                              *)
(*                                                                         *)
(* A number is an integer of hundredths, or NaN.  The widths of types are  *)
(* constants.  The binary rounding of doubles is not modelled.             *)
(***************************************************************************)
EXTENDS Integers

CONSTANTS
    Long, ULong, Double,  \* int64_t, uint64_t and double
    NaN,
    Error                 \* an exception was thrown

\* A type is a record of its limits and whether it has no fractions.
IsType(T) == T.integral \in BOOLEAN /\ T.min \in Int /\ T.max \in Int

Components == Int \cup {NaN}

ASSUME ScalarsAssumption ==
    /\ \A T \in {Long, ULong, Double} : IsType(T)
    /\ ~Double.integral
    /\ NaN \notin Int /\ Error \notin Components

\* A comparison with NaN is false.
Less(x, y) == x # NaN /\ y # NaN /\ x < y

Within(x, range) == ~Less(x, range.min) /\ ~Less(range.max, x)

InRange(x, range) == x \in Int /\ range.min <= x /\ x <= range.max

\* A double becomes an integer by dropping its fraction.
Truncated(x) == IF x >= 0 THEN x - (x % 100) ELSE -((-x) - ((-x) % 100))

\* The conversion of NaN to an integer is undefined: any value may come of it.
AnyWhole(T) == {y \in T.min .. T.max : y % 100 = 0}

\* Mutant: static_cast, which drops the bits that do not fit.
numeric_castWraps(T, x) ==
    IF ~T.integral
    THEN {x}
    ELSE IF x = NaN
    THEN AnyWhole(T)
    ELSE {T.min + ((Truncated(x) - T.min) % (T.max - T.min + 100))}

\* What boost::numeric_cast may return: it looks at the limits of T by
\* comparisons, which let NaN through.
numeric_cast(T, x) ==
    IF T.integral /\ x = NaN
    THEN AnyWhole(T)
    ELSE LET y == IF T.integral THEN Truncated(x) ELSE x
         IN {IF Within(y, T) THEN y ELSE Error}

\* boost::lexical_cast: the number, if the text is one of type T.
lexical_cast(T, text) ==
    IF text.number # Error /\ (T.integral => text.digits) /\ Within(text.number, T)
    THEN text.number
    ELSE Error

\* A text is a record of the number it denotes, or Error, and of what the code
\* looks at: whether it is empty, starts with "-", has a ".", or is nothing but
\* a sign and digits.  "nan(.)" has a "." and denotes NaN.
stringToNumber(T, text) ==
    LET wide == IF text.point THEN Double ELSE IF text.minus THEN Long ELSE ULong
        number == lexical_cast(wide, text)
    IN IF text.empty \/ number = Error THEN {Error} ELSE numeric_cast(T, number)

\* validateRange() of a number: the range is looked at after the conversion.
CheckRange(T, x, range) ==
    {IF y # Error /\ Within(y, range) THEN y ELSE Error : y \in numeric_cast(T, x)}

\* What validateRange() of a response::Value may return.
validateRange(T, value, range) ==
    LET numbers == CASE value.type \in {"Int", "Float"} -> numeric_cast(T, value.number)
                     [] value.type = "String" -> stringToNumber(T, value)
                     [] OTHER -> {Error}
    IN UNION {IF x = Error THEN {Error} ELSE CheckRange(T, x, range) : x \in numbers}

-----------------------------------------------------------------------------
(* HSVColor *)

HueRange == [min |-> 0, max |-> 36000]
PercentRange == [min |-> 0, max |-> 10000]

\* The ranges of the components.
Ranges == [hue |-> HueRange, saturation |-> PercentRange, value |-> PercentRange]

HSV(h, s, v) == [hue |-> h, saturation |-> s, value |-> v]

\* set(double, double, double): the components are assigned one after the
\* other, and stay when a later one is out of range.  A double is converted to
\* itself, and its range is all that is looked at, by comparisons that let NaN
\* through.
setColor(color, hsv) ==
    LET h == Within(hsv.hue, HueRange)
        s == h /\ Within(hsv.saturation, PercentRange)
        v == s /\ Within(hsv.value, PercentRange)
    IN [ok    |-> v,
        color |-> HSV(IF h THEN hsv.hue ELSE color.hue,
                      IF s THEN hsv.saturation ELSE color.saturation,
                      IF v THEN hsv.value ELSE color.value)]

\* set(string): what sscanf reads.  Without the closing parenthesis it leaves
\* `used` uninitialized, which may happen to be the length of the text.
setColorText(color, text) ==
    LET accepted == IF text.numbers < 3 THEN {FALSE}
                    ELSE IF text.closed THEN {~text.rest}
                    ELSE BOOLEAN
    IN {IF ok THEN setColor(color, text.hsv) ELSE [ok |-> FALSE, color |-> color] :
            ok \in accepted}

\* "%.1f" prints the nearest tenth; of a tie, which depends on the binary
\* fraction, it prints either.
Tenths(x) ==
    IF x = NaN
    THEN {NaN}
    ELSE LET below == x - (x % 10) IN {t \in {below, below + 10} : x - t <= 5 /\ t - x <= 5}

\* What str() may print of a color.
str(color) ==
    {HSV(h, s, v) : h \in Tenths(color.hue), s \in Tenths(color.saturation),
                    v \in Tenths(color.value)}
=============================================================================
