------------------------------ MODULE FromChars ------------------------------
(***************************************************************************)
(* from_chars (parse_number.h), through which EfxMfc.cpp reads every       *)
(* number of an answer and the ROE of the stock masters: a text becomes a  *)
(* float or a double, by the exact product of small numbers, by a product  *)
(* with a table, or by comparing all digits; "inf" and "nan" are read when *)
(* the text is no number.                                                  *)
(*                                                                         *)
(* External: the floating-point unit, whose product or quotient of two     *)
(* floats is the exact one, rounded in the mode that the thread is in.     *)
(***************************************************************************)
EXTENDS DecimalToBinary, DigitComparison, FloatReference

CONSTANTS
    Inputs,          \* <<text, chars_format>>: what from_chars is called with
    Modes            \* the thread's rounding modes

ASSUME ModesAssumption == Modes \subseteq {"nearest", "up", "down"}

(* A format asks for fixed or scientific numbers, or both: the other flags *)
(* of chars_format only stand beside these (float_common.h:18-29).         *)
ASSUME InputsAssumption == \A in \in Inputs : in[1] \in Seq(STRING) /\ in[2] \cap general # {}

VARIABLES
    text, fmt,       \* [first, last) and the format
    format,          \* binary_format<T>, of float or of double
    mode,            \* external: the rounding mode
    pc,              \* where the call is
    pns,             \* the parsed_number_string
    am,              \* the adjusted_mantissa
    value,           \* the caller's variable: sign and bits
    result,          \* ptr, as a position in text, and ec
    fits             \* history: no big integer ran out of limbs

input == <<text, fmt, format, mode>>
callVars == <<text, fmt, format, mode, pc, pns, am, value, result, fits>>

Signed(negative, bits) == [negative |-> negative, bits |-> bits]

(* What the variable held before the call. *)
old == Signed(FALSE, -1)

NaN == Infinity(format) + 2 ^ (format.mantissa_explicit_bits - 1)

CallInit ==
    /\ \E in \in Inputs : text = in[1] /\ fmt = in[2]
    /\ format \in {Float, Double} /\ mode \in Modes
    /\ pc = "called" /\ pns = [valid |-> FALSE] /\ am = Adjusted(0, 0)
    /\ value = old /\ result = [ptr |-> 1, ec |-> "none"] /\ fits = TRUE

Return(v, ptr, ec) ==
    /\ pc' = "done" /\ value' = v /\ result' = [ptr |-> ptr, ec |-> ec]
    /\ UNCHANGED <<input, pns, am, fits>>

-------------------------------------------------------------------------------
(* fastfloat_strncasecmp, against a word in small letters. *)
Upper == [c \in {"n", "a", "i", "f", "t", "y"} |->
    CASE c = "n" -> "N" [] c = "a" -> "A" [] c = "i" -> "I"
      [] c = "f" -> "F" [] c = "t" -> "T" [] c = "y" -> "Y"]

Matches(s, p, word) ==
    /\ p + Len(word) - 1 <= Len(s)
    /\ \A i \in 1 .. Len(word) : s[p + i - 1] \in {word[i], Upper[word[i]]}

(* After nan: a parenthesis with letters, digits and _, if there is one. *)
EndOfNan(s, p) ==
    LET closing == {c \in p + 1 .. Len(s) : s[c] = ")" /\
                       \A i \in p + 1 .. c - 1 : s[i] \notin {"(", ")", " ", ".", "-", "+"}}
    IN  IF At(s, p, {"("}) /\ closing # {} THEN Min(closing) + 1 ELSE p

(* parse_infnan: the value and the end, or nothing. *)
InfNan(s) ==
    LET minusSign == s[1] = "-"
        first == IF minusSign THEN 2 ELSE 1
        last == IF Matches(s, first + 3, <<"i", "n", "i", "t", "y">>) THEN first + 8 ELSE first + 3
    IN  CASE Matches(s, first, <<"n", "a", "n">>) ->
               {<<Signed(minusSign, NaN), EndOfNan(s, first + 3)>>}
          [] Matches(s, first, <<"i", "n", "f">>) -> {<<Signed(minusSign, Infinity(format)), last>>}
          [] OTHER -> {}

-------------------------------------------------------------------------------
NoText ==
    /\ pc = "called" /\ text = << >>
    /\ Return(value, 1, "invalid")

Parse ==
    /\ pc = "called" /\ text # << >>
    /\ pns' = ParseNumberString(text, fmt)
    /\ pc' = "parsed"
    /\ UNCHANGED <<input, am, value, result, fits>>

NoNumber ==
    /\ pc = "parsed" /\ ~pns.valid
    /\ IF "no_infnan" \in fmt \/ InfNan(text) = {} THEN Return(value, 1, "invalid")
       ELSE \E r \in InfNan(text) : Return(r[1], r[2], "none")

(* Clinger's fast path: both numbers are exact floats.  Without rounding   *)
(* to nearest, only if the product is one, too.                            *)
CanMultiply ==
    /\ pns.valid
    /\ pns.exponent \in -format.max_exponent_fast_path .. format.max_exponent_fast_path
    /\ ~pns.too_many_digits
    /\ IF mode = "nearest" THEN pns.mantissa <= format.max_mantissa_fast_path
       ELSE pns.exponent >= 0 /\ pns.mantissa <= format.max_mantissa[pns.exponent]

Rounded(x) ==
    CASE mode = "nearest" -> Nearest(format.type, x)
      [] mode = "up" -> NextUp(format.type, x)
      [] mode = "down" -> NextDown(format.type, x)

FastPath ==
    /\ pc = "parsed" /\ CanMultiply
    /\ Return(Signed(pns.negative, Rounded(Exact(DigitsOf(pns.mantissa), pns.exponent))),
              pns.lastmatch, "none")

Compute ==
    /\ pc = "parsed" /\ pns.valid /\ ~CanMultiply
    /\ am' = ComputeFloat(format, pns.exponent, pns.mantissa)
    /\ pc' = "computed"
    /\ UNCHANGED <<input, pns, value, result, fits>>

(* Variant of Recheck: the digits that were cut off are forgotten. *)
RecheckNothing ==
    /\ pc = "computed"
    /\ pc' = "rechecked"
    /\ UNCHANGED <<input, pns, am, value, result, fits>>

(* Digits were cut off: is the result the same at the next mantissa? *)
Recheck ==
    /\ pc = "computed"
    /\ am' = IF /\ pns.too_many_digits /\ am.power2 >= 0
                /\ am # ComputeFloat(format, pns.exponent, pns.mantissa + 1)
             THEN ComputeError(format, pns.exponent, pns.mantissa) ELSE am
    /\ pc' = "rechecked"
    /\ UNCHANGED <<input, pns, value, result, fits>>

LongWay ==
    /\ pc = "rechecked" /\ am.power2 < 0
    /\ \E decided \in {DigitComp(format, pns, am)} :
           am' = decided.am /\ fits' = (fits /\ decided.ok)
    /\ UNCHANGED <<input, pc, pns, value, result>>

(* Variant of Finish: only infinity is out of range. *)
FinishUnderflow ==
    /\ pc = "rechecked" /\ am.power2 >= 0
    /\ Return(Signed(pns.negative, ToFloat(format, am)), pns.lastmatch,
              IF am.power2 = format.infinite_power THEN "range" ELSE "none")

Finish ==
    /\ pc = "rechecked" /\ am.power2 >= 0
    /\ Return(Signed(pns.negative, ToFloat(format, am)), pns.lastmatch,
              IF \/ pns.mantissa # 0 /\ am = Adjusted(0, 0)
                 \/ am.power2 = format.infinite_power
              THEN "range" ELSE "none")

Done == pc = "done" /\ UNCHANGED callVars

CallNext == NoText \/ Parse \/ NoNumber \/ FastPath \/ Compute \/ Recheck \/ LongWay \/ Finish \/ Done

CallSpec == CallInit /\ [][CallNext]_callVars

-------------------------------------------------------------------------------
Length == NumberLength(text, fmt)
Wanted == NumberValue(text, Length, fmt)
IsNumber == pc = "done" /\ Length > 0

(* The value is the nearest float to the number in the text, and of two    *)
(* that are as near the even one, whichever way it was found, however many *)
(* digits there are and whatever the thread's rounding mode is             *)
(* (fast_float.h:12-15).                                                   *)
NearestValue == IsNumber => value = Signed(text[1] = "-", Nearest(format.type, Wanted))

(* The call takes the longest number that the text begins with.  If there  *)
(* is none, and no inf or nan, ptr stays at the beginning and the caller's *)
(* variable keeps what it held, which is what EfxMfc.cpp:258 then stores.  *)
TakesLongestNumber ==
    pc = "done" =>
        /\ Length > 0 => result.ptr = Length + 1 /\ result.ec # "invalid"
        /\ Length = 0 => (result.ec = "invalid" <=> value = old)
        /\ result.ec = "invalid" => result.ptr = 1

(* Out of range is reported exactly for a result that is infinite, or zero *)
(* although the number is not, and the variable is set all the same.       *)
RangeReported ==
    IsNumber => (result.ec = "range" <=>
        \/ value.bits = Infinity(format)
        \/ value.bits = 0 /\ Wanted.digits # << >>)

(* The big integers have limbs enough for every number: the code does not  *)
(* look at the results that would say otherwise.                           *)
BigintsFit == fits
===============================================================================
