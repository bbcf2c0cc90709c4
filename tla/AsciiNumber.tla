----------------------------- MODULE AsciiNumber -----------------------------
(***************************************************************************)
(* parse_number_string (ascii_number.h): a text is split into sign,        *)
(* digits, point, digits and exponent, and becomes a word and a power of   *)
(* ten.  A text is a sequence of characters, a position in it an index; a  *)
(* format is a set of flags.  Integers are read with the wrap-around of a  *)
(* word, as in the code, which corrects them at the end.                   *)
(***************************************************************************)
EXTENDS FloatCommon

CONSTANT ExponentCap    \* 0x10000000: no further digits of an exponent count

ASSUME ExponentCapAssumption == ExponentCap \in Nat \ {0}

Numeral == [c \in {"0", "1", "2", "3", "4", "5", "6", "7", "8", "9"} |->
    CHOOSE n \in 0 .. 9 :
        <<"0", "1", "2", "3", "4", "5", "6", "7", "8", "9">>[n + 1] = c]

(* chars_format *)
general == {"fixed", "scientific"}
json == general \cup {"json", "no_infnan"}
json_or_infnan == general \cup {"json"}
fortran == general \cup {"fortran"}

IsInteger(c) == c \in DOMAIN Numeral

(* The position after the digits that start at p. *)
EndOfDigits(s, p) == Min({q \in p .. Len(s) + 1 : q > Len(s) \/ ~IsInteger(s[q])})

At(s, p, chars) == p <= Len(s) /\ s[p] \in chars

ReadDigits(i, digits) == FoldLeft(LAMBDA n, c : (10 * n + Numeral[c]) % Word, i, digits)

(* parse_eight_digits_unrolled: neighbours are joined, to numbers of two,  *)
(* four and eight digits.                                                  *)
ParseEightDigits(digits) ==
    LET lanes[k \in 0 .. 3] ==
            IF k = 0 THEN [j \in 1 .. 8 |-> Numeral[digits[j]]]
            ELSE [j \in 1 .. 2 ^ (3 - k) |->
                     lanes[k - 1][2 * j - 1] * 10 ^ (2 ^ (k - 1)) + lanes[k - 1][2 * j]]
    IN  lanes[3][1]

(* loop_parse_if_eight_digits, and then digit by digit. *)
ReadFraction(i, digits) ==
    LET eights == Len(digits) \div 8
        eight(g) == ParseEightDigits(SubSeq(digits, 8 * g - 7, 8 * g))
        looped == FoldLeft(LAMBDA n, g : (n * (10 ^ 8 % Word) + eight(g)) % Word,
                           i, [g \in 1 .. eights |-> g])
    IN  ReadDigits(looped, SubSeq(digits, 8 * eights + 1, Len(digits)))

-------------------------------------------------------------------------------
(* At most this many digits fit a word, whatever they are: 19. *)
WordDigits == DigitsBelow(Word)

(* How many digits a second reading takes: until the word has 19 digits. *)
Taken(i, digits) ==
    Min({k \in 0 .. Len(digits) :
             \/ ReadDigits(i, SubSeq(digits, 1, k)) >= 10 ^ (WordDigits - 1)
             \/ k = Len(digits)})

(* Zeroes before the first other digit, the point among them or not. *)
LeadingZeros(s, p) ==
    LET q == Min({r \in p .. Len(s) + 1 : r > Len(s) \/ s[r] \notin {"0", "."}})
    IN  Cardinality({r \in p .. q - 1 : s[r] = "0"})

(* The mantissa cut to 19 digits, and the exponent that goes with it. *)
Truncated(integer, fraction, exp_number) ==
    LET k == Taken(0, integer)
        i == ReadDigits(0, SubSeq(integer, 1, k))
        f == Taken(i, fraction)
    IN  IF i >= 10 ^ (WordDigits - 1)
        THEN [mantissa |-> i, exponent |-> Len(integer) - k + exp_number]
        ELSE [mantissa |-> ReadDigits(i, SubSeq(fraction, 1, f)), exponent |-> exp_number - f]

-------------------------------------------------------------------------------
(* The explicit exponent that starts at p: where its digits are. *)
ExponentDigits(s, p) ==
    LET q == IF At(s, p, {"e", "E", "d", "D"}) THEN p + 1 ELSE p
        r == IF At(s, q, {"-", "+"}) THEN q + 1 ELSE q
    IN  [negative |-> At(s, q, {"-"}), first |-> r, digits |-> SubSeq(s, r, EndOfDigits(s, r) - 1)]

StartsExponent(s, p, fmt) ==
    \/ "scientific" \in fmt /\ At(s, p, {"e", "E"})
    \/ "fortran" \in fmt /\ At(s, p, {"+", "-", "d", "D"})

ExponentNumber(e) ==
    LET n == FoldLeft(LAMBDA m, c : IF m < ExponentCap THEN 10 * m + Numeral[c] ELSE m, 0, e.digits)
    IN  IF e.negative THEN -n ELSE n

(* Variant of HasExponent: an e always belongs to the number. *)
HasExponentAlways(s, p, fmt) == StartsExponent(s, p, fmt)

(* The e without digits is ignored, where that is allowed. *)
HasExponent(s, p, fmt) == StartsExponent(s, p, fmt) /\ ExponentDigits(s, p).digits # << >>

SignIsRight(s, fmt) ==
    s[1] = "-" => At(s, 2, DOMAIN Numeral \cup (IF "json" \in fmt THEN {} ELSE {"."}))

DigitsAreRight(integer, point, fraction, fmt) ==
    IF "json" \in fmt
    THEN /\ integer # << >> /\ (integer[1] = "0" => Len(integer) = 1)
         /\ point => fraction # << >>
    ELSE integer # << >> \/ fraction # << >>

ExponentIsRight(s, p, fmt) ==
    IF StartsExponent(s, p, fmt)
    THEN ExponentDigits(s, p).digits # << >> \/ "fixed" \in fmt
    ELSE "scientific" \in fmt => "fixed" \in fmt

ParseNumberString(s, fmt) ==
    LET negative == s[1] = "-"
        start_digits == IF negative THEN 2 ELSE 1
        end_of_integer_part == EndOfDigits(s, start_digits)
        has_decimal_point == At(s, end_of_integer_part, {"."})
        p == IF has_decimal_point THEN EndOfDigits(s, end_of_integer_part + 1) ELSE end_of_integer_part
        integer == SubSeq(s, start_digits, end_of_integer_part - 1)
        fraction == SubSeq(s, end_of_integer_part + 1, p - 1)
        exp_number == IF HasExponent(s, p, fmt) THEN ExponentNumber(ExponentDigits(s, p)) ELSE 0
        lastmatch == IF HasExponent(s, p, fmt) THEN EndOfDigits(s, ExponentDigits(s, p).first) ELSE p
        digit_count == Len(integer) + Len(fraction)
        too_many_digits ==
            digit_count > WordDigits /\ digit_count - LeadingZeros(s, start_digits) > WordDigits
        whole == [mantissa |-> ReadFraction(ReadDigits(0, integer), fraction),
                  exponent |-> exp_number - Len(fraction)]
        number == IF too_many_digits THEN Truncated(integer, fraction, exp_number) ELSE whole
        valid == /\ SignIsRight(s, fmt)
                 /\ DigitsAreRight(integer, has_decimal_point, fraction, fmt)
                 /\ ExponentIsRight(s, p, fmt)
    IN  IF ~valid THEN [valid |-> FALSE]
        ELSE [valid |-> TRUE, negative |-> negative, lastmatch |-> lastmatch,
              integer |-> integer, fraction |-> fraction, too_many_digits |-> too_many_digits,
              mantissa |-> number.mantissa, exponent |-> number.exponent]
===============================================================================
