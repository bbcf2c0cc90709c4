--------------------------- MODULE DigitComparison ---------------------------
(***************************************************************************)
(* digit_comparison.h: the long way from digits to the nearest float.  All *)
(* digits go into a big integer; from a large one the highest word is      *)
(* rounded, and a small one is compared with the number halfway between    *)
(* two neighbours.                                                         *)
(***************************************************************************)
EXTENDS AsciiNumber, Bigint

(* scientific_exponent: the power of ten of the first digit. *)
ScientificExponent(num) ==
    num.exponent + Cardinality({k \in 1 .. WordDigits : 10 ^ k <= num.mantissa})

(* to_extended, of the bits of a float. *)
ToExtended(format, bits) ==
    LET hidden == 2 ^ format.mantissa_explicit_bits
        bias == format.mantissa_explicit_bits - format.minimum_exponent
    IN  IF bits < hidden THEN Adjusted(bits, 1 - bias)
        ELSE Adjusted((bits % hidden) + hidden, bits \div hidden - bias)

(* The number halfway between a float and the next one. *)
ToExtendedHalfway(format, bits) ==
    LET am == ToExtended(format, bits) IN Adjusted(2 * am.mantissa + 1, am.power2 - 1)

-------------------------------------------------------------------------------
(* Shift the mantissa out, and the power up. *)
RoundDown(am, shift) == Adjusted(Shr(am.mantissa, shift), am.power2 + shift)

(* round_nearest_tie_even: up says whether the cut mantissa goes up, of    *)
(* whether it is odd and its rest is half of one or more.                  *)
RoundNearestTieEven(am, shift, up) ==
    LET halfway == IF shift = 0 THEN 0 ELSE 2 ^ (shift - 1)
        truncated_bits == am.mantissa % 2 ^ shift
        rounded(down) ==
            IF up[down.mantissa % 2 = 1, truncated_bits = halfway, truncated_bits > halfway]
            THEN Adjusted(down.mantissa + 1, down.power2) ELSE down
    IN  rounded(RoundDown(am, shift))

(* With this the above is round_down. *)
Downward == [is_odd, is_halfway, is_above \in BOOLEAN |-> FALSE]

(* round<T>: a subnormal has fewer bits; a carry may make it normal, raise *)
(* the power, or reach infinity.                                           *)
Round(format, am, up) ==
    LET hidden == 2 ^ format.mantissa_explicit_bits
        mantissa_shift == WordBits - format.mantissa_explicit_bits - 1
        denormal == RoundNearestTieEven(am, Min({1 - am.power2, WordBits}), up)
        normal == RoundNearestTieEven(am, mantissa_shift, up)
        carried == normal.mantissa >= 2 * hidden
        power2 == IF carried THEN normal.power2 + 1 ELSE normal.power2
    IN  IF -am.power2 >= mantissa_shift
        THEN Adjusted(denormal.mantissa, IF denormal.mantissa < hidden THEN 0 ELSE 1)
        ELSE IF power2 >= format.infinite_power THEN Adjusted(0, format.infinite_power)
        ELSE Adjusted(IF carried THEN 0 ELSE normal.mantissa % hidden, power2)

-------------------------------------------------------------------------------
SkipZeros(digits) ==
    SubSeq(digits, Min({i \in 1 .. Len(digits) + 1 : i > Len(digits) \/ digits[i] # "0"}), Len(digits))

IsTruncated(digits) == \E i \in 1 .. Len(digits) : digits[i] # "0"

AddNative(big, power, value) == Add(Mul(big, power), value)

(* The digits go into the number by as many as a limb holds: 9. *)
AddDigits(big, digits) ==
    LET step == DigitsBelow(Limb)
        chunk(g) == SubSeq(digits, step * (g - 1) + 1, Min({step * g, Len(digits)}))
        add(b, g) == AddNative(b, 10 ^ Len(chunk(g)), ReadDigits(0, chunk(g)))
    IN  FoldLeft(add, big, [g \in 1 .. (Len(digits) + step - 1) \div step |-> g])

(* i digits of the integer and f of the fraction count, and a further 1 if *)
(* one of the digits that are cut off is not zero.                         *)
MantissaOf(integer, fraction, i, f) ==
    LET further(read) ==
            IF \/ IsTruncated(SubSeq(integer, i + 1, Len(integer)))
               \/ IsTruncated(SubSeq(fraction, f + 1, Len(fraction)))
            THEN [big |-> AddNative(read, 10, 1), digits |-> i + f + 1]
            ELSE [big |-> read, digits |-> i + f]
    IN  further(AddDigits(AddDigits(Big(TRUE, << >>), SubSeq(integer, 1, i)), SubSeq(fraction, 1, f)))

(* Variant of ParseMantissa: every digit is read. *)
ParseMantissaAll(num, max_digits) ==
    MantissaOf(num.integer, num.fraction, Len(num.integer), Len(num.fraction))

(* parse_mantissa: at most max_digits significant digits. *)
ParseMantissa(num, max_digits) ==
    LET cut(integer, fraction, i) ==
            MantissaOf(integer, fraction, i, Min({Len(fraction), max_digits - i}))
        significant(integer, fraction) == cut(integer, fraction, Min({Len(integer), max_digits}))
        skipped(integer) ==
            significant(integer, IF integer = << >> THEN SkipZeros(num.fraction) ELSE num.fraction)
    IN  skipped(SkipZeros(num.integer))

-------------------------------------------------------------------------------
(* The result, and whether the big integers were large enough. *)
Decided(am, ok) == [am |-> am, ok |-> ok]

RoundHigh(format, b, high) ==
    LET bias == format.mantissa_explicit_bits - format.minimum_exponent
        up == [is_odd, is_halfway, is_above \in BOOLEAN |->
                  is_above \/ (is_halfway /\ high.truncated) \/ (is_odd /\ is_halfway)]
    IN  Decided(Round(format, Adjusted(high.word, BitLength(b.vec) - WordBits + bias), up), b.ok)

PositiveDigitComp(format, bigmant, exponent) ==
    LET rounded(b) == RoundHigh(format, b, Hi64(b.vec)) IN rounded(Pow10(bigmant, exponent))

RoundComparing(format, am, ord) ==
    LET up == [is_odd, is_halfway, is_above \in BOOLEAN |-> ord > 0 \/ (ord = 0 /\ is_odd)]
    IN  Round(format, am, up)

(* The digits are n * 10^e and halfway is m * 2^f: n and m * 5^-e * 2^(f-e)*)
(* are compared, or the one that needs it is shifted.                      *)
NegativeDigitComp(format, bigmant, am, exponent) ==
    LET decided(real, theor) ==
            Decided(RoundComparing(format, am, Compare(real.vec, theor.vec)), real.ok /\ theor.ok)
        scaled(theor_digits, pow2_exp) ==
            CASE pow2_exp > 0 -> decided(bigmant, Pow2(theor_digits, pow2_exp))
              [] pow2_exp < 0 -> decided(Pow2(bigmant, -pow2_exp), theor_digits)
              [] pow2_exp = 0 -> decided(bigmant, theor_digits)
        compared(theor) ==
            scaled(Pow5(FromWord(theor.mantissa), -exponent), theor.power2 - exponent)
    IN  compared(ToExtendedHalfway(format, ToFloat(format, Round(format, am, Downward))))

DigitComp(format, num, am) ==
    LET invalid == Adjusted(am.mantissa, am.power2 - invalid_am_bias)
        compared(mant, exponent) ==
            IF exponent >= 0 THEN PositiveDigitComp(format, mant.big, exponent)
            ELSE NegativeDigitComp(format, mant.big, invalid, exponent)
        parsed(mant) == compared(mant, ScientificExponent(num) + 1 - mant.digits)
    IN  parsed(ParseMantissa(num, format.max_digits))
===============================================================================
