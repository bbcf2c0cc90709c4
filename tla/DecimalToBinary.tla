--------------------------- MODULE DecimalToBinary ---------------------------
(***************************************************************************)
(* decimal_to_binary.h: the float nearest to w * 10^q for a word w, from   *)
(* one or two products with a table of powers of five, and the estimate    *)
(* compute_error that the long way starts from.                            *)
(***************************************************************************)
EXTENDS FloatCommon

(* The table has 2 * WordBits bits of 5^q; the second word is used only    *)
(* when the first product leaves the wanted bits undecided.                *)
Undecided(product, bit_precision) ==
    LET mask == Shr(Word - 1, bit_precision) + 1 IN product.high % mask = mask - 1

Refined(firstproduct, secondproduct) ==
    LET sum == firstproduct.low + secondproduct.high
    IN  [low |-> sum % Word, high |-> firstproduct.high + sum \div Word]

ProductApproximation(bit_precision, w, powers) ==
    LET first(product) ==
            IF Undecided(product, bit_precision)
            THEN Refined(product, FullMultiplication(w, powers[2])) ELSE product
    IN  first(FullMultiplication(w, powers[1]))

ComputeProductApproximation(bit_precision, q, w) ==
    ProductApproximation(bit_precision, w, power_of_five_128[q])

(* floor(q * log2(10)), shifted to the top bit of a word. *)
Power(q) == (((152170 + 65536) * q) \div 65536) + WordBits - 1

ComputeErrorScaled(format, q, w, lz) ==
    LET hilz == 1 - Shr(w, WordBits - 1)
        bias == format.mantissa_explicit_bits - format.minimum_exponent
    IN  Adjusted(Shl(w, hilz), Power(q) + bias - hilz - lz - (WordBits - 2) + invalid_am_bias)

ComputeError(format, q, w) ==
    LET scaled(lz) ==
            ComputeErrorScaled(
                format, q,
                ComputeProductApproximation(format.mantissa_explicit_bits + 3, q, Shl(w, lz)).high, lz)
    IN  scaled(LeadingZeroes(w))

-------------------------------------------------------------------------------
(* Half up: the last bit decides. *)
HalfUp(m) == (m + (m % 2)) \div 2

Subnormal(format, mantissa, power2) ==
    LET rounded(m) == Adjusted(m, IF m < 2 ^ format.mantissa_explicit_bits THEN 0 ELSE 1)
    IN  IF -power2 + 1 >= WordBits THEN Adjusted(0, 0)
        ELSE rounded(HalfUp(Shr(mantissa, -power2 + 1)))

(* The carry of the rounding, the hidden bit, and infinity. *)
Normal(format, m, power2) ==
    LET hidden == 2 ^ format.mantissa_explicit_bits
        carried == m >= 2 * hidden
        power == IF carried THEN power2 + 1 ELSE power2
    IN  IF power >= format.infinite_power THEN Adjusted(0, format.infinite_power)
        ELSE Adjusted(IF carried THEN 0 ELSE m % hidden, power)

(* The number may be exactly between two floats, with the lower one even. *)
FallsBetween(format, q, mantissa, shift, product) ==
    /\ product.low <= 1
    /\ q \in format.min_exponent_round_to_even .. format.max_exponent_round_to_even
    /\ mantissa % 4 = 1
    /\ Shl(mantissa, shift) = product.high

(* The mantissa with two bits more than the format has, and its power. *)
RoundProduct(format, q, lz, product) ==
    LET upperbit == Shr(product.high, WordBits - 1)
        shift == upperbit + WordBits - format.mantissa_explicit_bits - 3
        power2 == Power(q) + upperbit - lz - format.minimum_exponent
        mantissa == Shr(product.high, shift)
        even == FallsBetween(format, q, mantissa, shift, product)
    IN  IF power2 <= 0 THEN Subnormal(format, mantissa, power2)
        ELSE Normal(format, HalfUp(IF even THEN mantissa - 1 ELSE mantissa), power2)

ComputeFloat(format, q, w) ==
    LET scaled(lz) ==
            RoundProduct(
                format, q, lz,
                ComputeProductApproximation(format.mantissa_explicit_bits + 3, q, Shl(w, lz)))
    IN  CASE w = 0 \/ q < format.smallest_power_of_ten -> Adjusted(0, 0)
          [] w # 0 /\ q > format.largest_power_of_ten -> Adjusted(0, format.infinite_power)
          [] OTHER -> scaled(LeadingZeroes(w))
===============================================================================
