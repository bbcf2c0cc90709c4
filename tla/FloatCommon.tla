----------------------------- MODULE FloatCommon -----------------------------
(***************************************************************************)
(* The ground fast_float stands on (float_common.h, fast_table.h): machine *)
(* words, the two binary formats and the table of powers of five.          *)
(*                                                                         *)
(* The header is a template over the format, and its constants follow from *)
(* the sizes of the word and of the format.  Here the sizes are CONSTANTS, *)
(* small enough for a double word to be a number of TLC, and the constants *)
(* of the code are written as what they are of the sizes; with the sizes   *)
(* of the code (64 and 32 bits; 52, 1023 and 2047; 23, 127 and 255) every  *)
(* one of them has the value it has in the code, but for the smallest      *)
(* power of ten of float, which there is one less than it could be.        *)
(***************************************************************************)
EXTENDS Integers, Sequences, SequencesExt, FiniteSetsExt

CONSTANTS
    WordBits,        \* 64: the width of uint64_t
    LimbBits,        \* 32: the width of a limb of a bigint in the Win32 build
    FloatMantissa,   \* 23: the explicit bits of a float's mantissa
    FloatBias,       \* 127
    FloatInfinite,   \* 255: the exponent field of infinity
    DoubleMantissa,  \* 52
    DoubleBias,      \* 1023
    DoubleInfinite   \* 2047

ASSUME SizesAssumption ==
    /\ {WordBits, LimbBits, FloatMantissa, FloatBias, FloatInfinite,
        DoubleMantissa, DoubleBias, DoubleInfinite} \subseteq Nat \ {0}
    /\ WordBits = 2 * LimbBits
    /\ FloatMantissa + 3 <= WordBits /\ DoubleMantissa + 3 <= WordBits

Word == 2 ^ WordBits
Shl(x, n) == (x * 2 ^ n) % Word
Shr(x, n) == x \div 2 ^ n

(* The most digits d such that every number of d digits fits. *)
DigitsBelow(limit) == Max({d \in 0 .. WordBits \div 3 : 10 ^ d <= limit})
(* The largest power of five that is smaller. *)
FivesBelow(limit) == Max({k \in 0 .. WordBits \div 2 : 5 ^ k < limit})

-------------------------------------------------------------------------------
LeadingZeroes(x) == WordBits - Cardinality({k \in 0 .. WordBits - 1 : 2 ^ k <= x})

(* umul128_generic, which the 32-bit build uses: four products of halves. *)
FullMultiplication(ab, cd) ==
    LET half == 2 ^ (WordBits \div 2)
        a == ab \div half   b == ab % half
        c == cd \div half   d == cd % half
        adbc == (a * d + b * c) % Word
        adbc_carry == IF adbc < a * d THEN 1 ELSE 0
        lo == (b * d + adbc * half) % Word
    IN  [low |-> lo,
         high |-> a * c + adbc \div half + adbc_carry * half + (IF lo < b * d THEN 1 ELSE 0)]

-------------------------------------------------------------------------------
(* binary_format<T>.  fast is the power of two that max_mantissa starts    *)
(* from: 1 << 24 for float, 1 << 52 for double.                            *)
BinaryFormat(type, mantissa, bias, infinite, fast) ==
    [type |-> type,
     mantissa_explicit_bits |-> mantissa,
     minimum_exponent |-> -bias,
     infinite_power |-> infinite,
     min_exponent_round_to_even |-> -FivesBelow(2 ^ (WordBits - 1 - mantissa)),
     max_exponent_round_to_even |-> FivesBelow(2 ^ (mantissa + 2)),
     max_exponent_fast_path |-> FivesBelow(2 ^ (mantissa + 1) + 1),
     max_mantissa_fast_path |-> 2 ^ (mantissa + 1),
     max_mantissa |-> [power \in 0 .. FivesBelow(2 ^ (mantissa + 1) + 1) |-> 2 ^ fast \div 5 ^ power],
     largest_power_of_ten |->
         Max({k \in 0 .. WordBits \div 2 : 10 ^ k < 2 ^ (infinite - bias)}),
     smallest_power_of_ten |->
         -Max({k \in 0 .. WordBits \div 2 : 10 ^ k <= 2 ^ (WordBits + bias + mantissa)}),
     (* one digit more than the longest number halfway between two floats has *)
     max_digits |->
         Max({k \in 1 .. WordBits - 5 :
                  10 ^ (k - 1) <= (2 ^ (mantissa + 2) - 1) * 5 ^ (bias + mantissa)}) + 1]

Float == BinaryFormat("float", FloatMantissa, FloatBias, FloatInfinite, FloatMantissa + 1)
Double == BinaryFormat("double", DoubleMantissa, DoubleBias, DoubleInfinite, DoubleMantissa)

(* An adjusted_mantissa; a negative power2 marks an invalid result. *)
Adjusted(mantissa, power2) == [mantissa |-> mantissa, power2 |-> power2]

invalid_am_bias == -32768

(* to_float: the fields are or-ed.  A subnormal that was rounded up to the *)
(* smallest normal still has its hidden bit, where power2 has its 1.       *)
ToFloat(format, am) ==
    LET hidden == 2 ^ format.mantissa_explicit_bits
        field == IF am.mantissa >= hidden /\ am.power2 % 2 = 0 THEN am.power2 + 1 ELSE am.power2
    IN  (am.mantissa % hidden) + field * hidden

-------------------------------------------------------------------------------
(* The table of powers of five: the first 2 * WordBits bits of 5^q, as two *)
(* words.  A power that is not negative is cut; a reciprocal is cut and    *)
(* one is added, as long as the power fits a word.                         *)
TwoWords(n) == <<n \div Word, n % Word>>

PositivePower(q) ==
    LET length == Cardinality({k \in 0 .. 2 * WordBits - 1 : 2 ^ k <= 5 ^ q})
    IN  TwoWords(5 ^ q * 2 ^ (2 * WordBits - length))

(* The reciprocal by long division, bit by bit: <<quotient, remainder>>. *)
NegativePower(q) ==
    LET n == 5 ^ (-q)
        length == Min({k \in 0 .. 2 * WordBits : 2 ^ k >= n})
        divide[b \in Nat] ==
            IF b = 0 THEN <<0, 1>>
            ELSE LET d == divide[b - 1] IN <<2 * d[1] + (2 * d[2]) \div n, (2 * d[2]) % n>>
    IN  TwoWords(divide[2 * WordBits - 1 + length][1] + (IF n < Word THEN 1 ELSE 0))

power_of_five_128 ==
    [q \in Double.smallest_power_of_ten .. Double.largest_power_of_ten |->
        IF q >= 0 THEN PositivePower(q) ELSE NegativePower(q)]
===============================================================================
