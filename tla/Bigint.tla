-------------------------------- MODULE Bigint --------------------------------
(***************************************************************************)
(* bigint.h: natural numbers as a stack of limbs, least limb first, with a *)
(* fixed capacity.  An operation that runs out of capacity says so in its  *)
(* result, which the callers in digit_comparison.h ignore: ok remembers    *)
(* here whether every operation so far succeeded.  Limbs are those of the  *)
(* Win32 build: two make a word.                                           *)
(***************************************************************************)
EXTENDS FloatCommon

CONSTANTS
    BigintLimbs,     \* 4000 / 32: the capacity
    LargeStep        \* 135: the power of five of large_power_of_5

ASSUME BigintAssumption == BigintLimbs \in Nat \ {0, 1} /\ LargeStep \in Nat \ {0}

Limb == 2 ^ LimbBits
Big(ok, vec) == [ok |-> ok, vec |-> vec]

(* FASTFLOAT_TRY: the rest only if this was done. *)
Try(b, Op(_)) == IF b.ok THEN Op(b.vec) ELSE b

TryPush(x, value) == IF Len(x) < BigintLimbs THEN Big(TRUE, Append(x, value)) ELSE Big(FALSE, x)

TryResize(x, length) ==
    IF length > BigintLimbs THEN Big(FALSE, x)
    ELSE Big(TRUE, [i \in 1 .. length |-> IF i <= Len(x) THEN x[i] ELSE 0])

PushCarry(x, carry) == IF carry # 0 THEN TryPush(x, carry) ELSE Big(TRUE, x)

Normalize(x) == SubSeq(x, 1, Max({0} \cup {i \in 1 .. Len(x) : x[i] # 0}))

-------------------------------------------------------------------------------
(* Terms of any size become limbs after start, up to last: c[i] is what    *)
(* goes from limb i to the next.                                           *)
Carries(term, carry, start, last) ==
    LET c[i \in start .. last] == IF i = start THEN carry ELSE (term[i] + c[i - 1]) \div Limb
    IN  c

Carried(term, c, start, last) ==
    [i \in 1 .. Len(term) |-> IF i \in start + 1 .. last THEN (term[i] + c[i - 1]) % Limb ELSE term[i]]

(* small_add_from: y is added at limb start + 1, and its carry passed on. *)
SmallAddFrom(x, y, start) ==
    LET c == Carries(x, y, start, Len(x))
    IN  IF start > Len(x) THEN PushCarry(x, y)
        ELSE PushCarry(Carried(x, c, start, Len(x)), c[Len(x)])

SmallMul(x, y) ==
    LET products == [i \in 1 .. Len(x) |-> x[i] * y]
        c == Carries(products, 0, 0, Len(x))
    IN  PushCarry(Carried(products, c, 0, Len(x)), c[Len(x)])

AddLimbs(x, y, start) ==
    LET last == start + Len(y)
        sums == [i \in 1 .. Len(x) |-> IF i \in start + 1 .. last THEN x[i] + y[i - start] ELSE x[i]]
        c == Carries(sums, 0, start, last)
        sum == Carried(sums, c, start, last)
    IN  IF c[last] = 0 THEN Big(TRUE, sum) ELSE SmallAddFrom(sum, 1, last)

LargeAddFrom(x, y, start) ==
    LET z == IF Len(y) + start > Len(x) THEN TryResize(x, Len(y) + start) ELSE Big(TRUE, x)
    IN  IF z.ok THEN AddLimbs(z.vec, y, start) ELSE z

AddProduct(v, x, yi, start) ==
    LET zi == SmallMul(x, yi)
    IN  IF zi.ok THEN LargeAddFrom(v, zi.vec, start) ELSE Big(FALSE, v)

(* Row by row: the limbs of y times x, each added at its place. *)
LongMul(x, y) ==
    LET rows[i \in 1 .. Len(y)] ==
            IF i = 1 THEN SmallMul(x, y[1])
            ELSE IF y[i] = 0 \/ ~rows[i - 1].ok THEN rows[i - 1]
            ELSE AddProduct(rows[i - 1].vec, x, y[i], i - 1)
        product == rows[Len(y)]
    IN  IF y = << >> THEN Big(TRUE, Normalize(x))
        ELSE Big(product.ok, IF product.ok THEN Normalize(product.vec) ELSE product.vec)

LargeMul(x, y) == IF Len(y) = 1 THEN SmallMul(x, y[1]) ELSE LongMul(x, y)

-------------------------------------------------------------------------------
(* bigint(value), for a word. *)
FromWord(value) == Big(TRUE, Normalize(<<value % Limb, value \div Limb>>))

(* uint64_hi64: the highest word of r0 followed by r1, and what it leaves.  *)
WordHi64(r0, r1) ==
    LET shl == LeadingZeroes(r0)
    IN  [word |-> Shl(r0, shl) + Shr(r1, WordBits - shl), truncated |-> Shl(r1, shl) # 0]

(* The highest word of the number, and whether bits are left below it. *)
Hi64(x) ==
    LET n == Len(x)
        limb(i) == x[n - i]
        top == WordHi64(limb(0), limb(1) * Limb + limb(2))
    IN  CASE n = 0 -> [word |-> 0, truncated |-> FALSE]
          [] n = 1 -> WordHi64(limb(0), 0)
          [] n = 2 -> WordHi64(limb(0) * Limb + limb(1), 0)
          [] n > 2 -> [top EXCEPT !.truncated = @ \/ \E i \in 1 .. n - 3 : x[i] # 0]

Compare(x, y) ==
    LET differ == {i \in 1 .. Len(x) : x[i] # y[i]}
    IN  CASE Len(x) > Len(y) -> 1
          [] Len(x) < Len(y) -> -1
          [] OTHER -> IF differ = {} THEN 0 ELSE IF x[Max(differ)] > y[Max(differ)] THEN 1 ELSE -1

ShlBits(x, n) ==
    LET prev(i) == IF i = 1 THEN 0 ELSE x[i - 1] \div 2 ^ (LimbBits - n)
    IN  PushCarry([i \in 1 .. Len(x) |-> ((x[i] * 2 ^ n) % Limb) + prev(i)], prev(Len(x) + 1))

ShlLimbs(x, n) ==
    IF n + Len(x) > BigintLimbs THEN Big(FALSE, x)
    ELSE Big(TRUE, IF x = << >> THEN x ELSE [i \in 1 .. n |-> 0] \o x)

BitLength(x) ==
    IF x = << >> THEN 0 ELSE LimbBits * Len(x) - LeadingZeroes(x[Len(x)] * Limb)

Pow2(b, exp) ==
    LET rem == exp % LimbBits
        div == exp \div LimbBits
        bits(v) == IF rem # 0 THEN ShlBits(v, rem) ELSE Big(TRUE, v)
        limbs(v) == IF div # 0 THEN ShlLimbs(v, div) ELSE Big(TRUE, v)
    IN  Try(Try(b, bits), limbs)

-------------------------------------------------------------------------------
(* The limbs of 5 ^ LargeStep. *)
large_power_of_5 ==
    LET mul[n \in Nat] == IF n = 0 THEN <<1>> ELSE SmallMul(mul[n - 1], 5).vec
    IN  mul[LargeStep]

(* 13: the largest power of five in a limb, which is also the last used. *)
SmallStep == FivesBelow(Limb)

Repeat(n, b, Op(_)) ==
    LET done[i \in 0 .. n] == IF i = 0 THEN b ELSE Try(done[i - 1], Op) IN done[n]

(* Large steps, small steps, and what is left. *)
Pow5(b, exp) ==
    LET large(v) == LargeMul(v, large_power_of_5)
        small(v) == SmallMul(v, 5 ^ SmallStep)
        left == (exp % LargeStep) % SmallStep
        last(v) == SmallMul(v, 5 ^ left)
        stepped == Repeat((exp % LargeStep) \div SmallStep, Repeat(exp \div LargeStep, b, large), small)
    IN  IF left = 0 THEN stepped ELSE Try(stepped, last)

Pow10(b, exp) == Pow2(Pow5(b, exp), exp)

(* Results that callers ignore: the number goes on with what there is. *)
Mul(b, y) == LET r == SmallMul(b.vec, y) IN Big(b.ok /\ r.ok, r.vec)
Add(b, y) == LET r == SmallAddFrom(b.vec, y, 0) IN Big(b.ok /\ r.ok, r.vec)
===============================================================================
