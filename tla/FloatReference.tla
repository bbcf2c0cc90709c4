---------------------------- MODULE FloatReference ----------------------------
(***************************************************************************)
(* What from_chars promises (fast_float.h), written without its            *)
(* algorithms: an automaton that finds the longest number a text begins    *)
(* with, exact decimal numbers, and the float nearest to one.              *)
(***************************************************************************)
EXTENDS AsciiNumber

(* The grammar of a number: the state after one more character. *)
After(q, c, fmt) ==
    LET digit == c \in DOMAIN Numeral
        is_json == "json" \in fmt
        complete == q \in {"int", "zero", "frac"} \/ (q = "point" /\ ~is_json)
    IN  CASE q \in {"start", "sign"} /\ digit -> IF c = "0" /\ is_json THEN "zero" ELSE "int"
          [] q = "start" /\ c = "-" -> "sign"
          [] q \in {"start", "sign"} /\ c = "." /\ ~is_json -> "dot"
          [] q = "int" /\ digit -> "int"
          [] q = "zero" /\ digit -> "leading zero"
          [] q \in {"int", "zero"} /\ c = "." -> "point"
          [] q \in {"dot", "point", "frac"} /\ digit -> "frac"
          [] complete /\ "scientific" \in fmt /\ c \in {"e", "E"} -> "e"
          [] complete /\ "fortran" \in fmt /\ c \in {"d", "D"} -> "e"
          [] complete /\ "fortran" \in fmt /\ c \in {"+", "-"} -> "exp sign"
          [] q = "e" /\ c \in {"+", "-"} -> "exp sign"
          [] q \in {"e", "exp sign", "exp"} /\ digit -> "exp"
          [] OTHER -> "stuck"

Accepting(fmt) ==
    IF "fixed" \notin fmt THEN {"exp"}
    ELSE {"int", "zero", "frac", "exp"} \cup (IF "json" \in fmt THEN {} ELSE {"point"})

(* The states of the automaton: run[i] is the one after i characters. *)
Run(s, fmt) ==
    LET run[i \in 0 .. Len(s)] == IF i = 0 THEN "start" ELSE After(run[i - 1], s[i], fmt)
    IN  run

(* JSON has no number where one goes on with what JSON forbids. *)
Forbidden(run, fmt) ==
    /\ "json" \in fmt
    /\ \E i \in DOMAIN run :
           \/ run[i] = "leading zero"
           \/ run[i] = "point" /\ (i + 1 \in DOMAIN run => run[i + 1] = "stuck")

(* The length of the longest number that s begins with, or 0. *)
NumberLength(s, fmt) ==
    LET run == Run(s, fmt)
    IN  IF Forbidden(run, fmt) THEN 0
        ELSE Max({0} \cup {i \in 1 .. Len(s) : run[i] \in Accepting(fmt)})

-------------------------------------------------------------------------------
(* An exact decimal number 0.ddd * 10^magnitude, without outer zeroes. *)
Exact(digits, exponent) ==
    LET places == {i \in 1 .. Len(digits) : digits[i] # 0}
    IN  IF places = {} THEN [digits |-> << >>, magnitude |-> 0]
        ELSE [digits |-> SubSeq(digits, Min(places), Max(places)),
              magnitude |-> Len(digits) - Min(places) + 1 + exponent]

Less(x, y) ==
    /\ y.digits # << >>
    /\ \/ x.digits = << >>
       \/ x.magnitude < y.magnitude
       \/ /\ x.magnitude = y.magnitude
          /\ \E i \in 1 .. Len(y.digits) :
                 /\ i > Len(x.digits) \/ x.digits[i] < y.digits[i]
                 /\ \A j \in 1 .. i - 1 : x.digits[j] = y.digits[j]

DigitsOf(n) ==
    LET length == Cardinality({k \in 0 .. 9 : 10 ^ k <= n})
    IN  [i \in 1 .. length |-> (n \div 10 ^ (length - i)) % 10]

(* n * 2^p *)
Dyadic(n, p) == IF p >= 0 THEN Exact(DigitsOf(n * 2 ^ p), 0) ELSE Exact(DigitsOf(n * 5 ^ (-p)), p)

(* The value of the number in the first n characters of s. *)
NumberValue(s, n, fmt) ==
    LET run == Run(s, fmt)
        in(states) == SelectSeq([i \in 1 .. n |-> i],
                                LAMBDA i : run[i] \in states /\ s[i] \in DOMAIN Numeral)
        digits(places) == [k \in 1 .. Len(places) |-> Numeral[s[places[k]]]]
        exp == FoldLeft(LAMBDA m, d : 10 * m + d, 0, digits(in({"exp"})))
        negative == \E i \in 1 .. n : s[i] = "-" /\ run[i] = "exp sign"
    IN  Exact(digits(in({"int", "zero", "frac"})),
              (IF negative THEN -exp ELSE exp) - Len(in({"frac"})))

-------------------------------------------------------------------------------
(* The bits of the floats that are not negative, infinity the last: the    *)
(* number they stand for, and the one halfway to the next.                 *)
Infinity(format) == format.infinite_power * 2 ^ format.mantissa_explicit_bits

Parts(format, bits) ==
    LET hidden == 2 ^ format.mantissa_explicit_bits
        field == bits \div hidden
    IN  IF field = 0 THEN <<bits, 1 + format.minimum_exponent - format.mantissa_explicit_bits>>
        ELSE <<hidden + (bits % hidden), field + format.minimum_exponent - format.mantissa_explicit_bits>>

FloatsOf(format) == [b \in 0 .. Infinity(format) |-> Dyadic(Parts(format, b)[1], Parts(format, b)[2])]

HalfwaysOf(format) ==
    [b \in 0 .. Infinity(format) - 1 |->
        Dyadic(2 * Parts(format, b)[1] + 1, Parts(format, b)[2] - 1)]

Floats == [float |-> FloatsOf(Float), double |-> FloatsOf(Double)]
Halfways == [float |-> HalfwaysOf(Float), double |-> HalfwaysOf(Double)]

(* The nearest float; of two that are as near, the even one. *)
Nearest(type, x) ==
    LET even(halfway, b) == IF b \in DOMAIN halfway /\ halfway[b] = x /\ b % 2 = 1 THEN b + 1 ELSE b
        counted(halfway) == even(halfway, Cardinality({b \in DOMAIN halfway : Less(halfway[b], x)}))
    IN  counted(Halfways[type])

NextUp(type, x) == Min({b \in DOMAIN Floats[type] : ~Less(Floats[type][b], x)})
NextDown(type, x) == Max({b \in DOMAIN Floats[type] : ~Less(x, Floats[type][b])})
===============================================================================
