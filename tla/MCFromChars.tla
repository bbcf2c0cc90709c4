---------------------------- MODULE MCFromChars ----------------------------
(***************************************************************************)
(* What from_chars is called with in the run: every shape of a number, a   *)
(* grid of values, and numbers that are nearly halfway between two floats. *)
(***************************************************************************)
EXTENDS FromChars

(* One of each, in order. *)
Concat(parts) == { p[1] \o p[2] : p \in parts }

Shapes ==
    LET sign == {<< >>, <<"-">>, <<"+">>}
        int == {<< >>, <<"0">>, <<"7">>, <<"0", "7">>}
        frac == {<< >>, <<".">>, <<".", "3">>}
        exp == {<< >>, <<"e">>, <<"E", "2">>, <<"e", "-", "1">>, <<"e", "+">>, <<"d", "3">>,
                <<"+", "1">>, <<"-", "2">>, <<"e", "e">>, <<"x">>, <<" ">>}
    IN  Concat(Concat(sign \X int) \X Concat(frac \X exp))

Words ==
    Concat({<< >>, <<"-">>, <<"+">>} \X
           {<<"i", "n", "f">>, <<"I", "n", "F">>, <<"i", "n">>, <<"n", "a">>, <<"n", "a", "n">>,
            <<"i", "n", "f", "i", "n", "i", "t", "y">>, <<"i", "n", "f", "i", "n", "i", "t">>,
            <<"n", "a", "n", "(", "3", ")">>, <<"N", "A", "N", "(", ")", "7">>,
            <<"n", "a", "n", "(", ".", ")">>, <<"n", "a", "n", "(", "7">>})

Formats == {general, {"scientific"}, {"fixed"}, json, json_or_infnan, fortran}

-------------------------------------------------------------------------------
Figure(d) == <<"0", "1", "2", "3", "4", "5", "6", "7", "8", "9">>[d + 1]
Figures(digits) == [i \in 1 .. Len(digits) |-> Figure(digits[i])]
Zeroes(n) == [i \in 1 .. n |-> "0"]

(* n * 10^e, as ne-e and as digits with a point or zeroes. *)
Scientific(n, e) ==
    Figures(DigitsOf(n)) \o (IF e < 0 THEN <<"e", "-">> ELSE <<"e">>) \o
        (IF e = 0 THEN <<"0">> ELSE Figures(DigitsOf(IF e < 0 THEN -e ELSE e)))

Mantissas ==
    (0 .. 64) \cup {n \in 65 .. 999 : n % 37 = 5} \cup {n \in 1000 .. 20000 : n % 997 = 11}

Values == { Scientific(n, e) : n \in Mantissas, e \in -9 .. 6 }

(* A text for 0.ddd * 10^magnitude. *)
Plain(digits, magnitude) ==
    IF magnitude <= 0 THEN <<"0", ".">> \o Zeroes(-magnitude) \o Figures(digits)
    ELSE IF magnitude >= Len(digits)
         THEN Figures(digits) \o Zeroes(magnitude - Len(digits))
         ELSE Figures(SubSeq(digits, 1, magnitude)) \o <<".">> \o
                  Figures(SubSeq(digits, magnitude + 1, Len(digits)))

(* Halfway, a little more at once or far behind, a little less. *)
Nearby(x) ==
    LET n == Len(x.digits)
    IN  { x.digits, Append(x.digits, 1),
          [i \in 1 .. n + 20 |-> IF i <= n THEN x.digits[i] ELSE IF i = n + 20 THEN 1 ELSE 0],
          [i \in 1 .. n + 3 |-> IF i < n THEN x.digits[i] ELSE IF i = n THEN x.digits[n] - 1 ELSE 9] }

Near == UNION { { Plain(d, x.magnitude) : d \in Nearby(x) } :
                x \in {Halfways.float[b] : b \in DOMAIN Halfways.float}
                      \cup {Halfways.double[b] : b \in DOMAIN Halfways.double} }

MCInputs == ((Shapes \cup Words) \X Formats) \cup ((Values \cup Near) \X {general})
=============================================================================
