-------------------------------- MODULE MCTexts --------------------------------
(* Instances of Texts for TLC. *)
EXTENDS Texts
Of(n, m) == [units |-> n, bytes |-> m]
SomeTexts == {Of(0, 0), Of(1, 1), Of(1, 3), Of(2, 2), Of(2, 4)}
===============================================================================
