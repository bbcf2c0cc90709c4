------------------------------- MODULE MCControls -------------------------------
(* An instance of Controls for TLC: clients' controls and names are alike. *)
EXTENDS Controls
CONSTANTS default, c1, c2, q1, q2
Alike == {f @@ g : f \in Permutations({c1, c2}), g \in Permutations({q1, q2})}
===============================================================================
