----------------------------- MODULE MCReqTracking -----------------------------
(* Instances of ReqTracking for TLC. *)
EXTENDS ReqTracking, TLC
CONSTANTS t1, t2, c1, c2, i1, i2, a, b
(* Two threads that send through a control each, or through the same one;  *)
(* one thread with both controls and both names.                          *)
OwnControls   == (t1 :> {<<c1, a, a>>}) @@ (t2 :> {<<c2, b, b>>})
SharedFirst   == (t1 :> {<<c1, a, a>>}) @@ (t2 :> {<<c1, b, Empty>>})
SharedSecond  == (t2 :> {<<c2, b, b>>}) @@ (t1 :> {<<c2, a, Empty>>})
OneThread(t)  ==
    [u \in {t1, t2} |-> IF u = t THEN {<<c, x, x>> : c \in {c1, c2}, x \in {a, b}} ELSE {}]
AllPrograms   == {OwnControls, SharedFirst, SharedSecond, OneThread(t1), OneThread(t2)}

(* Ids are interchangeable, and so are the two threads with what is theirs. *)
Swap == (t1 :> t2) @@ (t2 :> t1) @@ (c1 :> c2) @@ (c2 :> c1) @@ (a :> b) @@ (b :> a)
Keep == [x \in {t1, t2, c1, c2, a, b} |-> x]
IdSymmetry == Permutations({i1, i2})
FullSymmetry == {f @@ g : f \in IdSymmetry, g \in {Keep, Swap}}
===============================================================================
