----------------------------- MODULE MCThemeMaps -----------------------------
(* Model-checking instances of ThemeMaps: two map sections as model values, *)
(* both with a key, in document order s1, s2.                              *)
EXTENDS ThemeMaps

CONSTANTS s1, s2

MCOrder == <<s1, s2>>

BothKeyed == [s \in {s1, s2} |-> "valid"]

SecondKeyless == (s1 :> "valid") @@ (s2 :> "none")

====
