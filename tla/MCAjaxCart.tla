----------------------------- MODULE MCAjaxCart -----------------------------
(* Model-checking instances of AjaxCart: the variants are model values and *)
(* the initial carts are built from them.                                  *)
EXTENDS AjaxCart

CONSTANTS v1, v2, v3

\* Two lines of one unit each: a removal shifts the second line to line 1.
TwoLines == << [key |-> v1, qty |-> 1], [key |-> v2, qty |-> 1] >>

\* Three lines: a removal of line 1 shifts the others.
ThreeLines == << [key |-> v1, qty |-> 1], [key |-> v2, qty |-> 1],
                 [key |-> v3, qty |-> 1] >>

EmptyCart == << >>

====
