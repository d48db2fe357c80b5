------------------------------ MODULE MCNavMenu ------------------------------
(* Four top-level items, the second a customer link hidden on large       *)
(* screens; the usable widths put the cut before, at and past the        *)
(* boundary of each item, and one viewport is below the breakpoint.       *)
EXTENDS NavMenu

CONSTANTS a, b, c, d

MCItems == <<a, b, c, d>>
MCWidth == [el \in {a, b, c, d} |-> CASE el = a -> 3 [] el = b -> 2
                                      [] el = c -> 2 [] el = d -> 4]
MCLargeHide == [el \in {a, b, c, d} |-> el = b]
MCViewports == {[large |-> FALSE, wrapper |-> 2]} \cup
               {[large |-> TRUE, wrapper |-> w] : w \in {2, 3, 4, 5, 9}}

====
