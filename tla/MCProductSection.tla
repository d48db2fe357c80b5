------------------------- MODULE MCProductSection -------------------------
(* A product with three variants and one option combination that has no  *)
(* variant: v1 in stock with few left, v2 sold out with stock incoming,   *)
(* v3 available at quantity 0 (sold on backorder) with stock incoming.    *)
EXTENDS ProductSection

CONSTANTS c1, c2, c3, c4, v1, v2, v3, d2, d3

MCVariant == [c \in {c1, c2, c3, c4} |->
                CASE c = c1 -> v1 [] c = c2 -> v2 [] c = c3 -> v3
                  [] c = c4 -> NoVariant]
MCAvailable == [v \in {v1, v2, v3} |-> v # v2]
MCManaged == [v \in {v1, v2, v3} |-> TRUE]
MCInv == [v \in {v1, v2, v3} |-> IF v = v1 THEN 3 ELSE 0]
MCNextDate == [v \in {v1, v2, v3} |->
                 CASE v = v1 -> NoDate [] v = v2 -> d2 [] v = v3 -> d3]
\* What a shopper may type: a negative, zero, a positive and garbage.
MCTyped == {-1, 0, 3, NaN}

====
