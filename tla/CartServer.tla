----------------------------- MODULE CartServer -----------------------------
(***************************************************************************)
(* The remote cart resource reached through /cart/add.js, /cart/change.js *)
(* and /cart.js (spec section 6): an ordered sequence of lines, one per    *)
(* variant, addressed by 1-based position.  The server code is not part   *)
(* of the repository; these operators follow the spec's contract.          *)
(***************************************************************************)
EXTENDS Integers, Sequences, SequencesExt

CONSTANTS
    Variants,        \* product variants (model values)
    MaxQty           \* stock of each variant: the server refuses more (422)

Line == [key : Variants, qty : 1..MaxQty]

ItemCount(c) == FoldLeft(LAMBDA acc, l : acc + l.qty, 0, c)

Holds(c, k) == \E i \in 1..Len(c) : c[i].key = k

IndexOf(c, k) == CHOOSE i \in 1..Len(c) : c[i].key = k

\* /cart/add.js: the quantity is added to the variant's line, or a line is
\* appended for a new variant.
AddLine(c, k, q) ==
    IF Holds(c, k)
    THEN [c EXCEPT ![IndexOf(c, k)].qty = @ + q]
    ELSE Append(c, [key |-> k, qty |-> q])

\* An add is refused (422) when it would exceed the stock.
CanAdd(c, k, q) == \A i \in 1..Len(AddLine(c, k, q)) : AddLine(c, k, q)[i].qty <= MaxQty

\* Mutant: quantity 0 is stored instead of removing the line.
ChangeLineKeepsZero(c, l, q) == [c EXCEPT ![l].qty = q]

\* /cart/change.js: line l gets quantity q; quantity 0 removes the line and
\* shifts the following lines up by one.
ChangeLine(c, l, q) ==
    IF q = 0 THEN RemoveAt(c, l) ELSE [c EXCEPT ![l].qty = q]

\* A change is refused (422) for a line that does not exist or a quantity
\* beyond the stock.
CanChange(c, l, q) == l \in 1..Len(c) /\ q \in 0..MaxQty

====
