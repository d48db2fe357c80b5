----------------------------- MODULE QtyStepper -----------------------------
(***************************************************************************)
(* The standalone quantity stepper of theme.js: qtySelectors of            *)
(* ajaxifyShopify and its copy theme.Product.qtySelectors.  The number    *)
(* input of a product form is replaced by the #jsQty template (an input   *)
(* .js--num between two .js--qty-adjuster buttons); a click adds or       *)
(* subtracts one, clamped at qtyMin, and writes the input.  The stepper   *)
(* never contacts the server: the product form later submits the value.  *)
(* An input value is what parseInt makes of it: an integer, or NaN.       *)
(***************************************************************************)
EXTENDS Integers

CONSTANTS
    InitQtys,        \* values of the number input when the page loads
    Typed,           \* values a shopper may type into the input
    NaN,             \* an unparseable value
    MaxActs          \* bound on shopper actions in one behaviour

VARIABLES
    page,            \* the body has the template-product class
    value,           \* parseInt of the .js--num input's value
    qtyMin,          \* the handler closure's qtyMin
    clicked,         \* the last write to the input was a click's
    acts             \* shopper actions taken so far

vars == <<page, value, qtyMin, clicked, acts>>

\* validateQty: parseFloat(qty) == parseInt(qty) && !isNaN(qty), else 1.
validateQty(qty) == IF qty = NaN THEN 1 ELSE qty

Act == acts < MaxActs /\ acts' = acts + 1

\* qtySelectors: each number input is rendered by the template with
\* itemQty = parseInt(el.val()); qtyMin starts at 0.
Init ==
    /\ page \in BOOLEAN
    /\ value \in InitQtys
    /\ qtyMin = 0
    /\ clicked = FALSE
    /\ acts = 0

\* Click on .js--qty-adjuster (js--add or the minus button): qtyMin becomes
\* 1 on a product page and keeps its value elsewhere; the validated value
\* is incremented, or decremented down to qtyMin, and written back.
Click(add) ==
    /\ Act
    /\ LET qty == validateQty(value)
           min == IF page THEN 1 ELSE qtyMin
       IN /\ qtyMin' = min
          /\ value' = IF add THEN qty + 1
                      ELSE IF qty <= min THEN min ELSE qty - 1
    /\ clicked' = TRUE
    /\ UNCHANGED page

\* The shopper types into the input; no handler runs.
Type(v) ==
    /\ Act
    /\ value' = v
    /\ clicked' = FALSE
    /\ UNCHANGED <<page, qtyMin>>

Next ==
    \/ \E add \in BOOLEAN : Click(add)
    \/ \E v \in Typed : Type(v)

Spec == Init /\ [][Next]_vars

-----------------------------------------------------------------------------
(* Properties *)

\* Spec section 4.2: every value the stepper writes is a valid integer no
\* lower than the page's minimum (1 on a product page, 0 elsewhere),
\* whatever was typed before the click.  The NaN fallback to 1 and the
\* clamp of the minus button keep garbage and small values there; a typed
\* negative passes validateQty, and the plus button writes it plus one.
StepperWritesValid ==
    clicked => /\ value # NaN
               /\ value >= (IF page THEN 1 ELSE 0)

====
