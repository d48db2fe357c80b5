--------------------------- MODULE ProductSection ---------------------------
(***************************************************************************)
(* The product section of theme.js (theme.Product): the variant selectors *)
(* of Shopify.OptionSelectors call productVariantCallback with the variant *)
(* of the chosen option combination (or null), and the callback updates   *)
(* the add-to-cart button, the payment button, the quantity selector and  *)
(* the stock and incoming-stock notices.  The quantity selector is the    *)
(* standalone stepper of QtyStepper, composed here: its adjusters and its *)
(* input sit inside $quantityElements and take no input while hidden.     *)
(*                                                                         *)
(* The notices are abstracted to what they say about which variant: the  *)
(* "only N left" notice records the variant whose count it shows, the     *)
(* incoming notice the date it shows.  $variantIncoming holds the message *)
(* element $variantIncomingMessage until the sold-out branch replaces its *)
(* whole content with .html(...); the cached message element is then      *)
(* detached and later writes to it are not seen.                          *)
(***************************************************************************)
EXTENDS Integers

CONSTANTS
    InitQtys, Typed, NaN, MaxActs,  \* the stepper's, see QtyStepper
    Combos,          \* option combinations the selectors can take
    Variant,         \* Variant[c]: the variant of combination c, or NoVariant
    NoVariant,       \* getVariant found no variant (null)
    Available,       \* Available[v]: variant.available
    Managed,         \* Managed[v]: variant.inventory_management is set
    Inv,             \* Inv[v]: variant.inventory_quantity (VariantJson)
    NextDate,        \* NextDate[v]: next_incoming_date of an incoming variant
    NoDate,          \* no incoming stock, or no date
    StockSetting,    \* the section's data-stock attribute is 'true'
    IncomingSetting  \* the section's data-incoming-transfer is 'true'

VARIABLES
    page, value, qtyMin, clicked, acts,  \* the stepper's, see QtyStepper
    selected,        \* the option combination the selectors show
    dom              \* the elements productVariantCallback writes

Stepper == INSTANCE QtyStepper

stepperVars == <<page, value, qtyMin, clicked, acts>>
vars == <<page, value, qtyMin, clicked, acts, selected, dom>>

Variants == {Variant[c] : c \in Combos} \ {NoVariant}

-----------------------------------------------------------------------------
(* productVariantCallback, as a function of the elements it writes *)

\* addVariantInfo: the VariantJson fields (inventory_quantity, incoming,
\* next_incoming_date) are merged only if one of the two settings is on;
\* otherwise they are undefined and every comparison with them is false.
Known == StockSetting \/ IncomingSetting

\* The branch for an available variant: the button is enabled, the
\* payment button shown, both notices hidden; the stock notice is shown
\* for a managed variant with 0 < quantity < 2000 when the stock setting
\* is on; the incoming date is written to the message element when the
\* quantity is <= 0 and a date is set (whatever the incoming setting).
\* The quantity selector is left as it is.
InStock(d, v) ==
    LET stock == Managed[v] /\ Known /\ 0 < Inv[v] /\ Inv[v] < 2000
                 /\ StockSetting
        incoming == Known /\ Inv[v] <= 0 /\ NextDate[v] # NoDate
    IN [d EXCEPT !.disabled = FALSE,
                 !.pay = TRUE,
                 !.stock = stock,
                 !.stockOf = IF stock THEN v ELSE d.stockOf,
                 !.incoming = incoming,
                 !.msgDate = IF incoming THEN NextDate[v] ELSE d.msgDate]

\* Mutant: the sold-out branch forgets to hide the stock notice.
SoldOutKeepsStock(d, v) ==
    LET incoming == Managed[v] /\ IncomingSetting /\ NextDate[v] # NoDate
    IN [d EXCEPT !.disabled = TRUE,
                 !.pay = FALSE,
                 !.incoming = incoming,
                 !.content = IF incoming THEN NextDate[v] ELSE d.content,
                 !.qty = FALSE]

\* The branch for a sold-out variant: the button is disabled, the payment
\* button and both notices hidden; for a managed incoming variant with a
\* date, when the incoming setting is on, the whole content of
\* $variantIncoming is replaced by the date and shown; the quantity
\* selector is hidden.
SoldOut(d, v) ==
    LET incoming == Managed[v] /\ IncomingSetting /\ NextDate[v] # NoDate
    IN [d EXCEPT !.disabled = TRUE,
                 !.pay = FALSE,
                 !.stock = FALSE,
                 !.incoming = incoming,
                 !.content = IF incoming THEN NextDate[v] ELSE d.content,
                 !.qty = FALSE]

\* No variant for the combination: the button is disabled, the stock
\* notice, the quantity selector and the payment button hidden.  The
\* incoming notice is not touched.
Unavailable(d) ==
    [d EXCEPT !.disabled = TRUE, !.stock = FALSE, !.qty = FALSE, !.pay = FALSE]

\* productVariantCallback(variant): unit price, image and price are
\* formatting; the rest is one of the three branches.
productVariantCallback(d, v) ==
    CASE v = NoVariant  -> Unavailable(d)
      [] Available[v]   -> InStock(d, v)
      [] OTHER          -> SoldOut(d, v)

\* addQuantityButtons: $quantityElements.show(), then qtySelectors.
ShowQuantity(d) == [d EXCEPT !.qty = TRUE]

\* The page as Liquid renders it: the incoming container holds its message
\* element; the callback overwrites every other element.
LiquidDom == [disabled |-> FALSE, pay |-> TRUE, qty |-> TRUE,
              stock |-> FALSE, stockOf |-> NoVariant,
              incoming |-> FALSE, content |-> "message", msgDate |-> NoDate]

\* What the shopper reads in $variantIncoming.
IncomingText(d) == IF d.content = "message" THEN d.msgDate ELSE d.content

-----------------------------------------------------------------------------
(* Steps *)

\* Product.init: initProductVariant (OptionSelectors selects the initial
\* variant, from ?variant= or the first available, and calls the
\* callback), then addQuantityButtons.
Init ==
    /\ Stepper!Init
    /\ selected \in {c \in Combos : Variant[c] # NoVariant}
    /\ dom = ShowQuantity(productVariantCallback(LiquidDom, Variant[selected]))

\* initProductVariant: a change of an option selector makes OptionSelectors
\* call onVariantSelected with the variant of the new combination.
SelectOption(c) ==
    /\ Stepper!Act
    /\ c # selected
    /\ selected' = c
    /\ dom' = productVariantCallback(dom, Variant[c])
    /\ UNCHANGED <<page, value, qtyMin, clicked>>

\* The adjuster click handler of theme.Product.qtySelectors; the buttons
\* are inside $quantityElements.
AdjusterClick(add) ==
    /\ dom.qty
    /\ Stepper!Click(add)
    /\ UNCHANGED <<selected, dom>>

\* Typing into the quantity input, which is inside $quantityElements.
TypeQty(v) ==
    /\ dom.qty
    /\ Stepper!Type(v)
    /\ UNCHANGED <<selected, dom>>

Next ==
    \/ \E c \in Combos : SelectOption(c)
    \/ \E add \in BOOLEAN : AdjusterClick(add)
    \/ \E v \in Typed : TypeQty(v)

Spec == Init /\ [][Next]_vars

-----------------------------------------------------------------------------
(* Properties *)

TypeOK ==
    /\ selected \in Combos
    /\ dom.disabled \in BOOLEAN /\ dom.pay \in BOOLEAN /\ dom.qty \in BOOLEAN
    /\ dom.stock \in BOOLEAN /\ dom.incoming \in BOOLEAN
    /\ dom.stockOf \in Variants \cup {NoVariant}

\* The stepper's own property, on the composed page: every value an
\* adjuster click writes is valid and at least the page's minimum.  A
\* negative typed into the input breaks it (StepperNegative.cfg): '+'
\* writes the negative plus one.
StepperWritesValid == Stepper!StepperWritesValid

\* After any sequence of option changes, the purchase controls describe the
\* combination now selected: the add button is enabled and the payment
\* button shown exactly when it has an available variant, and a visible
\* "only N left" notice counts that variant, not one selected before.
ControlsMatchSelection ==
    LET v == Variant[selected] IN
    /\ (~dom.disabled) = (v # NoVariant /\ Available[v])
    /\ dom.pay = ~dom.disabled
    /\ dom.stock => dom.stockOf = v

\* The quantity selector is there whenever the selected variant can be
\* bought: returning to an available variant after a sold-out or missing
\* one shows it again.
QtyShownWhenAvailable ==
    LET v == Variant[selected] IN
    (v # NoVariant /\ Available[v]) => dom.qty

\* A visible incoming-stock notice gives the date of the selected variant.
IncomingShowsSelected ==
    LET v == Variant[selected] IN
    dom.incoming => v # NoVariant /\ IncomingText(dom) = NextDate[v]

====
