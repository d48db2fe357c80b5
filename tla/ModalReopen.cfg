\* Modal with remove links on a page without the product form, reliable
\* network: the shopper opens and closes the cart.
CONSTANTS
    v1 = v1
    v2 = v2
    v3 = v3
    NaN = NaN
    Variants = {v1, v2}
    InitCart <- TwoLines
    MaxQty = 2
    AddQtys = {1}
    Typed = {0}
    Method = "modal"
    UseCartTemplate = TRUE
    RemoveLinks = TRUE
    AddForm = FALSE
    Lossy = FALSE
    MaxActs = 3

SPECIFICATION Spec

PROPERTY ClosedStaysClosed
CHECK_DEADLOCK FALSE
