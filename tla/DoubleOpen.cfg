\* Modal with client-side rows on a page without the product form: steppers
\* only, reliable network. Two clicks on the toggle before the first cart
\* fetch returns. The page idles once the bounded shopper stops.
CONSTANTS
    v1 = v1
    v2 = v2
    v3 = v3
    NaN = NaN
    Variants = {v1, v2}
    InitCart <- TwoLines
    MaxQty = 2
    AddQtys = {1}
    Typed = {NaN}
    Method = "modal"
    UseCartTemplate = FALSE
    RemoveLinks = FALSE
    AddForm = FALSE
    Lossy = FALSE
    MaxActs = 4

SPECIFICATION Spec
PROPERTY SyncRefined
CHECK_DEADLOCK FALSE
