\* Drawer on a product page: steppers, typed quantities, the product form,
\* requests that may fail; no remove links. The page idles once the bounded
\* shopper stops, hence no deadlock check.
CONSTANTS
    v1 = v1
    v2 = v2
    v3 = v3
    NaN = NaN
    Variants = {v1, v2}
    InitCart <- TwoLines
    MaxQty = 2
    AddQtys = {1}
    Typed = {0, 2, NaN}
    Method = "drawer"
    UseCartTemplate = TRUE
    RemoveLinks = FALSE
    AddForm = TRUE
    Lossy = TRUE
    MaxActs = 4

SPECIFICATION Spec
INVARIANT TypeOK
INVARIANT SerializedChanges
CHECK_DEADLOCK FALSE
