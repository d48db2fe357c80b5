\* Drawer with remove links and the product form, reliable network: two
\* removals empty the cart while an older /cart load is still pending.
CONSTANTS
    v1 = v1
    v2 = v2
    v3 = v3
    NaN = NaN
    Variants = {v1, v2}
    InitCart <- TwoLines
    MaxQty = 2
    AddQtys = {1}
    Typed = {0}
    Method = "drawer"
    UseCartTemplate = TRUE
    RemoveLinks = TRUE
    AddForm = TRUE
    Lossy = FALSE
    MaxActs = 3

SPECIFICATION Spec
PROPERTY EmptyCartConverges
CHECK_DEADLOCK FALSE
