\* Flip method on a product page, requests that may fail; also checks that
\* the page refines the CartSync contract with any line as target, and that
\* the flip loader never outlives the adds that set it.
CONSTANTS
    v1 = v1
    v2 = v2
    v3 = v3
    NaN = NaN
    Variants = {v1, v2}
    InitCart <- TwoLines
    MaxQty = 2
    AddQtys = {1}
    Typed = {0}
    Method = "flip"
    UseCartTemplate = TRUE
    RemoveLinks = FALSE
    AddForm = TRUE
    Lossy = TRUE
    MaxActs = 4

SPECIFICATION Spec
INVARIANT FlipLoaderOwned
PROPERTY SyncSerialized
CHECK_DEADLOCK FALSE
