\* Remove links next to the steppers.
CONSTANTS
    v1 = v1
    v2 = v2
    v3 = v3
    NaN = NaN
    Variants = {v1, v2}
    InitCart <- TwoLines
    MaxQty = 2
    AddQtys = {1}
    Typed = {0}
    Method = "drawer"
    UseCartTemplate = TRUE
    RemoveLinks = TRUE
    AddForm = FALSE
    Lossy = FALSE
    MaxActs = 3

SPECIFICATION Spec
INVARIANT SerializedChanges
CHECK_DEADLOCK FALSE
