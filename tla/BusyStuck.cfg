\* Steppers only: a change the server refuses leaves isUpdating set.
CONSTANTS
    v1 = v1
    v2 = v2
    v3 = v3
    NaN = NaN
    Variants = {v1, v2}
    InitCart <- TwoLines
    MaxQty = 2
    AddQtys = {1}
    Typed = {0}
    Method = "drawer"
    UseCartTemplate = TRUE
    RemoveLinks = FALSE
    AddForm = FALSE
    Lossy = FALSE
    MaxActs = 3

SPECIFICATION Spec
PROPERTY BusyEventuallyClears
CHECK_DEADLOCK FALSE
