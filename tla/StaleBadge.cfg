\* Product form and steppers, reliable network: responses arrive in any order.
CONSTANTS
    v1 = v1
    v2 = v2
    v3 = v3
    NaN = NaN
    Variants = {v1, v2}
    InitCart <- TwoLines
    MaxQty = 2
    AddQtys = {1}
    Typed = {0}
    Method = "drawer"
    UseCartTemplate = TRUE
    RemoveLinks = FALSE
    AddForm = TRUE
    Lossy = FALSE
    MaxActs = 4

SPECIFICATION Spec
INVARIANT BadgeCurrentWhenQuiet
CHECK_DEADLOCK FALSE
