\* Three lines, steppers only: a click after the settle delay, before the
\* rebuilt cart arrives, uses the old data-line.
CONSTANTS
    v1 = v1
    v2 = v2
    v3 = v3
    NaN = NaN
    Variants = {v1, v2, v3}
    InitCart <- ThreeLines
    MaxQty = 2
    AddQtys = {1}
    Typed = {0}
    Method = "drawer"
    UseCartTemplate = TRUE
    RemoveLinks = FALSE
    AddForm = FALSE
    Lossy = FALSE
    MaxActs = 5

SPECIFICATION Spec
PROPERTY ChangeHitsIntendedItem
CHECK_DEADLOCK FALSE
