\* Modal method with the client-side (Handlebars) template, reliable network.
CONSTANTS
    v1 = v1
    v2 = v2
    v3 = v3
    NaN = NaN
    Variants = {v1, v2}
    InitCart <- TwoLines
    MaxQty = 2
    AddQtys = {1}
    Typed = {NaN}
    Method = "modal"
    UseCartTemplate = FALSE
    RemoveLinks = TRUE
    AddForm = TRUE
    Lossy = FALSE
    MaxActs = 3

SPECIFICATION Spec
PROPERTY MutationRendered
PROPERTY ShownWhenAsked
CHECK_DEADLOCK FALSE
