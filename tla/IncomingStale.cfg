\* Counterexample kept outside the run list: the product section of
\* StepperValid.cfg, checked for IncomingShowsSelected.
CONSTANTS
    NaN = NaN
    InitQtys = {1, NaN}
    Typed = {0, 3, NaN}
    MaxActs = 6
    c1 = c1  c2 = c2  c3 = c3  c4 = c4
    v1 = v1  v2 = v2  v3 = v3  d2 = d2  d3 = d3
    NoVariant = NoVariant
    NoDate = NoDate
    Combos = {c1, c2, c3, c4}
    Variant <- MCVariant
    Available <- MCAvailable
    Managed <- MCManaged
    Inv <- MCInv
    NextDate <- MCNextDate
    StockSetting = TRUE
    IncomingSetting = TRUE

SPECIFICATION Spec
INVARIANT IncomingShowsSelected
CHECK_DEADLOCK FALSE
