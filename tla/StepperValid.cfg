\* The product section: the standalone stepper on product and other pages,
\* the input initially 1 or empty, the shopper typing negative, zero, positive or
\* unparseable values and switching between an in-stock, a sold-out, a
\* backorder variant and a combination without variant; both section
\* settings on. The page idles once the bounded shopper stops.
CONSTANTS
    NaN = NaN
    InitQtys = {1, NaN}
    Typed <- MCTyped
    MaxActs = 6
    c1 = c1  c2 = c2  c3 = c3  c4 = c4
    v1 = v1  v2 = v2  v3 = v3  d2 = d2  d3 = d3
    NoVariant = NoVariant
    NoDate = NoDate
    Combos = {c1, c2, c3, c4}
    Variant <- MCVariant
    Available <- MCAvailable
    Managed <- MCManaged
    Inv <- MCInv
    NextDate <- MCNextDate
    StockSetting = TRUE
    IncomingSetting = TRUE

SPECIFICATION Spec
INVARIANT ControlsMatchSelection
CHECK_DEADLOCK FALSE
