\* formatMoney over small prices and the boundaries of rounding and of
\* thousands grouping, for the four placeholders. A behaviour renders one
\* price and then stops, hence no deadlock check.
CONSTANTS
    Amounts <- MCAmounts
    Placeholders <- MCPlaceholders

SPECIFICATION Spec
INVARIANT FormatMatchesReference
CHECK_DEADLOCK FALSE
