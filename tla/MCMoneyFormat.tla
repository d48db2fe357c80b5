---------------------------- MODULE MCMoneyFormat ----------------------------
EXTENDS MoneyFormat

\* Every amount up to $25.00, the rounding and grouping boundaries around
\* $999.50, $1,000, $9,999.50 and $1,000,000, and the spec's examples.
MCAmounts ==
    (0..2500) \cup (99940..100060) \cup {999949, 999950, 123456, 99999999,
                                          100000000, 123456789}

\* The four placeholders of spec section 6.
MCPlaceholders ==
    {"amount", "amount_no_decimals", "amount_with_comma_separator",
     "amount_no_decimals_with_comma_separator"}

====
