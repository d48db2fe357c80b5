----------------------------- MODULE MoneyFormat -----------------------------
(***************************************************************************)
(* Shopify.formatMoney of theme.js: an integer amount of cents and a money *)
(* format with one placeholder give the text of a price.                   *)
(* The text around the placeholder (the currency sign) is copied verbatim *)
(* by formatString.replace and is left out.  The prices passed in by the  *)
(* cart (cart.total_price, cartItem.price) are non-negative integers.      *)
(* The text is a sequence of one-character strings.                        *)
(***************************************************************************)
EXTENDS Integers, Sequences, SequencesExt

CONSTANTS
    Amounts,         \* the amounts in cents a format is called with
    Placeholders     \* the placeholder names a money format may carry

VARIABLES
    call,            \* the last call [cents, name]; name "none" before any
    text             \* the value it substituted for the placeholder

vars == <<call, text>>

DigitChars == <<"0", "1", "2", "3", "4", "5", "6", "7", "8", "9">>

\* The character of a decimal digit d.
Char(d) == DigitChars[d + 1]

-----------------------------------------------------------------------------
(* The implementation *)

\* The decimal digits of a non-negative integer, as Number.toString gives.
RECURSIVE Digits(_)
Digits(n) == IF n < 10 THEN <<Char(n)>> ELSE Digits(n \div 10) \o <<Char(n % 10)>>

\* (cents/100.0).toFixed(precision) split at the '.': cents/100 is within
\* half an ulp of the decimal, so toFixed(2) gives the cents exactly; a
\* half (cents ending in 50) is exact in binary and toFixed(0) takes the
\* larger integer.
ToFixed(cents, precision) ==
    IF precision = 2
    THEN [int |-> Digits(cents \div 100),
          frac |-> <<Char((cents % 100) \div 10), Char(cents % 10)>>]
    ELSE [int |-> Digits((cents + 50) \div 100), frac |-> <<>>]

\* Mutant: the lookahead also matches before the last digit group's end.
DelimitEveryThird(ds, sep) ==
    FlattenSeq([i \in 1..Len(ds) |->
                  IF (Len(ds) - i) % 3 = 0 THEN <<ds[i], sep>> ELSE <<ds[i]>>])

\* dollars.replace(/(\d)(?=(\d\d\d)+(?!\d))/g, '$1' + thousands): a digit
\* followed by a positive multiple of three digits gets the delimiter.
Delimit(ds, sep) ==
    FlattenSeq([i \in 1..Len(ds) |->
                  IF Len(ds) - i > 0 /\ (Len(ds) - i) % 3 = 0
                  THEN <<ds[i], sep>> ELSE <<ds[i]>>])

\* formatWithDelimiters(number, precision, thousands, decimal); parts[1]
\* is undefined for precision 0, and "00" is truthy.
FormatWithDelimiters(number, precision, thousands, decimal) ==
    LET parts == ToFixed(number, precision)
    IN Delimit(parts.int, thousands) \o
       (IF parts.frac # <<>> THEN <<decimal>> \o parts.frac ELSE <<>>)

\* The switch on the placeholder name; any other name leaves value ''.
FormatMoney(cents, name) ==
    CASE name = "amount" ->
           FormatWithDelimiters(cents, 2, ",", ".")
      [] name = "amount_no_decimals" ->
           FormatWithDelimiters(cents, 0, ",", ".")
      [] name = "amount_with_comma_separator" ->
           FormatWithDelimiters(cents, 2, ".", ",")
      [] name = "amount_no_decimals_with_comma_separator" ->
           FormatWithDelimiters(cents, 0, ".", ",")
      [] OTHER -> <<>>

\* A price is rendered: updateCountPrice or buildCart calls formatMoney.
\* formatMoney keeps no state between calls, so one call per behaviour
\* covers every call.
Format(cents, name) ==
    /\ call.name = "none"
    /\ call' = [cents |-> cents, name |-> name]
    /\ text' = FormatMoney(cents, name)

Init ==
    /\ call = [cents |-> 0, name |-> "none"]
    /\ text = <<>>

Next == \E c \in Amounts, p \in Placeholders : Format(c, p)

Spec == Init /\ [][Next]_vars

-----------------------------------------------------------------------------
(* The reference: spec section 6 *)

\* Three digits of 0..999, with leading zeros.
Pad3(r) == <<Char(r \div 100), Char((r \div 10) % 10), Char(r % 10)>>

\* m in decimal, grouped in thousands from the right.
RECURSIVE Grouped(_, _)
Grouped(m, sep) ==
    IF m < 1000 THEN Digits(m)
    ELSE Grouped(m \div 1000, sep) \o <<sep>> \o Pad3(m % 1000)

Dist(x, y) == IF x >= y THEN x - y ELSE y - x

\* The whole number of units nearest to cents/100 (one of the two integers
\* around it), a half rounded up.
Rounded(cents) ==
    LET around == {cents \div 100, cents \div 100 + 1}
    IN CHOOSE k \in around :
          \A j \in around :
             \/ Dist(100 * k, cents) < Dist(100 * j, cents)
             \/ Dist(100 * k, cents) = Dist(100 * j, cents) /\ k >= j

\* Divide by 100, round to the placeholder's precision, group thousands with
\* the placeholder's delimiter convention.
Reference(cents, name) ==
    LET comma    == name \in {"amount_with_comma_separator",
                              "amount_no_decimals_with_comma_separator"}
        th       == IF comma THEN "." ELSE ","
        dec      == IF comma THEN "," ELSE "."
        decimals == name \in {"amount", "amount_with_comma_separator"}
    IN IF decimals
       THEN Grouped(cents \div 100, th) \o <<dec>> \o Tail(Pad3(cents % 100))
       ELSE Grouped(Rounded(cents), th)

-----------------------------------------------------------------------------
(* Properties *)

\* Every price formatMoney renders is the amount divided by 100, rounded to
\* the placeholder's precision (half up) and grouped in thousands with the
\* placeholder's delimiters, as spec section 6 states; e.g. 123456 with
\* {{amount}} is 1,234.56 and 100000 with {{amount_no_decimals}} is 1,000.
FormatMatchesReference ==
    call.name # "none" => text = Reference(call.cents, call.name)

====
