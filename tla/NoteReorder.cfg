\* Two edits of the cart note, reliable network. The page idles once the
\* bounded shopper stops, hence no deadlock check.
CONSTANTS
    n1 = n1
    n2 = n2
    NoNote = NoNote
    Notes = {n1, n2}
    Lossy = FALSE
    MaxActs = 2

SPECIFICATION Spec
INVARIANT NoteSavedWhenQuiet
CHECK_DEADLOCK FALSE
