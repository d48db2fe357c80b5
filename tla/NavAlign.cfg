\* The header navigation: four items (one large-hide), six viewports, up to
\* four resize callbacks. The page idles when the window stops changing.
CONSTANTS
    a = a  b = b  c = c  d = d
    Items <- MCItems
    Width <- MCWidth
    LargeHide <- MCLargeHide
    Viewports <- MCViewports
    MaxResizes = 4

SPECIFICATION Spec
INVARIANT LayoutMatchesFreshLoad
CHECK_DEADLOCK FALSE
