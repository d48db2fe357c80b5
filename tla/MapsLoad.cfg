\* Two map sections with keys in the theme editor: each may be unloaded and
\* reloaded while the Google script or a geocode request is outstanding.
\* The page idles once the editor stops and every callback has run.
CONSTANTS
    s1 = s1
    s2 = s2
    Sections = {s1, s2}
    Order <- MCOrder
    KeyOf <- BothKeyed
    GooglePreloaded = FALSE
    ScriptTagged = FALSE
    Editor = TRUE
    MaxGen = 2

SPECIFICATION Spec
INVARIANT CreatedOnce
PROPERTY MapsEventuallyLocated
CHECK_DEADLOCK FALSE
