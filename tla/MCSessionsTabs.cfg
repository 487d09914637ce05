\* Two tabs of one browser, and nothing goes wrong.
CONSTANTS
    Tabs = {b1, b2}
    Calls = {c1, c2}
    MaxTokens = 3
    Attempts = 1
    Clicks = {k1}
    MaxIncidents = 0
    None = None
SPECIFICATION Spec
SYMMETRY Interchangeable
INVARIANT ReuseMeansTheft
CHECK_DEADLOCK FALSE
