SPECIFICATION Spec
CONSTANTS
    NULL = NULL
    s1 = s1
    s2 = s2
    r1 = r1
    r2 = r2
    Sessions = {s1}
    Runs = {r1}
    MaxEpoch = 2
    MaxLength = 2
    MaxTroubles = 1
    SameSize = FALSE
    Busy = FALSE
    Vanishes = TRUE
INVARIANTS
    NothingForgotten
    CursorCovered
PROPERTIES
    EventuallyCaptured
