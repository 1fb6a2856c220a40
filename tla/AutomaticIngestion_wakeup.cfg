SPECIFICATION Spec
CONSTANTS
    NULL = NULL
    s1 = s1
    s2 = s2
    r1 = r1
    r2 = r2
    Sessions = {s1}
    Runs = {r1, r2}
    MaxEpoch = 0
    MaxLength = 2
    MaxTroubles = 0
    SameSize = FALSE
    Busy = FALSE
    Vanishes = FALSE
INVARIANTS
    NothingForgotten
