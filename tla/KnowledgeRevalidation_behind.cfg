SPECIFICATION Spec
CONSTANTS
    a1 = a1
    a2 = a2
    Assets = {a1, a2}
    Breaking <- BreakingContents
    MaxChanges = 2
    MaxVersion <- NonePublished
    MaxFaults = 0
    JobAttempts = 2
    NULL = NULL
INVARIANT NoAssetLeftBehind
