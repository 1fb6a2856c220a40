SPECIFICATION FairSpec
CONSTANTS
    a1 = a1
    a2 = a2
    Assets = {a1, a2}
    Breaking <- BreakingContents
    MaxChanges = 2
    MaxVersion <- OnePublished
    MaxFaults = 1
    JobAttempts = 2
    NULL = NULL
INVARIANT EvidenceMatches
INVARIANT AcknowledgedIsDecided
PROPERTY NeverBackwards
PROPERTY CatchesUp
