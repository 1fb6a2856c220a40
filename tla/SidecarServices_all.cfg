SPECIFICATION Services
CONSTANTS
    NULL = NULL
    Nil = Nil
    k1 = k1
    k2 = k2
    bad = bad
    p = p
    Size = 2
    Plain = {0, 1}
    Default = 0
    Projects = {p}
    Keys = {k1, k2, bad}
    Malformed = {bad}
    MaxRevision = 2
    MaxDrafts = 1
    MaxQueue = 1
    t1 = t1
    t2 = t2
    Turns = {t1}
    Scopes = {{t1}, {t2}}
    MaxCalls = 2
    Fingerprints = {f1, f2}
    MaxPolicy = 3
    MaxEvidence = 2
    MaxVersions = 2
    MaxFailures = 1
    MaxCrashes = 1
    s1 = s1
    s2 = s2
    Stops = {s1, s2}
    Replies = {r1, r2}
    MaxFaults = 1
    MaxRestarts = 1
    None = None
    Limit <- OneAndTwo
SYMMETRY Symmetry
CHECK_DEADLOCK FALSE
INVARIANTS
    RuntimeFollowsRecord
    OneRevisionPerKey
    ControllerFollowsState
    DeliveredIsAudited
    BoundedContinuations
    OneStory
    OneAnswer
PROPERTIES
    InjectsOnlyInForce
    OwnFailuresOnly
