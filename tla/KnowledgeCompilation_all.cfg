CONSTANTS
    a = a
    u = u
    NULL = NULL
    Sessions = {a}
    Clients = {u}
    MinimumNewEvents = 1
    MaxOutstanding = 1
    MaxAttempts = 2
    MaxLength = 3
    MaxRequests = 1
    MaxCrashes = 1
SPECIFICATION Spec
INVARIANTS
    SnapshotsTile
    ClaimBacked
    SuccessBacked
    Backpressure
PROPERTIES
    EventuallyCompiled
