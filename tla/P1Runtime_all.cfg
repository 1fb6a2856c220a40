SPECIFICATION Spec
CONSTANTS
    NULL = NULL
    Concurrency = 2
    MaxLoops = 4
    MaxReconfigure = 3
    Faults = {"reject", "overlap"}
INVARIANTS
    StoreOpenWhileUsed
PROPERTIES
    PollingContinues
CHECK_DEADLOCK FALSE
