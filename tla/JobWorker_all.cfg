CONSTANTS
    j1 = j1
    w1 = w1
    w2 = w2
    s1 = s1
    s2 = s2
    Jobs = {j1}
    Workers = {w1, w2}
    CommandKeys = {k1}
    Fingerprints = {f1}
    Priorities = {0, 1}
    Budgets = {1, 2}
    AttemptCeiling = 3
    RecoveryLimit = 1
    LeaseMs = 1
    Delays = {1}
    Readings <- PromptOrLate
    FullProgress = 1
    MaxCheckpoints = 1
    Horizon = 2
    Slots = {s1, s2}
    Owner <- TwoProcesses
    Unhandled <- OnlyFirst
    NULL = NULL
SPECIFICATION WorkerSpec
PROPERTIES
    EventuallySettled
    CancellationHonoured
