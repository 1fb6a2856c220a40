CONSTANTS
    Jobs = {j1, j2}
    Workers = {w1}
    CommandKeys = {k1}
    Fingerprints = {f1}
    Priorities = {0, 1}
    Budgets = {1, 2}
    AttemptCeiling = 2
    RecoveryLimit = 1
    LeaseMs = 1
    Delays = {1}
    Readings = {0}
    FullProgress = 0
    MaxCheckpoints = 1
    Horizon = 1
    NULL = NULL
SPECIFICATION Spec
SYMMETRY Symmetry
INVARIANTS
    AttemptLedger
    CancellationDiscipline
    SingleHolder
PROPERTIES
    ImplementsLifecycle
