SPECIFICATION Spec
CONSTANTS
    Plan <- PairPlan
    DependsOn <- PairDependsOn
    OnFailure = {"abort"}
    Rollback = TRUE
    Retryable = {"install"}
    RetrySafe = {}
    Observation = {}
    Threads = {t1, t2}
    MaxGeneration = 0
    MaxFailures = 0
INVARIANTS
    BindingsBacked
    SettledSnapshot
    NoCompensationOfSuccess
PROPERTIES
    BindingsKept
    NoCompensationOfUnknown
    EndedStays
SYMMETRY Symmetry
\* The operation may end, and every caller go away.
CHECK_DEADLOCK FALSE
