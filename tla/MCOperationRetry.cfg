SPECIFICATION Spec
CONSTANTS
    Plan <- InstallPlan
    DependsOn <- InstallDependsOn
    OnFailure = {"abort"}
    Rollback = FALSE
    Retryable = {"install", "remove"}
    RetrySafe = {}
    Observation = {}
    Threads = {t1}
    MaxGeneration = 1
    MaxFailures = 1
INVARIANTS
    TypeOK
    BindingsBacked
    SettledSnapshot
    SuccessIsEarned
PROPERTIES
    EndedStays
\* The operation may end, and every caller go away.
CHECK_DEADLOCK FALSE
