SPECIFICATION Spec
CONSTANTS
    Plan <- PairPlan
    DependsOn <- PairDependsOn
    OnFailure = {"abort"}
    Rollback = FALSE
    Retryable = {}
    RetrySafe = {}
    Observation = {}
    Threads = {t1}
    MaxGeneration = 0
    MaxFailures = 0
INVARIANTS CompensationNotLost
CHECK_DEADLOCK FALSE
