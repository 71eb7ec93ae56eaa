SPECIFICATION Spec
CONSTANTS
    Plan <- PairPlan
    DependsOn <- PairDependsOn
    OnFailure = {"abort"}
    Rollback = FALSE
    Retryable = {}
    RetrySafe = {}
    Observation = {}
    Threads = {t1, t2}
    MaxGeneration = 0
    MaxFailures = 0
INVARIANTS CancelledIsQuiet
CHECK_DEADLOCK FALSE
