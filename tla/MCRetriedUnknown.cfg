SPECIFICATION Spec
CONSTANTS
    Plan <- InstallPlan
    DependsOn <- InstallDependsOn
    OnFailure = {"abort"}
    Rollback = FALSE
    Retryable = {"install", "remove"}
    RetrySafe = {}
    Observation = {}
    Threads = {t1}
    MaxGeneration = 1
    MaxFailures = 0
PROPERTIES NoCompensationOfUnknown
CHECK_DEADLOCK FALSE
