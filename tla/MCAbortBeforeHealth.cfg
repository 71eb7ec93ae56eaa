SPECIFICATION Spec
CONSTANTS
    Plan <- UninstallPlan
    DependsOn <- UninstallDependsOn
    OnFailure = {"health", "abort"}
    Rollback = FALSE
    Retryable = {"uninstall", "health", "ack_gate", "abort"}
    RetrySafe = {"health", "prepare", "commit", "ack_gate", "abort"}
    Observation = {"health"}
    Threads = {t1}
    MaxGeneration = 0
    MaxFailures = 0
PROPERTIES CompensationAfterOutcome
CHECK_DEADLOCK FALSE
