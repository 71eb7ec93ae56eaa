SPECIFICATION FairSpec
CONSTANTS
    Plan <- ReplacementPlan
    DependsOn <- ReplacementDependsOn
    OnFailure = {"abort"}
    Rollback = FALSE
    Retryable = {"runtime", "ack_gate", "abort"}
    RetrySafe = {"prepare", "commit", "ack_gate", "abort"}
    Observation = {}
    Threads = {t1}
    MaxGeneration = 0
    MaxFailures = 1
PROPERTIES
    StartedEnds
\* The operation may end, and every caller go away.
CHECK_DEADLOCK FALSE
