SPECIFICATION Spec
CONSTANTS
    Jobs = {1}
    Nodes = {"n1"}
    NodeOf <- OneNode
    RetrySafe = {1}
    MaxAttempts <- FourAttempts
    Results = {"r1", "r2"}
    LeaseMs = 3
    RetryBackoffMs <- SteepBackoff
    SkipLocked = FALSE
    MaxLag = 2
    MaxClock = 9
INVARIANTS
    AttemptBudget
    BoundedWait
    ExpiryCountedOnce
PROPERTIES
    NoEarlyExpiry
    NoLateVerdict
    BacksOff
\* The store stops when the job is terminal and the clock is at its bound.
CHECK_DEADLOCK FALSE
