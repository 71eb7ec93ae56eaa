SPECIFICATION Spec
CONSTANTS
    Jobs = {1}
    Nodes = {"n1"}
    NodeOf <- OneNode
    RetrySafe = {}
    MaxAttempts <- TwoAttempts
    Results = {"r1"}
    LeaseMs = 2
    RetryBackoffMs <- ShortBackoff
    SkipLocked = FALSE
    MaxLag = 1
    MaxClock = 3
PROPERTIES CancelRequestStands
CHECK_DEADLOCK FALSE
