SPECIFICATION Spec
CONSTANTS
    Jobs = {1, 2}
    Nodes = {"n1"}
    NodeOf <- OneNode
    RetrySafe = {1}
    MaxAttempts <- TwoAttempts
    Results = {"r1"}
    LeaseMs = 2
    RetryBackoffMs <- ShortBackoff
    SkipLocked = TRUE
    MaxLag = 1
    MaxClock = 3
INVARIANTS
    TypeOK
    SingleHolder
    NoBlindRerun
    AckedOutcomeStands
    OneVerdictPerLease
    StatusCountsExact
    ExpiryCountedOnce
PROPERTIES
    TerminalIsFinal
    ImplementsLifecycle
\* The store stops when every job is terminal and the clock is at its bound.
CHECK_DEADLOCK FALSE
