SPECIFICATION FairAgentSpec
CONSTANTS
    Jobs = {j1, j2}
    RetrySafe = {j1}
    MaxAttempts <- TwoAttempts
    Results = {r1}
    MaxRestarts = 1
INVARIANTS
    AgentTypeOK
    NoRerunAfterUnknown
    OutcomeAgreement
    FailureIsKnown
PROPERTIES
    EnqueuedEnds
CHECK_DEADLOCK FALSE
