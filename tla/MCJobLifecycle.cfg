SPECIFICATION Spec
CONSTANTS
    Jobs = {j1, j2}
    RetrySafe = {j1}
    MaxAttempts <- TwoAttempts
    Results = {r1}
INVARIANTS IndInv
PROPERTIES TerminalIsFinal
CHECK_DEADLOCK FALSE
