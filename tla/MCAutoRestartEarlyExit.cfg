CONSTANTS
    Callers = {c1, c2}
    Hook = Hook
    Nobody = Nobody
    MaxRetries = 2
    MaxExecutions = 3
    MaxCalls = 0
SPECIFICATION Spec
INVARIANT OnlyStableRunsResetTheCounter
CHECK_DEADLOCK FALSE
