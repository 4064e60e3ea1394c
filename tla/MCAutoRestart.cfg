CONSTANTS
    Callers = {c1, c2}
    Hook = Hook
    Nobody = Nobody
    MaxRetries = 2
    MaxExecutions = 3
    MaxCalls = 2
SPECIFICATION Spec
SYMMETRY Symmetry
INVARIANTS TypeOK StoppedServersAreNotRestarted RetriesAreBounded
PROPERTIES CrashIsNotMistakenForStop HookBelongsToTheInstaller BlockedStartsAreNotRetried
CHECK_DEADLOCK FALSE
