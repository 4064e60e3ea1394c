CONSTANTS
    Starters = {s1}
    Stoppers = {p1}
    Readers = {}
    Kinds = {"plain"}
    Free = Free
    MaxExecutions = 2
    ShellAllowed = TRUE
    ShutdownAllowed = FALSE
SPECIFICATION Spec
INVARIANT StopIsReportedAsIntended
CHECK_DEADLOCK FALSE
