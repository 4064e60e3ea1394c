CONSTANTS
    Starters = {s1}
    Stoppers = {p1}
    Readers = {r1}
    Kinds = {"plain"}
    Free = Free
    MaxExecutions = 2
    ShellAllowed = FALSE
    ShutdownAllowed = FALSE
SPECIFICATION Spec
INVARIANT OfflineSnapshotIsTerminal
CHECK_DEADLOCK FALSE
