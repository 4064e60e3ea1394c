CONSTANTS
    Starters = {s1}
    Stoppers = {p1}
    Readers = {r1}
    Kinds = {"plain"}
    Free = Free
    MaxExecutions = 2
    ShellAllowed = TRUE
    ShutdownAllowed = FALSE
SPECIFICATION Spec
INVARIANT CompletionSnapshotIsSound
CHECK_DEADLOCK FALSE
