CONSTANTS
    Starters = {s1}
    Stoppers = {p1}
    Readers = {}
    Kinds = {"plain"}
    Free = Free
    MaxExecutions = 2
    ShellAllowed = FALSE
    ShutdownAllowed = FALSE
SPECIFICATION Spec
INVARIANT RemoteCrashesMatchEmbedded
CHECK_DEADLOCK FALSE
