CONSTANTS
    Starters = {s1}
    Stoppers = {p1}
    Readers = {}
    Kinds = {"readiness", "update", "internal", "companion"}
    Free = Free
    MaxExecutions = 2
    ShellAllowed = FALSE
    ShutdownAllowed = TRUE
SPECIFICATION Spec
INVARIANTS TypeOK LiveProcessIsSupervised StopIsReportedAsIntended CrashAgreesWithEvent
INVARIANTS ClosedMeansOver RetainedLifecycleIsTheLastEvent
PROPERTIES OldExecutionsAreInert RefinesExecutionLog
CHECK_DEADLOCK FALSE
