CONSTANTS
    Paths = 3
    Existing <- ExistingPaths
    Covered <- CoveredPaths
    Kinds = {"staged", "command"}
    MaxOps = 2
SPECIFICATION Spec
INVARIANTS TypeOK OriginalsAreRecoverable
PROPERTIES RollbackTellsTheTruth SuccessMeansInstalled StartsMatchOutcome OperationsEnd
CHECK_DEADLOCK FALSE
