CONSTANTS
    Components = {"controller", "node"}
    Modes = {"inProcess", "helper", "service", "manager"}
    MaxVersion = 2
    MaxJobs = 3
    MaxCrashes = 2
SPECIFICATION Spec
INVARIANTS TypeOK ExecutableIsRecoverable OneHandoff SuccessIsDurable
PROPERTIES FinishedJobsStay JobsEnd AcceptedUpdatesArrive
CHECK_DEADLOCK FALSE
