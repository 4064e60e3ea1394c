CONSTANTS
    MaxExecutions = 1
    BufferSize = 1
    MaxBridges = 2
    MaxFaults = 2
SPECIFICATION FairSpec
INVARIANT TypeOK
PROPERTIES PublishedInOrder NoSilentGap ReplacedBridgesEnd EventuallyCurrent
CHECK_DEADLOCK FALSE
