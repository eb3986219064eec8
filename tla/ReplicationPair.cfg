CONSTANTS
    A = A
    B = B
    C = C
    None = None
    Node = {A, B}
    InitMaster <- Chain
    BacklogSize = 1
    SaveParams = FALSE
    SyncTargets = {"disk", "socket"}
    Loads = {"disk", "swapdb"}
    MaxWrites = 2
    MaxCommands = 1
    MaxFaults = 1
SPECIFICATION FairSpec
CHECK_DEADLOCK FALSE
INVARIANTS ServerAsserts
PROPERTIES FailoverLossless ReplicasSync
