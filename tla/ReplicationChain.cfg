CONSTANTS
    A = A
    B = B
    C = C
    None = None
    Node = {A, B, C}
    InitMaster <- Chain
    BacklogSize = 1
    SaveParams = TRUE
    SyncTargets = {"disk"}
    Loads = {"disk"}
    MaxWrites = 2
    MaxCommands = 1
    MaxFaults = 1
SPECIFICATION SyncedSpec
CHECK_DEADLOCK FALSE
ACTION_CONSTRAINT AckWhenAwaited
CONSTRAINT Budget
INVARIANTS PsyncSound StreamComplete
