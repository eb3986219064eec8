SPECIFICATION FairSpec
CONSTANTS
    a = a
    b = b
    c = c
    a1 = a1
    a2 = a2
    Node = {a, b, a1}
    Slot <- MCSlots
    None = None
    Id <- MCId
    InitSlaveof <- MCInitSlaveof
    InitSlots <- MCInitSlots
    InitEpoch <- MCInitEpoch
    Alive = {a, b, a1}
    Suspects = {a}
    Links <- AllLinks
    SlowLinks <- SlowOwner
    InitFailed = {}
    Restarting = {}
    Commands <- FailoverCommands
    Timing = {}
    MaxEpoch = 4
    MaxTimeouts = 0
    MaxRestarts = 0
    MaxCommands = 2
    MaxDelayed = 1
INVARIANTS
    
    ReplicaOwnsNothing

    
CHECK_DEADLOCK FALSE
