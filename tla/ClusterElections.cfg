SPECIFICATION Spec
CONSTANTS
    a = a
    b = b
    c = c
    a1 = a1
    a2 = a2
    Node = {a, b, c, a1, a2}
    Slot <- MCSlots
    None = None
    Id <- MCId
    InitSlaveof <- MCInitSlaveof
    InitSlots <- MCInitSlots
    InitEpoch <- MCInitEpoch
    Alive = {b, c, a1, a2}
    Suspects = {a}
    Links <- OneLink
    SlowLinks <- NoLinks
    InitFailed = {}
    Restarting = {b, a1}
    Commands <- NoCommands
    Timing = {}
    MaxEpoch = 5
    MaxTimeouts = 2
    MaxRestarts = 1
    MaxCommands = 0
    MaxDelayed = 0
INVARIANTS
    
    OneVotePerEpoch
CHECK_DEADLOCK FALSE
