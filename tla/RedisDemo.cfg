SPECIFICATION Spec
SYMMETRY MCSymmetry
VIEW MCView
CONSTANTS
    Key = {k1, k2}
    Value = {v1}
    None = None
    InitSaved <- MCInitSaved
    Operations <- AllOperations
    MaxRequests = 2
    MaxStarts = 2
    MaxPostponed = 1
INVARIANTS
    AllKeysRegular
    
    ShownWasStored
    MessageDescribesResult
    
    OneWriter
CHECK_DEADLOCK FALSE
