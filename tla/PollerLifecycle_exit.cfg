SPECIFICATION Spec
CONSTANTS
    i1 = i1
    i2 = i2
    k1 = k1
    k2 = k2
    None = None
    Inst <- TwoStarts
    Stopper <- TwoStops
    MaxTransfers = 0
    MaxRegistry = 0
    MaxPanics = 0
    MaxStorage = 1
    MaxDrops = 0
CHECK_DEADLOCK FALSE
INVARIANT ExitCleansUp
