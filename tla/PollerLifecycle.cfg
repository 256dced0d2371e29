SPECIFICATION LiveSpec
CONSTANTS
    i1 = i1
    i2 = i2
    k1 = k1
    k2 = k2
    None = None
    Inst <- TwoStarts
    Stopper <- TwoStops
    MaxTransfers = 1
    MaxRegistry = 2
    MaxPanics = 1
    MaxStorage = 1
    MaxDrops = 1
CHECK_DEADLOCK FALSE
INVARIANTS
    AtMostOnePoller
    PollerIsReachable
    ClaimsAreHeld
PROPERTIES
    StopFreesBot
    StaleOwnerLeaves
