SPECIFICATION Spec
CONSTANTS
    o1 = o1
    Runtime = {r1, r2}
    NoRuntime = NoRuntime
    Op <- MCOp1
    Kind <- SendOnly
    MaxAttempts = 3
    MaxFaults = 3
SYMMETRY RuntimeSymmetry
CHECK_DEADLOCK FALSE
INVARIANTS
    AtMostOneRequest
    AppliedIsTrue
    FailedIsFinal
    DeliveryAfterCommit
    SentUnderOwnFence
PROPERTIES
    LeaseGivenUpByHolder
    KeepsPromise
