SPECIFICATION LiveSpec
CONSTANTS
    o1 = o1
    Runtime = {r1, r2}
    NoRuntime = NoRuntime
    Op <- MCOp1
    Kind <- SendOnly
    MaxAttempts = 2
    MaxFaults = 1
CHECK_DEADLOCK FALSE
PROPERTY GeneratedIsResumed
