SPECIFICATION LiveSpec
CONSTANTS
    o1 = o1
    Runtime = {r1, r2, r3}
    NoRuntime = NoRuntime
    Op <- MCOp1
    Kind <- UndoOnly
    MaxAttempts = 1
    MaxFaults = 2
CHECK_DEADLOCK FALSE
PROPERTY AppliedIsRecorded
