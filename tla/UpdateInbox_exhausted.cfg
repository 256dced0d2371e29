SPECIFICATION Spec
CONSTANTS
    c1 = c1
    c2 = c2
    Chat <- MCChat
    Loop = Loop
    NumUpdates = 1
    ChatOf <- SameChat
    Damaged <- NoneDamaged
    MaxAttempts = 3
    MaxCrashes = 1
    MaxStorage = 0
CHECK_DEADLOCK FALSE
INVARIANT ExhaustedStayFailed
