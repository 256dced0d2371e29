SPECIFICATION LiveSpec
CONSTANTS
    c1 = c1
    c2 = c2
    Chat <- MCChat
    Loop = Loop
    NumUpdates = 3
    ChatOf <- TwoChats
    Damaged <- LastDamaged
    MaxAttempts = 2
    MaxCrashes = 1
    MaxStorage = 1
CHECK_DEADLOCK FALSE
INVARIANTS
    NoUpdateLost
    FirstAttemptsInOrder
PROPERTIES
    ProcessedIsFinal
    EveryUpdateSettles
