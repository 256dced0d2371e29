\* Three updates of any kinds, replies of one or two messages, one fault.
CONSTANTS
    NumUpdates = 3
    Kinds <- AllKinds
    MaxAttempts = 3
    MaxChunks = 2
    MaxFaults = 1
SPECIFICATION Spec
INVARIANTS CleanupAfterCommit ReplyShownOnce CompleteSendIsTracked ActiveRowIsShown TurnsAgree
PROPERTIES SettledTargetIsFinal RenderVersionGrows
CHECK_DEADLOCK FALSE
