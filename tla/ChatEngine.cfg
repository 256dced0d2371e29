\* Three requests of any kind, with and without one client turn id, and a cut.
CONSTANTS
    NumRequests = 3
    Kinds <- AllKinds
    NumIds = 1
    MaxConvs = 2
    MaxCuts = 1
SPECIFICATION Spec
INVARIANTS SameIdSameOperation ExpectedRevisionHonoured SupersededIsReplaced UnchangedIsCurrent
CHECK_DEADLOCK FALSE
