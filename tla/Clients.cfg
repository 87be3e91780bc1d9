CONSTANTS
    MaxCalls = 2
    MaxMessages = 3
    MaxThrows = 1
    MaxSockets = 2
    MaxFaults = 1
SPECIFICATION FairSpec
INVARIANTS
    TypeOK
    NotifiedOnce
    RepliesAreAnswers
PROPERTIES KeepsContract EventuallyNotified
CHECK_DEADLOCK FALSE
