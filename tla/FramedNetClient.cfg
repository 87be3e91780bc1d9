CONSTANTS
    MaxCalls = 2
    MaxThrows = 1
    MaxSockets = 2
    MaxFaults = 1
SPECIFICATION FairSpec
INVARIANTS
    TypeOK
    RegistryExact
    NotifiedOnce
    TimersGuardCalls
    RepliesAreAnswers
    NothingPending
    SocketIsLive
PROPERTIES ImplementsContract EventuallyNotified
CHECK_DEADLOCK FALSE
