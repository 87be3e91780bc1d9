CONSTANTS
    MaxRequests = 1
    MaxConns = 1
SPECIFICATION Spec
INVARIANT CanStillAnswer
CHECK_DEADLOCK FALSE
