CONSTANTS
    MaxCalls = 1
    MaxThrows = 0
    MaxSockets = 2
    MaxFaults = 0
SPECIFICATION Spec
INVARIANT OpenWhenConnected
CHECK_DEADLOCK FALSE
