CONSTANTS
    MaxCalls = 2
    MaxThrows = 0
    MaxFaults = 0
SPECIFICATION FairSpec
PROPERTY EventuallyNotified
CHECK_DEADLOCK FALSE
