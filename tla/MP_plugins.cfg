SPECIFICATION AllSpec
CONSTANTS
    MaxGenerations = 2
    MaxCalls = 3
    MaxReloads = 1
    MaxFaults = 1
    MaxServices = 2
    MaxRequests = 2
INVARIANTS   ServiceIsCurrent
PROPERTY EveryCallEnds
CHECK_DEADLOCK FALSE
