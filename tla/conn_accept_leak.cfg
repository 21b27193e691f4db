CONSTANTS
    InitConn = 1
    UpperLimit = 3
    AcceptTarget = 2
    MaxPipelined = 1
    Faults <- AcceptErrors
    MaxFaults = 2
SPECIFICATION FairSpec
CHECK_DEADLOCK FALSE
PROPERTIES ServerAccepts
