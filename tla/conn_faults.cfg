CONSTANTS
    InitConn = 1
    UpperLimit = 3
    AcceptTarget = 2
    MaxPipelined = 1
    Faults <- AllFaults
    MaxFaults = 2
SPECIFICATION FairSpec
CHECK_DEADLOCK FALSE
INVARIANTS TypeOK Budget Balance Exclusive NoneLost LeaksCounted
PROPERTIES AcceptsOn
