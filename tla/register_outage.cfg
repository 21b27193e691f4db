CONSTANTS
    Worker = {w1, w2}
    Main = main
    Service = {s1, s2}
    Lease = {l1, l2, l3, l4}
    NoLease = NoLease
    Unleased = Unleased
    None = None
    Fault <- Outage
    MaxFaults = 1
    MaxSigint = 0
SPECIFICATION FairSpec
CHECK_DEADLOCK FALSE
PROPERTIES Renewed
