CONSTANTS
    MAX_BUFFER_SIZE = 8
    NoByte = NoByte
    HeaderLen = 2
    Shape <- Mixed
    MaxRequests = 4
    Window = 7
    BreakAt <- InHeader
SPECIFICATION FairSpec
CHECK_DEADLOCK FALSE
INVARIANTS TypeOK ClosedByPeer HonestProgress
PROPERTIES InOrder Served
