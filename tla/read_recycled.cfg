CONSTANTS
    MAX_BUFFER_SIZE = 6
    NoByte = NoByte
    HeaderLen = 2
    Shape <- Small
    MaxRequests = 4
    Window = 5
    BreakAt <- Anywhere
SPECIFICATION Spec
CHECK_DEADLOCK FALSE
INVARIANTS HonestProgress
