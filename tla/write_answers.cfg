CONSTANTS
    MAX_BUFFER_SIZE = 5
    NoByte = NoByte
    Length <- ShortOrFull
    MaxAnswers = 3
    Pipelined = FALSE
    MaxErrors = 1
    Asserting = FALSE
SPECIFICATION FairSpec
CHECK_DEADLOCK FALSE
INVARIANTS TypeOK Settled
PROPERTIES InOrder AllReceived
