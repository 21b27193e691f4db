CONSTANTS
    MAX_BUFFER_SIZE = 5
    NoByte = NoByte
    Length <- ShortOrFull
    MaxAnswers = 3
    Pipelined = TRUE
    MaxErrors = 0
    Asserting = FALSE
SPECIFICATION FairSpec
CHECK_DEADLOCK FALSE
PROPERTIES InOrder
