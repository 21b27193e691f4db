CONSTANTS
    Callers = 3
    MaxConn = 2
    MaxTaskNum = 1
    AnswerSize = 2
    Zeros <- Second
    MaxCalls = 2
    MaxAll = 3
    MaxKills = 1
SPECIFICATION FairSpec
CHECK_DEADLOCK FALSE
INVARIANTS OwnAnswer OwnDescriptor
PROPERTIES Returns
