CONSTANTS
    Service = {s1}
    Key = {n1, n2, n3}
    Score <- Scores
    Borrowed = TRUE
    None = None
    MaxChanges = 2
SPECIFICATION FairSpec
CHECK_DEADLOCK FALSE
INVARIANTS Agree BestFirst Departing
PROPERTIES Follows
