SPECIFICATION BridgeFairSpec
CONSTANTS
    Ids = {a1}
    Callers = {c1, c2}
    Streams = {c1}
    Free = Free
    NoId = NoId
    MaxTokens = 2
INVARIANTS SingleFlight TokenWasFresh StreamEndsMarked
PROPERTIES EveryRequestEnds
CHECK_DEADLOCK FALSE
