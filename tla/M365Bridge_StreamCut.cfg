SPECIFICATION BridgeSpec
CONSTANTS
    Ids = {a1}
    Callers = {c1}
    Streams = {c1}
    Free = Free
    NoId = NoId
    MaxTokens = 2
PROPERTIES StreamOutlivesDispatch
CHECK_DEADLOCK FALSE
