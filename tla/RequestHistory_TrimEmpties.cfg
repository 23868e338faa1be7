SPECIFICATION HistorySpec
CONSTANTS
    Kinds <- MCKinds
    HistoryLen = 4
    PayloadLimit = 3
    Models = {"any"}
PROPERTY UserKept
CHECK_DEADLOCK FALSE
