SPECIFICATION NodeFairSpec
CONSTANTS
    Plain = {p1, m1}
    Sourced = {p1}
    ManualPlain = {m1}
    ExitIp <- OwnExit
    QueueCap = 1
    Nobody = Nobody
INVARIANTS NodeTypeOK
PROPERTIES FreshChecked DeadLeaves
