SPECIFICATION FairSpec
CONSTANTS
    Exits = {e1, e2}
    Mirrors = {m1}
    NoExit = NoExit
    Idle = Idle
    Reporters = {p1, p2}
    Window = 2
    HoldQuiet = 3
    ProbeDelay = 1
    TripEvents = 2
    TripExits = 2
    TripMirrors = 1
    MaxLag = 1
    MaxEvents = 3
    StormEnd = 4
    MaxTime = 7
INVARIANTS SingleProbePerHold HoldBounded EvidenceInOneWindow
PROPERTIES HoldExpires ImplementsPromise
CHECK_DEADLOCK FALSE
