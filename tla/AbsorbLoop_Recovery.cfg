SPECIFICATION AbsorbSpec
CONSTANTS
    Exits = {e1, e2}
    Mirrors = {m1}
    NoExit = NoExit
    Idle = Idle
    Reporters = {r1}
    Requests = {r1}
    Window = 2
    HoldQuiet = 2
    ProbeDelay = 1
    TripEvents = 2
    TripExits = 1
    TripMirrors = 1
    MaxLag = 0
    MaxEvents = 2
    StormEnd = 2
    MaxTime = 4
    MaxAttempts = 2
    Models = 2
    RaceMode = TRUE
PROPERTIES RecoveryReleases
CHECK_DEADLOCK FALSE
