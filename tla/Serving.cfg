SPECIFICATION ServingSpec
CONSTANTS
    FinishCalls = 2
    MaxBeats = 5
    MaxChunks = 2
    Exits = {e1}
    BenchFailLimit = 1
    BenchDurations <- Ladder
    QuotaDurations = {1}
    ProbationWindow = 1
    TruncSkip = 1
    MaxLeases = 2
    MaxTruncations = 1
    MaxTime = 1
    Requests = {r1, r2}
    Direct = Direct
    RaceWidth = 1
    HedgeBatch = 1
    MayPrune = FALSE
    MaxRaces = 2
    ProbesEnd = 0
INVARIANTS
    OneWriter OncePerExit LeasesExact BenchHasSource
PROPERTIES
    HandlerReturns KeepsPromise RaceEnds LeasesReturned
CHECK_DEADLOCK FALSE
