SPECIFICATION AnswersSpec
CONSTANTS
    Kinds <- MCKinds
    HistoryLen = 4
    PayloadLimit = 3
    Models = {"any", "kimi", "deepseek"}
    ShortName <- MCShort
    ExtraModels = {"big"}
    Fallbacks <- MCFallbacks
    AutoPool <- MCAuto
    Suppliers = {"m365/x"}
    Askable = {"a", "auto", "m365/x"}
    MReqs = {q1}
    Pool <- MCPool
    Threshold = 2
    Cooldown = 2
    Requests = {r1}
    MaxLanes = 2
    Scripts <- MCScripts
    HoldRetries = 1
    HoldMax = 2
    CacheReqs <- MCCacheReqs
    CacheBound = 2
    CacheTtl = 2
    LastTick = 4
    Dispatches = 4
    Pieces <- MCPieces
    TextLen = 3
    Lines = {"a", "b"}
    FloodPerSec = 2
    DupTicks = 2
    MaxFileSize = 4
    MaxBackups = 1
    LastSecond = 3
    MaxWrites = 5
INVARIANT IntactMeansEnd
CHECK_DEADLOCK FALSE
