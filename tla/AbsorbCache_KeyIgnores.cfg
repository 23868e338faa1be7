SPECIFICATION AbsorbCacheSpec
CONSTANTS
    CacheReqs <- MCCacheReqs
    CacheBound = 2
    CacheTtl = 2
    LastTick = 4
    Dispatches = 4
INVARIANT SameRequest
CHECK_DEADLOCK FALSE
