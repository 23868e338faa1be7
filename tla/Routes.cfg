SPECIFICATION RoutesSpec
CONSTANTS
    ClineAccts = {a1, a2}
    ClineChats = {c1}
    ClineFetches = {f1}
    ClinePlans <- MCPlans
    NoAcct = NoAcct
    MaxRefresh = 2
    Links = {m1, l1}
    ManualLinks = {m1}
    Ports = {21000, 21001, 21002}
    LReqs = {q1, q2}
    LExits = {"e1", "e2"}
    Listings <- MCListings
    Configs <- MCConfigs
    SlotCount = 1
    SlotRetries = 2
    ZenRetries = 1
    CustomRetries = 1
    MaxDispatches = 2
    RepAddrs = {"a:1", "a:2"}
    IpOf <- MCIpOf
    NoIp = NoIp
    RepWorkers = {w1, w2}
    RepQueueCap = 1
    CacheMax = 1
    SourceFails = 1
    SourceOff = 1
    QuotaOff = 2
    GeoGap = 1
    Reports <- MCReports
SYMMETRY Symmetry
INVARIANTS
    RoutesTypeOK RotationEven KeepsRefreshToken GivenUpStaysOut SlotsBounded AnchorOnce
    ExitCheckedOnce
CHECK_DEADLOCK FALSE
