\* One request while Redis commands may reject.
CONSTANTS
    c1 = c1  c2 = c2  c3 = c3  k1 = k1  k2 = k2
    Caller = {c1}
    Cookie = {k1}
    NoCookie = NoCookie
    Threshold = 2
    OpenDuration = 3
    SafetyTTL = 6
    Window = 5
    ProbeLock = 2
    WorkLimit = 1
    WhoamiTimeout = 1
    RedisLag = 0
    CacheTTL = 4
    CrashAt <- CrashesAnywhere
SPECIFICATION ResolverSpec
INVARIANT AttachUserNeverRejects
