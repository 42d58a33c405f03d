\* Liveness: no crash (a replica that stops answers nobody), short durations.
CONSTANTS
    c1 = c1  c2 = c2  c3 = c3  k1 = k1  k2 = k2
    Caller = {c1, c2}
    Cookie = {k1}
    NoCookie = NoCookie
    Threshold = 2
    OpenDuration = 2
    SafetyTTL = 4
    Window = 3
    ProbeLock = 1
    WorkLimit = 0
    WhoamiTimeout = 0
    RedisLag = 0
    CacheTTL = 3
    CrashAt <- NoCrash
SPECIFICATION FairSpec
PROPERTIES
    EveryRequestDecided
    ServedAgain
