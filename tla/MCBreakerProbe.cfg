\* The code's own durations in ticks of five seconds, prompt Redis, no
\* crash, and one request after the other.
CONSTANTS
    c1 = c1  c2 = c2  c3 = c3  c4 = c4
    Caller = {c1}
    Threshold = 3
    OpenDuration = 6
    SafetyTTL = 60
    Window = 12
    ProbeLock = 2
    WorkLimit = 1
    RedisLag = 0
    CrashAt <- NoCrash
SPECIFICATION Spec
PROPERTY FailedProbeRestartsCooldown
