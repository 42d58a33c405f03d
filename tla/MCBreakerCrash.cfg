\* A caller may also be cut off between INCR and EXPIRE.
CONSTANTS
    c1 = c1  c2 = c2  c3 = c3  c4 = c4
    Caller = {c1, c2}
    Threshold = 3
    OpenDuration = 6
    SafetyTTL = 60
    Window = 12
    ProbeLock = 2
    WorkLimit = 1
    RedisLag = 0
    CrashAt <- CrashesAnywhere
SPECIFICATION Spec
INVARIANT CounterWithinWindow
