\* Four callers on any replicas, Redis commands delayed by up to one tick,
\* callers cut off anywhere but between INCR and EXPIRE.
CONSTANTS
    c1 = c1  c2 = c2  c3 = c3  c4 = c4
    Caller = {c1, c2, c3, c4}
    Threshold = 3
    OpenDuration = 6
    SafetyTTL = 9
    Window = 8
    ProbeLock = 5
    WorkLimit = 1
    RedisLag = 1
    CrashAt <- CrashesSpareExpire
SYMMETRY Symmetry
SPECIFICATION Spec
INVARIANTS
    TypeOK
    SingleProber
    CounterWithinWindow
PROPERTIES
    NoAdmissionDuringCooldown
    CircuitSpec
