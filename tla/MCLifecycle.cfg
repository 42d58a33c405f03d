\* Two clients; half seconds, shortened: the probes' timeouts differ, the
\* grace is longer than either and than the keep-alive.
CONSTANTS
    Client = {c1, c2}
    RedisProbe = 1
    S3Probe = 2
    KeepAlive = 2
    Grace = 3
SPECIFICATION FairSpec
INVARIANTS
    TypeOK
    ServedToTheEnd
PROPERTIES
    ReadyLagBounded
    ShutdownEnds
CHECK_DEADLOCK FALSE
