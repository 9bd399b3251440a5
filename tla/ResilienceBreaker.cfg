SPECIFICATION FairSpec
CONSTANTS
    Callers = {c1, c2, c3}
    MaxRequests = 2
    RateWindow = 2
    FailureThreshold = 2
    Cooldown = 2
    Monitored = TRUE
    MinSamples = 2
    FailurePercent = 100
    SlowTicks = 2
    PerfWindow = 2
    MaxLatency = 3
INVARIANTS
    TypeOK
    ProbeDiscipline
PROPERTY
    Recovers
