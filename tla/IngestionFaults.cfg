SPECIFICATION FairSpec
CONSTANTS
    events = events
    critical = critical
    a = a
    b = b
    bad = bad
    None = None
    Workers = {w1, w2}
    Partitions = {events, critical}
    Events = {a, b, bad}
    Valid = {a, b}
    Messages <- MCMessages
    Faults = {"crash", "rebalance", "fail", "redis", "commit", "expiry"}
    MaxMoves = 1
CHECK_DEADLOCK FALSE
INVARIANTS
    TypeOK
    ProcessedOnce
    CommittedIsHandled
PROPERTY
    Drains
