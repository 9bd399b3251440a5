SPECIFICATION Spec
CONSTANTS
    events = events
    critical = critical
    a = a
    b = b
    bad = bad
    None = None
    Workers = {w1}
    Partitions = {events}
    Events = {a, b, bad}
    Valid = {a, b}
    Messages <- MCOnePartition
    Faults = {"fail"}
    MaxMoves = 0
CHECK_DEADLOCK FALSE
INVARIANT
    FailedStaysUncommitted
