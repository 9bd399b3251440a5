SPECIFICATION FairSpec
CONSTANTS
    j1 = j1
    j2 = j2
    j3 = j3
    r1 = r1
    r2 = r2
    r3 = r3
    None = None
    Workers = {w1, w2}
    Jobs = {j1, j2, j3}
    Requests = {r1, r2, r3}
    JobOf <- MCOneEach
    MaxRetries <- MCRetries
    Limit = 2
    Faults = {"crash", "refused", "lost", "throw", "budget"}
CHECK_DEADLOCK FALSE
INVARIANTS
    TypeOK
    OneHolder
    AttemptsCountRuns
    NothingElseLost
PROPERTY
    Finishes
