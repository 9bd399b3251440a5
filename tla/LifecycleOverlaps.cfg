SPECIFICATION Spec
CONSTANTS
    cSent = cSent
    cDelivered = cDelivered
    cRead = cRead
    cFailed = cFailed
    d1 = d1
    d2 = d2
    d3 = d3
    None = None
    Handlers = {h1, h2}
    Consumers = {d1, d2, d3}
    Operators = {o1, o2}
    Callbacks = {cSent, cDelivered, cFailed, cRead}
    CallbackStatus <- MCSerial
    RetryCount <- MCRetryCount
    MaxRetries = 2
    MaxOpen = 2
    MaxEntries = 2
CHECK_DEADLOCK FALSE
SYMMETRY MCSymmetry
INVARIANTS
    AppliedOnce
    NoStrandedDeadLetter
    OneOpenEntry
PROPERTIES
    ConfirmedStaysAlone
    TransitionsLogged
