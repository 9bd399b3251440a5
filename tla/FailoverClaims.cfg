SPECIFICATION Spec
CONSTANTS
    sms = sms
    push = push
    unplanned = unplanned
    None = None
    Workers = {w1, w2}
    Keys = {sms, push, unplanned}
    Providers <- MCProviders
    Configured <- MCConfigured
    Plan <- MCPlan
    Faults = {"crash"}
INVARIANTS
    TypeOK
    Exclusive
    OneVerdict
    RecordIsTrue
PROPERTY
    ImplementsSendOnce
