SPECIFICATION Spec
CONSTANTS
    sms = sms
    push = push
    unplanned = unplanned
    None = None
    Workers = {w1, w2, w3}
    Keys = {sms}
    Providers <- MCProviders
    Configured <- MCConfigured
    Plan <- MCPlanOneKey
    Faults = {"crash", "refused", "lost_reply", "ambiguous", "expiry"}
INVARIANTS
    DeliveredIsTrue
    RepeatsAreExplained
