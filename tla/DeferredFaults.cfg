SPECIFICATION FairSpec
CONSTANTS
    ann = ann
    bob = bob
    a1 = a1
    a2 = a2
    b1 = b1
    first = first
    second = second
    Users = {ann, bob}
    Items = {a1, a2, b1}
    UserOf <- MCUserOf
    Drains = {first, second}
    Timezones <- MCTimezones
    Faults = {"crash", "refused", "expiry"}
CHECK_DEADLOCK FALSE
INVARIANTS
    TypeOK
    NothingElseLost
    DeliveredOnce
PROPERTY
    Delivers
