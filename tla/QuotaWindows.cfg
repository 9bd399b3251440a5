SPECIFICATION Spec
CONSTANTS
    None = None
    fast = fast
    slow = slow
    Callers = {fast, slow}
    Skew <- MCSkew
    Requests = {"p", "q"}
    Dimensions <- MCDimensions
    Subjects = {"all", "p", "q"}
    Subject <- MCSubject
    Window <- MCWindow
    Limit <- MCLimit
    Buckets = {0, 1, 2}
    Horizon = 3
    MaxDelay = 1
    Clients = {"x", "y"}
    ApiWindow = 2
    ApiMax = 2
    ApiCeiling = 3
CHECK_DEADLOCK FALSE
INVARIANTS
    TypeOK
    CountsGrants
    ApiBurst
