SPECIFICATION Spec
CONSTANTS
    None = None
    Calls = {"a", "b"}
    RoutedTypes = {"TXNX-004", "RISK-001", "MKTX-001"}
    Edits <- MCEdits
    Performances <- MCPerformances
    RowOrders <- MCRowOrders
    MaxConsents = 3
INVARIANTS
    RoutedAsWished
    CacheIsCurrent
    LogsAreTrue
CHECK_DEADLOCK FALSE
