SPECIFICATION MCSpec
CONSTANTS
    Absent = Absent
    NoAnswer = NoAnswer
    Plans <- MCPlans
    Overrides <- MCOverrides
    Dispatchers = {"a", "b"}
    Ttl = 1
    DndDelay = 1
    DndHorizon = 3
CHECK_DEADLOCK FALSE
INVARIANTS
    DispatchIsTrue
PROPERTIES
    DndIsKept
