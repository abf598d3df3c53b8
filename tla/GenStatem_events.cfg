SPECIFICATION Spec
CONSTANTS
    Clients = {"c"}
    Casts = {"m"}
    Mail = {"a"}
    Results = {"next", "keep", "stop"}
    ActionLists <- SomeActions
    InitResults = {"ok", "timeout", "error"}
    MaxStates = 2
    MaxTimers = 2
    MaxInternal = 1
    None = None
INVARIANTS NothingLost OneTimeout
PROPERTY EventsHandled
CHECK_DEADLOCK FALSE
