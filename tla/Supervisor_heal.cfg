SPECIFICATION Spec
CONSTANTS
    N = 3
    Setups <- Dependent
    ExitSignals <- NoSignals
    MaxStarts = 3
    None = None
PROPERTIES NothingMissed DependantsDownFirst
CHECK_DEADLOCK FALSE
