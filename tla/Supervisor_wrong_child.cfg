SPECIFICATION SafetySpec
CONSTANTS
    N = 2
    Setups <- Independent
    ExitSignals <- NoSignals
    MaxStarts = 3
    None = None
PROPERTY OnlyCrashedRestarts
CHECK_DEADLOCK FALSE
