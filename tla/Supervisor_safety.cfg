SPECIFICATION SafetySpec
CONSTANTS
    N = 2
    Setups <- Failing
    ExitSignals = {"shutdown", "crash"}
    MaxStarts = 3
    None = None
INVARIANTS AtMostOneLive NoOrphans ChildrenHeard GivesUpJustified
CHECK_DEADLOCK FALSE
