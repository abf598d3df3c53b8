SPECIFICATION WatchSpec
CONSTANTS
    p1 = p1  p2 = p2  p3 = p3  p4 = p4  n1 = n1
    MaxDeferred = 1
    Pids = {p1, p2, p4}
    Trapping = {p4}
    WithMailbox = {p1, p2, p4}
    Names = {n1}
    SpawnName <- TrapperNamed
    NoName = NoName
    NoPid = NoPid
    System = System
    RefNumbers <- TwoRefs
    ExitReasons = {"shutdown", "crash", "killed"}
VIEW NoMail
INVARIANTS TypeOK MonitorsBacked LiveTasksKnown
PROPERTIES KeepsSignals CancelledLeaves
CHECK_DEADLOCK FALSE
