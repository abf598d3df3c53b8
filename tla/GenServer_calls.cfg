SPECIFICATION SafetySpec
CONSTANTS
    c1 = c1  c2 = c2  b1 = b1  s1 = s1  s2 = s2
    Clients = {c1}
    Bridges = {b1}
    Servers = {s1}
    Patient <- ButC1AndB1
    Outcomes = {"reply", "noreply", "stop", "crash"}
    Uses <- Nobody
    CastTo <- FirstOnly
    Exits = {"loud", "quiet"}
    MaxStarts <- FirstTwice
    MaxCalls <- TwoFromC1
    None = None
INVARIANT BridgesSettle
PROPERTIES KeepsPromise
CHECK_DEADLOCK FALSE
