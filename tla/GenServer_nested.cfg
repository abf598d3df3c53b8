SPECIFICATION Spec
CONSTANTS
    c1 = c1  c2 = c2  b1 = b1  s1 = s1  s2 = s2
    Clients = {c1}
    Bridges = {b1}
    Servers = {s1, s2}
    Patient <- ButC1AndB1
    Outcomes = {"reply", "stop"}
    Uses <- FirstUsesSecond
    CastTo <- Nobody
    Exits = {"loud"}
    MaxStarts <- FirstTwice
    MaxCalls <- OneCallOfThree
    None = None
INVARIANT MonitorsMatchCalls
PROPERTIES TimedCallsEnd NewsEndsCall
CHECK_DEADLOCK FALSE
