SPECIFICATION Spec
CONSTANTS
    t1 = t1  t2 = t2  t3 = t3
    Refs = {t1, t2, t3}
    Sleeps = {t3}
    Delays = {1, 2, 5}
    tick_ms = 2
    num_slots = 2
    MaxLate = 1
VIEW Relative
SYMMETRY Alike
INVARIANT IndexExact
PROPERTIES KeepsTimerPromise Punctual
CHECK_DEADLOCK FALSE
