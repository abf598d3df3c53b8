CONSTANTS
    Cores = {c1, c2}
    Pids = {w1, w2}
    Calls = {"m1"}
    Casts = {"m2"}
    Impatient = {"m1"}
    Outcomes = {"done", "later", "stop", "raise"}
    steal_threshold = 1
    yield_check_interval = 1
    MaxSlices = 3
    Callers = {u1, u2}
    Owners = {p, q}
    ReadSize = 2
    MaxBytes = 2
    MaxReaders = 2
    Nobody = Nobody
    Threads = {t1, t2}
    AtomNames = {m1, m2}
    NodeNames = {n1}
    LocalNode = LocalNode
    MaxId = 2
    MaxSerial = 1
    MaxPids = 6
    NoThread = NoThread
    Users = {v1, v2}
    Backends = {b1, b2}
    Subscribers = {s1, s2}
    MaxContexts = 2
    NoBackend = NoBackend
    ByteLimit = 3
    WordLimit = 8
    Messages <- OurTerms
    PeerMessages <- PeersTerms
    MaxFrames = 2
    MaxClasses = 2
    MaxRuns = 1
    NoClass = NoClass
    DirPids = {d1, d2}
    DirNames = {x1, x2}
    NoName = NoName
    MaxStarts = 2
    OtherMail = {1}
SYMMETRY PidSymmetry
INIT ServicesInit
NEXT ServicesNext
INVARIANTS TurnsKept DirectorySound OneMeaning FramesArrive ContractsSuffice StartsAccounted
PROPERTIES OwnerServed BackendsRestored
CHECK_DEADLOCK FALSE
