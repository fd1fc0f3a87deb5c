CONSTANTS
    NULL = NULL
    w1 = w1
    w2 = w2
    w3 = w3
    p1 = p1
    p2 = p2
    BACKOFF_BASE = 1
    BACKOFF_CAP = 1
    REAP_THRESHOLD = 1
    Specs <- OneSpec
    Delays = {0}
    WorkerIds = {p1, p2}
    Pids = {p1, p2}
    Slots = NULL
    MaxJobs = 1
    MaxAttempts = 2
    MaxLog = 3
    MaxTime = 2
    Procs = {w1, w2}
    PidOf <- TwoPids
    WorkerIdOf <- DefaultIds
    LaneOf <- OneLane
    Draining = {}
    Signaled = {}
    MayCrash = {w1, w2}
    LastCrashTime = 0
    ForeignPids = {}
    MayHang = {}
    MayLoseThread = {}
SPECIFICATION FairSpec
PROPERTIES RevokedChildIsKilled
CHECK_DEADLOCK FALSE
