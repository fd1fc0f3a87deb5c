CONSTANTS
    NULL = NULL
    w1 = w1
    w2 = w2
    w3 = w3
    p1 = p1
    p2 = p2
    BACKOFF_BASE = 1
    BACKOFF_CAP = 1
    REAP_THRESHOLD = 1
    Specs <- OneSpec
    Delays = {0}
    WorkerIds = {p1, p2}
    Pids = {p1, p2}
    Slots = NULL
    MaxJobs = 1
    MaxAttempts = 2
    MaxLog = 3
    MaxTime = 3
    Procs = {w1, w2, w3}
    PidOf <- RecycledPids
    WorkerIdOf <- DefaultIds
    LaneOf <- OneLane
    Draining = {w2}
    Signaled = {w1}
    MayCrash = {w1, w2, w3}
    LastCrashTime = 3
    ForeignPids = {p1}
    MayHang = {w1}
    MayLoseThread = {w1}
SPECIFICATION Spec
INVARIANTS SystemInv AttemptsMatchJob OverlapOnlyByOperator CleanExitHoldsNothing
PROPERTIES ReapsOnlyTheDead OutcomeByHolder ImplementsOwnership
CHECK_DEADLOCK FALSE
