CONSTANTS
    NULL = NULL
    BACKOFF_BASE = 1
    BACKOFF_CAP = 1
    REAP_THRESHOLD = 1
    Specs <- KeyedSpecs
    Delays = {0}
    WorkerIds = {w1}
    Pids = {p1}
    Slots = NULL
    TAG_FILTER_SCAN_LIMIT = 1
    LIST_LIMIT_MAX = 1
    MaxJobs = 2
    MaxAttempts = 2
    MaxLog = 4
    MaxTime = 2
SPECIFICATION StoreSpec
INVARIANTS DeadAfterMaxRetries
CHECK_DEADLOCK FALSE
