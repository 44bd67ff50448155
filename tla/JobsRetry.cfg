\* Retries, pruning, eviction from memory and restart, one process at a time.
CONSTANTS
    j1 = j1
    j2 = j2
    j3 = j3
    j4 = j4
    w1 = w1
    w2 = w2
    Null = Null
    Jobs <- ThreeJobs
    Workers <- TwoWorkers
    Slots <- OneSlot
    Imports <- NoJobs
    Stable <- LastWorker
    LeaseTicks = 1
    MaxRetries = 2
    Keep = 0
    MemoryKeep = 1
    SingleInstance = TRUE
    Stalls = FALSE
    Graceful = TRUE
    Cancels = FALSE
    MaxAttempt = 1
    MaxFaults = 0
SPECIFICATION Spec
SYMMETRY Symmetry
CHECK_DEADLOCK FALSE
INVARIANT RetryOnce
INVARIANT RetryChain
