\* Two processes share the store, heartbeats are on time, no graceful shutdown.
CONSTANTS
    j1 = j1
    j2 = j2
    j3 = j3
    j4 = j4
    w1 = w1
    w2 = w2
    Null = Null
    Jobs <- TwoJobs
    Workers <- TwoWorkers
    Slots <- OneSlot
    Imports <- NoJobs
    Stable <- NoWorkers
    LeaseTicks = 2
    MaxRetries = 0
    Keep = 1
    MemoryKeep = 3
    SingleInstance = FALSE
    Stalls = FALSE
    Graceful = FALSE
    Cancels = TRUE
    MaxAttempt = 2
    MaxFaults = 0
SPECIFICATION Spec
SYMMETRY Symmetry
CHECK_DEADLOCK FALSE
INVARIANT OneLiveWorker
