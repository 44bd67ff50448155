\* Liveness under fairness: two faults, so that a rejected job can be shelved.
CONSTANTS
    j1 = j1
    j2 = j2
    j3 = j3
    j4 = j4
    w1 = w1
    w2 = w2
    Null = Null
    Jobs <- TwoJobs
    Workers <- TwoWorkers
    Slots <- OneSlot
    Imports <- NoJobs
    Stable <- LastWorker
    LeaseTicks = 1
    MaxRetries = 0
    Keep = 2
    MemoryKeep = 3
    SingleInstance = TRUE
    Stalls = FALSE
    Graceful = TRUE
    Cancels = FALSE
    MaxAttempt = 4
    MaxFaults = 2
SPECIFICATION FairSpec
CHECK_DEADLOCK FALSE
PROPERTY EventuallyTerminal
PROPERTY SlotsRecycled
