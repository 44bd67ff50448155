\* One process at a time: crash, graceful shutdown, restart, lapsed leases.
CONSTANTS
    j1 = j1
    j2 = j2
    j3 = j3
    j4 = j4
    w1 = w1
    w2 = w2
    Null = Null
    Jobs <- TwoJobs
    Workers <- TwoWorkers
    Slots <- OneSlot
    Imports <- NoJobs
    Stable <- LastWorker
    LeaseTicks = 2
    MaxRetries = 0
    Keep = 2
    MemoryKeep = 3
    SingleInstance = TRUE
    Stalls = TRUE
    Graceful = TRUE
    Cancels = TRUE
    MaxAttempt = 2
    MaxFaults = 0
SPECIFICATION Spec
SYMMETRY Symmetry
CHECK_DEADLOCK FALSE
INVARIANT TypeOK
INVARIANT SlotBinding
INVARIANT RecoveryLimit
PROPERTY CancelledByHolder
PROPERTY TerminalIsFinal
PROPERTY ShutdownKeepsJob
