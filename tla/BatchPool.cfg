\* A failed file takes its pool worker with it.
CONSTANTS
    u1 = u1
    u2 = u2
    u3 = u3
    c1 = c1
    c2 = c2
    Uploads <- TwoUploads
    Files <- TwoFiles
    Contents <- TwoContents
    Checksum <- DistinctContent
    Concurrency = 1
    MaxRetries = 0
    Stalls = FALSE
    Graceful = FALSE
    Cancels = FALSE
    Deletes = FALSE
    Expires = FALSE
    Attempts = 1
    MaxFaults = 1
SPECIFICATION Spec
CHECK_DEADLOCK FALSE
PROPERTY EveryFileHandled
