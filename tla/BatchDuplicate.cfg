\* An interrupted file is refused as a duplicate of itself.
CONSTANTS
    u1 = u1
    u2 = u2
    u3 = u3
    c1 = c1
    c2 = c2
    Uploads <- TwoUploads
    Files <- TwoFiles
    Contents <- TwoContents
    Checksum <- DistinctContent
    Concurrency = 2
    MaxRetries = 0
    Stalls = FALSE
    Graceful = TRUE
    Cancels = FALSE
    Deletes = FALSE
    Expires = FALSE
    Attempts = 2
    MaxFaults = 0
SPECIFICATION Spec
CHECK_DEADLOCK FALSE
INVARIANT TakesOver
