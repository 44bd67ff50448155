\* One batch of two uploads with one worker: every interruption and failure.
CONSTANTS
    u1 = u1
    u2 = u2
    u3 = u3
    c1 = c1
    c2 = c2
    Uploads <- TwoUploads
    Files <- TwoFiles
    Contents <- TwoContents
    Checksum <- SharedContent
    Concurrency = 1
    MaxRetries = 1
    Stalls = FALSE
    Graceful = TRUE
    Cancels = TRUE
    Deletes = TRUE
    Expires = TRUE
    Attempts = 2
    MaxFaults = 1
SPECIFICATION FairSpec
CHECK_DEADLOCK FALSE
INVARIANT TypeOK
INVARIANT NoDuplicateDocument
INVARIANT SuccessIsIndexed
INVARIANT SourceKept
PROPERTY BatchEnds
