\* Two workers on two uploads of one content, and attempts that overlap.
CONSTANTS
    u1 = u1
    u2 = u2
    u3 = u3
    c1 = c1
    c2 = c2
    Uploads <- TwoUploads
    Files <- TwoFiles
    Contents <- TwoContents
    Checksum <- SharedContent
    Concurrency = 2
    MaxRetries = 0
    Stalls = TRUE
    Graceful = TRUE
    Cancels = TRUE
    Deletes = FALSE
    Expires = FALSE
    Attempts = 2
    MaxFaults = 0
SPECIFICATION Spec
CHECK_DEADLOCK FALSE
PROPERTY CheckpointsFrozen
