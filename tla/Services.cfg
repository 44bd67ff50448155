\* The services around the index: each on an instance of its own.
CONSTANTS
    u1 = u1  u2 = u2  w1 = w1  w2 = w2  alice = alice  text = text
    h1 = h1  h2 = h2  n1 = n1  g1 = g1  g2 = g2  None = None
    r1 = r1  r2 = r2  c1 = c1  Missing = Missing
    root = root  key1 = key1  key2 = key2  user = user  tool = tool  query = query
    Uploads = {u1, u2}
    Owner <- UploadOwner
    Size <- UploadSize
    Content <- UploadContent
    QuotaKey <- PrincipalKey
    ItemKey <- PrincipalKey
    Workers = {w1, w2}
    Setups <- StagingSetups
    MaxAttempt = 2
    Callers = {h1, h2, l1}
    High = {h1, h2}
    Streams = {h2}
    QueueSize = 1
    Pieces = 2
    Names = {n1}
    Generations = {g1, g2}
    DocumentOf <- GenerationOf
    Readers = {r1}
    Whole = whole
    TopK = 1
    CacheSize = 1
    Requests = {r1, r2}
    Conversations = {c1}
    Scopes = {s1, s2}
    AuthRequests = {r1, r2}
    Sessions = {s1, s2}
    Keys = {k1}
    MaxPassword = 2
    MaxFaults = 1
    Calls = {r1, r2}
    Principals = {user, key1}
    Clients = {key1, key2}
    KeyOf <- KeyOfPrincipal
    UserOf <- UserOfPrincipal
    Nobody = Nobody
    Operations = {tool, query}
    Dangerous = {tool}
    Granted <- GrantedTo
    Nonces = {nonce}
    RequestsPerMinute = 1
    ConfirmationsPerMinute = 1
    MaxMinute = 1
    ToolKeys = {key1, key2}
    Compatible = root
    HeldScopes <- ScopesHeld
    JobSlots = {j1}
    EvalRequests = {r1, r2}
    Datasets = {d1}
    Cases = {c1}
    RunLimit = 1
    EvalModes = {"overlap", "faultySaves"}
    MaxStamp = 4
    MaxEvalFaults = 1
    Chunks = {1, 2, 3}
    Source <- ChunkSource
    Topic <- ChunkTopic
    Levels = {500000, 800000, 950000}
    CandidateTopK = 2
    FinalTopK = 2
    PerDocument = 1
    TextLengths = {1, 2, 3, 4, 5}
    Budgets = {4, 5}
SPECIFICATION ServicesSpec
CHECK_DEADLOCK FALSE
INVARIANTS TypesOK FileKept QuotaKept OneJobEach StreamOnce AnswersFresh
INVARIANTS CurrentPasswordOnly KeyRevocationKept DangerConfirmed ChangesGranted EvalsKept RankingSound
PROPERTIES UploadKept LeaseRespected ClearIsFinal ScopeKept
PROPERTIES Settles
