CONSTANTS
    x = x
    y = y
    Chunks = {x, y}
    Hash <- MCHash
    Handles = {1, 2, 3, 4, 5, 6}
    NoHandle = NoHandle
    Addrs <- MCAddrs
    Hashes = {}
    MaxBatch = 2
    SlotPages = 2
    Prompts <- MCTwoPrefixes
    MaxNewTokens = {0, 4}
    CachingSettings = {TRUE}
    Buckets = {1, 2}
    BucketsEnabled = FALSE
    WarmPages = 2
    NoRequest = NoRequest
    MaxRequests = 3
    MaxResets = 0
SPECIFICATION Spec
CHECK_DEADLOCK FALSE
INVARIANT
    PagesSharedOnlyByPrefix
