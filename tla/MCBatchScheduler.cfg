CONSTANTS
    x = x
    y = y
    Chunks = {x, y}
    Hash <- MCHash
    Handles = {1, 2, 3, 4}
    NoHandle = NoHandle
    Addrs <- MCAddrs
    Hashes = {}
    MaxBatch = 2
    SlotPages = 2
    Prompts <- MCPrompts
    MaxNewTokens = {0, 3}
    CachingSettings = {TRUE, FALSE}
    Buckets = {1, 2}
    BucketsEnabled = TRUE
    WarmPages = 1
    NoRequest = NoRequest
    MaxRequests = 3
    MaxResets = 1
SPECIFICATION FairSpec
CHECK_DEADLOCK FALSE
INVARIANTS
    TypeOK
    RequestsConserved
    NodeRefsAreRequests
    NothingMappedWithoutWork
    TokenBudget
    BookkeepingIsMapping
    PagesExclusive
    RunningRequestsBacked
PROPERTY
    ImplementsFifoService
    EveryRequestEnds
