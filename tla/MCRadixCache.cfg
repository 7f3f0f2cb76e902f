CONSTANTS
    x = x
    y = y
    z = z
    Chunks = {x, y, z}
    Hash <- MCHash
    Requests = {r1, r2}
    Prompts <- MCPrompts
    MaxEvict = 2
    MaxTick = 12
SPECIFICATION Spec
INVARIANTS
    TypeOK
    RefCountIsHolders
    PrefixClosed
    TicksDistinct
    MatchedPagesAreForPrompt
PROPERTY
    ImplementsPrefixCache
