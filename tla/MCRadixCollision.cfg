CONSTANTS
    x = x
    y = y
    z = z
    Chunks = {x, y, z}
    Hash <- MCHash
    Requests = {r1, r2}
    Prompts <- MCCollidingPrompts
    MaxEvict = 1
    MaxTick = 8
SPECIFICATION Spec
INVARIANT
    MatchedPagesAreForPrompt
