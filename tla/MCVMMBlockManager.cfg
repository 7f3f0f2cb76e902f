CONSTANTS
    Handles = {p1, p2, p3}
    NoHandle = NoHandle
    Addrs = {a1, a2}
    Hashes = {k1, k2}
    WarmSizes = {0, 2}
    PreallocSizes = {0, 2}
    DefaultWarm = 1
    MaxRefs = 3
SPECIFICATION Spec
SYMMETRY PageSymmetry
INVARIANTS
    TypeOK
    WarmPagesUnused
    CountCoversHolders
    MappedPagesCounted
    DriverAccounting
    MappedBytesExact
PROPERTY
    ImplementsPhysicalPages
