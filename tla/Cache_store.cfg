CONSTANTS
    Keys = {k1, k2}
    Values = {v1, v2}
    Encodable = {v1}
    KeySize <- UnitKeySize
    ValueSize <- VaryingSize
    RCodes = {nxdomain}
    TTLs = {1}
    PersistPath = FALSE
    InitConfig <- TwoEntries
    Updates <- Posts
    PrefetchHits = 1
    PrefetchPart = 2
    MaxRefreshes = 2
    MaxTime = 3
    None = None
    Partial = Partial
SYMMETRY KeySymmetry
SPECIFICATION Spec
INVARIANTS TypeOK ListMatchesMap MemoryIsExact
