CONSTANTS
    Keys = {k1, k2}
    Values = {v1, v2}
    Encodable = {v1}
    KeySize <- UnitKeySize
    ValueSize <- VaryingSize
    RCodes = {}
    TTLs = {1}
    PersistPath = TRUE
    InitConfig <- OneEntry
    Updates <- Grow
    PrefetchHits = 1
    PrefetchPart = 2
    MaxRefreshes = 1
    MaxTime = 1
    None = None
    Partial = Partial
SYMMETRY KeySymmetry
SPECIFICATION Spec
INVARIANTS WithinCapacity MemoryIsExact RefreshHasOwner SnapshotIsWhole
