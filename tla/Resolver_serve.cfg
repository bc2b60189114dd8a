CONSTANTS
    Keys = {k1}
    Values = {v1}
    Denials = {nx}
    TTLs = {2}
    InitConfig <- Small
    RefreshKey <- SameKey
    PrefetchHits = 1
    PrefetchPart = 2
    Requests = {r1, r2}
    QueryIDs = {i1, i2, i3}
    HistorySize = 1
    MaxTime = 3
    None = None
    Partial = Partial
SYMMETRY Symmetry
SPECIFICATION Spec
INVARIANTS NothingOutlivesItsLimit TracesMatchHistory MarkHasRefresher
PROPERTY ErrorMeansNothingKnown
