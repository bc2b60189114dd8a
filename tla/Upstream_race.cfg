CONSTANTS
    Servers = {s1, s2}
    Calls = {c1}
    Posters = {}
    QueryIDs = {id1, id2}
    Retries = 2
    Settings <- NoSettings
    InitialLimits <- Strict
    Horizon = 1
    StreakCap = 1
    None = None
SPECIFICATION FairSpec
INVARIANTS TypeOK UniqueQueryIDs ErrorMeansNoReply SendNeverBlocks
PROPERTIES CallsReturn WorkersExit
