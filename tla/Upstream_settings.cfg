CONSTANTS
    Servers = {s1}
    Calls = {c1, c2}
    Posters = {p1}
    QueryIDs = {id1, id2}
    Retries = 1
    Settings <- Tightened
    InitialLimits <- Lax
    Horizon = 1
    StreakCap = 2
    None = None
SYMMETRY Symmetry
SPECIFICATION Spec
PROPERTIES TripNeedsConsecutiveFailures CloseNeedsConsecutiveSuccesses
