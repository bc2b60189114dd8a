SPECIFICATION Spec
CONSTANTS
    Second = 2
    GCInterval = 1
    GCAge = 2
    None = None
    Goroutines = {g1, g2}
    Clients = {a}
    Questions = {q}
    Packets <- SomePackets
    RCodes = {"SERVFAIL"}
    InitSettings <- Strict
    Posts <- Looser
    ClientTable = 1
    MaxPackets = 5
SYMMETRY GoroutineSymmetry
INVARIANTS TypeOK WithinRate ResponsesAreLimited NobodyIsSilenced
