CONSTANTS
    Labels = {"com", "site", "org"}
    LabelEnds <- NoEnds
    Names <- SmallNames
    Types = {"A", "NS", "CNAME"}
    Addresses = {a1, a2}
    RootServers = {a1}
    Questions <- SmallQuestions
    MaxRecursionDepth = 3
    MaxCNAMEDepth = 2
    Minimization <- BothModes
    World <- WildWorld
    LookupIPs <- NoLookup
    Failed = Failed
SPECIFICATION Spec
INVARIANTS TypeOK QueriesAreBounded NeverAsksTwice
CHECK_DEADLOCK FALSE
