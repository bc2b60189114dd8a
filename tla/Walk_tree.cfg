CONSTANTS
    Labels = {"com", "site", "www", "cdn", "dept", "host", "gone", "org", "far", "api"}
    LabelEnds <- NoEnds
    Names <- TreeNames
    Types = {"A", "NS", "CNAME"}
    Addresses <- TreeAddresses
    RootServers <- TreeRoot
    Questions <- TreeQuestions
    MaxRecursionDepth = 10
    MaxCNAMEDepth = 10
    Minimization <- BothModes
    World <- DenyingWorld
    LookupIPs <- TreeLookup
    Failed = Failed
SPECIFICATION Spec
INVARIANT FindsTheTruth
CHECK_DEADLOCK FALSE
