CONSTANTS
    Labels = {"com", "site", "www", "cdn", "dept", "host", "gone", "org", "far", "api"}
    LabelEnds <- NoEnds
    Names <- TreeNames
    Types = {"A", "NS", "CNAME"}
    Addresses <- TreeAddresses
    RootServers <- TreeRoot
    Questions <- AliasQuestion
    MaxRecursionDepth = 10
    MaxCNAMEDepth = 10
    Minimization <- OnlyMinimized
    World <- TreeWorld
    LookupIPs <- TreeLookup
    Failed = Failed
SPECIFICATION Spec
INVARIANT CNAMEIsFollowed
CHECK_DEADLOCK FALSE
