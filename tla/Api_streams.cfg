CONSTANTS
    Streams = {s1}
    Publishers = {1, 2}
    Buffer = 1
    MaxItems = 2
    DefaultConcurrency = 2
    MaxConcurrency = 2
    Asked <- SomeRequests
    Events = 1
SPECIFICATION FairSpec
INVARIANTS NoSendOnClosedChannel ResultsAreWhole
PROPERTIES StreamsEnd RequestsAreAnswered
CHECK_DEADLOCK FALSE
