SPECIFICATION FairSpec
CONSTANTS
    Workers = {w1}
    Streams <- OneStream
    Conns = {c1, c2}
    MaxConn = 1
    None = None
INVARIANTS TypeOK NoSendOnClosedQueue ReadyMeansListening
PROPERTIES ShutdownEnds ConnectionsAreTaken
CHECK_DEADLOCK FALSE
