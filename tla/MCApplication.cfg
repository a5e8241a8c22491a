SPECIFICATION MCSpec
CONSTANTS
    MaxUint32 = 4
    chunkSize = 2
    Sizes = {0, 1, 3}
    MaxTicks = 2
    Nothing = Nothing
    FOReaders = {"r1", "r2"}
    FOWriters = {"w1", "w2"}
    Closer = "c"
    Free = "free"
    Payload <- MCPayload
    DomainNames = {"n1", "n2", "n3"}
    QueryName = "n1"
    maxCNAMEDepth = 1
    RetryTimes = 2
    MaxData = 2
    MaxRequests = 2
    Senders = {a1, a2}
    MaxSessions = 3
    Locals = {l1, l2}
    ReadTimeout = 2
INVARIANTS
    InboundsFaithful
    TestsExact
    
    DialsExact
PROPERTIES
    SessionsOwned
    RelaysEnd
CHECK_DEADLOCK FALSE
