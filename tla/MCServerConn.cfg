SPECIFICATION MCSpec
CONSTANTS
    Conns = {c1, c2}
    Reqs = {r1, r2}
    Streams = {s1}
    Users = {u1}
    MaxData = 1
    None = None
    MaxPort = 3
    MaxItems = 3
    Unions <- MCUnions
    ListenIPs = {"any", "v4", "v6"}
    MaxRuns = 3
    GeoProcs = {l1, l2}
    MaxGeoRuns = 2
    HelloLen = 4
    HelloHeader = 2
    sniffMaxTCPBytes = 7
    sniffMaxUDPPackets = 4
    TCPStreams <- MCTCPStreams
    QUICDatagrams <- MCQUICDatagrams
INVARIANTS
    
    OneResponse
    RedirectsExact
    SniffedIntact

    
    
CHECK_DEADLOCK FALSE
