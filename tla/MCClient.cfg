SPECIFICATION MCSpec
CONSTANTS
    Callers = {1, 2}
    Clients = {c1, c2, c3}
    Nil = Nil
    Calls = {t1, t2}
    StreamLimit = 1
    MaxChunks = 2
    MaxSession = 2
    RealmAddrs = {x1, x2}
    MaxMoves = 1
    Discoverers = {d1, d2}
    StunServers = {v1, v2}
    StunBuf = 2
    Lifetime = 4
INVARIANTS
    OnlyReportedDropped
    ClientCoreSafe
    
    SetupSafe
PROPERTIES
    NoConnectAfterClose
    
CHECK_DEADLOCK FALSE
